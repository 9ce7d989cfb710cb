------------------------ MODULE TcpTransport_proofs ------------------------
(***************************************************************************)
(* Theorems about TcpTransport: its types, the table of connections and    *)
(* the routing of messages, for any messages, destinations, connections    *)
(* and failures.                                                           *)
(***************************************************************************)
EXTENDS TcpTransport, TLAPS

\* A destination of the message handleOut works on has a name and an address.
LEMMA Destinations ==
  ASSUME NEW m \in Msg, Dest[m] # NoUri
  PROVE  /\ Dest[m] \in Uri
         /\ Dest[m] \in Keys
         /\ Resolve[Dest[m]] \in Keys
  BY DestAssumption, ResolveAssumption DEF Keys

\* The address of an accepted connection is a key.
LEMMA AcceptedKeys == \A c \in Conn : Accepted(c) \in Keys
  BY DEF Keys

-----------------------------------------------------------------------------
(* Types.                                                                  *)

\* The initial state is well typed.
LEMMA TypeInit == Init => TypeOK
<1> SUFFICES ASSUME Init PROVE TypeOK
  OBVIOUS
<1>1. QueueTypeOK
  <2>1. sent \in Seq(Msg) /\ ch \in Seq(Msg) /\ closing \in {"no", "started", "done"}
    BY DEF Init
  <2>2. panicked \in BOOLEAN
    BY DEF Init
  <2>3. QED
    BY <2>1, <2>2 DEF QueueTypeOK
<1>2. OutTypeOK
  BY DEF Init, OutTypeOK, Free
<1>3. ConnTypeOK
  BY LengthAssumption, AcceptedKeys DEF Init, ConnTypeOK
<1>4. NetTypeOK
  BY LengthAssumption DEF Init, NetTypeOK
<1>5. QED
  BY <1>1, <1>2, <1>3, <1>4 DEF TypeOK

\* handleOut keeps the types.
LEMMA TypeHandleOut == ASSUME TypeOK, HandleOut PROVE TypeOK'
<1> USE DEF TypeOK, QueueTypeOK, OutTypeOK, ConnTypeOK, NetTypeOK
<1>1. CASE Take
  <2>1. Head(ch) \in Msg /\ Tail(ch) \in Seq(Msg)
    BY <1>1 DEF Take
  <2>2. out' = [pc |-> "lookup", msg |-> Head(ch), nbtry |-> 0, cnx |-> out.cnx]
    BY <1>1 DEF Take
  <2>4. OutTypeOK'
    BY <2>1, <2>2
  <2>3. QED
    BY <1>1, <2>1, <2>4 DEF Take, connVars, inVars
<1>2. CASE TakeClosed
  BY <1>2 DEF TakeClosed, connVars, inVars
<1>3. CASE Lookup
  BY <1>3, Destinations DEF Lookup, GetConnection, connVars, inVars, NoConn
<1>4. CASE Dial
  <2>1. nconn + 1 \in Conn
    BY <1>4, LengthAssumption DEF Dial, Connected, Conn
  <2>2. Resolve[Dest[out.msg]] \in Keys
    BY <1>4, ResolveAssumption DEF Dial, Keys
  <2>3. OutTypeOK'
    BY <1>4, <2>1 DEF Dial
  <2>4. ConnTypeOK'
    <3>1. address' \in [Conn -> Keys]
      BY <1>4, <2>1, <2>2 DEF Dial, Connected
    <3>2. nconn' \in 0 .. MaxConn
      BY <1>4, LengthAssumption DEF Dial, Connected
    <3>3. QED
      BY <1>4, <3>1, <3>2 DEF Dial, Connected
  <2>5. QED
    BY <1>4, <2>3, <2>4 DEF Dial, inVars
<1>5. CASE DialFails
  BY <1>5 DEF DialFails, connVars, inVars
<1>6. CASE AddDialed
  BY <1>6, Destinations DEF AddDialed, AddConnection, inVars
<1>7. CASE Write
  <2>1. out' = [pc |-> "take", msg |-> NoMsg, nbtry |-> out.nbtry, cnx |-> NoConn]
    BY <1>7 DEF Write, Written, Finished
  <2>2. OutTypeOK'
    BY <1>7, <2>1 DEF Write
  <2>3. wire' \in [Conn -> Seq(Msg)]
    BY <1>7 DEF Write
  <2>4. QED
    BY <1>7, <2>2, <2>3 DEF Write, inVars
<1>8. CASE WriteFails
  <2>1. out' = [pc |-> "close", msg |-> out.msg, nbtry |-> out.nbtry + 1, cnx |-> out.cnx]
    BY <1>8 DEF WriteFails, NextTry
  <2>2. OutTypeOK'
    BY <1>8, <2>1 DEF WriteFails
  <2>3. QED
    BY <1>8, <2>2 DEF WriteFails, connVars, inVars
<1>9. CASE CloseOut
  BY <1>9 DEF CloseOut, inVars
<1>10. CASE DelOut
  <2>1. OutTypeOK'
    <3>1. CASE out.nbtry < 3
      BY <1>10, <3>1 DEF DelOut, TryAgain
    <3>2. CASE ~(out.nbtry < 3)
      <4>1. out' = [pc |-> "take", msg |-> NoMsg, nbtry |-> 0, cnx |-> NoConn]
        BY <1>10, <3>2 DEF DelOut, TryAgain, Finished
      <4>2. QED
        BY <4>1
    <3>3. QED
      BY <3>1, <3>2
  <2>2. QED
    BY <1>10, <2>1, Destinations DEF DelOut, DelConnection, connVars, inVars
<1>11. QED
  BY <1>1, <1>2, <1>3, <1>4, <1>5, <1>6, <1>7, <1>8, <1>9, <1>10 DEF HandleOut

\* So does the goroutine of a connection.
LEMMA TypeHandleIn == ASSUME TypeOK, NEW c \in Conn, HandleIn(c) PROVE TypeOK'
<1> USE DEF TypeOK, QueueTypeOK, OutTypeOK, ConnTypeOK, NetTypeOK
<1>1. CASE Register(c)
  BY <1>1 DEF Register, AddConnection, Loop, Running, inVars
<1>2. CASE ReadMessage(c)
  BY <1>2, LengthAssumption DEF ReadMessage
<1>3. CASE Receive(c)
  BY <1>3, LengthAssumption DEF Receive, Loop, Running
<1>4. CASE ReadFails(c)
  BY <1>4, LengthAssumption DEF ReadFails, AfterError, inVars
<1>5. CASE CloseIn(c)
  BY <1>5 DEF CloseIn, inVars
<1>6. CASE DelIn(c)
  BY <1>6 DEF DelIn, DelConnection, inVars
<1>7. QED
  BY <1>1, <1>2, <1>3, <1>4, <1>5, <1>6 DEF HandleIn

\* So do the application, the accepting goroutine and Close.
LEMMA TypeOthers ==
  ASSUME TypeOK, Accept \/ Close \/ (\E m \in Msg : Transmit(m))
  PROVE  TypeOK'
<1> USE DEF TypeOK, QueueTypeOK, OutTypeOK, ConnTypeOK, NetTypeOK
<1>1. CASE Accept
  <2>1. nconn + 1 \in Conn
    BY <1>1, LengthAssumption DEF Accept, Connected, Conn
  <2>2. ConnTypeOK'
    BY <1>1, <2>1, AcceptedKeys, LengthAssumption DEF Accept, Connected, Conn
  <2>3. QED
    BY <1>1, <2>2 DEF Accept, inVars
<1>2. CASE CloseStarts
  BY <1>2 DEF CloseStarts, connVars, inVars
<1>3. CASE CloseEnds
  BY <1>3 DEF CloseEnds, inVars
<1>4. ASSUME NEW m \in Msg, Transmit(m) PROVE TypeOK'
  <2>1. panicked' \in BOOLEAN
    BY <1>4 DEF Transmit
  <2>2. ch' \in Seq(Msg) /\ sent' \in Seq(Msg)
    <3>1. CASE Running
      <4>1. ch' = Append(ch, m) /\ sent' = Append(sent, m)
        BY <1>4, <3>1 DEF Transmit
      <4>2. QED
        BY <4>1
    <3>2. CASE ~Running
      BY <1>4, <3>2 DEF Transmit
    <3>3. QED
      BY <3>1, <3>2
  <2>3. QED
    BY <1>4, <2>1, <2>2 DEF Transmit, connVars, inVars
<1>5. QED
  BY <1>1, <1>2, <1>3, <1>4 DEF Close

\* So do the other ends of the connections and the Context.
LEMMA TypeExternal == ASSUME TypeOK, External PROVE TypeOK'
<1> USE DEF TypeOK, QueueTypeOK, OutTypeOK, ConnTypeOK, NetTypeOK
<1>1. CASE ContextHandles
  BY <1>1, LengthAssumption DEF ContextHandles, connVars
<1>2. ASSUME NEW c \in Conn, PeerReads(c) PROVE TypeOK'
  <2>1. Head(wire[c]) \in Msg /\ Tail(wire[c]) \in Seq(Msg)
    BY <1>2 DEF PeerReads
  <2>2. wire' \in [Conn -> Seq(Msg)]
    BY <1>2, <2>1 DEF PeerReads
  <2>3. delivered' \in [Uri -> Seq(Msg)]
    <3>1. CASE address[c] \in Uri
      <4>1. Append(delivered[address[c]], Head(wire[c])) \in Seq(Msg)
        BY <2>1, <3>1
      <4>2. QED
        BY <1>2, <3>1, <4>1 DEF PeerReads
    <3>2. CASE address[c] \notin Uri
      BY <1>2, <3>2 DEF PeerReads
    <3>3. QED
      BY <3>1, <3>2
  <2>4. QED
    BY <1>2, <2>2, <2>3 DEF PeerReads, inVars
<1>3. ASSUME NEW c \in Conn, PeerCloses(c) PROVE TypeOK'
  BY <1>3, LengthAssumption DEF PeerCloses, inVars
<1>4. QED
  BY <1>1, <1>2, <1>3 DEF External

\* Hence every step does.
LEMMA TypeStep == TypeOK /\ [Next]_vars => TypeOK'
<1>1. ASSUME TypeOK, UNCHANGED vars PROVE TypeOK'
  BY <1>1 DEF vars, connVars, inVars, TypeOK, QueueTypeOK, OutTypeOK, ConnTypeOK, NetTypeOK
<1>2. ASSUME TypeOK, Next PROVE TypeOK'
  BY <1>2, TypeHandleOut, TypeHandleIn, TypeOthers, TypeExternal DEF Next, Working
<1>3. QED
  BY <1>1, <1>2

\* handleOut always knows its message and connection, and gives a message up
\* after three tries at most.
THEOREM TypeCorrect == Spec => []TypeOK
  BY TypeInit, TypeStep, PTL DEF Spec

-----------------------------------------------------------------------------
(* The table of connections and the routing of messages.                   *)

\* Nothing but handleOut knows of a connection that is not made, and it only
\* knows those it made.
Made ==
  /\ \A k \in Keys : conns[k] <= nconn
  /\ \A c \in Conn : c > nconn => reader[c] = "none" /\ wire[c] = <<>>
  /\ out.pc \in {"add", "write", "close", "del"} => out.cnx <= nconn

\* The connection the table or handleOut has for a destination leads there: the
\* address of a dialed connection is one its own address resolves to.
Leads ==
  /\ \A u \in Uri : conns[u] # NoConn => address[conns[u]] = Resolve[u]
  /\ \A c \in Conn : address[c] \in Uri => Resolve[address[c]] = address[c]
  /\ out.pc \in {"add", "write"} => address[out.cnx] = Resolve[Dest[out.msg]]

Routing == TypeOK /\ Made /\ Leads /\ EntriesHaveReaders /\ NeverMisrouted

\* No connection is made initially.
LEMMA RoutingInit == Init => Routing
<1> SUFFICES ASSUME Init PROVE Routing
  OBVIOUS
<1>1. TypeOK
  BY TypeInit
<1>2. Made
  BY DEF Init, Made, NoConn, Free
<1>3. Leads
  BY KeysAssumption DEF Init, Leads, Free, Keys
<1>4. EntriesHaveReaders
  BY AcceptedKeys DEF Init, EntriesHaveReaders, NoConn, Conn
<1>5. NeverMisrouted
  BY DEF Init, NeverMisrouted
<1>6. QED
  BY <1>1, <1>2, <1>3, <1>4, <1>5 DEF Routing

\* The connections are numbers, and each connection's address is a key.
LEMMA Numbers ==
  ASSUME TypeOK
  PROVE  /\ nconn \in Int /\ out.cnx \in Int
         /\ \A c \in Conn : c \in Int /\ c # NoConn /\ address[c] \in Keys
         /\ \A k \in Keys : conns[k] \in Int /\ conns[k] \in Conn \cup {NoConn}
         /\ \A u \in Uri : u \in Keys
         /\ out.pc \in {"add", "write", "close", "del"} => out.cnx \in Conn
  BY LengthAssumption DEF TypeOK, OutTypeOK, ConnTypeOK, Conn, NoConn, Keys

\* Messages that stay where they are stay routed.
LEMMA NetworkKept ==
  ASSUME NeverMisrouted, wire' = wire, delivered' = delivered,
         \A c \in Conn : wire[c] # <<>> => address'[c] = address[c]
  PROVE  NeverMisrouted'
<1>1. ASSUME NEW c \in Conn, NEW i \in DOMAIN wire'[c]
      PROVE  address'[c] = Resolve[Dest[wire'[c][i]]]
  <2>1. CASE wire[c] = <<>>
    BY <1>1, <2>1
  <2>2. CASE wire[c] # <<>>
    BY <1>1, <2>2 DEF NeverMisrouted
  <2>3. QED
    BY <2>1, <2>2
<1>2. QED
  BY <1>1 DEF NeverMisrouted

\* A new connection is one that nobody knew of.
LEMMA NewConnection ==
  ASSUME Routing, NEW k \in Keys, Connected(k)
  PROVE  /\ nconn + 1 \in Conn /\ nconn' = nconn + 1
         /\ address'[nconn + 1] = k
         /\ \A c \in Conn : c # nconn + 1 => address'[c] = address[c]
         /\ \A x \in Keys : conns[x] # nconn + 1
         /\ wire[nconn + 1] = <<>> /\ reader[nconn + 1] = "none"
<1> USE DEF Routing, TypeOK, ConnTypeOK
<1>1. nconn + 1 \in Conn /\ nconn \in Nat /\ nconn' = nconn + 1
  BY LengthAssumption DEF Connected, Conn
<1>2. \A x \in Keys : conns[x] \in Nat /\ conns[x] <= nconn
  BY LengthAssumption DEF Conn, NoConn, Made
<1>3. QED
  BY <1>1, <1>2 DEF Connected, Made

\* addConnection changes one entry, or none.
LEMMA NewEntry ==
  ASSUME Routing, NEW k \in Keys, NEW c \in Conn, AddConnection(k, c)
  PROVE  \/ conns' = conns
         \/ \A x \in Keys : conns'[x] = IF x = k THEN c ELSE conns[x]
  BY DEF AddConnection, Routing, TypeOK, ConnTypeOK

\* handleOut keeps the table and the routing.
LEMMA RoutingHandleOut ==
  ASSUME Routing, TypeOK', HandleOut
  PROVE  Made' /\ Leads' /\ EntriesHaveReaders' /\ NeverMisrouted'
<1> USE DEF Routing, TypeOK, QueueTypeOK, OutTypeOK, ConnTypeOK, NetTypeOK
<1>1. CASE Take
  <2>1. Made'
    BY <1>1 DEF Take, connVars, inVars, Made
  <2>2. Leads'
    BY <1>1 DEF Take, connVars, inVars, Leads
  <2>3. EntriesHaveReaders'
    BY <1>1 DEF Take, connVars, inVars, EntriesHaveReaders, Reading
  <2>4. NeverMisrouted'
    BY <1>1, NetworkKept DEF Take, connVars, inVars
  <2>5. QED
    BY <2>1, <2>2, <2>3, <2>4
<1>2. CASE TakeClosed
  <2>1. Made'
    BY <1>2 DEF TakeClosed, connVars, inVars, Made
  <2>2. Leads'
    BY <1>2 DEF TakeClosed, connVars, inVars, Leads
  <2>3. EntriesHaveReaders'
    BY <1>2 DEF TakeClosed, connVars, inVars, EntriesHaveReaders, Reading
  <2>4. NeverMisrouted'
    BY <1>2, NetworkKept DEF TakeClosed, connVars, inVars
  <2>5. QED
    BY <2>1, <2>2, <2>3, <2>4
<1>3. CASE Lookup
  <2>1. Made'
    BY <1>3 DEF Lookup, GetConnection, connVars, inVars, Keys, NoConn, Made
  <2>2. Leads'
    BY <1>3 DEF Lookup, GetConnection, connVars, inVars, Keys, NoConn, Leads
  <2>3. EntriesHaveReaders'
    BY <1>3 DEF Lookup, GetConnection, connVars, inVars, Keys, NoConn, EntriesHaveReaders, Reading
  <2>4. NeverMisrouted'
    BY <1>3, NetworkKept DEF Lookup, GetConnection, connVars, inVars, Keys, NoConn
  <2>5. QED
    BY <2>1, <2>2, <2>3, <2>4
<1>4. CASE Dial
  <2> DEFINE k == Resolve[Dest[out.msg]]
  <2>0. /\ k \in Keys /\ k \in Uri /\ Resolve[k] = k /\ Connected(k)
        /\ UNCHANGED <<wire, conns, delivered, reader>>
        /\ out'.pc = "add" /\ out'.cnx = nconn + 1 /\ out'.msg = out.msg
    BY <1>4, ResolveAssumption DEF Dial, inVars, Keys
  <2>6. /\ nconn + 1 \in Conn /\ nconn' = nconn + 1
        /\ address'[nconn + 1] = k
        /\ \A c \in Conn : c # nconn + 1 => address'[c] = address[c]
        /\ \A x \in Keys : conns[x] # nconn + 1
        /\ wire[nconn + 1] = <<>> /\ reader[nconn + 1] = "none"
    BY <2>0, NewConnection
  <2> HIDE DEF TypeOK, QueueTypeOK, OutTypeOK, ConnTypeOK, NetTypeOK
  <2>1. Made'
    BY <2>0, <2>6, Numbers DEF Made
  <2>2. Leads'
    BY <2>0, <2>6, Numbers DEF Leads
  <2>3. EntriesHaveReaders'
    BY <2>0, <2>6, Numbers DEF EntriesHaveReaders, Reading
  <2>4. NeverMisrouted'
    BY <2>0, <2>6, NetworkKept
  <2>5. QED
    BY <2>1, <2>2, <2>3, <2>4
<1>5. CASE DialFails
  <2>1. Made'
    BY <1>5 DEF DialFails, connVars, inVars, Made
  <2>2. Leads'
    BY <1>5 DEF DialFails, connVars, inVars, Leads
  <2>3. EntriesHaveReaders'
    BY <1>5 DEF DialFails, connVars, inVars, EntriesHaveReaders, Reading
  <2>4. NeverMisrouted'
    BY <1>5, NetworkKept DEF DialFails, connVars, inVars
  <2>5. QED
    BY <2>1, <2>2, <2>3, <2>4
<1>6. CASE AddDialed
  <2> DEFINE u == Dest[out.msg]
  <2>0. /\ u \in Uri /\ u \in Keys /\ out.cnx \in Conn
        /\ AddConnection(u, out.cnx)
        /\ \A c \in Conn : reader'[c] = IF c = out.cnx THEN "add" ELSE reader[c]
        /\ out'.pc = "write" /\ out'.cnx = out.cnx /\ out'.msg = out.msg
        /\ UNCHANGED <<nconn, address, wire, delivered>>
    BY <1>6 DEF AddDialed, inVars, Keys
  <2>6. \/ conns' = conns
        \/ \A x \in Keys : conns'[x] = IF x = u THEN out.cnx ELSE conns[x]
    BY <2>0, NewEntry
  <2>7. out.cnx <= nconn /\ address[out.cnx] = Resolve[u]
    BY <1>6 DEF AddDialed, Made, Leads
  <2> HIDE DEF TypeOK, QueueTypeOK, OutTypeOK, ConnTypeOK, NetTypeOK
  <2>1. Made'
    BY <2>0, <2>6, <2>7, Numbers DEF Made
  <2>2. Leads'
    BY <2>0, <2>6, <2>7, Numbers DEF Leads
  <2>3. EntriesHaveReaders'
    BY <2>0, <2>6, Numbers DEF EntriesHaveReaders, Reading
  <2>4. NeverMisrouted'
    BY <2>0, NetworkKept
  <2>5. QED
    BY <2>1, <2>2, <2>3, <2>4
<1>7. CASE Write
  <2>0. /\ out.msg \in Msg /\ out.cnx \in Conn /\ out.cnx <= nconn
        /\ address[out.cnx] = Resolve[Dest[out.msg]]
        /\ out'.pc = "take"
        /\ UNCHANGED <<conns, nconn, address, reader, delivered>>
    BY <1>7 DEF Write, Written, Finished, inVars, Made, Leads
  <2>6. \A c \in Conn : \/ wire'[c] = wire[c]
                        \/ c = out.cnx /\ wire'[c] = Append(wire[c], out.msg)
    BY <1>7, <2>0 DEF Write
  <2>7. \A c \in Conn : wire[c] \in Seq(Msg)
    OBVIOUS
  <2> HIDE DEF TypeOK, QueueTypeOK, OutTypeOK, ConnTypeOK, NetTypeOK
  <2>1. Made'
    BY <2>0, <2>6, Numbers DEF Made
  <2>2. Leads'
    BY <2>0 DEF Leads
  <2>3. EntriesHaveReaders'
    BY <2>0 DEF EntriesHaveReaders, Reading
  <2>4. NeverMisrouted'
    <3>1. ASSUME NEW c \in Conn, NEW n \in DOMAIN wire'[c]
          PROVE  address[c] = Resolve[Dest[wire'[c][n]]]
      <4>1. CASE wire'[c] = wire[c]
        BY <3>1, <4>1 DEF NeverMisrouted
      <4>2. CASE c = out.cnx /\ wire'[c] = Append(wire[c], out.msg)
        <5>1. n \in 1 .. Len(wire[c]) + 1
          BY <3>1, <4>2, <2>0, <2>7
        <5>2. CASE n = Len(wire[c]) + 1
          BY <4>2, <5>2, <2>0, <2>7
        <5>3. CASE n \in 1 .. Len(wire[c])
          <6>1. wire'[c][n] = wire[c][n] /\ n \in DOMAIN wire[c]
            BY <4>2, <5>3, <2>0, <2>7
          <6>2. QED
            BY <6>1 DEF NeverMisrouted
        <5>4. QED
          BY <5>1, <5>2, <5>3, <2>7
      <4>3. QED
        BY <2>6, <4>1, <4>2
    <3>2. QED
      BY <2>0, <3>1 DEF NeverMisrouted
  <2>5. QED
    BY <2>1, <2>2, <2>3, <2>4
<1>8. CASE WriteFails
  <2>1. Made'
    BY <1>8 DEF WriteFails, NextTry, connVars, inVars, Made
  <2>2. Leads'
    BY <1>8 DEF WriteFails, NextTry, connVars, inVars, Leads
  <2>3. EntriesHaveReaders'
    BY <1>8 DEF WriteFails, NextTry, connVars, inVars, EntriesHaveReaders, Reading
  <2>4. NeverMisrouted'
    BY <1>8, NetworkKept DEF WriteFails, NextTry, connVars, inVars
  <2>5. QED
    BY <2>1, <2>2, <2>3, <2>4
<1>9. CASE CloseOut
  <2>1. Made'
    BY <1>9 DEF CloseOut, inVars, Made
  <2>2. Leads'
    BY <1>9 DEF CloseOut, inVars, Leads
  <2>3. EntriesHaveReaders'
    BY <1>9 DEF CloseOut, inVars, EntriesHaveReaders, Reading
  <2>4. NeverMisrouted'
    BY <1>9, NetworkKept DEF CloseOut, inVars
  <2>5. QED
    BY <2>1, <2>2, <2>3, <2>4
<1>10. CASE DelOut
  <2>1. Made'
    BY <1>10 DEF DelOut, DelConnection, TryAgain, Finished, connVars, inVars, NoConn, Conn, Made
  <2>2. Leads'
    BY <1>10 DEF DelOut, DelConnection, TryAgain, Finished, connVars, inVars, NoConn, Conn, Leads
  <2>3. EntriesHaveReaders'
    BY <1>10 DEF DelOut, DelConnection, TryAgain, Finished, connVars, inVars, NoConn, Conn, EntriesHaveReaders, Reading
  <2>4. NeverMisrouted'
    BY <1>10, NetworkKept DEF DelOut, DelConnection, TryAgain, Finished, connVars, inVars, NoConn, Conn
  <2>5. QED
    BY <2>1, <2>2, <2>3, <2>4
<1>11. QED
  BY <1>1, <1>2, <1>3, <1>4, <1>5, <1>6, <1>7, <1>8, <1>9, <1>10 DEF HandleOut

\* So does the goroutine of a connection.
LEMMA RoutingHandleIn ==
  ASSUME Routing, TypeOK', NEW c \in Conn, HandleIn(c)
  PROVE  Made' /\ Leads' /\ EntriesHaveReaders' /\ NeverMisrouted'
<1> USE DEF Routing, TypeOK, QueueTypeOK, OutTypeOK, ConnTypeOK, NetTypeOK
<1>1. CASE Register(c)
  <2> DEFINE k == address[c]
  <2>0. /\ k \in Keys /\ AddConnection(k, c)
        /\ reader[c] = "add"
        /\ reader' = [reader EXCEPT ![c] = Loop]
        /\ UNCHANGED <<out, nconn, address, wire, delivered>>
    BY <1>1 DEF Register, inVars
  <2>6. \/ conns' = conns
        \/ \A x \in Keys : conns'[x] = IF x = k THEN c ELSE conns[x]
    BY <2>0, NewEntry
  <2>7. c <= nconn /\ Loop \in {"read", "close"}
    BY <2>0 DEF Made, Loop, Conn
  <2> HIDE DEF TypeOK, QueueTypeOK, OutTypeOK, ConnTypeOK, NetTypeOK
  <2>1. Made'
    BY <2>0, <2>6, <2>7, Numbers DEF Made
  <2>2. Leads'
    BY <2>0, <2>6, <2>7, Numbers DEF Leads
  <2>3. EntriesHaveReaders'
    BY <2>0, <2>6, <2>7, Numbers DEF EntriesHaveReaders, Reading
  <2>4. NeverMisrouted'
    BY <2>0, NetworkKept
  <2>5. QED
    BY <2>1, <2>2, <2>3, <2>4
<1>2. CASE ReadMessage(c)
  <2>1. Made'
    BY <1>2 DEF ReadMessage, Made
  <2>2. Leads'
    BY <1>2 DEF ReadMessage, Leads
  <2>3. EntriesHaveReaders'
    BY <1>2 DEF ReadMessage, EntriesHaveReaders, Reading
  <2>4. NeverMisrouted'
    BY <1>2, NetworkKept DEF ReadMessage
  <2>5. QED
    BY <2>1, <2>2, <2>3, <2>4
<1>3. CASE Receive(c)
  <2>1. Made'
    BY <1>3 DEF Receive, Loop, Running, Made
  <2>2. Leads'
    BY <1>3 DEF Receive, Loop, Running, Leads
  <2>3. EntriesHaveReaders'
    BY <1>3 DEF Receive, Loop, Running, EntriesHaveReaders, Reading
  <2>4. NeverMisrouted'
    BY <1>3, NetworkKept DEF Receive, Loop, Running
  <2>5. QED
    BY <2>1, <2>2, <2>3, <2>4
<1>4. CASE ReadFails(c)
  <2>1. Made'
    BY <1>4 DEF ReadFails, AfterError, inVars, Made
  <2>2. Leads'
    BY <1>4 DEF ReadFails, AfterError, inVars, Leads
  <2>3. EntriesHaveReaders'
    BY <1>4 DEF ReadFails, AfterError, inVars, EntriesHaveReaders, Reading
  <2>4. NeverMisrouted'
    BY <1>4, NetworkKept DEF ReadFails, AfterError, inVars
  <2>5. QED
    BY <2>1, <2>2, <2>3, <2>4
<1>5. CASE CloseIn(c)
  <2>1. Made'
    BY <1>5 DEF CloseIn, inVars, Made
  <2>2. Leads'
    BY <1>5 DEF CloseIn, inVars, Leads
  <2>3. EntriesHaveReaders'
    BY <1>5 DEF CloseIn, inVars, EntriesHaveReaders, Reading
  <2>4. NeverMisrouted'
    BY <1>5, NetworkKept DEF CloseIn, inVars
  <2>5. QED
    BY <2>1, <2>2, <2>3, <2>4
<1>6. CASE DelIn(c)
  <2>1. Made'
    BY <1>6 DEF DelIn, DelConnection, inVars, NoConn, Conn, Made
  <2>2. Leads'
    BY <1>6 DEF DelIn, DelConnection, inVars, NoConn, Conn, Leads
  <2>3. EntriesHaveReaders'
    BY <1>6 DEF DelIn, DelConnection, inVars, NoConn, Conn, EntriesHaveReaders, Reading
  <2>4. NeverMisrouted'
    BY <1>6, NetworkKept DEF DelIn, DelConnection, inVars, NoConn, Conn
  <2>5. QED
    BY <2>1, <2>2, <2>3, <2>4
<1>7. QED
  BY <1>1, <1>2, <1>3, <1>4, <1>5, <1>6 DEF HandleIn

\* So do the application, the accepting goroutine and Close.
LEMMA RoutingOthers ==
  ASSUME Routing, TypeOK', Accept \/ Close \/ (\E m \in Msg : Transmit(m))
  PROVE  Made' /\ Leads' /\ EntriesHaveReaders' /\ NeverMisrouted'
<1> USE DEF Routing, TypeOK, QueueTypeOK, OutTypeOK, ConnTypeOK, NetTypeOK
<1>1. CASE Accept
  <2> DEFINE k == Accepted(nconn + 1)
  <2>0. /\ Connected(k) /\ nconn + 1 \in Conn
        /\ UNCHANGED <<wire, conns, delivered, out>>
        /\ \A c \in Conn : reader'[c] = IF c = nconn + 1 THEN "add" ELSE reader[c]
    BY <1>1, LengthAssumption DEF Accept, Connected, inVars, Conn
  <2>8. k \in Keys /\ k \notin Uri
    BY <2>0, AcceptedKeys, KeysAssumption
  <2>6. /\ nconn' = nconn + 1
        /\ address'[nconn + 1] = k
        /\ \A c \in Conn : c # nconn + 1 => address'[c] = address[c]
        /\ \A x \in Keys : conns[x] # nconn + 1
        /\ wire[nconn + 1] = <<>> /\ reader[nconn + 1] = "none"
    BY <2>0, <2>8, NewConnection
  <2> HIDE DEF TypeOK, QueueTypeOK, OutTypeOK, ConnTypeOK, NetTypeOK
  <2>1. Made'
    BY <2>0, <2>6, Numbers DEF Made
  <2>2. Leads'
    <3>1. out.pc \in {"add", "write"} => out.cnx # nconn + 1
      BY Numbers DEF Made
    <3>2. QED
      BY <2>0, <2>6, <2>8, <3>1, Numbers DEF Leads
  <2>3. EntriesHaveReaders'
    BY <2>0, <2>6, Numbers DEF EntriesHaveReaders, Reading
  <2>4. NeverMisrouted'
    BY <2>0, <2>6, NetworkKept
  <2>5. QED
    BY <2>1, <2>2, <2>3, <2>4
<1>2. CASE CloseStarts
  <2>1. Made'
    BY <1>2 DEF CloseStarts, connVars, inVars, Made
  <2>2. Leads'
    BY <1>2 DEF CloseStarts, connVars, inVars, Leads
  <2>3. EntriesHaveReaders'
    BY <1>2 DEF CloseStarts, connVars, inVars, EntriesHaveReaders, Reading
  <2>4. NeverMisrouted'
    BY <1>2, NetworkKept DEF CloseStarts, connVars, inVars
  <2>5. QED
    BY <2>1, <2>2, <2>3, <2>4
<1>3. CASE CloseEnds
  <2>0. /\ \A k \in Keys : conns'[k] = NoConn
        /\ \A c \in Conn : address[c] \in Keys /\ c # NoConn
        /\ UNCHANGED <<out, nconn, address, wire, reader, delivered>>
    BY <1>3 DEF CloseEnds, inVars, NoConn, Conn
  <2>1. Made'
    BY <2>0, LengthAssumption DEF Made, NoConn
  <2>2. Leads'
    BY <2>0 DEF Leads, Keys
  <2>3. EntriesHaveReaders'
    BY <2>0 DEF EntriesHaveReaders
  <2>4. NeverMisrouted'
    BY <2>0, NetworkKept
  <2>5. QED
    BY <2>1, <2>2, <2>3, <2>4
<1>4. ASSUME NEW m \in Msg, Transmit(m)
      PROVE  Made' /\ Leads' /\ EntriesHaveReaders' /\ NeverMisrouted'
  <2>1. Made'
    BY <1>4 DEF Transmit, connVars, inVars, Made
  <2>2. Leads'
    BY <1>4 DEF Transmit, connVars, inVars, Leads
  <2>3. EntriesHaveReaders'
    BY <1>4 DEF Transmit, connVars, inVars, EntriesHaveReaders, Reading
  <2>4. NeverMisrouted'
    BY <1>4, NetworkKept DEF Transmit, connVars, inVars
  <2>5. QED
    BY <2>1, <2>2, <2>3, <2>4
<1>5. QED
  BY <1>1, <1>2, <1>3, <1>4 DEF Close

\* So do the other ends of the connections and the Context.
LEMMA RoutingExternal ==
  ASSUME Routing, TypeOK', External
  PROVE  Made' /\ Leads' /\ EntriesHaveReaders' /\ NeverMisrouted'
<1> USE DEF Routing, TypeOK, QueueTypeOK, OutTypeOK, ConnTypeOK, NetTypeOK
<1>1. CASE ContextHandles
  <2>1. Made'
    BY <1>1 DEF ContextHandles, connVars, Made
  <2>2. Leads'
    BY <1>1 DEF ContextHandles, connVars, Leads
  <2>3. EntriesHaveReaders'
    BY <1>1 DEF ContextHandles, connVars, EntriesHaveReaders, Reading
  <2>4. NeverMisrouted'
    BY <1>1, NetworkKept DEF ContextHandles, connVars
  <2>5. QED
    BY <2>1, <2>2, <2>3, <2>4
<1>2. ASSUME NEW c \in Conn, PeerReads(c)
      PROVE  Made' /\ Leads' /\ EntriesHaveReaders' /\ NeverMisrouted'
  <2>1. Made'
    BY <1>2 DEF PeerReads, inVars, Made
  <2>2. Leads'
    BY <1>2 DEF PeerReads, inVars, Leads
  <2>3. EntriesHaveReaders'
    BY <1>2 DEF PeerReads, inVars, EntriesHaveReaders, Reading
  <2>6. /\ wire[c] # <<>> /\ address' = address
        /\ wire' = [wire EXCEPT ![c] = Tail(wire[c])]
        /\ delivered' = [delivered EXCEPT ![address[c]] =
                            Append(delivered[address[c]], Head(wire[c]))]
        /\ \A d \in Conn : wire[d] \in Seq(Msg)
        /\ \A u \in Uri : delivered[u] \in Seq(Msg)
        /\ wire \in [Conn -> Seq(Msg)] /\ delivered \in [Uri -> Seq(Msg)]
    BY <1>2 DEF PeerReads
  <2> HIDE DEF TypeOK, QueueTypeOK, OutTypeOK, ConnTypeOK, NetTypeOK
  <2>7. ASSUME NEW d \in Conn, NEW n \in DOMAIN wire'[d]
        PROVE  address[d] = Resolve[Dest[wire'[d][n]]]
    <3>1. CASE d = c
      <4>1. wire'[d] = Tail(wire[c]) /\ n \in 1 .. Len(wire[c]) - 1
        BY <2>6, <2>7, <3>1
      <4>2. n + 1 \in DOMAIN wire[c] /\ wire'[d][n] = wire[c][n + 1]
        BY <2>6, <4>1
      <4>3. QED
        BY <3>1, <4>2 DEF NeverMisrouted
    <3>2. CASE d # c
      BY <2>6, <2>7, <3>2 DEF NeverMisrouted
    <3>3. QED
      BY <3>1, <3>2
  <2>8. ASSUME NEW u \in Uri, NEW n \in DOMAIN delivered'[u]
        PROVE  u = Resolve[Dest[delivered'[u][n]]]
    <3>1. CASE u = address[c]
      <4>1. delivered'[u] = Append(delivered[u], Head(wire[c]))
        BY <2>6, <3>1
      <4>2. n \in 1 .. Len(delivered[u]) + 1
        BY <2>6, <2>8, <4>1
      <4>3. CASE n = Len(delivered[u]) + 1
        <5>1. delivered'[u][n] = wire[c][1] /\ 1 \in DOMAIN wire[c]
          BY <2>6, <4>1, <4>3
        <5>2. QED
          BY <3>1, <5>1 DEF NeverMisrouted
      <4>4. CASE n \in 1 .. Len(delivered[u])
        <5>1. delivered'[u][n] = delivered[u][n] /\ n \in DOMAIN delivered[u]
          BY <2>6, <4>1, <4>4
        <5>2. QED
          BY <5>1 DEF NeverMisrouted
      <4>5. QED
        BY <2>6, <4>2, <4>3, <4>4
    <3>2. CASE u # address[c]
      BY <2>6, <2>8, <3>2 DEF NeverMisrouted
    <3>3. QED
      BY <3>1, <3>2
  <2>4. NeverMisrouted'
    <3>1. \A x \in Conn : \A i \in DOMAIN wire'[x] :
            address'[x] = Resolve[Dest[wire'[x][i]]]
      BY <2>6, <2>7
    <3>2. \A u \in Uri : \A i \in DOMAIN delivered'[u] :
            u = Resolve[Dest[delivered'[u][i]]]
      BY <2>8
    <3>3. QED
      BY <3>1, <3>2 DEF NeverMisrouted
  <2>5. QED
    BY <2>1, <2>2, <2>3, <2>4
<1>3. ASSUME NEW c \in Conn, PeerCloses(c)
      PROVE  Made' /\ Leads' /\ EntriesHaveReaders' /\ NeverMisrouted'
  <2>1. Made'
    BY <1>3 DEF PeerCloses, inVars, Made
  <2>2. Leads'
    BY <1>3 DEF PeerCloses, inVars, Leads
  <2>3. EntriesHaveReaders'
    BY <1>3 DEF PeerCloses, inVars, EntriesHaveReaders, Reading
  <2>4. NeverMisrouted'
    BY <1>3 DEF PeerCloses, inVars, NeverMisrouted
  <2>5. QED
    BY <2>1, <2>2, <2>3, <2>4
<1>4. QED
  BY <1>1, <1>2, <1>3 DEF External

\* Hence every step keeps the routing.
LEMMA RoutingStep == Routing /\ [Next]_vars => Routing'
<1>1. ASSUME Routing, UNCHANGED vars PROVE Routing'
  BY <1>1, TypeStep DEF vars, connVars, inVars, Routing, Made, Leads, EntriesHaveReaders, Reading,
     NeverMisrouted
<1>2. ASSUME Routing, Next PROVE Routing'
  <2>1. TypeOK'
    BY <1>2, TypeStep DEF Routing
  <2>2. Made' /\ Leads' /\ EntriesHaveReaders' /\ NeverMisrouted'
    BY <1>2, <2>1, RoutingHandleOut, RoutingHandleIn, RoutingOthers, RoutingExternal DEF Next, Working
  <2>3. QED
    BY <2>1, <2>2 DEF Routing
<1>3. QED
  BY <1>1, <1>2

\* Whatever connections fail, are dialed again and replace each other in the
\* table, an entry has a goroutine that will take it out.
THEOREM TableKept == Spec => []EntriesHaveReaders
<1>1. Routing => EntriesHaveReaders
  BY DEF Routing
<1>2. QED
  BY <1>1, RoutingInit, RoutingStep, PTL DEF Spec

\* And no message is read by a destination it was not sent to.
THEOREM RoutedRight == Spec => []NeverMisrouted
<1>1. Routing => NeverMisrouted
  BY DEF Routing
<1>2. QED
  BY <1>1, RoutingInit, RoutingStep, PTL DEF Spec
-----------------------------------------------------------------------------
(* A message is in one place, and the transport implements Delivery.       *)

Queued(m) == m \in Contents(ch)
Held(m) == out.msg = m
OnWire(m, c) == m \in Contents(wire[c])
ReadAt(m, u) == m \in Contents(delivered[u])

Distinct(s) == \A i, j \in DOMAIN s : s[i] = s[j] => i = j

\* What NeverTwice needs of the queue, of each connection and of what each
\* destination has read: no message is in one of them twice,
NoRepeats ==
  /\ Distinct(ch)
  /\ \A c \in Conn : Distinct(wire[c])
  /\ \A u \in Uri : Distinct(delivered[u])

\* none is in two of them, and one that Transmit has not accepted is nowhere.
OnePlace ==
  \A m \in Msg :
    /\ Queued(m) => m \in Contents(sent) /\ ~Held(m)
    /\ Held(m) => m \in Contents(sent)
    /\ \A c \in Conn : OnWire(m, c) =>
         /\ m \in Contents(sent) /\ Dest[m] \in Uri
         /\ ~Queued(m) /\ ~Held(m)
         /\ \A d \in Conn : OnWire(m, d) => d = c
    /\ \A u \in Uri : ReadAt(m, u) =>
         /\ m \in Contents(sent)
         /\ ~Queued(m) /\ ~Held(m)
         /\ \A c \in Conn : ~OnWire(m, c)
         /\ \A v \in Uri : ReadAt(m, v) => v = u

Single == Routing /\ NoRepeats /\ OnePlace

\* An element that a sequence does not have is appended to it.
LEMMA Appended ==
  ASSUME NEW S, NEW s \in Seq(S), NEW x \in S
  PROVE  /\ \A y : y \in Contents(Append(s, x)) <=> y \in Contents(s) \/ y = x
         /\ Distinct(s) /\ x \notin Contents(s) => Distinct(Append(s, x))
<1> DEFINE t == Append(s, x)
<1>1. /\ DOMAIN t = 1 .. Len(s) + 1 /\ DOMAIN s = 1 .. Len(s) /\ Len(s) \in Nat
      /\ \A i \in 1 .. Len(s) : t[i] = s[i]
      /\ t[Len(s) + 1] = x
  OBVIOUS
<1> HIDE DEF t
<1>2. ASSUME NEW y PROVE y \in Contents(t) <=> y \in Contents(s) \/ y = x
  <2>1. ASSUME y \in Contents(t) PROVE y \in Contents(s) \/ y = x
    <3>1. PICK i \in DOMAIN t : t[i] = y
      BY <2>1 DEF Contents
    <3>2. i \in 1 .. Len(s) \/ i = Len(s) + 1
      BY <1>1
    <3>3. QED
      BY <1>1, <3>1, <3>2 DEF Contents
  <2>2. ASSUME y \in Contents(s) PROVE y \in Contents(t)
    <3>1. PICK i \in DOMAIN s : s[i] = y
      BY <2>2 DEF Contents
    <3>2. i \in DOMAIN t /\ t[i] = y
      BY <1>1, <3>1
    <3>3. QED
      BY <3>2 DEF Contents
  <2>3. x \in Contents(t)
    <3>1. Len(s) + 1 \in DOMAIN t
      BY <1>1
    <3>2. QED
      BY <1>1, <3>1 DEF Contents
  <2>4. QED
    BY <2>1, <2>2, <2>3
<1>3. ASSUME Distinct(s), x \notin Contents(s) PROVE Distinct(t)
  <2>1. SUFFICES ASSUME NEW i \in DOMAIN t, NEW j \in DOMAIN t, t[i] = t[j] PROVE i = j
    BY DEF Distinct
  <2>2. \A k \in 1 .. Len(s) : s[k] # x
    BY <1>1, <1>3 DEF Contents
  <2>3. (i \in 1 .. Len(s) \/ i = Len(s) + 1) /\ (j \in 1 .. Len(s) \/ j = Len(s) + 1)
    BY <1>1
  <2>4. QED
    BY <1>1, <1>3, <2>1, <2>2, <2>3 DEF Distinct
<1>4. QED
  BY <1>2, <1>3 DEF t

\* The head of a sequence without repeats is taken.
LEMMA TakenHead ==
  ASSUME NEW S, NEW s \in Seq(S), s # <<>>, Distinct(s)
  PROVE  /\ \A y : y \in Contents(Tail(s)) <=> y \in Contents(s) /\ y # Head(s)
         /\ Head(s) \in Contents(s) /\ Head(s) \in S
         /\ Distinct(Tail(s))
<1> DEFINE t == Tail(s)
<1>1. /\ DOMAIN t = 1 .. Len(s) - 1 /\ DOMAIN s = 1 .. Len(s) /\ Len(s) \in Nat \ {0}
      /\ \A i \in 1 .. Len(s) - 1 : t[i] = s[i + 1]
      /\ Head(s) = s[1] /\ Head(s) \in S
  OBVIOUS
<1> HIDE DEF t
<1>2. 1 \in DOMAIN s /\ Head(s) \in Contents(s)
  BY <1>1 DEF Contents
<1>3. ASSUME NEW y PROVE y \in Contents(t) <=> y \in Contents(s) /\ y # Head(s)
  <2>1. ASSUME y \in Contents(t) PROVE y \in Contents(s) /\ y # Head(s)
    <3>1. PICK i \in DOMAIN t : t[i] = y
      BY <2>1 DEF Contents
    <3>2. i + 1 \in DOMAIN s /\ s[i + 1] = y /\ i + 1 # 1
      BY <1>1, <3>1
    <3>3. QED
      BY <1>1, <1>2, <3>2 DEF Contents, Distinct
  <2>2. ASSUME y \in Contents(s), y # Head(s) PROVE y \in Contents(t)
    <3>1. PICK i \in DOMAIN s : s[i] = y
      BY <2>2 DEF Contents
    <3>2. i - 1 \in DOMAIN t /\ t[i - 1] = y
      BY <1>1, <2>2, <3>1
    <3>3. QED
      BY <3>2 DEF Contents
  <2>3. QED
    BY <2>1, <2>2
<1>4. Distinct(t)
  <2>1. SUFFICES ASSUME NEW i \in DOMAIN t, NEW j \in DOMAIN t, t[i] = t[j] PROVE i = j
    BY DEF Distinct
  <2>2. s[i + 1] = s[j + 1] /\ i + 1 \in DOMAIN s /\ j + 1 \in DOMAIN s
    BY <1>1, <2>1
  <2>3. i + 1 = j + 1
    BY <2>2 DEF Distinct
  <2>4. QED
    BY <1>1, <2>3
<1>5. QED
  BY <1>1, <1>2, <1>3, <1>4 DEF t

\* Messages that stay where they are, or are lost, are in one place still.
LEMMA KeptOnce ==
  ASSUME OnePlace,
         \A m \in Msg : /\ m \in Contents(sent) => m \in Contents(sent)'
                        /\ Queued(m)' => Queued(m)
                        /\ Held(m)' => Held(m)
                        /\ \A c \in Conn : OnWire(m, c)' => OnWire(m, c)
                        /\ \A u \in Uri : ReadAt(m, u)' => ReadAt(m, u)
  PROVE  OnePlace'
  BY DEF OnePlace

\* A message that was nowhere is accepted.
LEMMA AcceptedOnce ==
  ASSUME OnePlace, NEW x \in Msg, x \notin Contents(sent),
         \A m \in Msg : /\ m \in Contents(sent)' <=> m \in Contents(sent) \/ m = x
                        /\ Queued(m)' <=> Queued(m) \/ m = x
                        /\ Held(m)' <=> Held(m)
                        /\ \A c \in Conn : OnWire(m, c)' <=> OnWire(m, c)
                        /\ \A u \in Uri : ReadAt(m, u)' <=> ReadAt(m, u)
  PROVE  OnePlace'
  BY DEF OnePlace

\* handleOut takes a message of the queue,
LEMMA HeldOnce ==
  ASSUME OnePlace, NEW x \in Msg, Queued(x),
         \A m \in Msg : /\ m \in Contents(sent)' <=> m \in Contents(sent)
                        /\ Queued(m)' <=> Queued(m) /\ m # x
                        /\ Held(m)' <=> m = x
                        /\ \A c \in Conn : OnWire(m, c)' <=> OnWire(m, c)
                        /\ \A u \in Uri : ReadAt(m, u)' <=> ReadAt(m, u)
  PROVE  OnePlace'
  BY DEF OnePlace

\* writes the one it holds to a connection,
LEMMA WrittenOnce ==
  ASSUME OnePlace, NEW x \in Msg, NEW k \in Conn, Held(x), Dest[x] \in Uri,
         \A m \in Msg : /\ m \in Contents(sent)' <=> m \in Contents(sent)
                        /\ Queued(m)' <=> Queued(m)
                        /\ ~Held(m)'
                        /\ \A c \in Conn : OnWire(m, c)' <=> OnWire(m, c) \/ (m = x /\ c = k)
                        /\ \A u \in Uri : ReadAt(m, u)' <=> ReadAt(m, u)
  PROVE  OnePlace'
  BY DEF OnePlace

\* and the other end reads it.
LEMMA ReadOnce ==
  ASSUME OnePlace, NEW x \in Msg, NEW k \in Conn, NEW w \in Uri, OnWire(x, k),
         \A m \in Msg : /\ m \in Contents(sent)' <=> m \in Contents(sent)
                        /\ Queued(m)' <=> Queued(m)
                        /\ Held(m)' <=> Held(m)
                        /\ \A c \in Conn : OnWire(m, c)' <=> OnWire(m, c) /\ ~(m = x /\ c = k)
                        /\ \A u \in Uri : ReadAt(m, u)' <=> ReadAt(m, u) \/ (m = x /\ u = w)
  PROVE  OnePlace'
  BY DEF OnePlace

\* The messages on their way, by where they are.
LEMMA PendingPlaces ==
  /\ \A m : m \in pending <=> m \in Msg /\ (Queued(m) \/ Held(m) \/ \E c \in Conn : OnWire(m, c))
  /\ \A m : m \in pending' <=> m \in Msg /\ (Queued(m)' \/ Held(m)' \/ \E c \in Conn : OnWire(m, c)')
  BY DEF pending, Queued, Held, OnWire

\* Messages that are no longer pending, or none, are lost.
LEMMA Losing ==
  ASSUME UNCHANGED <<sent, delivered>>,
         \A m \in Msg : m \in pending' => m \in pending
  PROVE  D!Next
<1> DEFINE S == pending \ pending'
<1>1. S \in SUBSET Msg
  BY PendingPlaces
<1>2. pending' = pending \ S
  BY PendingPlaces
<1>3. D!Lose(S)
  BY <1>2 DEF D!Lose
<1> HIDE DEF S
<1>4. QED
  BY <1>1, <1>3 DEF D!Next

\* A step that moves no message; handleOut may have finished with its own.
LEMMA NothingMoves ==
  ASSUME Single, UNCHANGED <<sent, ch, wire, delivered>>, out'.msg \in {out.msg, NoMsg}
  PROVE  NoRepeats' /\ OnePlace' /\ D!Next
<1>1. NoRepeats'
  BY DEF Single, NoRepeats, Distinct
<1>2. \A m \in Msg : /\ m \in Contents(sent) => m \in Contents(sent)'
                     /\ Queued(m)' => Queued(m)
                     /\ Held(m)' => Held(m)
                     /\ \A c \in Conn : OnWire(m, c)' => OnWire(m, c)
                     /\ \A u \in Uri : ReadAt(m, u)' => ReadAt(m, u)
  BY MsgAssumption DEF Queued, Held, OnWire, ReadAt, Contents
<1>3. OnePlace'
  BY <1>2, KeptOnce DEF Single
<1>4. \A m \in Msg : m \in pending' => m \in pending
  BY <1>2, PendingPlaces
<1>5. QED
  BY <1>1, <1>3, <1>4, Losing

\* Transmit accepts a message, or panics.
Accepts(x) ==
  /\ ch' = Append(ch, x) /\ ch \in Seq(Msg)
  /\ sent' = Append(sent, x) /\ sent \in Seq(Msg)
  /\ x \notin Contents(sent) /\ x \notin Contents(ch)
  /\ UNCHANGED <<out, wire, delivered>>
  /\ \A m : /\ m \in Contents(sent)' <=> m \in Contents(sent) \/ m = x
            /\ Queued(m)' <=> Queued(m) \/ m = x
            /\ Held(m)' <=> Held(m)
            /\ \A c \in Conn : OnWire(m, c)' <=> OnWire(m, c)
            /\ \A u \in Uri : ReadAt(m, u)' <=> ReadAt(m, u)

LEMMA TransmitFacts ==
  ASSUME Single, NEW x \in Msg, Transmit(x), Running
  PROVE  Accepts(x)
<1>1. /\ ch' = Append(ch, x)
      /\ sent' = Append(sent, x)
      /\ x \notin Contents(sent)
      /\ UNCHANGED <<out, wire, delivered>>
  BY DEF Transmit, connVars, Contents
<1>2. ch \in Seq(Msg) /\ sent \in Seq(Msg)
  BY DEF Single, Routing, TypeOK, QueueTypeOK
<1>3. x \notin Contents(ch)
  BY <1>1 DEF Single, OnePlace, Queued
<1>4. \A m : /\ m \in Contents(Append(sent, x)) <=> m \in Contents(sent) \/ m = x
             /\ m \in Contents(Append(ch, x)) <=> m \in Contents(ch) \/ m = x
  BY <1>2, Appended
<1>5. Contents(sent)' = Contents(Append(sent, x)) /\ Contents(ch)' = Contents(Append(ch, x))
  BY <1>1 DEF Contents
<1>6. \A m : /\ m \in Contents(sent)' <=> m \in Contents(sent) \/ m = x
             /\ Queued(m)' <=> Queued(m) \/ m = x
  BY <1>4, <1>5 DEF Queued
<1>7. \A m : /\ Held(m)' <=> Held(m)
             /\ \A c \in Conn : OnWire(m, c)' <=> OnWire(m, c)
             /\ \A u \in Uri : ReadAt(m, u)' <=> ReadAt(m, u)
  BY <1>1 DEF Held, OnWire, ReadAt, Contents
<1>8. QED
  BY <1>1, <1>2, <1>3, <1>6, <1>7 DEF Accepts

LEMMA TransmitMoves ==
  ASSUME Single, NEW x \in Msg, Transmit(x)
  PROVE  NoRepeats' /\ OnePlace' /\ D!Next
<1>1. CASE ~Running
  BY <1>1, NothingMoves DEF Transmit, connVars
<1>2. CASE Running
  <2>1. Accepts(x)
    BY <1>2, TransmitFacts
  <2>2. Distinct(Append(ch, x))
    BY <2>1, Appended DEF Accepts, Single, NoRepeats
  <2>3. NoRepeats'
    BY <2>1, <2>2 DEF Accepts, Single, NoRepeats, Distinct
  <2>4. OnePlace'
    BY <2>1, AcceptedOnce DEF Accepts, Single
  <2>5. Contents(sent)' = Contents(sent) \cup {x} /\ pending' = pending \cup {x}
    BY <2>1, PendingPlaces DEF Accepts
  <2>6. D!Accept(x)
    BY <2>1, <2>5 DEF Accepts, D!Accept
  <2>7. QED
    BY <2>3, <2>4, <2>6 DEF D!Next
<1>3. QED
  BY <1>1, <1>2

\* handleOut takes the head of the queue.
TakesHead(x) ==
  /\ x = Head(ch) /\ ch # <<>> /\ ch \in Seq(Msg) /\ Distinct(ch)
  /\ Queued(x) /\ ch' = Tail(ch)
  /\ UNCHANGED <<sent, wire, delivered>>
  /\ \A m : /\ Queued(m)' <=> Queued(m) /\ m # x
            /\ m \in Contents(sent)' <=> m \in Contents(sent)
            /\ Held(m)' <=> m = x
            /\ \A c \in Conn : OnWire(m, c)' <=> OnWire(m, c)
            /\ \A u \in Uri : ReadAt(m, u)' <=> ReadAt(m, u)

LEMMA TakeFacts ==
  ASSUME Single, Take
  PROVE  \E x \in Msg : TakesHead(x)
<1>1. /\ ch # <<>> /\ ch \in Seq(Msg) /\ Distinct(ch)
      /\ ch' = Tail(ch)
      /\ UNCHANGED <<sent, wire, delivered>>
  BY DEF Take, Single, NoRepeats, Routing, TypeOK, QueueTypeOK, connVars
<1>2. PICK x \in Msg : x = Head(ch)
  BY <1>1
<1>3. out'.msg = x
  BY <1>2 DEF Take, Single, Routing, TypeOK, OutTypeOK
<1>4. /\ \A m : m \in Contents(Tail(ch)) <=> m \in Contents(ch) /\ m # x
      /\ x \in Contents(ch)
  BY <1>1, <1>2, TakenHead
<1>5. Contents(ch)' = Contents(Tail(ch))
  BY <1>1 DEF Contents
<1>6. \A m : Queued(m)' <=> Queued(m) /\ m # x
  BY <1>4, <1>5 DEF Queued
<1>7. \A m : /\ m \in Contents(sent)' <=> m \in Contents(sent)
             /\ Held(m)' <=> m = x
             /\ \A c \in Conn : OnWire(m, c)' <=> OnWire(m, c)
             /\ \A u \in Uri : ReadAt(m, u)' <=> ReadAt(m, u)
  BY <1>1, <1>3 DEF Held, OnWire, ReadAt, Contents
<1>8. QED
  BY <1>1, <1>2, <1>4, <1>6, <1>7 DEF Queued, TakesHead

LEMMA TakeMoves ==
  ASSUME Single, Take
  PROVE  NoRepeats' /\ OnePlace' /\ D!Next
<1>1. PICK x \in Msg : TakesHead(x)
  BY TakeFacts
<1>2. Distinct(Tail(ch))
  BY <1>1, TakenHead DEF TakesHead
<1>3. NoRepeats'
  BY <1>1, <1>2 DEF Single, NoRepeats, Distinct, TakesHead
<1>4. OnePlace'
  BY <1>1, HeldOnce DEF Single, TakesHead
<1>5. \A m \in Msg : m \in pending' => m \in pending
  BY <1>1, PendingPlaces DEF TakesHead
<1>6. QED
  BY <1>1, <1>3, <1>4, <1>5, Losing DEF TakesHead

\* handleOut writes its message to a connection, or the message is lost.
Writes(x, k) ==
  /\ Held(x) /\ k = out.cnx /\ Dest[x] \in Uri /\ ~OnWire(x, k)
  /\ out'.msg = NoMsg
  /\ UNCHANGED <<sent, ch, delivered>>
  /\ wire \in [Conn -> Seq(Msg)]
  /\ \/ UNCHANGED wire
     \/ /\ wire'[k] = Append(wire[k], x)
        /\ \A c \in Conn : c # k => wire'[c] = wire[c]
        /\ \A m : \A c \in Conn : OnWire(m, c)' <=> OnWire(m, c) \/ (m = x /\ c = k)
  /\ \A m \in Msg : /\ m \in Contents(sent)' <=> m \in Contents(sent)
                    /\ Queued(m)' <=> Queued(m)
                    /\ ~Held(m)'
                    /\ \A u \in Uri : ReadAt(m, u)' <=> ReadAt(m, u)

LEMMA WriteFacts ==
  ASSUME Single, Write
  PROVE  \E x \in Msg, k \in Conn : Writes(x, k)
<1>1. PICK x \in Msg : out.msg = x
  BY DEF Write, Single, Routing, TypeOK, OutTypeOK
<1>2. PICK k \in Conn : out.cnx = k
  BY DEF Write, Single, Routing, TypeOK, OutTypeOK
<1>3. /\ out'.msg = NoMsg
      /\ UNCHANGED <<sent, ch, delivered>>
      /\ Dest[x] \in Uri
      /\ wire \in [Conn -> Seq(Msg)]
  BY <1>1 DEF Write, Written, Finished, Single, Routing, TypeOK, OutTypeOK, NetTypeOK
<1>4. Held(x) /\ ~OnWire(x, k)
  BY <1>1 DEF Held, Single, OnePlace
<1>5. \A m \in Msg : /\ m \in Contents(sent)' <=> m \in Contents(sent)
                     /\ Queued(m)' <=> Queued(m)
                     /\ ~Held(m)'
                     /\ \A u \in Uri : ReadAt(m, u)' <=> ReadAt(m, u)
  BY <1>3, MsgAssumption DEF Queued, Held, ReadAt, Contents
<1>6. CASE ~remote[k]
  <2>1. UNCHANGED wire
    BY <1>2, <1>6 DEF Write
  <2>2. QED
    BY <1>2, <1>3, <1>4, <1>5, <2>1 DEF Writes
<1>7. CASE remote[k]
  <2>1. wire' = [wire EXCEPT ![k] = Append(wire[k], x)]
    BY <1>1, <1>2, <1>7 DEF Write
  <2>2. wire'[k] = Append(wire[k], x) /\ \A c \in Conn : c # k => wire'[c] = wire[c]
    BY <2>1, <1>3
  <2>3. \A m : m \in Contents(Append(wire[k], x)) <=> m \in Contents(wire[k]) \/ m = x
    BY <1>3, Appended
  <2>4. \A m : \A c \in Conn : OnWire(m, c)' <=> OnWire(m, c) \/ (m = x /\ c = k)
    <3>1. TAKE m
    <3>2. TAKE c \in Conn
    <3>3. OnWire(m, c)' <=> m \in Contents(wire'[c])
      BY DEF OnWire, Contents
    <3>4. CASE c = k
      BY <2>2, <2>3, <3>3, <3>4 DEF OnWire
    <3>5. CASE c # k
      BY <2>2, <3>5 DEF OnWire, Contents
    <3>6. QED
      BY <3>4, <3>5
  <2>5. QED
    BY <1>2, <1>3, <1>4, <1>5, <2>2, <2>4 DEF Writes
<1>8. QED
  BY <1>6, <1>7

LEMMA WriteMoves ==
  ASSUME Single, Write
  PROVE  NoRepeats' /\ OnePlace' /\ D!Next
<1>1. PICK x \in Msg, k \in Conn : Writes(x, k)
  BY WriteFacts
<1>2. CASE UNCHANGED wire
  BY <1>1, <1>2, NothingMoves DEF Writes
<1>3. CASE ~UNCHANGED wire
  <2>1. Distinct(Append(wire[k], x))
    BY <1>1, Appended DEF Single, NoRepeats, OnWire, Writes
  <2>2. \A c \in Conn : Distinct(wire'[c])
    BY <1>1, <1>3, <2>1 DEF Single, NoRepeats, Writes
  <2>3. NoRepeats'
    BY <1>1, <2>2 DEF Single, NoRepeats, Distinct, Writes
  <2>4. OnePlace'
    BY <1>1, <1>3, WrittenOnce DEF Single, Writes
  <2>5. \A m \in Msg : m \in pending' => m \in pending
    BY <1>1, <1>3, PendingPlaces DEF Writes
  <2>6. QED
    BY <1>1, <2>3, <2>4, <2>5, Losing DEF Writes
<1>4. QED
  BY <1>2, <1>3

\* The other end reads the head of a connection.
Reads(x, k, w) ==
  /\ x = Head(wire[k]) /\ wire[k] # <<>> /\ Distinct(wire[k])
  /\ wire \in [Conn -> Seq(Msg)] /\ delivered \in [Uri -> Seq(Msg)]
  /\ OnWire(x, k) /\ Dest[x] \in Uri /\ w = Resolve[Dest[x]] /\ address[k] = w
  /\ UNCHANGED <<sent, ch, out>>
  /\ wire'[k] = Tail(wire[k]) /\ \A c \in Conn : c # k => wire'[c] = wire[c]
  /\ delivered' = [delivered EXCEPT ![w] = Append(delivered[w], x)]
  /\ \A m : /\ m \in Contents(sent)' <=> m \in Contents(sent)
            /\ Queued(m)' <=> Queued(m)
            /\ Held(m)' <=> Held(m)
            /\ \A c \in Conn : OnWire(m, c)' <=> OnWire(m, c) /\ ~(m = x /\ c = k)
            /\ \A u \in Uri : ReadAt(m, u)' <=> ReadAt(m, u) \/ (m = x /\ u = w)

LEMMA ReadFacts ==
  ASSUME Single, NEW k \in Conn, PeerReads(k)
  PROVE  \E x \in Msg, w \in Uri : Reads(x, k, w)
<1>1. /\ wire \in [Conn -> Seq(Msg)] /\ wire[k] \in Seq(Msg)
      /\ delivered \in [Uri -> Seq(Msg)]
      /\ wire[k] # <<>> /\ Distinct(wire[k])
      /\ UNCHANGED <<sent, ch, out>>
      /\ wire' = [wire EXCEPT ![k] = Tail(wire[k])]
  BY DEF PeerReads, Single, NoRepeats, Routing, TypeOK, NetTypeOK
<1>2. PICK x \in Msg : x = Head(wire[k])
  BY <1>1
<1>3. /\ \A m : m \in Contents(Tail(wire[k])) <=> m \in Contents(wire[k]) /\ m # x
      /\ x \in Contents(wire[k])
  BY <1>1, <1>2, TakenHead
<1>4. OnWire(x, k) /\ Dest[x] \in Uri
  BY <1>3 DEF OnWire, Single, OnePlace
<1>5. PICK w \in Uri : w = Resolve[Dest[x]]
  BY <1>4, ResolveAssumption
<1>6. address[k] = w
  <2>1. 1 \in DOMAIN wire[k] /\ wire[k][1] = x
    BY <1>1, <1>2
  <2>2. QED
    BY <1>5, <2>1 DEF Single, Routing, NeverMisrouted
<1>7. delivered' = [delivered EXCEPT ![w] = Append(delivered[w], x)]
  BY <1>2, <1>6 DEF PeerReads
<1>8. /\ wire'[k] = Tail(wire[k]) /\ \A c \in Conn : c # k => wire'[c] = wire[c]
      /\ delivered'[w] = Append(delivered[w], x)
      /\ \A u \in Uri : u # w => delivered'[u] = delivered[u]
  BY <1>1, <1>7
<1>9. \A m : m \in Contents(Append(delivered[w], x)) <=> m \in Contents(delivered[w]) \/ m = x
  BY <1>1, Appended
<1>10. \A m : \A c \in Conn : OnWire(m, c)' <=> OnWire(m, c) /\ ~(m = x /\ c = k)
  <2>1. TAKE m
  <2>2. TAKE c \in Conn
  <2>3. OnWire(m, c)' <=> m \in Contents(wire'[c])
    BY DEF OnWire, Contents
  <2>4. CASE c = k
    BY <1>3, <1>8, <2>3, <2>4 DEF OnWire
  <2>5. CASE c # k
    BY <1>8, <2>5 DEF OnWire, Contents
  <2>6. QED
    BY <2>4, <2>5
<1>11. \A m : \A u \in Uri : ReadAt(m, u)' <=> ReadAt(m, u) \/ (m = x /\ u = w)
  <2>1. TAKE m
  <2>2. TAKE u \in Uri
  <2>3. ReadAt(m, u)' <=> m \in Contents(delivered'[u])
    BY DEF ReadAt, Contents
  <2>4. CASE u = w
    BY <1>8, <1>9, <2>3, <2>4 DEF ReadAt
  <2>5. CASE u # w
    BY <1>8, <2>5 DEF ReadAt, Contents
  <2>6. QED
    BY <2>4, <2>5
<1>12. \A m : /\ m \in Contents(sent)' <=> m \in Contents(sent)
              /\ Queued(m)' <=> Queued(m)
              /\ Held(m)' <=> Held(m)
  BY <1>1 DEF Queued, Held, Contents
<1>13. Reads(x, k, w)
  BY <1>1, <1>2, <1>4, <1>5, <1>6, <1>7, <1>8, <1>10, <1>11, <1>12, Zenon DEF Reads
<1>14. QED
  BY <1>13

LEMMA ReadMoves ==
  ASSUME Single, NEW k \in Conn, PeerReads(k)
  PROVE  NoRepeats' /\ OnePlace' /\ D!Next
<1>1. PICK x \in Msg, w \in Uri : Reads(x, k, w)
  BY ReadFacts
<1>2. NoRepeats'
  <2>1. Distinct(Tail(wire[k]))
    BY <1>1, TakenHead DEF Reads
  <2>2. \A c \in Conn : Distinct(wire'[c])
    BY <1>1, <2>1 DEF Single, NoRepeats, Reads
  <2>3. Distinct(Append(delivered[w], x))
    BY <1>1, Appended DEF Single, NoRepeats, OnePlace, ReadAt, Reads
  <2>4. \A u \in Uri : Distinct(delivered'[u])
    BY <1>1, <2>3 DEF Single, NoRepeats, Reads
  <2>5. Distinct(ch) /\ UNCHANGED ch
    BY <1>1 DEF Single, NoRepeats, Reads
  <2>6. QED
    BY <2>2, <2>4, <2>5 DEF NoRepeats, Distinct
<1>3. OnePlace'
  <2>1. OnWire(x, k)
    BY <1>1 DEF Reads
  <2>2. \A m \in Msg :
          /\ m \in Contents(sent)' <=> m \in Contents(sent)
          /\ Queued(m)' <=> Queued(m)
          /\ Held(m)' <=> Held(m)
          /\ \A c \in Conn : OnWire(m, c)' <=> OnWire(m, c) /\ ~(m = x /\ c = k)
          /\ \A u \in Uri : ReadAt(m, u)' <=> ReadAt(m, u) \/ (m = x /\ u = w)
    BY <1>1 DEF Reads
  <2>3. QED
    BY <2>1, <2>2, ReadOnce DEF Single
<1>4. x \in pending /\ pending' = pending \ {x}
  <2>1. ~Queued(x) /\ ~Held(x) /\ \A c \in Conn : OnWire(x, c) => c = k
    BY <1>1 DEF Single, OnePlace, Reads
  <2>2. \A m : m \in pending' <=> m \in pending /\ m # x
    BY <1>1, <2>1, PendingPlaces DEF Reads
  <2>3. QED
    BY <1>1, <2>2, PendingPlaces DEF Reads
<1>5. Contents(sent)' = Contents(sent)
  BY <1>1 DEF Reads
<1>6. D!Deliver(x)
  <2>1. delivered' = [delivered EXCEPT ![w] = Append(delivered[w], x)]
    BY <1>1 DEF Reads
  <2>2. (IF Dest[x] \in Uri THEN Resolve[Dest[x]] ELSE NoUri) = w
    BY <1>1 DEF Reads
  <2>3. QED
    BY <1>4, <1>5, <2>1, <2>2 DEF D!Deliver
<1>7. QED
  BY <1>2, <1>3, <1>6 DEF D!Next

\* The other end goes away with what it has not read.
LEMMA PeerClosesMoves ==
  ASSUME Single, NEW k \in Conn, PeerCloses(k)
  PROVE  NoRepeats' /\ OnePlace' /\ D!Next
<1>1. /\ UNCHANGED <<sent, ch, out, delivered>>
      /\ wire'[k] = <<>> /\ \A c \in Conn : c # k => wire'[c] = wire[c]
  BY DEF PeerCloses, Single, Routing, TypeOK, NetTypeOK
<1>2. NoRepeats'
  BY <1>1 DEF Single, NoRepeats, Distinct
<1>3. \A m : \A c \in Conn : OnWire(m, c)' => OnWire(m, c)
  <2>1. TAKE m
  <2>2. TAKE c \in Conn
  <2>3. OnWire(m, c)' <=> m \in Contents(wire'[c])
    BY DEF OnWire, Contents
  <2>4. m \notin Contents(<<>>)
    BY DEF Contents
  <2>5. QED
    BY <1>1, <2>3, <2>4 DEF OnWire
<1>4. \A m \in Msg : /\ m \in Contents(sent) => m \in Contents(sent)'
                     /\ Queued(m)' => Queued(m)
                     /\ Held(m)' => Held(m)
                     /\ \A u \in Uri : ReadAt(m, u)' => ReadAt(m, u)
  BY <1>1 DEF Queued, Held, ReadAt, Contents
<1>5. OnePlace'
  BY <1>3, <1>4, KeptOnce DEF Single
<1>6. \A m \in Msg : m \in pending' => m \in pending
  BY <1>3, <1>4, PendingPlaces
<1>7. QED
  BY <1>1, <1>2, <1>5, <1>6, Losing

\* No other step moves a message.
LEMMA OthersMove ==
  ASSUME Single, [Next]_vars
  PROVE  \/ UNCHANGED <<sent, ch, wire, delivered>> /\ out'.msg \in {out.msg, NoMsg}
         \/ \E m \in Msg : Transmit(m)
         \/ Take \/ Write
         \/ \E c \in Conn : PeerReads(c) \/ PeerCloses(c)
<1> DEFINE Still == UNCHANGED <<sent, ch, wire, delivered>> /\ out'.msg \in {out.msg, NoMsg}
<1> USE DEF connVars, inVars
<1>1. out \in [pc : {"take", "lookup", "dial", "add", "write", "close", "del", "ends"},
               msg : Msg \cup {NoMsg}, nbtry : 0 .. 3, cnx : Conn \cup {NoConn}]
  BY DEF Single, Routing, TypeOK, OutTypeOK
<1>2. CASE UNCHANGED vars
  BY <1>2 DEF vars
<1>3. CASE TakeClosed \/ Lookup \/ Dial \/ DialFails \/ AddDialed
  BY <1>1, <1>3 DEF TakeClosed, Lookup, Dial, DialFails, AddDialed, Connected
<1>4. CASE WriteFails \/ CloseOut \/ DelOut
  BY <1>1, <1>4 DEF WriteFails, CloseOut, DelOut, Finished
<1>5. CASE Accept \/ Close
  BY <1>5 DEF Accept, Connected, Close, CloseStarts, CloseEnds
<1>6. ASSUME NEW c \in Conn, HandleIn(c) PROVE Still
  BY <1>6 DEF HandleIn, Register, ReadMessage, Receive, ReadFails, CloseIn, DelIn
<1>7. CASE ContextHandles
  BY <1>7 DEF ContextHandles
<1>8. QED
  BY <1>2, <1>3, <1>4, <1>5, <1>6, <1>7 DEF Next, Working, HandleOut, External

LEMMA SingleStep ==
  ASSUME Single, [Next]_vars
  PROVE  Single' /\ D!Next
<1>1. Routing'
  BY RoutingStep DEF Single
<1>2. NoRepeats' /\ OnePlace' /\ D!Next
  BY OthersMove, NothingMoves, TransmitMoves, TakeMoves, WriteMoves, ReadMoves, PeerClosesMoves
<1>3. QED
  BY <1>1, <1>2 DEF Single

LEMMA SingleInit == Init => Single /\ D!Init
<1>1. SUFFICES ASSUME Init PROVE Single /\ D!Init
  OBVIOUS
<1>2. /\ \A m : m \notin Contents(sent) /\ ~Queued(m)
      /\ \A m \in Msg : ~Held(m)
      /\ \A m : \A c \in Conn : ~OnWire(m, c)
      /\ \A m : \A u \in Uri : ~ReadAt(m, u)
  BY <1>1, MsgAssumption DEF Init, Free, Contents, Queued, Held, OnWire, ReadAt
<1>3. NoRepeats
  BY <1>1 DEF Init, NoRepeats, Distinct
<1>4. Single
  BY <1>1, <1>2, <1>3, RoutingInit DEF Single, OnePlace
<1>5. Contents(sent) = {} /\ pending = {}
  BY <1>2, PendingPlaces
<1>6. D!Init
  BY <1>1, <1>5 DEF D!Init, Init
<1>7. QED
  BY <1>4, <1>6

\* A message has one place.
LEMMA SingleNeverTwice == ASSUME Single PROVE NeverTwice
<1>1. SUFFICES ASSUME NEW m \in Msg, NEW p \in Places(m), NEW q \in Places(m)
               PROVE  p = q
  BY DEF NeverTwice
<1> DEFINE InCh(x) == \E i \in DOMAIN ch : ch[i] = m /\ x = <<"ch", i, 0>>
           InOut(x) == out.msg = m /\ x = <<"out", 0, 0>>
           InWire(x) == \E c \in Conn : \E i \in DOMAIN wire[c] :
                          wire[c][i] = m /\ x = <<"wire", i, c>>
           InRead(x) == \E u \in Uri : \E i \in DOMAIN delivered[u] :
                          delivered[u][i] = m /\ x = <<"read", i, u>>
<1>2. \A x \in Places(m) : InCh(x) \/ InOut(x) \/ InWire(x) \/ InRead(x)
  BY DEF Places
<1>3. \A x : /\ InCh(x) => Queued(m)
             /\ InOut(x) => Held(m)
             /\ InWire(x) => \E c \in Conn : OnWire(m, c)
             /\ InRead(x) => \E u \in Uri : ReadAt(m, u)
  BY DEF Queued, Held, OnWire, ReadAt, Contents
<1>4. InCh(p) /\ InCh(q) => p = q
  BY DEF Single, NoRepeats, Distinct
<1>5. InOut(p) /\ InOut(q) => p = q
  OBVIOUS
<1>6. InWire(p) /\ InWire(q) => p = q
  <2>1. SUFFICES ASSUME NEW c \in Conn, NEW i \in DOMAIN wire[c], wire[c][i] = m,
                        p = <<"wire", i, c>>,
                        NEW d \in Conn, NEW j \in DOMAIN wire[d], wire[d][j] = m,
                        q = <<"wire", j, d>>
                 PROVE  p = q
    OBVIOUS
  <2>2. OnWire(m, c) /\ OnWire(m, d)
    BY <2>1 DEF OnWire, Contents
  <2>3. c = d
    BY <2>2 DEF Single, OnePlace
  <2>4. QED
    BY <2>1, <2>3 DEF Single, NoRepeats, Distinct
<1>7. InRead(p) /\ InRead(q) => p = q
  <2>1. SUFFICES ASSUME NEW u \in Uri, NEW i \in DOMAIN delivered[u], delivered[u][i] = m,
                        p = <<"read", i, u>>,
                        NEW v \in Uri, NEW j \in DOMAIN delivered[v], delivered[v][j] = m,
                        q = <<"read", j, v>>
                 PROVE  p = q
    OBVIOUS
  <2>2. ReadAt(m, u) /\ ReadAt(m, v)
    BY <2>1 DEF ReadAt, Contents
  <2>3. u = v
    BY <2>2 DEF Single, OnePlace
  <2>4. QED
    BY <2>1, <2>3 DEF Single, NoRepeats, Distinct
<1> HIDE DEF InCh, InOut, InWire, InRead
<1>8. (InCh(p) \/ InOut(p) \/ InWire(p) \/ InRead(p)) /\ (InCh(q) \/ InOut(q) \/ InWire(q) \/ InRead(q))
  BY <1>2
<1>9. QED
  BY <1>3, <1>4, <1>5, <1>6, <1>7, <1>8 DEF Single, OnePlace

\* Whatever connections fail and are tried again, with Close at any time, a
\* message is never in two places, so nobody receives it twice.
THEOREM OnceEach == Spec => []NeverTwice
<1>1. Single /\ [Next]_vars => Single'
  BY SingleStep
<1>2. QED
  BY <1>1, SingleInit, SingleNeverTwice, PTL DEF Spec

\* The transport implements Delivery: a message that Transmit has accepted
\* reaches its own destination, once, or it is lost.
THEOREM ImplementsDelivery == Spec => DeliverySpec
<1>1. Single /\ [Next]_vars => Single' /\ [D!Next]_(D!vars)
  BY SingleStep
<1>2. QED
  BY <1>1, SingleInit, PTL DEF Spec, DeliverySpec, D!Spec

-----------------------------------------------------------------------------
(* Messages of one destination arrive in the order of Transmit.            *)

Precedes(s, x, y) == \E i, j \in DOMAIN s : i < j /\ s[i] = x /\ s[j] = y

\* A connection is closed before its entry is deleted.
DeletesClosed ==
  /\ out.pc = "del" => ~local[out.cnx]
  /\ \A c \in Conn : reader[c] = "del" => ~local[c]

\* While every connection is open, the one to a destination with one name is
\* alone, and the table has it.
Alone(d) ==
  /\ \A c, e \in 1 .. nconn : address[c] = Resolve[d] /\ address[e] = Resolve[d] => c = e
  /\ \A c \in 1 .. nconn : address[c] = Resolve[d]
       => conns[d] = c \/ (out.pc = "add" /\ out.cnx = c)
  /\ out.pc = "dial" /\ Dest[out.msg] = d => \A c \in 1 .. nconn : address[c] # Resolve[d]

OneConnection == ~panicked /\ AllOpen => \A d \in Uri : SoleName(d) => Alone(d)

\* The order of the messages that are not on a connection,
QueueInOrder ==
  \A x, y \in Msg : Precedes(ch, x, y) \/ (Held(x) /\ Queued(y)) => Before(x, y)

\* and that of two of which one is on a connection or has been read.
Ahead(x, y) ==
  \/ \E c \in Conn : OnWire(x, c) /\ (Held(y) \/ Queued(y))
  \/ \E c \in Conn : Precedes(wire[c], x, y)
  \/ \E u \in Uri : ReadAt(x, u) /\ (Held(y) \/ Queued(y) \/ \E c \in Conn : OnWire(y, c))
  \/ \E u \in Uri : Precedes(delivered[u], x, y)

TravelInOrder ==
  AllOpen => \A d \in Uri : SoleName(d) =>
    \A x, y \in Msg : Dest[x] = d /\ Dest[y] = d /\ Ahead(x, y) => Before(x, y)

Ordered == Single /\ DeletesClosed /\ OneConnection /\ QueueInOrder /\ TravelInOrder

LEMMA AppendedOrder ==
  ASSUME NEW S, NEW s \in Seq(S), NEW z \in S
  PROVE  /\ \A x, y : Precedes(Append(s, z), x, y)
                        => Precedes(s, x, y) \/ (x \in Contents(s) /\ y = z)
         /\ \A x, y : Precedes(s, x, y) => Precedes(Append(s, z), x, y)
         /\ \A x \in Contents(s) : Precedes(Append(s, z), x, z)
<1> DEFINE t == Append(s, z)
<1>1. /\ DOMAIN t = 1 .. Len(s) + 1 /\ DOMAIN s = 1 .. Len(s) /\ Len(s) \in Nat
      /\ \A i \in 1 .. Len(s) : t[i] = s[i]
      /\ t[Len(s) + 1] = z
  OBVIOUS
<1> HIDE DEF t
<1>2. ASSUME NEW x, NEW y, Precedes(t, x, y)
      PROVE  Precedes(s, x, y) \/ (x \in Contents(s) /\ y = z)
  <2>1. PICK i, j \in DOMAIN t : i < j /\ t[i] = x /\ t[j] = y
    BY <1>2 DEF Precedes
  <2>2. i \in DOMAIN s /\ s[i] = x
    BY <1>1, <2>1
  <2>3. CASE j = Len(s) + 1
    BY <1>1, <2>1, <2>2, <2>3 DEF Contents
  <2>4. CASE j # Len(s) + 1
    <3>1. j \in DOMAIN s /\ s[j] = y
      BY <1>1, <2>1, <2>4
    <3>2. QED
      BY <2>1, <2>2, <3>1 DEF Precedes
  <2>5. QED
    BY <2>3, <2>4
<1>3. ASSUME NEW x, NEW y, Precedes(s, x, y) PROVE Precedes(t, x, y)
  <2>1. PICK i, j \in DOMAIN s : i < j /\ s[i] = x /\ s[j] = y
    BY <1>3 DEF Precedes
  <2>2. i \in DOMAIN t /\ j \in DOMAIN t /\ t[i] = x /\ t[j] = y
    BY <1>1, <2>1
  <2>3. QED
    BY <2>1, <2>2 DEF Precedes
<1>4. ASSUME NEW x \in Contents(s) PROVE Precedes(t, x, z)
  <2>1. PICK i \in DOMAIN s : s[i] = x
    BY DEF Contents
  <2>2. /\ i \in DOMAIN t /\ t[i] = x /\ i < Len(s) + 1
        /\ Len(s) + 1 \in DOMAIN t /\ t[Len(s) + 1] = z
    BY <1>1, <2>1
  <2>3. QED
    BY <2>2 DEF Precedes
<1>5. QED
  BY <1>2, <1>3, <1>4 DEF t

LEMMA TakenOrder ==
  ASSUME NEW S, NEW s \in Seq(S), s # <<>>
  PROVE  /\ \A x, y : Precedes(Tail(s), x, y) => Precedes(s, x, y)
         /\ \A y \in Contents(Tail(s)) : Precedes(s, Head(s), y)
<1> DEFINE t == Tail(s)
<1>1. /\ DOMAIN t = 1 .. Len(s) - 1 /\ DOMAIN s = 1 .. Len(s) /\ Len(s) \in Nat \ {0}
      /\ \A i \in 1 .. Len(s) - 1 : t[i] = s[i + 1]
      /\ Head(s) = s[1]
  OBVIOUS
<1> HIDE DEF t
<1>2. ASSUME NEW x, NEW y, Precedes(t, x, y) PROVE Precedes(s, x, y)
  <2>1. PICK i, j \in DOMAIN t : i < j /\ t[i] = x /\ t[j] = y
    BY <1>2 DEF Precedes
  <2>2. /\ i + 1 \in DOMAIN s /\ s[i + 1] = x
        /\ j + 1 \in DOMAIN s /\ s[j + 1] = y
        /\ i + 1 < j + 1
    BY <1>1, <2>1
  <2>3. QED
    BY <2>2 DEF Precedes
<1>3. ASSUME NEW y \in Contents(t) PROVE Precedes(s, Head(s), y)
  <2>1. PICK i \in DOMAIN t : t[i] = y
    BY DEF Contents
  <2>2. /\ 1 \in DOMAIN s /\ s[1] = Head(s)
        /\ i + 1 \in DOMAIN s /\ s[i + 1] = y
        /\ 1 < i + 1
    BY <1>1, <2>1
  <2>3. QED
    BY <2>2 DEF Precedes
<1>4. QED
  BY <1>2, <1>3 DEF t

\* A step opens no connection again.
LEMMA OnlyCloses ==
  ASSUME Single, [Next]_vars
  PROVE  /\ nconn \in Nat /\ nconn' \in Nat /\ nconn <= nconn' /\ MaxConn \in Nat
         /\ \A c \in 1 .. nconn : (local'[c] => local[c]) /\ (remote'[c] => remote[c])
<1> USE DEF connVars, inVars
<1>1. nconn \in 0 .. MaxConn /\ local \in [Conn -> BOOLEAN] /\ remote \in [Conn -> BOOLEAN]
      /\ MaxConn \in Nat
  BY LengthAssumption DEF Single, Routing, TypeOK, ConnTypeOK
<1>2. CASE UNCHANGED vars
  BY <1>1, <1>2 DEF vars
<1>3. CASE Take \/ TakeClosed \/ Lookup \/ DialFails \/ AddDialed \/ Write \/ WriteFails \/ DelOut
  BY <1>1, <1>3 DEF Take, TakeClosed, Lookup, DialFails, AddDialed, Write, WriteFails, DelOut
<1>4. CASE Dial \/ Accept
  <2>1. /\ nconn' = nconn + 1
        /\ local' = [local EXCEPT ![nconn + 1] = TRUE]
        /\ remote' = [remote EXCEPT ![nconn + 1] = TRUE]
    BY <1>4 DEF Dial, Accept, Connected
  <2>2. \A c \in 1 .. nconn : c \in Conn /\ c # nconn + 1
    BY <1>1 DEF Conn
  <2>3. QED
    BY <1>1, <2>1, <2>2
<1>5. CASE CloseOut
  BY <1>1, <1>5 DEF CloseOut, Conn
<1>6. CASE Close
  BY <1>1, <1>6 DEF Close, CloseStarts, CloseEnds, Conn
<1>7. ASSUME NEW c \in Conn, Register(c) \/ ReadMessage(c) \/ Receive(c) \/ ReadFails(c) \/ DelIn(c)
      PROVE  nconn' = nconn /\ local' = local /\ remote' = remote
  BY <1>7 DEF Register, ReadMessage, Receive, ReadFails, DelIn
<1>8. ASSUME NEW c \in Conn, CloseIn(c)
      PROVE  nconn' = nconn /\ remote' = remote /\ local' = [local EXCEPT ![c] = FALSE]
  BY <1>8 DEF CloseIn
<1>9. ASSUME NEW c \in Conn, PeerReads(c)
      PROVE  nconn' = nconn /\ local' = local /\ remote' = remote
  BY <1>9 DEF PeerReads
<1>10. ASSUME NEW c \in Conn, PeerCloses(c)
       PROVE  nconn' = nconn /\ local' = local /\ remote' = [remote EXCEPT ![c] = FALSE]
  BY <1>10 DEF PeerCloses
<1>11. CASE ContextHandles \/ \E m \in Msg : Transmit(m)
  BY <1>1, <1>11 DEF ContextHandles, Transmit
<1>12. CASE \E c \in Conn : HandleIn(c) \/ PeerReads(c) \/ PeerCloses(c)
  BY <1>1, <1>7, <1>8, <1>9, <1>10, <1>12 DEF HandleIn, Conn
<1>13. QED
  BY <1>2, <1>3, <1>4, <1>5, <1>6, <1>11, <1>12 DEF Next, Working, HandleOut, External

LEMMA StillOpen ==
  ASSUME Single, [Next]_vars, AllOpen'
  PROVE  AllOpen
<1>1. \A c \in 1 .. nconn : c \in 1 .. nconn'
  BY OnlyCloses
<1>2. QED
  BY <1>1, OnlyCloses DEF AllOpen

\* Transmit only adds to what was sent.
LEMMA SentGrows ==
  ASSUME Single, [Next]_vars
  PROVE  /\ \A d : SoleName(d)' => SoleName(d)
         /\ \A x, y : Before(x, y) => Before(x, y)'
<1>1. CASE UNCHANGED sent
  BY <1>1 DEF SoleName, Before, Contents
<1>2. ASSUME NEW z \in Msg, Transmit(z), Running
      PROVE  /\ \A d : SoleName(d)' => SoleName(d)
             /\ \A x, y : Before(x, y) => Before(x, y)'
  <2>1. Accepts(z)
    BY <1>2, TransmitFacts
  <2>2. \A m : m \in Contents(sent) => m \in Contents(sent)'
    BY <2>1 DEF Accepts
  <2>3. \A x, y : Before(x, y) => Before(x, y)'
    <3>1. \A x, y : Precedes(sent, x, y) => Precedes(Append(sent, z), x, y)
      BY <2>1, AppendedOrder DEF Accepts
    <3>2. sent' = Append(sent, z)
      BY <2>1 DEF Accepts
    <3>3. QED
      BY <3>1, <3>2 DEF Before, Precedes
  <2>4. QED
    BY <2>2, <2>3 DEF SoleName
<1>3. UNCHANGED sent \/ \E z \in Msg : Transmit(z) /\ Running
  <2>1. CASE Take \/ Write \/ \E c \in Conn : PeerReads(c) \/ PeerCloses(c)
    BY <2>1 DEF Take, Write, PeerReads, PeerCloses
  <2>2. QED
    BY <2>1, OthersMove DEF Transmit
<1>4. QED
  BY <1>1, <1>2, <1>3

\* A connection stays closed.
LEMMA DeletesClosedStep ==
  ASSUME Single, DeletesClosed, [Next]_vars
  PROVE  DeletesClosed'
<1> USE DEF connVars, inVars
<1>1. /\ out \in [pc : {"take", "lookup", "dial", "add", "write", "close", "del", "ends"},
                  msg : Msg \cup {NoMsg}, nbtry : 0 .. 3, cnx : Conn \cup {NoConn}]
      /\ local \in [Conn -> BOOLEAN]
      /\ DOMAIN reader = Conn
  BY DEF Single, Routing, TypeOK, OutTypeOK, ConnTypeOK
<1>2. \A c \in Conn : c <= nconn /\ ~local[c] => ~local'[c]
  BY OnlyCloses DEF Conn
<1>3. ASSUME out'.pc = "del" PROVE ~local'[out'.cnx]
  <2>1. CASE CloseOut
    <3>1. out.cnx \in Conn /\ out'.cnx = out.cnx
      BY <1>1, <2>1 DEF CloseOut, Single, Routing, TypeOK, OutTypeOK
    <3>2. QED
      BY <1>1, <2>1, <3>1 DEF CloseOut
  <2>2. CASE ~CloseOut
    <3>1. out' = out
      <4>1. CASE HandleOut
        BY <1>1, <1>3, <2>2, <4>1 DEF HandleOut, Take, TakeClosed, Lookup, Dial, DialFails,
             AddDialed, Write, Written, Finished, WriteFails, DelOut
      <4>2. CASE UNCHANGED vars \/ Accept \/ Close \/ External \/ \E m \in Msg : Transmit(m)
        BY <4>2 DEF vars, Accept, Close, CloseStarts, CloseEnds, External, ContextHandles,
             PeerReads, PeerCloses, Transmit
      <4>3. CASE \E c \in Conn : HandleIn(c)
        BY <4>3 DEF HandleIn, Register, ReadMessage, Receive, ReadFails, CloseIn, DelIn
      <4>4. QED
        BY <4>1, <4>2, <4>3 DEF Next, Working
    <3>2. out.cnx \in Conn /\ out.cnx <= nconn /\ ~local[out.cnx]
      BY <1>3, <3>1 DEF Single, Routing, TypeOK, OutTypeOK, Made, DeletesClosed
    <3>3. QED
      BY <1>2, <3>1, <3>2
  <2>3. QED
    BY <2>1, <2>2
<1>4. ASSUME NEW c \in Conn, reader'[c] = "del" PROVE ~local'[c]
  <2>1. CASE CloseIn(c)
    BY <1>1, <2>1 DEF CloseIn
  <2>2. CASE ~CloseIn(c)
    <3>1. reader[c] = "del"
      <4>1. CASE HandleOut
        BY <1>1, <1>4, <4>1 DEF HandleOut, Take, TakeClosed, Lookup, Dial, DialFails,
             AddDialed, Write, WriteFails, CloseOut, DelOut
      <4>2. CASE UNCHANGED vars \/ Accept \/ Close \/ External \/ \E m \in Msg : Transmit(m)
        BY <1>1, <1>4, <4>2 DEF vars, Accept, Close, CloseStarts, CloseEnds, External,
             ContextHandles, PeerReads, PeerCloses, Transmit
      <4>3. CASE \E x \in Conn : HandleIn(x)
        BY <1>1, <1>4, <2>2, <4>3 DEF HandleIn, Register, Loop, ReadMessage, Receive, ReadFails,
             AfterError, CloseIn, DelIn
      <4>4. QED
        BY <4>1, <4>2, <4>3 DEF Next, Working
    <3>2. ~(c > nconn) /\ c \in Int /\ nconn \in Int
      BY <3>1, Numbers DEF Single, Routing, Made
    <3>3. QED
      BY <1>2, <3>1, <3>2 DEF DeletesClosed
  <2>3. QED
    BY <2>1, <2>2
<1>5. QED
  BY <1>3, <1>4 DEF DeletesClosed

\* The connection to d stays alone in a step that makes none and leaves the table.
LEMMA AloneKept ==
  ASSUME NEW d \in Uri, Alone(d), UNCHANGED <<nconn, address, conns>>,
         out.pc = "add" => out'.pc = "add" /\ out'.cnx = out.cnx,
         out'.pc = "dial" => out.pc = "dial" /\ out'.msg = out.msg
  PROVE  Alone(d)'
  BY DEF Alone

\* The message in hand is one that was sent, so it goes to the only name.
LEMMA HeldName ==
  ASSUME Single, NEW d \in Uri, SoleName(d), out.msg \in Msg, Dest[out.msg] \in Uri,
         Resolve[Dest[out.msg]] = Resolve[d]
  PROVE  Dest[out.msg] = d
  BY DEF Single, OnePlace, Held, SoleName

LEMMA AloneHandleOut ==
  ASSUME Ordered, HandleOut, ~panicked', AllOpen, NEW d \in Uri, SoleName(d), Alone(d)
  PROVE  Alone(d)'
<1> USE DEF connVars, inVars
<1>1. /\ out \in [pc : {"take", "lookup", "dial", "add", "write", "close", "del", "ends"},
                  msg : Msg \cup {NoMsg}, nbtry : 0 .. 3, cnx : Conn \cup {NoConn}]
      /\ conns \in [Keys -> Conn \cup {NoConn}]
      /\ d \in Keys /\ Resolve[d] \in Uri
  BY ResolveAssumption DEF Ordered, Single, Routing, TypeOK, OutTypeOK, ConnTypeOK, Keys
<1>2. Single /\ Routing /\ TypeOK
  BY DEF Ordered, Single, Routing
<1>3. CASE Take \/ TakeClosed \/ DialFails \/ Write \/ WriteFails \/ CloseOut
  <2>1. UNCHANGED <<nconn, address, conns>> /\ out.pc # "add"
    BY <1>3 DEF Take, TakeClosed, DialFails, Write, WriteFails, CloseOut
  <2>2. out'.pc # "dial"
    BY <1>1, <1>3 DEF Take, TakeClosed, DialFails, Write, Written, Finished, WriteFails, CloseOut
  <2>3. QED
    BY <2>1, <2>2, AloneKept
<1>4. CASE Lookup
  <2>1. /\ out.pc = "lookup" /\ out'.msg = out.msg
        /\ UNCHANGED <<nconn, address, conns>>
        /\ out'.pc = "dial" => conns[Dest[out.msg]] = NoConn
    BY <1>1, <1>4 DEF Lookup, GetConnection
  <2>2. \A c \in 1 .. nconn : c # NoConn
    BY DEF NoConn
  <2>3. QED
    BY <2>1, <2>2 DEF Alone
<1>5. CASE Dial
  <2>1. out.msg \in Msg /\ Dest[out.msg] \in Uri /\ out.pc = "dial"
    BY <1>2, <1>5 DEF Dial, TypeOK, OutTypeOK
  <2>2. PICK k \in Keys : k = Resolve[Dest[out.msg]]
    BY <2>1, ResolveAssumption DEF Keys
  <2>3. Connected(k)
    BY <1>5, <2>2 DEF Dial
  <2>4. /\ nconn' = nconn + 1 /\ nconn \in Nat
        /\ address'[nconn + 1] = k
        /\ \A c \in 1 .. nconn : c # nconn + 1 /\ address'[c] = address[c]
        /\ \A c \in 1 .. nconn' : c \in 1 .. nconn \/ c = nconn + 1
    <3>1. nconn \in Nat /\ \A c \in 1 .. nconn : c \in Conn /\ c # nconn + 1
      BY <1>2, LengthAssumption DEF TypeOK, ConnTypeOK, Conn
    <3>2. nconn' = nconn + 1 /\ address'[nconn + 1] = k
          /\ \A c \in Conn : c # nconn + 1 => address'[c] = address[c]
      BY <1>2, <2>3, NewConnection
    <3>3. QED
      BY <3>1, <3>2
  <2>5. out'.pc = "add" /\ out'.cnx = nconn + 1 /\ UNCHANGED conns
    BY <1>1, <1>5 DEF Dial
  <2>6. CASE k = Resolve[d]
    <3>1. Dest[out.msg] = d
      BY <1>2, <2>1, <2>2, <2>6, HeldName
    <3>2. \A c \in 1 .. nconn : address[c] # Resolve[d]
      BY <2>1, <3>1 DEF Alone
    <3>3. \A c \in 1 .. nconn' : address'[c] = Resolve[d] => c = nconn + 1
      BY <2>4, <3>2
    <3>4. QED
      BY <2>5, <3>3 DEF Alone
  <2>7. CASE k # Resolve[d]
    <3>1. \A c \in 1 .. nconn' : address'[c] = Resolve[d]
                                   => c \in 1 .. nconn /\ address[c] = Resolve[d]
      BY <2>4, <2>7
    <3>2. \A c \in 1 .. nconn : address[c] = Resolve[d] => conns[d] = c
      BY <2>1 DEF Alone
    <3>3. \A c, e \in 1 .. nconn : address[c] = Resolve[d] /\ address[e] = Resolve[d] => c = e
      BY DEF Alone
    <3>4. QED
      BY <2>5, <3>1, <3>2, <3>3 DEF Alone
  <2>8. QED
    BY <2>6, <2>7
<1>6. CASE AddDialed
  <2>1. /\ out.msg \in Msg /\ Dest[out.msg] \in Uri /\ out.pc = "add"
        /\ out.cnx \in Conn /\ out.cnx <= nconn
        /\ address[out.cnx] = Resolve[Dest[out.msg]]
        /\ nconn \in Int
    BY <1>2, <1>6, Numbers DEF AddDialed, TypeOK, OutTypeOK, Routing, Made, Leads
  <2>2. out.cnx \in 1 .. nconn
    BY <2>1 DEF Conn
  <2>3. /\ UNCHANGED <<nconn, address>> /\ out'.pc = "write"
        /\ conns' = [conns EXCEPT ![Dest[out.msg]] = out.cnx]
    BY <1>1, <1>6 DEF AddDialed, AddConnection
  <2>4. ASSUME NEW c \in 1 .. nconn, address[c] = Resolve[d] PROVE conns'[d] = c
    <3>1. CASE Dest[out.msg] = d
      <4>1. c = out.cnx
        BY <2>1, <2>2, <2>4, <3>1 DEF Alone
      <4>2. QED
        BY <1>1, <2>3, <3>1, <4>1
    <3>2. CASE Dest[out.msg] # d
      <4>1. Resolve[Dest[out.msg]] # Resolve[d]
        BY <1>2, <2>1, <3>2, HeldName
      <4>2. c # out.cnx
        BY <2>1, <2>4, <4>1
      <4>3. conns[d] = c
        BY <2>4, <4>2 DEF Alone
      <4>4. QED
        BY <1>1, <2>3, <3>2, <4>3
    <3>3. QED
      BY <3>1, <3>2
  <2>5. QED
    BY <2>3, <2>4 DEF Alone
<1>7. CASE DelOut
  <2>1. out.pc = "del" /\ out.cnx \in Conn /\ out.cnx <= nconn /\ nconn \in Int
    BY <1>2, <1>7, Numbers DEF DelOut, Routing, Made
  <2>2. out.cnx \in 1 .. nconn /\ ~local[out.cnx]
    BY <2>1 DEF Conn, Ordered, DeletesClosed
  <2>3. QED
    BY <2>2 DEF AllOpen
<1>8. QED
  BY <1>3, <1>4, <1>5, <1>6, <1>7 DEF HandleOut

LEMMA AloneHandleIn ==
  ASSUME Ordered, NEW x \in Conn, HandleIn(x), ~panicked', AllOpen, NEW d \in Uri, Alone(d)
  PROVE  Alone(d)'
<1> USE DEF connVars, inVars
<1>1. Single /\ Routing /\ TypeOK
  BY DEF Ordered, Single, Routing
<1>2. reader[x] # "none" => x \in 1 .. nconn
  BY <1>1, Numbers DEF Routing, Made, Conn
<1>3. CASE ReadMessage(x) \/ Receive(x) \/ ReadFails(x) \/ CloseIn(x)
  <2>1. UNCHANGED <<nconn, address, conns, out>>
    BY <1>3 DEF ReadMessage, Receive, ReadFails, CloseIn
  <2>2. QED
    BY <2>1, AloneKept
<1>4. CASE Register(x)
  <2>1. /\ UNCHANGED <<nconn, address, out>>
        /\ conns' = [conns EXCEPT ![address[x]] = x]
        /\ x \in 1 .. nconn
    BY <1>2, <1>4 DEF Register, AddConnection
  <2>2. ASSUME NEW c \in 1 .. nconn, address[c] = Resolve[d]
        PROVE  conns'[d] = c \/ (out.pc = "add" /\ out.cnx = c)
    <3>1. d \in Keys /\ conns \in [Keys -> Conn \cup {NoConn}]
      BY <1>1 DEF Keys, TypeOK, ConnTypeOK
    <3>2. CASE address[x] = d
      <4>1. address[x] = Resolve[d]
        BY <1>1, <3>2 DEF Routing, Leads
      <4>2. c = x
        BY <2>1, <2>2, <4>1 DEF Alone
      <4>3. QED
        BY <2>1, <3>1, <3>2, <4>2
    <3>3. CASE address[x] # d
      <4>1. conns'[d] = conns[d]
        BY <2>1, <3>1, <3>3
      <4>2. QED
        BY <2>2, <4>1 DEF Alone
    <3>4. QED
      BY <3>2, <3>3
  <2>3. QED
    BY <2>1, <2>2 DEF Alone
<1>5. CASE DelIn(x)
  <2>1. x \in 1 .. nconn /\ ~local[x]
    BY <1>2, <1>5 DEF DelIn, Ordered, DeletesClosed
  <2>2. QED
    BY <2>1 DEF AllOpen
<1>6. QED
  BY <1>3, <1>4, <1>5 DEF HandleIn

LEMMA AloneAccept ==
  ASSUME Ordered, Accept, NEW d \in Uri, Alone(d)
  PROVE  Alone(d)'
<1>1. Routing /\ nconn \in Nat
  BY LengthAssumption DEF Ordered, Single, Routing, TypeOK, ConnTypeOK
<1>2. nconn + 1 \in Conn
  BY <1>1, LengthAssumption DEF Accept, Connected, Conn
<1>3. PICK k \in Keys : k = Accepted(nconn + 1)
  BY <1>2, AcceptedKeys
<1>4. /\ nconn' = nconn + 1 /\ address'[nconn + 1] = k
      /\ \A c \in Conn : c # nconn + 1 => address'[c] = address[c]
  BY <1>1, <1>3, NewConnection DEF Accept
<1>5. k # Resolve[d]
  BY <1>2, <1>3, KeysAssumption, ResolveAssumption
<1>6. \A c \in 1 .. nconn : c \in Conn /\ c # nconn + 1
  BY <1>1, LengthAssumption DEF Conn, Ordered, Single, Routing, TypeOK, ConnTypeOK
<1>7. \A c \in 1 .. nconn' : c \in 1 .. nconn \/ c = nconn + 1
  BY <1>1, <1>4
<1>8. \A c \in 1 .. nconn' : address'[c] = Resolve[d]
                               => c \in 1 .. nconn /\ address[c] = Resolve[d]
  BY <1>4, <1>5, <1>6, <1>7
<1>9. (out.pc = "dial" /\ Dest[out.msg] = d) => \A c \in 1 .. nconn' : address'[c] # Resolve[d]
  BY <1>8 DEF Alone
<1>10. UNCHANGED <<conns, out>>
  BY DEF Accept
<1>11. \A c, e \in 1 .. nconn : address[c] = Resolve[d] /\ address[e] = Resolve[d] => c = e
  BY DEF Alone
<1>12. \A c \in 1 .. nconn : address[c] = Resolve[d]
         => conns[d] = c \/ (out.pc = "add" /\ out.cnx = c)
  BY DEF Alone
<1>13. QED
  BY <1>8, <1>9, <1>10, <1>11, <1>12 DEF Alone

LEMMA AloneCloses ==
  ASSUME Ordered, Close, AllOpen', NEW d \in Uri, Alone(d)
  PROVE  Alone(d)'
<1> USE DEF connVars, inVars
<1>1. CASE CloseStarts
  BY <1>1, AloneKept DEF CloseStarts
<1>2. CASE CloseEnds
  <2>1. /\ UNCHANGED <<nconn, address, out>> /\ d \in Keys
        /\ \A c \in Conn : local'[c] => \A k \in Keys : conns[k] # c
    BY <1>2 DEF CloseEnds, Keys
  <2>2. \A c \in 1 .. nconn : c \in Conn /\ local'[c]
    BY <2>1, LengthAssumption DEF AllOpen, Ordered, Single, Routing, TypeOK, ConnTypeOK, Conn
  <2>3. \A c \in 1 .. nconn : conns[d] # c
    BY <2>1, <2>2
  <2>4. QED
    BY <2>1, <2>3 DEF Alone
<1>3. QED
  BY <1>1, <1>2 DEF Close

\* Connections are made, entered and replaced without a second one to the same
\* name while no connection is closed.
LEMMA OneConnectionStep ==
  ASSUME Ordered, [Next]_vars
  PROVE  OneConnection'
<1>1. SUFFICES ASSUME ~panicked', AllOpen', NEW d \in Uri, SoleName(d)'
               PROVE  Alone(d)'
  BY DEF OneConnection
<1>2. Single /\ AllOpen /\ SoleName(d)
  BY <1>1, StillOpen, SentGrows DEF Ordered
<1>3. ~panicked
  BY <1>1 DEF Next, Working, vars
<1>4. Alone(d)
  BY <1>2, <1>3 DEF Ordered, OneConnection
<1>5. CASE UNCHANGED vars \/ External \/ \E m \in Msg : Transmit(m)
  <2>1. UNCHANGED <<nconn, address, conns, out>>
    BY <1>5 DEF vars, connVars, External, ContextHandles, PeerReads, PeerCloses, Transmit
  <2>2. QED
    BY <1>4, <2>1, AloneKept
<1>6. QED
  BY <1>1, <1>2, <1>4, <1>5, AloneHandleOut, AloneHandleIn, AloneAccept, AloneCloses DEF Next, Working

\* Messages leave the queue in the order they were put into it.
LEMMA QueueInOrderStep ==
  ASSUME Ordered, [Next]_vars
  PROVE  QueueInOrder'
<1> USE DEF connVars, inVars
<1>1. Single /\ QueueInOrder /\ \A x, y : Before(x, y) => Before(x, y)'
  BY SentGrows DEF Ordered
<1>2. ASSUME UNCHANGED ch, out'.msg \in {out.msg, NoMsg} PROVE QueueInOrder'
  <2>1. \A x, y : /\ Precedes(ch', x, y) => Precedes(ch, x, y)
                  /\ Queued(y)' => Queued(y)
    BY <1>2 DEF Precedes, Queued, Contents
  <2>2. \A x \in Msg : Held(x)' => Held(x)
    BY <1>2, MsgAssumption DEF Held
  <2>3. \A x, y : Precedes(ch, x, y)' => Precedes(ch', x, y)
    BY DEF Precedes
  <2>4. QED
    BY <1>1, <2>1, <2>2, <2>3 DEF QueueInOrder
<1>3. ASSUME NEW z \in Msg, Transmit(z), Running PROVE QueueInOrder'
  <2>1. Accepts(z)
    BY <1>1, <1>3, TransmitFacts
  <2>2. \A x, y : Precedes(ch, x, y)' => Precedes(ch, x, y) \/ (Queued(x) /\ y = z)
    <3>1. \A x, y : Precedes(Append(ch, z), x, y)
                      => Precedes(ch, x, y) \/ (x \in Contents(ch) /\ y = z)
      BY <2>1, AppendedOrder DEF Accepts
    <3>2. ch' = Append(ch, z)
      BY <2>1 DEF Accepts
    <3>3. QED
      BY <3>1, <3>2 DEF Precedes, Queued
  <2>3. \A x \in Msg : Queued(x) \/ Held(x) => Before(x, z)'
    <3>1. \A x \in Contents(sent) : Precedes(Append(sent, z), x, z)
      BY <2>1, AppendedOrder DEF Accepts
    <3>2. sent' = Append(sent, z)
      BY <2>1 DEF Accepts
    <3>3. \A x \in Msg : Queued(x) \/ Held(x) => x \in Contents(sent)
      BY <1>1 DEF Single, OnePlace
    <3>4. QED
      BY <3>1, <3>2, <3>3 DEF Before, Precedes
  <2>4. \A x \in Msg : (Held(x)' <=> Held(x)) /\ (Queued(x)' <=> Queued(x) \/ x = z)
    BY <2>1 DEF Accepts
  <2>5. QED
    BY <1>1, <2>2, <2>3, <2>4 DEF QueueInOrder
<1>4. CASE Take
  <2>1. PICK z \in Msg : TakesHead(z)
    BY <1>1, <1>4, TakeFacts
  <2>2. /\ \A x, y : Precedes(Tail(ch), x, y) => Precedes(ch, x, y)
        /\ \A y \in Contents(Tail(ch)) : Precedes(ch, z, y)
    BY <2>1, TakenOrder DEF TakesHead
  <2>3. ch' = Tail(ch)
    BY <2>1 DEF TakesHead
  <2>4. \A x, y : /\ Precedes(ch, x, y)' => Precedes(ch, x, y)
                  /\ Queued(y)' => Precedes(ch, z, y)
    BY <2>2, <2>3, SMTT(30) DEF Precedes, Queued, Contents
  <2>5. \A x \in Msg : Held(x)' => x = z
    BY <2>1 DEF TakesHead
  <2>6. QED
    BY <1>1, <2>4, <2>5 DEF QueueInOrder
<1>5. CASE Write
  BY <1>1, <1>2, <1>5, WriteFacts DEF Writes
<1>6. CASE \E c \in Conn : PeerReads(c) \/ PeerCloses(c)
  BY <1>2, <1>6 DEF PeerReads, PeerCloses
<1>7. CASE \E m \in Msg : Transmit(m) /\ ~Running
  BY <1>2, <1>7 DEF Transmit
<1>8. QED
  BY <1>1, <1>2, <1>3, <1>4, <1>5, <1>6, <1>7, OthersMove

\* Nothing gets ahead when nothing moves.
LEMMA AheadKept ==
  ASSUME UNCHANGED delivered, NEW x \in Msg, NEW y \in Msg, Ahead(x, y)',
         \A m \in Msg : Held(m)' \/ Queued(m)' => Held(m) \/ Queued(m),
         \A c \in Conn : /\ OnWire(x, c)' => OnWire(x, c)
                         /\ OnWire(y, c)' => OnWire(y, c)
                         /\ Precedes(wire[c], x, y)' => Precedes(wire[c], x, y)
  PROVE  Ahead(x, y)
<1>1. \A u \in Uri : /\ ReadAt(x, u)' => ReadAt(x, u)
                     /\ Precedes(delivered[u], x, y)' => Precedes(delivered[u], x, y)
  BY DEF ReadAt, Contents, Precedes
<1>2. QED
  BY <1>1 DEF Ahead

LEMMA AheadTransmit ==
  ASSUME Ordered, NEW z \in Msg, Accepts(z), NEW x \in Msg, NEW y \in Msg, Ahead(x, y)'
  PROVE  Ahead(x, y) \/ Before(x, y)'
<1>1. /\ \A m \in Msg : /\ Held(m)' <=> Held(m)
                        /\ Queued(m)' <=> Queued(m) \/ m = z
                        /\ \A c \in Conn : OnWire(m, c)' <=> OnWire(m, c)
                        /\ \A u \in Uri : ReadAt(m, u)' <=> ReadAt(m, u)
      /\ UNCHANGED <<wire, delivered>>
  BY DEF Accepts
<1>2. /\ \A c \in Conn : Precedes(wire[c], x, y)' => Precedes(wire[c], x, y)
      /\ \A u \in Uri : Precedes(delivered[u], x, y)' => Precedes(delivered[u], x, y)
  BY <1>1 DEF Precedes
<1>3. x \in Contents(sent) => Before(x, z)'
  <2>1. \A m \in Contents(sent) : Precedes(Append(sent, z), m, z)
    BY AppendedOrder DEF Accepts
  <2>2. sent' = Append(sent, z)
    BY DEF Accepts
  <2>3. QED
    BY <2>1, <2>2 DEF Before, Precedes
<1>4. (\E c \in Conn : OnWire(x, c)) \/ (\E u \in Uri : ReadAt(x, u)) => x \in Contents(sent)
  BY DEF Ordered, Single, OnePlace
<1>5. CASE y = z
  BY <1>1, <1>2, <1>3, <1>4, <1>5 DEF Ahead
<1>6. CASE y # z
  BY <1>1, <1>2, <1>6 DEF Ahead
<1>7. QED
  BY <1>5, <1>6

LEMMA AheadWrite ==
  ASSUME Ordered, NEW z \in Msg, NEW k \in Conn, Writes(z, k), ~UNCHANGED wire,
         NEW x \in Msg, NEW y \in Msg, Ahead(x, y)'
  PROVE  Ahead(x, y) \/ Before(x, y)
<1>1. /\ \A m \in Msg : /\ ~Held(m)'
                        /\ Queued(m)' <=> Queued(m)
                        /\ \A c \in Conn : OnWire(m, c)' <=> OnWire(m, c) \/ (m = z /\ c = k)
                        /\ \A u \in Uri : ReadAt(m, u)' <=> ReadAt(m, u)
      /\ wire'[k] = Append(wire[k], z) /\ \A c \in Conn : c # k => wire'[c] = wire[c]
      /\ wire[k] \in Seq(Msg)
      /\ UNCHANGED delivered
      /\ Held(z)
  BY DEF Writes
<1>2. \A u \in Uri : Precedes(delivered[u], x, y)' => Precedes(delivered[u], x, y)
  BY <1>1 DEF Precedes
<1>3. Precedes(Append(wire[k], z), x, y) => Precedes(wire[k], x, y) \/ (OnWire(x, k) /\ y = z)
  BY <1>1, AppendedOrder DEF OnWire
<1>4. ASSUME NEW c \in Conn, Precedes(wire[c], x, y)'
      PROVE  Precedes(wire[c], x, y) \/ (OnWire(x, c) /\ Held(y))
  <2>1. Precedes(wire'[c], x, y)
    BY <1>4 DEF Precedes
  <2>2. CASE c = k
    BY <1>1, <1>3, <2>1, <2>2
  <2>3. CASE c # k
    BY <1>1, <2>1, <2>3
  <2>4. QED
    BY <2>2, <2>3
<1>5. Held(z) /\ Queued(y) => Before(z, y)
  BY DEF Ordered, QueueInOrder
<1>6. CASE \E c \in Conn : OnWire(x, c)' /\ (Held(y)' \/ Queued(y)')
  BY <1>1, <1>5, <1>6 DEF Ahead
<1>7. CASE \E c \in Conn : Precedes(wire[c], x, y)'
  BY <1>4, <1>7 DEF Ahead
<1>8. CASE \E u \in Uri : ReadAt(x, u)' /\ (Held(y)' \/ Queued(y)' \/ \E c \in Conn : OnWire(y, c)')
  BY <1>1, <1>8 DEF Ahead
<1>9. CASE \E u \in Uri : Precedes(delivered[u], x, y)'
  BY <1>2, <1>9 DEF Ahead
<1>10. QED
  BY <1>6, <1>7, <1>8, <1>9 DEF Ahead

LEMMA AheadRead ==
  ASSUME Ordered, NEW z \in Msg, NEW k \in Conn, NEW w \in Uri, Reads(z, k, w),
         NEW d \in Uri, Alone(d),
         NEW x \in Msg, NEW y \in Msg, Dest[x] = d, Dest[y] = d, Ahead(x, y)'
  PROVE  Ahead(x, y)
<1>1. /\ \A m \in Msg : /\ Held(m)' <=> Held(m)
                        /\ Queued(m)' <=> Queued(m)
                        /\ \A c \in Conn : OnWire(m, c)' <=> OnWire(m, c) /\ ~(m = z /\ c = k)
                        /\ \A u \in Uri : ReadAt(m, u)' <=> ReadAt(m, u) \/ (m = z /\ u = w)
      /\ OnWire(z, k)
  BY DEF Reads
<1>2. /\ z = Head(wire[k]) /\ wire[k] # <<>> /\ wire[k] \in Seq(Msg)
      /\ wire'[k] = Tail(wire[k]) /\ \A c \in Conn : c # k => wire'[c] = wire[c]
      /\ delivered \in [Uri -> Seq(Msg)]
      /\ delivered' = [delivered EXCEPT ![w] = Append(delivered[w], z)]
  BY DEF Reads
<1>3. /\ \A a, b : Precedes(Tail(wire[k]), a, b) => Precedes(wire[k], a, b)
      /\ \A b \in Contents(Tail(wire[k])) : Precedes(wire[k], z, b)
  BY <1>2, TakenOrder
<1>4. ASSUME NEW c \in Conn, Precedes(wire[c], x, y)' PROVE Precedes(wire[c], x, y)
  <2>1. Precedes(wire'[c], x, y)
    BY <1>4 DEF Precedes
  <2>2. QED
    BY <1>2, <1>3, <2>1
<1>5. ASSUME NEW u \in Uri, Precedes(delivered[u], x, y)'
      PROVE  Precedes(delivered[u], x, y) \/ (ReadAt(x, u) /\ y = z)
  <2>1. Precedes(delivered'[u], x, y)
    BY <1>5 DEF Precedes
  <2>2. CASE u = w
    <3>1. delivered'[u] = Append(delivered[u], z) /\ delivered[u] \in Seq(Msg)
      BY <1>2, <2>2
    <3>2. QED
      BY <2>1, <3>1, AppendedOrder DEF ReadAt
  <2>3. CASE u # w
    BY <1>2, <2>1, <2>3
  <2>4. QED
    BY <2>2, <2>3
<1>6. ASSUME x = z, NEW c \in Conn, OnWire(y, c)' PROVE Precedes(wire[k], x, y)
  <2>1. OnWire(y, c)
    BY <1>1, <1>6
  <2>2. PICK i \in DOMAIN wire[k] : wire[k][i] = x
    BY <1>1, <1>6 DEF OnWire, Contents
  <2>3. PICK j \in DOMAIN wire[c] : wire[c][j] = y
    BY <2>1 DEF OnWire, Contents
  <2>4. address[k] = Resolve[d] /\ address[c] = Resolve[d]
    BY <2>2, <2>3 DEF Ordered, Single, Routing, NeverMisrouted
  <2>5. wire[k] # <<>> /\ wire[c] # <<>>
    BY <2>2, <2>3
  <2>6. k \in 1 .. nconn /\ c \in 1 .. nconn
    BY <2>5, Numbers DEF Ordered, Single, Routing, Made, Conn
  <2>7. c = k
    BY <2>4, <2>6 DEF Alone
  <2>8. y \in Contents(Tail(wire[k]))
    <3>1. y \in Contents(wire'[k])
      BY <1>6, <2>7 DEF OnWire, Contents
    <3>2. QED
      BY <1>2, <3>1
  <2>9. QED
    BY <1>3, <1>6, <2>8
<1>7. CASE \E c \in Conn : OnWire(x, c)' /\ (Held(y)' \/ Queued(y)')
  BY <1>1, <1>7 DEF Ahead
<1>8. CASE \E c \in Conn : Precedes(wire[c], x, y)'
  BY <1>4, <1>8 DEF Ahead
<1>9. CASE \E u \in Uri : ReadAt(x, u)' /\ (Held(y)' \/ Queued(y)')
  BY <1>1, <1>9 DEF Ahead
<1>10. CASE \E u \in Uri : ReadAt(x, u)' /\ \E c \in Conn : OnWire(y, c)'
  BY <1>1, <1>6, <1>10 DEF Ahead
<1>11. CASE \E u \in Uri : Precedes(delivered[u], x, y)'
  BY <1>1, <1>5, <1>11 DEF Ahead
<1>12. QED
  BY <1>7, <1>8, <1>9, <1>10, <1>11 DEF Ahead

\* A message is never ahead of one that was sent before it.
LEMMA TravelInOrderStep ==
  ASSUME Ordered, [Next]_vars
  PROVE  TravelInOrder'
<1>1. Single /\ \A x, y : Before(x, y) => Before(x, y)'
  BY SentGrows DEF Ordered
<1>2. SUFFICES ASSUME AllOpen', NEW d \in Uri, SoleName(d)',
                      NEW x \in Msg, NEW y \in Msg, Dest[x] = d, Dest[y] = d, Ahead(x, y)'
               PROVE  Before(x, y)'
  BY DEF TravelInOrder
<1>3. AllOpen /\ SoleName(d)
  BY <1>1, <1>2, StillOpen, SentGrows
<1>4. Ahead(x, y) => Before(x, y)
  BY <1>2, <1>3 DEF Ordered, TravelInOrder
<1>5. ASSUME UNCHANGED <<ch, wire, delivered>>, out'.msg \in {out.msg, NoMsg}
      PROVE  Before(x, y)'
  <2>1. \A m \in Msg : Held(m)' \/ Queued(m)' => Held(m) \/ Queued(m)
    BY <1>5, MsgAssumption DEF Held, Queued, Contents
  <2>2. \A c \in Conn : /\ OnWire(x, c)' => OnWire(x, c)
                        /\ OnWire(y, c)' => OnWire(y, c)
                        /\ Precedes(wire[c], x, y)' => Precedes(wire[c], x, y)
    BY <1>5 DEF OnWire, Contents, Precedes
  <2>3. QED
    BY <1>1, <1>2, <1>4, <1>5, <2>1, <2>2, AheadKept
<1>6. ASSUME NEW z \in Msg, Transmit(z) PROVE Before(x, y)'
  <2>1. CASE Running
    BY <1>1, <1>2, <1>4, <1>6, <2>1, TransmitFacts, AheadTransmit
  <2>2. CASE ~Running
    BY <1>5, <1>6, <2>2 DEF Transmit, connVars
  <2>3. QED
    BY <2>1, <2>2
<1>7. CASE Take
  <2>1. PICK z \in Msg : TakesHead(z)
    BY <1>1, <1>7, TakeFacts
  <2>2. \A m \in Msg : /\ Queued(m)' => Queued(m)
                       /\ Held(m)' => m = z
    BY <2>1 DEF TakesHead
  <2>3. Queued(z) /\ UNCHANGED <<wire, delivered>>
    BY <2>1 DEF TakesHead
  <2>4. \A c \in Conn : /\ OnWire(x, c)' => OnWire(x, c)
                        /\ OnWire(y, c)' => OnWire(y, c)
                        /\ Precedes(wire[c], x, y)' => Precedes(wire[c], x, y)
    BY <2>3 DEF OnWire, Contents, Precedes
  <2>5. QED
    BY <1>1, <1>2, <1>4, <2>2, <2>3, <2>4, AheadKept
<1>8. CASE Write
  <2>1. PICK z \in Msg, k \in Conn : Writes(z, k)
    BY <1>1, <1>8, WriteFacts
  <2>2. CASE UNCHANGED wire
    BY <1>5, <2>1, <2>2 DEF Writes
  <2>3. CASE ~UNCHANGED wire
    BY <1>1, <1>2, <1>4, <2>1, <2>3, AheadWrite
  <2>4. QED
    BY <2>2, <2>3
<1>9. ASSUME NEW k \in Conn, PeerReads(k), ~panicked PROVE Before(x, y)'
  <2>1. PICK z \in Msg, w \in Uri : Reads(z, k, w)
    BY <1>1, <1>9, ReadFacts
  <2>2. Alone(d)
    BY <1>3, <1>9 DEF Ordered, OneConnection
  <2>3. QED
    BY <1>1, <1>2, <1>4, <2>1, <2>2, AheadRead
<1>10. ASSUME NEW k \in Conn, PeerCloses(k) PROVE Before(x, y)'
  <2>1. /\ UNCHANGED <<ch, out, delivered>>
        /\ wire'[k] = <<>> /\ \A c \in Conn : c # k => wire'[c] = wire[c]
    BY <1>1, <1>10 DEF PeerCloses, Single, Routing, TypeOK, NetTypeOK
  <2>2. \A m \in Msg : Held(m)' \/ Queued(m)' => Held(m) \/ Queued(m)
    BY <2>1 DEF Held, Queued, Contents
  <2>3. ASSUME NEW c \in Conn
        PROVE  /\ OnWire(x, c)' => OnWire(x, c)
               /\ OnWire(y, c)' => OnWire(y, c)
               /\ Precedes(wire[c], x, y)' => Precedes(wire[c], x, y)
    <3>1. CASE c = k
      BY <2>1, <3>1 DEF OnWire, Contents, Precedes
    <3>2. CASE c # k
      BY <2>1, <3>2 DEF OnWire, Contents, Precedes
    <3>3. QED
      BY <3>1, <3>2
  <2>4. QED
    BY <1>1, <1>2, <1>4, <2>1, <2>2, <2>3, AheadKept
<1>11. (\E c \in Conn : PeerReads(c)) => ~panicked
  <2>1. SUFFICES ASSUME NEW c \in Conn, PeerReads(c), panicked PROVE FALSE
    OBVIOUS
  <2>2. UNCHANGED vars
    BY <2>1 DEF Next, Working
  <2>3. wire'[c] = Tail(wire[c]) /\ wire[c] \in Seq(Msg) /\ wire[c] # <<>>
    BY <1>1, <2>1 DEF PeerReads, Single, Routing, TypeOK, NetTypeOK
  <2>4. Len(Tail(wire[c])) # Len(wire[c])
    BY <2>3
  <2>5. wire'[c] = wire[c]
    BY <2>2 DEF vars, connVars
  <2>6. QED
    BY <2>3, <2>4, <2>5
<1>12. QED
  BY <1>1, <1>5, <1>6, <1>7, <1>8, <1>9, <1>10, <1>11, OthersMove

LEMMA OrderedInit == Init => Ordered
<1>1. SUFFICES ASSUME Init PROVE Ordered
  OBVIOUS
<1>2. /\ \A m : ~Queued(m) /\ \A c \in Conn : ~OnWire(m, c)
      /\ \A m : \A u \in Uri : ~ReadAt(m, u)
      /\ \A m \in Msg : ~Held(m)
  BY <1>1, MsgAssumption DEF Init, Free, Contents, Queued, Held, OnWire, ReadAt
<1>3. /\ \A x, y : ~Precedes(ch, x, y)
      /\ \A x, y : \A c \in Conn : ~Precedes(wire[c], x, y)
      /\ \A x, y : \A u \in Uri : ~Precedes(delivered[u], x, y)
  BY <1>1 DEF Init, Precedes
<1>4. DeletesClosed
  BY <1>1 DEF Init, Free, DeletesClosed
<1>5. OneConnection
  BY <1>1 DEF Init, Free, OneConnection, Alone
<1>6. QueueInOrder /\ TravelInOrder
  BY <1>2, <1>3 DEF QueueInOrder, TravelInOrder, Ahead
<1>7. QED
  BY <1>1, <1>4, <1>5, <1>6, SingleInit DEF Ordered

\* Until a connection fails or is closed, the messages sent to a destination
\* under its one name are read in the order of Transmit, however the connection
\* is dialed, registered a second time by its handleIn and looked up again.
THEOREM ArrivesInOrder == Spec => []InOrder
<1>1. Ordered /\ [Next]_vars => Ordered'
  BY SingleStep, DeletesClosedStep, OneConnectionStep, QueueInOrderStep, TravelInOrderStep DEF Ordered
<1>2. Ordered => InOrder
  <2>1. SUFFICES ASSUME Ordered, AllOpen, NEW u \in Uri,
                        NEW i \in DOMAIN delivered[u], NEW j \in DOMAIN delivered[u],
                        NEW x, x = delivered[u][i], NEW y, y = delivered[u][j],
                        i < j, Dest[x] = Dest[y], Dest[x] \in Uri, SoleName(Dest[x])
                 PROVE  Before(x, y)
    BY DEF InOrder, ReadInOrder
  <2>2. x \in Msg /\ y \in Msg
    BY <2>1 DEF Ordered, Single, Routing, TypeOK, NetTypeOK
  <2>3. Ahead(x, y)
    BY <2>1 DEF Ahead, Precedes
  <2>4. QED
    BY <2>1, <2>2, <2>3 DEF Ordered, TravelInOrder
<1>3. QED
  BY <1>1, <1>2, OrderedInit, PTL DEF Spec

=============================================================================
