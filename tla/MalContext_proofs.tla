------------------------- MODULE MalContext_proofs -------------------------
(***************************************************************************)
(* Theorems about MalContext, for any Contexts, clients, EndPoints,        *)
(* goroutines and sizes of channels: its types; that a call gets its own   *)
(* answer, and a Context drops only what comes too late, unless a          *)
(* ClientContext is made again for an address with calls; and the order in *)
(* which a client handles its messages.                                    *)
(***************************************************************************)
EXTENDS MalContext, SequenceTheorems, TLAPS

-----------------------------------------------------------------------------
(* Stacks and sequences. *)

\* What a sequence of a larger set is.
LEMMA SeqMonotone ==
  ASSUME NEW S, NEW T, S \subseteq T, NEW s \in Seq(S)
  PROVE  s \in Seq(T)
  OBVIOUS

\* The first message of a channel is one of its set, as is the rest.
LEMMA HeadTail ==
  ASSUME NEW S, NEW s \in Seq(S), s # <<>>
  PROVE  Head(s) \in S /\ Tail(s) \in Seq(S) /\ Len(Tail(s)) = Len(s) - 1 /\ Len(s) \in Nat \ {0}
  OBVIOUS

\* What a sequence of a set holds.
LEMMA ItemOf ==
  ASSUME NEW S, NEW s \in Seq(S), NEW i \in 1 .. Len(s)
  PROVE  s[i] \in S
  OBVIOUS

\* A goroutine that is somewhere has a frame.
LEMMA TopOf ==
  ASSUME NEW F, stack \in [Goroutines -> Seq(F)], NEW g \in Goroutines, Top(g).at # "idle"
  PROVE  stack[g] # <<>> /\ Top(g) \in F /\ Below(g) \in Seq(F)
<1>1. stack[g] # <<>>
  BY DEF Top, Idle, Frame
<1>2. stack[g] \in Seq(F)
  OBVIOUS
<1>3. Top(g) = stack[g][Len(stack[g])] /\ Below(g) = SubSeq(stack[g], 1, Len(stack[g]) - 1)
  BY <1>1 DEF Top, Below, Last, Front
<1>4. QED
  BY <1>1, <1>2, <1>3

\* What is below the top of a stack.
LEMMA BelowOf ==
  ASSUME NEW F, stack \in [Goroutines -> Seq(F)], NEW g \in Goroutines
  PROVE  Below(g) \in Seq(F)
<1>1. CASE stack[g] = <<>>
  BY <1>1 DEF Below
<1>2. CASE stack[g] # <<>>
  <2>1. stack[g] \in Seq(F) /\ Below(g) = SubSeq(stack[g], 1, Len(stack[g]) - 1)
    BY <1>2 DEF Below, Front
  <2>2. QED
    BY <1>2, <2>1
<1>3. QED
  BY <1>1, <1>2

\* Another frame, and one above it.
Above(g, e, f) == stack' = [stack EXCEPT ![g] = Append(Append(Below(g), e), f)]

\* A frame more, one less, another one.
LEMMA StackMoves ==
  ASSUME NEW F, stack \in [Goroutines -> Seq(F)], NEW g \in Goroutines
  PROVE  /\ \A f \in F : Push(g, f) => stack' \in [Goroutines -> Seq(F)]
         /\ Pop(g) => stack' \in [Goroutines -> Seq(F)]
         /\ \A f \in F : Become(g, f) => stack' \in [Goroutines -> Seq(F)]
         /\ \A f \in F : stack' = [stack EXCEPT ![g] = <<f>>] => stack' \in [Goroutines -> Seq(F)]
         /\ \A e, f \in F : Above(g, e, f) => stack' \in [Goroutines -> Seq(F)]
<1>1. Below(g) \in Seq(F)
  BY BelowOf
<1>2. ASSUME NEW f \in F PROVE Append(Below(g), f) \in Seq(F) /\ Append(stack[g], f) \in Seq(F) /\ <<f>> \in Seq(F)
  BY <1>1
<1>3. ASSUME NEW e \in F, NEW f \in F PROVE Append(Append(Below(g), e), f) \in Seq(F)
  BY <1>2
<1>4. QED
  BY <1>1, <1>2, <1>3 DEF Push, Pop, Become, Above

-----------------------------------------------------------------------------
(* The invariant: what the messages under way say of the calls they belong to. *)

\* A message carries the transaction id, the type and the operation of its call, a
\* request its sender, and a reply goes to it; only a REQUEST has one.
Genuine ==
  {m \in Message :
     /\ m.n <= Used /\ m.tid = calls[m.n].msg.tid /\ m.type = calls[m.n].msg.type /\ m.op = calls[m.n].msg.op
     /\ m.stage = "init" => m.from = calls[m.n].msg.from
     /\ m.stage = "reply" => m.to = calls[m.n].msg.from /\ m.type = "REQUEST"}
Requests == {m \in Genuine : m.stage = "init"}

\* The entries of the table of operations are those of the calls.
Entries(u) ==
  {x \in Nat \X Calls : x[2] <= Used /\ calls[x[2]].msg.from = u /\ calls[x[2]].msg.tid = x[1]}

\* A reply that was found to be for a call carries the transaction id of that call.
Aimed ==
  {f \in [at : {"found", "deliver", "nil"}, msg : Genuine, rest : {{n} : n \in Calls}] :
     f.msg.stage = "reply" /\ \A n \in f.rest : <<f.msg.tid, n>> \in Entries(f.msg.to)}

CleanFrames == [at : {"clean"}, msg : [n : {0}, u : Clients], rest : SUBSET Calls]
ClosingFrames == [at : {"closing"}, msg : [n : {0}, c : Contexts], rest : SUBSET Uris]

GenuineFrames ==
  [at : {"send", "inbox"}, msg : Genuine, rest : {{}}]
  \cup [at : {"receive", "wait", "nil", "begin", "handle"}, msg : Requests, rest : {{}}]
  \cup Aimed \cup CleanFrames \cup ClosingFrames

Consistent ==
  /\ TypeOK
  /\ channel \in [Contexts -> Seq(Genuine)] /\ inbox \in [EndPoints -> Seq(Genuine)]
  /\ stack \in [Goroutines -> Seq(GenuineFrames)]
  /\ \A u \in Clients : operations[u] \subseteq Entries(u)

\* The frames of a goroutine, by where they are.
LEMMA FrameOf ==
  ASSUME Consistent, NEW g \in Goroutines, Top(g).at # "idle"
  PROVE  /\ stack[g] # <<>>
         /\ Top(g).at \in {"send", "inbox"} => Top(g).msg \in Genuine
         /\ Top(g).at \in {"receive", "wait", "begin", "handle"} => Top(g).msg \in Requests
         /\ Top(g).at \in {"found", "deliver"} => Top(g) \in Aimed
         /\ Top(g).at = "clean" => Top(g) \in CleanFrames
         /\ Top(g).at = "closing" => Top(g) \in ClosingFrames
<1>1. stack[g] # <<>> /\ Top(g) \in GenuineFrames
  BY TopOf DEF Consistent
<1>2. QED
  BY <1>1 DEF GenuineFrames, Aimed, CleanFrames, ClosingFrames

\* Genuine messages and frames are messages and frames.
LEMMA GenuineTyped ==
  Genuine \subseteq Message /\ GenuineFrames \subseteq Frames
  BY DEF Genuine, GenuineFrames, Requests, Aimed, CleanFrames, ClosingFrames, Frames

\* When no call is made the same messages are genuine.
LEMMA GenuineKept ==
  ASSUME UNCHANGED calls
  PROVE  Genuine' = Genuine /\ Requests' = Requests /\ GenuineFrames' = GenuineFrames
         /\ \A u : Entries(u)' = Entries(u)
<1>1. Genuine' = Genuine /\ Requests' = Requests /\ \A u : Entries(u)' = Entries(u)
  BY DEF Genuine, Requests, Entries, Used
<1>2. Aimed' = Aimed
  BY <1>1 DEF Aimed, Entries, Used
<1>3. QED
  BY <1>1, <1>2 DEF GenuineFrames, CleanFrames, ClosingFrames

\* Typing of what is moved: a step without a call that keeps channels, stacks and
\* tables within these sets keeps the invariant.
LEMMA ConsistentStep ==
  ASSUME Consistent, UNCHANGED calls,
         routes' \subseteq Contexts, listeners' \in [Contexts -> SUBSET Uris], closed' \cup lost' \subseteq Calls,
         handlers' \in [Clients -> SUBSET (Ops \X Types)], txcounter' \in [Clients -> Nat],
         answers' \in [Calls -> [how : Ways, of : Nat]],
         channel' \in [Contexts -> Seq(Genuine)], \A c \in Contexts : Len(channel'[c]) <= ChannelSize,
         inbox' \in [EndPoints -> Seq(Genuine)], \A u \in EndPoints : Len(inbox'[u]) <= InboxSize,
         stack' \in [Goroutines -> Seq(GenuineFrames)],
         operations' \in [Clients -> SUBSET (Nat \X Calls)], \A u \in Clients : operations'[u] \subseteq Entries(u)
  PROVE  Consistent'
<1>1. \A s \in Seq(Genuine) : s \in Seq(Message)
  BY GenuineTyped, SeqMonotone
<1>2. \A s \in Seq(GenuineFrames) : s \in Seq(Frames)
  BY GenuineTyped, SeqMonotone
<1>3. channel' \in [Contexts -> Seq(Message)] /\ inbox' \in [EndPoints -> Seq(Message)]
      /\ stack' \in [Goroutines -> Seq(Frames)]
  BY <1>1, <1>2
<1>4. calls' \in Seq([by : Goroutines, msg : Message]) /\ Used' <= MaxCalls
  BY DEF Consistent, TypeOK, Used
<1>5. TypeOK'
  BY <1>3, <1>4 DEF TypeOK
<1>6. QED
  BY <1>5, GenuineKept DEF Consistent

-----------------------------------------------------------------------------
(* Each action keeps the invariant. *)

\* Nothing is under way in the initial state.
LEMMA ConsistentInit == Init => Consistent
<1> SUFFICES ASSUME Init PROVE Consistent
  OBVIOUS
<1>1. /\ channel \in [Contexts -> Seq(Message)] /\ channel \in [Contexts -> Seq(Genuine)]
      /\ \A c \in Contexts : Len(channel[c]) <= ChannelSize
      /\ inbox \in [EndPoints -> Seq(Message)] /\ inbox \in [EndPoints -> Seq(Genuine)]
      /\ \A u \in EndPoints : Len(inbox[u]) <= InboxSize
  BY SizeAssumption DEF Init
<1>2. stack \in [Goroutines -> Seq(Frames)] /\ stack \in [Goroutines -> Seq(GenuineFrames)]
  BY DEF Init
<1>3. calls \in Seq([by : Goroutines, msg : Message]) /\ Used <= MaxCalls
  BY SizeAssumption DEF Init, Used
<1>4. answers \in [Calls -> [how : Ways, of : Nat]]
  BY DEF Init, Waiting, Answer, Ways
<1>5. handlers \in [Clients -> SUBSET (Ops \X Types)]
  BY DEF Init, Types
<1>6. listeners \in [Contexts -> SUBSET Uris]
  BY DEF Init
<1>7. QED
  BY <1>1, <1>2, <1>3, <1>4, <1>5, <1>6 DEF Init, TypeOK, Consistent

\* The message of a call, which is in the list of calls from then on.
LEMMA CallMessage ==
  ASSUME Consistent, NEW g \in Goroutines, NEW u \in Uris, NEW v \in Uris, NEW op \in Ops, NEW type \in Types,
         Call(g, u, v, op, type)
  PROVE  LET m == [n |-> Used + 1, stage |-> "init", type |-> type, from |-> u, to |-> v, op |-> op,
                   tid |-> NextTid(u)]
         IN  /\ m \in Message /\ calls' = Append(calls, [by |-> g, msg |-> m])
             /\ Used \in Nat /\ Used' = Used + 1 /\ Used' <= MaxCalls
             /\ calls' \in Seq([by : Goroutines, msg : Message])
             /\ calls'[Used + 1].msg = m /\ \A i \in 1 .. Used : calls'[i] = calls[i]
             /\ m \in Requests' /\ Genuine \subseteq Genuine' /\ Requests \subseteq Requests'
             /\ GenuineFrames \subseteq GenuineFrames' /\ \A w : Entries(w) \subseteq Entries(w)'
<1> DEFINE m == [n |-> Used + 1, stage |-> "init", type |-> type, from |-> u, to |-> v, op |-> op,
                 tid |-> NextTid(u)]
<1>1. calls \in Seq([by : Goroutines, msg : Message]) /\ Used \in Nat /\ Used = Len(calls)
  BY DEF Consistent, TypeOK, Used
<1>2. Used < MaxCalls /\ MaxCalls \in Nat
  BY SizeAssumption DEF Call
<1>3. NextTid(u) \in Nat
  BY DEF NextTid, Consistent, TypeOK
<1>4. m \in Message
  BY <1>1, <1>2, <1>3 DEF Message, Calls
<1>5. calls' = Append(calls, [by |-> g, msg |-> m])
  BY DEF Call
<1>6. calls' \in Seq([by : Goroutines, msg : Message]) /\ Used' = Used + 1 /\ Used' <= MaxCalls
  <2>1. [by |-> g, msg |-> m] \in [by : Goroutines, msg : Message]
    BY <1>4
  <2>2. QED
    BY <1>1, <1>2, <1>5, <2>1 DEF Used
<1>7. calls'[Used + 1].msg = m /\ \A i \in 1 .. Used : calls'[i] = calls[i]
  BY <1>1, <1>5
<1>8. m \in Requests'
  BY <1>1, <1>4, <1>6, <1>7 DEF Requests, Genuine
<1>9. ASSUME NEW x \in Genuine PROVE x \in Genuine'
  <2>1. x \in Message /\ x.n \in 1 .. Used
    BY <1>1 DEF Genuine, Message, Calls
  <2>2. calls'[x.n] = calls[x.n] /\ x.n <= Used'
    BY <1>1, <1>6, <1>7, <2>1
  <2>3. QED
    BY <2>1, <2>2 DEF Genuine
<1>10. Requests \subseteq Requests'
  BY <1>9 DEF Requests
<1>11. ASSUME NEW w, NEW x \in Entries(w) PROVE x \in Entries(w)'
  <2>1. x[2] \in 1 .. Used
    BY <1>1 DEF Entries, Calls
  <2>2. calls'[x[2]] = calls[x[2]] /\ x[2] <= Used'
    BY <1>1, <1>6, <1>7, <2>1
  <2>3. x \in Nat \X Calls /\ calls[x[2]].msg.from = w /\ calls[x[2]].msg.tid = x[1]
    BY DEF Entries
  <2>4. QED
    BY <2>2, <2>3 DEF Entries
<1>12. ASSUME NEW f \in Aimed PROVE f \in Aimed'
  <2>1. /\ f \in [at : {"found", "deliver", "nil"}, msg : Genuine', rest : {{n} : n \in Calls}]
        /\ f.msg.stage = "reply"
    BY <1>9 DEF Aimed
  <2>2. \A n \in f.rest : <<f.msg.tid, n>> \in Entries(f.msg.to)'
    BY <1>11 DEF Aimed
  <2>3. QED
    BY <2>1, <2>2 DEF Aimed, Entries
<1>13. GenuineFrames \subseteq GenuineFrames'
  BY <1>9, <1>10, <1>12 DEF GenuineFrames, CleanFrames, ClosingFrames
<1>14. QED
  BY <1>1, <1>4, <1>5, <1>6, <1>7, <1>8, <1>9, <1>10, <1>11, <1>13

\* A call: its message, its entry in the table, its frame.
LEMMA ConsistentCall ==
  ASSUME Consistent, NEW g \in Goroutines, NEW u \in Uris, NEW v \in Uris, NEW op \in Ops, NEW type \in Types,
         Call(g, u, v, op, type)
  PROVE  Consistent'
<1> DEFINE m == [n |-> Used + 1, stage |-> "init", type |-> type, from |-> u, to |-> v, op |-> op,
                 tid |-> NextTid(u)]
<1>1. /\ m \in Message /\ calls' = Append(calls, [by |-> g, msg |-> m])
      /\ Used \in Nat /\ Used' = Used + 1 /\ Used' <= MaxCalls
      /\ calls' \in Seq([by : Goroutines, msg : Message])
      /\ calls'[Used + 1].msg = m /\ \A i \in 1 .. Used : calls'[i] = calls[i]
      /\ m \in Requests' /\ Genuine \subseteq Genuine' /\ Requests \subseteq Requests'
      /\ GenuineFrames \subseteq GenuineFrames' /\ \A w : Entries(w) \subseteq Entries(w)'
  BY CallMessage
<1>2. Requests' \subseteq Genuine' /\ GenuineFrames \subseteq GenuineFrames'
  BY <1>1 DEF Requests
<1>3. channel' \in [Contexts -> Seq(Genuine')] /\ inbox' \in [EndPoints -> Seq(Genuine')]
  <2>1. \A s \in Seq(Genuine) : s \in Seq(Genuine')
    BY <1>1, SeqMonotone
  <2>2. QED
    BY <2>1 DEF Call, Consistent
<1>4. stack' \in [Goroutines -> Seq(GenuineFrames')]
  <2>1. \A s \in Seq(GenuineFrames) : s \in Seq(GenuineFrames')
    BY <1>2, SeqMonotone
  <2>2. stack \in [Goroutines -> Seq(GenuineFrames')]
    BY <2>1 DEF Consistent
  <2>3. Frame("send", m) \in GenuineFrames'
    BY <1>1, <1>2 DEF Frame, GenuineFrames
  <2>4. CASE stack' = stack
    BY <2>2, <2>4
  <2>5. CASE Push(g, Frame("send", m))
    BY <2>2, <2>3, <2>5, StackMoves
  <2>6. QED
    BY <2>4, <2>5 DEF Call
<1>5. stack' \in [Goroutines -> Seq(Frames)]
  <2>1. GenuineFrames' \subseteq Frames'
    BY <1>1 DEF Genuine, GenuineFrames, Requests, Aimed, CleanFrames, ClosingFrames, Frames
  <2>2. Frames' = Frames
    BY DEF Frames
  <2>3. \A s \in Seq(GenuineFrames') : s \in Seq(Frames)
    BY <2>1, <2>2, SeqMonotone
  <2>4. QED
    BY <1>4, <2>3
<1>6. /\ operations' \in [Clients -> SUBSET (Nat \X Calls)]
      /\ \A w \in Clients : operations'[w] \subseteq Entries(w)'
  <2>1. \A w : Entries(w) \subseteq Entries(w)'
    BY <1>1
  <2>2. CASE operations' = operations
    BY <2>1, <2>2 DEF Consistent, TypeOK
  <2>3. CASE RegisterOp(u, m)
    <3>0. m.tid \in Nat /\ m.n \in Calls /\ m.from = u /\ m.n = Used'
      BY <1>1 DEF Message
    <3>1. <<m.tid, m.n>> \in Nat \X Calls
      BY <3>0
    <3>2. calls'[m.n].msg = m
      BY <1>1
    <3>3. <<m.tid, m.n>> \in Entries(u)'
      <4>1. \A t, n : /\ <<t, n>> \in Nat \X Calls /\ n <= Used'
                      /\ calls'[n].msg.from = u /\ calls'[n].msg.tid = t
                      => <<t, n>> \in Entries(u)'
        BY DEF Entries
      <4>2. m.n <= Used'
        BY <1>1, <3>0
      <4>3. QED
        BY <3>0, <3>1, <3>2, <4>1, <4>2
    <3>4. QED
      BY <2>1, <2>3, <3>1, <3>3 DEF RegisterOp, Consistent, TypeOK
  <2>4. QED
    BY <2>2, <2>3 DEF Call
<1>7. txcounter' \in [Clients -> Nat]
  BY DEF Call, Consistent, TypeOK
<1>8. answers' \in [Calls -> [how : Ways, of : Nat]]
  <2>1. Answer("error", 0) \in [how : Ways, of : Nat]
    BY DEF Answer, Ways
  <2>2. answers \in [Calls -> [how : Ways, of : Nat]]
    BY DEF Consistent, TypeOK
  <2>3. answers' = answers \/ answers' = [answers EXCEPT ![m.n] = Answer("error", 0)]
    BY DEF Call
  <2>4. QED
    BY <2>1, <2>2, <2>3
<1>9. TypeOK'
  <2>1. channel' \in [Contexts -> Seq(Message)] /\ \A c \in Contexts : Len(channel'[c]) <= ChannelSize
    BY DEF Call, Consistent, TypeOK
  <2>2. inbox' \in [EndPoints -> Seq(Message)] /\ \A w \in EndPoints : Len(inbox'[w]) <= InboxSize
    BY DEF Call, Consistent, TypeOK
  <2>3. routes' \subseteq Contexts /\ listeners' \in [Contexts -> SUBSET Uris]
        /\ handlers' \in [Clients -> SUBSET (Ops \X Types)] /\ closed' \cup lost' \subseteq Calls
    BY DEF Call, Consistent, TypeOK
  <2>4. QED
    BY <1>1, <1>5, <1>6, <1>7, <1>8, <2>1, <2>2, <2>3 DEF TypeOK
<1>10. QED
  BY <1>3, <1>4, <1>6, <1>9 DEF Consistent

\* The sender's message enters the channel; its call waits, or is over.
LEMMA ConsistentSend ==
  ASSUME Consistent, NEW g \in Goroutines, Send(g)
  PROVE  Consistent'
<1> DEFINE m == Top(g).msg
           c == Home[m.to]
<1>1. m \in Genuine /\ m \in Message
  BY FrameOf, GenuineTyped DEF Send, At
<1>2. m.to \in Uris /\ m.n \in Calls /\ c \in Contexts
  BY <1>1, HomeAssumption DEF Message, Uris
<1>3. channel' \in [Contexts -> Seq(Genuine)] /\ \A d \in Contexts : Len(channel'[d]) <= ChannelSize
  <2>1. channel \in [Contexts -> Seq(Genuine)] /\ \A d \in Contexts : Len(channel[d]) <= ChannelSize
    BY DEF Consistent, TypeOK
  <2>2. channel[c] \in Seq(Genuine) /\ Len(channel[c]) < ChannelSize /\ ChannelSize \in Nat
    BY <1>2, <2>1, SizeAssumption DEF Send, HasRoom
  <2>3. Append(channel[c], m) \in Seq(Genuine) /\ Len(Append(channel[c], m)) <= ChannelSize
    BY <1>1, <2>2
  <2>4. channel' = [channel EXCEPT ![c] = Append(@, m)]
    BY DEF Send
  <2>5. QED
    BY <2>1, <2>3, <2>4
<1>4. stack' \in [Goroutines -> Seq(GenuineFrames)]
  <2>1. CASE m.stage = "init" /\ m.type = "REQUEST"
    <3>1. Frame("receive", m) \in GenuineFrames
      BY <1>1, <2>1 DEF Frame, GenuineFrames, Requests
    <3>2. QED
      BY <2>1, <3>1, StackMoves DEF Send, Consistent
  <2>2. CASE ~(m.stage = "init" /\ m.type = "REQUEST")
    BY <2>2, StackMoves DEF Send, Consistent
  <2>3. QED
    BY <2>1, <2>2
<1>5. answers' \in [Calls -> [how : Ways, of : Nat]]
  <2>1. Answer("sent", m.n) \in [how : Ways, of : Nat]
    BY <1>2 DEF Answer, Ways, Calls
  <2>2. answers' = answers \/ answers' = [answers EXCEPT ![m.n] = Answer("sent", m.n)]
    BY DEF Send
  <2>3. QED
    BY <2>1, <2>2 DEF Consistent, TypeOK
<1>6. QED
  BY <1>3, <1>4, <1>5, ConsistentStep DEF Send, tables, Consistent, TypeOK

\* The caller looks for its channel.
LEMMA ConsistentAwait ==
  ASSUME Consistent, NEW g \in Goroutines, Await(g)
  PROVE  Consistent'
<1>1. Top(g).msg \in Requests
  BY FrameOf DEF Await, At
<1>2. Frame("nil", Top(g).msg) \in GenuineFrames /\ Frame("wait", Top(g).msg) \in GenuineFrames
  BY <1>1 DEF Frame, GenuineFrames
<1>3. stack' \in [Goroutines -> Seq(GenuineFrames)]
  BY <1>2, StackMoves DEF Await, Consistent
<1>4. QED
  BY <1>3, ConsistentStep DEF Await, tables, Consistent, TypeOK

\* The steps that only move frames, and take entries away.
LEMMA ConsistentReturn ==
  ASSUME Consistent, NEW g \in Goroutines, Return(g)
  PROVE  Consistent'
<1> DEFINE m == Top(g).msg
<1>1. stack' \in [Goroutines -> Seq(GenuineFrames)]
  BY StackMoves DEF Return, Consistent
<1>2. /\ operations' \in [Clients -> SUBSET (Nat \X Calls)]
      /\ \A u \in Clients : operations'[u] \subseteq Entries(u)
  <2>1. operations' = [operations EXCEPT ![m.from] = @ \ {<<m.tid, m.n>>}]
    BY DEF Return
  <2>2. QED
    BY <2>1 DEF Consistent, TypeOK
<1>3. QED
  BY <1>1, <1>2, ConsistentStep DEF Return, Consistent, TypeOK

\* The Context's goroutine: requests.
LEMMA StartsFrame ==
  ASSUME Consistent, NEW c \in Contexts, NEW m \in Requests, HandleRequest(c, m)
  PROVE  stack' \in [Goroutines -> Seq(GenuineFrames)]
<1>1. Frame("begin", m) \in GenuineFrames
  BY DEF Frame, GenuineFrames
<1>2. c \in Goroutines /\ m.n \in Goroutines
  BY GenuineTyped DEF Goroutines, Requests, Genuine, Message
<1>3. QED
  BY <1>1, <1>2, StackMoves DEF HandleRequest, StartHandler, Drop, Consistent

\* What a Context makes of a reply: the entry that it finds is one of the table.
LEMMA FoundAimed ==
  ASSUME Consistent, NEW m \in Genuine, m.to \in Clients, m.stage = "reply", NEW n \in Found(m)
  PROVE  FoundFrame(m, n) \in Aimed /\ FoundFrame(m, n) \in GenuineFrames /\ n \in 1 .. Used /\ n \in Calls
<1>1. <<m.tid, n>> \in Entries(m.to) /\ n \in 1 .. Used
  BY DEF Found, Consistent
<1>2. n \in Calls
  BY <1>1 DEF Entries
<1>3. FoundFrame(m, n) \in Aimed
  BY <1>1, <1>2 DEF FoundFrame, Aimed
<1>4. QED
  BY <1>1, <1>2, <1>3 DEF GenuineFrames

\* The Context's goroutine: each message goes to its listener or is dropped.
LEMMA ConsistentHandle ==
  ASSUME Consistent, NEW c \in Contexts, Handle(c)
  PROVE  Consistent'
<1> DEFINE m == Head(channel[c])
<1>1. m \in Genuine /\ Tail(channel[c]) \in Seq(Genuine) /\ Len(Tail(channel[c])) <= ChannelSize
  <2>1. channel[c] \in Seq(Genuine) /\ channel[c] # <<>> /\ Len(channel[c]) <= ChannelSize /\ ChannelSize \in Nat
    BY SizeAssumption DEF Handle, Consistent, TypeOK
  <2>2. QED
    BY <2>1, HeadTail
<1>2. channel' \in [Contexts -> Seq(Genuine)] /\ \A d \in Contexts : Len(channel'[d]) <= ChannelSize
  BY <1>1 DEF Handle, Consistent, TypeOK
<1>3. c \in Goroutines /\ m.n \in Calls /\ m \in Message
  BY <1>1, GenuineTyped DEF Goroutines, Message
<1>4. stack' \in [Goroutines -> Seq(GenuineFrames)]
  <2>0. stack \in [Goroutines -> Seq(GenuineFrames)]
    BY DEF Consistent
  <2>1. CASE Drop(m)
    BY <2>0, <2>1 DEF Drop
  <2>2. CASE Push(c, Frame("inbox", m))
    <3>1. Frame("inbox", m) \in GenuineFrames
      BY <1>1 DEF Frame, GenuineFrames
    <3>2. QED
      BY <1>3, <2>0, <2>2, <3>1, StackMoves
  <2>3. CASE m.stage = "init" /\ HandleRequest(c, m)
    <3>1. m \in Requests
      BY <1>1, <2>3 DEF Requests
    <3>2. QED
      BY <2>0, <2>3, <3>1, StartsFrame
  <2>4. CASE m.to \in Clients /\ m.stage = "reply" /\ HandleReply(c, m)
    <3>1. ASSUME NEW n \in Found(m), Push(c, FoundFrame(m, n)) PROVE stack' \in [Goroutines -> Seq(GenuineFrames)]
      <4>1. FoundFrame(m, n) \in GenuineFrames
        BY <1>1, <2>4, FoundAimed
      <4>2. QED
        BY <1>3, <2>0, <3>1, <4>1, StackMoves
    <3>2. QED
      BY <2>1, <2>4, <3>1 DEF HandleReply
  <2>5. QED
    BY <2>1, <2>2, <2>3, <2>4 DEF Handle
<1>5. QED
  BY <1>2, <1>4, ConsistentStep DEF Handle, tables, Consistent, TypeOK

\* The Context's goroutine, at the channel of a call.
LEMMA EvaluateFrame ==
  ASSUME Consistent, NEW c \in Contexts, Evaluate(c)
  PROVE  /\ c \in Goroutines /\ stack[c] # <<>> /\ Top(c) \in Aimed /\ Top(c).at = "found"
         /\ \E f \in GenuineFrames : Become(c, f) /\ f.at \in {"nil", "deliver"} /\ f.msg = Top(c).msg
<1>1. c \in Goroutines /\ Top(c).at = "found"
  BY DEF Goroutines, Evaluate, At
<1>2. Top(c) \in Aimed /\ stack[c] # <<>>
  BY <1>1, FrameOf
<1>3. /\ [Top(c) EXCEPT !.at = "nil"] \in GenuineFrames /\ [Top(c) EXCEPT !.at = "deliver"] \in GenuineFrames
      /\ [Top(c) EXCEPT !.at = "nil"].at = "nil" /\ [Top(c) EXCEPT !.at = "deliver"].at = "deliver"
      /\ [Top(c) EXCEPT !.at = "nil"].msg = Top(c).msg /\ [Top(c) EXCEPT !.at = "deliver"].msg = Top(c).msg
  BY <1>2 DEF Aimed, GenuineFrames
<1>4. QED
  BY <1>1, <1>2, <1>3 DEF Evaluate

LEMMA ConsistentDeliver ==
  ASSUME Consistent, NEW c \in Contexts, Evaluate(c) \/ Deliver(c)
  PROVE  Consistent'
<1>0. c \in Goroutines /\ Top(c) \in Aimed
  <2>1. c \in Goroutines /\ Top(c).at \in {"found", "deliver"}
    BY DEF Goroutines, Evaluate, Deliver, At
  <2>2. QED
    BY <2>1, FrameOf
<1>1. stack' \in [Goroutines -> Seq(GenuineFrames)]
  <2>1. stack \in [Goroutines -> Seq(GenuineFrames)]
    BY DEF Consistent
  <2>2. [Top(c) EXCEPT !.at = "nil"] \in GenuineFrames /\ [Top(c) EXCEPT !.at = "deliver"] \in GenuineFrames
    BY <1>0 DEF Aimed, GenuineFrames
  <2>3. QED
    BY <1>0, <2>1, <2>2, StackMoves DEF Evaluate, Deliver
<1>2. answers' \in [Calls -> [how : Ways, of : Nat]]
  <2>0. answers \in [Calls -> [how : Ways, of : Nat]]
    BY DEF Consistent, TypeOK
  <2>1. Answer("reply", Top(c).msg.n) \in [how : Ways, of : Nat]
    BY <1>0 DEF Aimed, Genuine, Message, Calls, Answer, Ways
  <2>2. UNCHANGED answers \/ \E n : answers' = [answers EXCEPT ![n] = Answer("reply", Top(c).msg.n)]
    BY DEF Evaluate, Deliver
  <2>3. QED
    BY <2>0, <2>1, <2>2
<1>3. QED
  BY <1>1, <1>2, ConsistentStep DEF Evaluate, Deliver, tables, Consistent, TypeOK

\* The Context's goroutine, in an EndPoint.
LEMMA ConsistentOnMessage ==
  ASSUME Consistent, NEW c \in Contexts, OnMessage(c)
  PROVE  Consistent'
<1> DEFINE m == Top(c).msg
<1>0. c \in Goroutines
  BY DEF Goroutines
<1>1. m \in Genuine
  BY <1>0, FrameOf DEF OnMessage, At
<1>2. stack' \in [Goroutines -> Seq(GenuineFrames)]
  BY <1>0, StackMoves DEF OnMessage, Consistent
<1>3. inbox' \in [EndPoints -> Seq(Genuine)] /\ \A u \in EndPoints : Len(inbox'[u]) <= InboxSize
  <2>1. inbox \in [EndPoints -> Seq(Genuine)] /\ \A u \in EndPoints : Len(inbox[u]) <= InboxSize
    BY DEF Consistent, TypeOK
  <2>2. inbox' = [inbox EXCEPT ![m.to] = Append(@, m)] /\ Len(inbox[m.to]) < InboxSize
    BY DEF OnMessage
  <2>3. ASSUME m.to \in EndPoints
        PROVE  Append(inbox[m.to], m) \in Seq(Genuine) /\ Len(Append(inbox[m.to], m)) <= InboxSize
    <3>1. inbox[m.to] \in Seq(Genuine) /\ InboxSize \in Nat
      BY <2>1, <2>3, SizeAssumption
    <3>2. QED
      BY <1>1, <2>2, <3>1
  <2>4. QED
    BY <2>1, <2>2, <2>3
<1>4. QED
  BY <1>2, <1>3, ConsistentStep DEF OnMessage, tables, Consistent, TypeOK

\* A handler begins, replies or returns; an application reads its EndPoint.
LEMMA ConsistentRuns ==
  ASSUME Consistent, NEW g \in Goroutines, Begin(g) \/ Reply(g) \/ Finish(g)
  PROVE  Consistent'
<1> DEFINE m == Top(g).msg
<1>0. Top(g).at \in {"begin", "handle"}
  BY DEF Begin, Reply, Finish, At
<1>1. m \in Requests /\ m \in Message
  BY <1>0, FrameOf, GenuineTyped DEF Requests
<1>2. stack' \in [Goroutines -> Seq(GenuineFrames)]
  <2>1. stack \in [Goroutines -> Seq(GenuineFrames)]
    BY DEF Consistent
  <2>2. Frame("handle", m) \in GenuineFrames
    BY <1>1 DEF Frame, GenuineFrames
  <2>3. Reply(g) => Frame("send", [m EXCEPT !.stage = "reply", !.from = m.to, !.to = m.from]) \in GenuineFrames
    <3> DEFINE r == [m EXCEPT !.stage = "reply", !.from = m.to, !.to = m.from]
    <3>1. /\ r \in Message /\ r.stage = "reply" /\ r.n = m.n /\ r.tid = m.tid /\ r.type = m.type /\ r.to = m.from
          /\ r.op = m.op
      BY <1>1 DEF Message
    <3>2. /\ m.n <= Used /\ m.tid = calls[m.n].msg.tid /\ m.type = calls[m.n].msg.type /\ m.op = calls[m.n].msg.op
          /\ m.from = calls[m.n].msg.from
      BY <1>1 DEF Requests, Genuine
    <3>3. Reply(g) => r \in Genuine
      BY <3>1, <3>2 DEF Genuine, Reply
    <3>4. QED
      BY <3>3 DEF Frame, GenuineFrames, Reply
  <2>4. QED
    BY <2>1, <2>2, <2>3, StackMoves DEF Begin, Reply, Finish
<1>3. QED
  BY <1>2, ConsistentStep DEF Begin, Reply, Finish, tables, Consistent, TypeOK

LEMMA ConsistentRecv ==
  ASSUME Consistent, NEW a \in Apps, Recv(a)
  PROVE  Consistent'
<1> DEFINE u == AppUri[a]
<1>1. u \in EndPoints /\ inbox[u] \in Seq(Genuine) /\ inbox[u] # <<>> /\ Len(inbox[u]) <= InboxSize /\ InboxSize \in Nat
  BY SizeAssumption DEF Recv, Consistent, TypeOK
<1>2. Tail(inbox[u]) \in Seq(Genuine) /\ Len(Tail(inbox[u])) <= InboxSize
  BY <1>1, HeadTail
<1>3. inbox' \in [EndPoints -> Seq(Genuine)] /\ \A w \in EndPoints : Len(inbox'[w]) <= InboxSize
  BY <1>1, <1>2 DEF Recv, Consistent, TypeOK
<1>4. QED
  BY <1>3, ConsistentStep DEF Recv, tables, Consistent, TypeOK

\* Registering: the tables change, and nothing under way.
LEMMA ConsistentRegister ==
  ASSUME Consistent, NEW u \in Clients,
         \/ \E on \in BOOLEAN : SetConcurrency(u, on)
         \/ \E op \in Ops, t \in Types : RegisterHandler(u, op, t)
         \/ \E op \in Ops : DeregisterHandler(u, op)
  PROVE  Consistent'
<1>1. handlers' \in [Clients -> SUBSET (Ops \X Types)]
  <2>0. handlers \in [Clients -> SUBSET (Ops \X Types)]
    BY DEF Consistent, TypeOK
  <2>1. ASSUME NEW on \in BOOLEAN, SetConcurrency(u, on) PROVE handlers' \in [Clients -> SUBSET (Ops \X Types)]
    BY <2>0, <2>1 DEF SetConcurrency
  <2>2. ASSUME NEW op \in Ops, NEW t \in Types, RegisterHandler(u, op, t)
        PROVE  handlers' \in [Clients -> SUBSET (Ops \X Types)]
    <3>1. handlers[u] \cup {<<op, t>>} \in SUBSET (Ops \X Types)
      BY <2>0
    <3>2. handlers' = [handlers EXCEPT ![u] = handlers[u] \cup {<<op, t>>}] \/ handlers' = handlers
      BY <2>2 DEF RegisterHandler
    <3>3. QED
      BY <2>0, <3>1, <3>2
  <2>3. ASSUME NEW op \in Ops, DeregisterHandler(u, op) PROVE handlers' \in [Clients -> SUBSET (Ops \X Types)]
    BY <2>0, <2>3 DEF DeregisterHandler
  <2>4. QED
    BY <2>1, <2>2, <2>3
<1>2. QED
  BY <1>1, ConsistentStep DEF SetConcurrency, RegisterHandler, DeregisterHandler, Consistent, TypeOK

\* The frames of what is being closed.
LEMMA CloseFrames ==
  ASSUME Consistent
  PROVE  /\ \A u \in Clients : CleanFrame(u) \in GenuineFrames /\ CleanFrame(u) \in CleanFrames
         /\ \A c \in Contexts : ClosingFrame(c) \in GenuineFrames /\ ClosingFrame(c) \in ClosingFrames
<1>1. ASSUME NEW u \in Clients PROVE CleanFrame(u) \in CleanFrames
  <2>1. operations[u] \subseteq Nat \X Calls
    BY DEF Consistent, TypeOK
  <2>2. {x[2] : x \in operations[u]} \in SUBSET Calls
    BY <2>1
  <2>3. QED
    BY <2>2 DEF CleanFrame, CleanFrames
<1>2. ASSUME NEW c \in Contexts PROVE ClosingFrame(c) \in ClosingFrames
  BY DEF ClosingFrame, ClosingFrames, Consistent, TypeOK
<1>3. QED
  BY <1>1, <1>2 DEF GenuineFrames

\* Closing: a frame, and then one listener after the other.
LEMMA ConsistentClose ==
  ASSUME Consistent, NEW a \in Apps, CloseClient(a) \/ \E c \in Contexts : CloseContext(a, c)
  PROVE  Consistent'
<1>0. a \in Goroutines
  BY DEF Goroutines
<1>1. stack' \in [Goroutines -> Seq(GenuineFrames)]
  <2>1. stack \in [Goroutines -> Seq(GenuineFrames)]
    BY DEF Consistent
  <2>2. QED
    BY <1>0, <2>1, CloseFrames, StackMoves DEF CloseClient, CloseContext
<1>2. listeners' \in [Contexts -> SUBSET Uris]
  BY DEF CloseClient, CloseContext, Unregister, tables, Consistent, TypeOK
<1>3. QED
  BY <1>1, <1>2, ConsistentStep DEF CloseClient, CloseContext, Unregister, tables, Consistent, TypeOK

\* What a listener of a closing Context leaves on the stack.
LEMMA OnCloseFrames ==
  ASSUME Consistent, NEW a \in Apps, OnClose(a)
  PROVE  /\ a \in Goroutines /\ stack[a] # <<>> /\ Top(a).at = "closing"
         /\ \E e \in ClosingFrames : \/ Become(a, e)
                                     \/ \E f \in CleanFrames : Above(a, e, f)
<1>1. a \in Goroutines /\ Top(a).at = "closing"
  BY DEF Goroutines, OnClose, At
<1>2. Top(a) \in ClosingFrames /\ stack[a] # <<>>
  BY <1>1, FrameOf
<1>3. PICK u : LET shorter == Append(Below(a), [Top(a) EXCEPT !.rest = @ \ {u}])
               IN  stack' = [stack EXCEPT ![a] = IF u \in Clients THEN Append(shorter, CleanFrame(u)) ELSE shorter]
  BY DEF OnClose
<1>4. PICK e : e = [Top(a) EXCEPT !.rest = @ \ {u}]
  OBVIOUS
<1>5. e \in ClosingFrames
  BY <1>2, <1>4 DEF ClosingFrames
<1>6. u \in Clients => Above(a, e, CleanFrame(u))
  BY <1>3, <1>4 DEF Above
<1>7. u \notin Clients => Become(a, e)
  BY <1>3, <1>4 DEF Become
<1>8. QED
  BY <1>1, <1>2, <1>5, <1>6, <1>7, CloseFrames

LEMMA ConsistentOnClose ==
  ASSUME Consistent, NEW a \in Apps, OnClose(a)
  PROVE  Consistent'
<1>1. stack' \in [Goroutines -> Seq(GenuineFrames)]
  <2>1. PICK e \in ClosingFrames : Become(a, e) \/ \E f \in CleanFrames : Above(a, e, f)
    BY OnCloseFrames
  <2>2. e \in GenuineFrames /\ CleanFrames \subseteq GenuineFrames
    BY DEF GenuineFrames
  <2>3. QED
    BY <2>1, <2>2, OnCloseFrames, StackMoves DEF Consistent
<1>2. QED
  BY <1>1, ConsistentStep DEF OnClose, tables, Consistent, TypeOK

\* An operation is closed; then the tables are nil.
LEMMA ConsistentCloseOp ==
  ASSUME Consistent, NEW a \in Apps, CloseOp(a)
  PROVE  Consistent'
<1>0. Top(a).msg.u \in Clients
  <2>1. a \in Goroutines /\ Top(a).at = "clean"
    BY DEF Goroutines, CloseOp, At
  <2>2. Top(a) \in CleanFrames
    BY <2>1, FrameOf
  <2>3. QED
    BY <2>2 DEF CleanFrames
<1>1. PICK u, x : /\ u = Top(a).msg.u /\ x \in operations[u]
                  /\ operations' = [operations EXCEPT ![u] = @ \ {x}] /\ closed' = closed \cup {x[2]}
                  /\ answers' = IF Waits(x[2]) THEN [answers EXCEPT ![x[2]] = Answer("closed", 0)] ELSE answers
  BY DEF CloseOp
<1>2. x[2] \in Calls
  BY <1>0, <1>1 DEF Consistent, TypeOK
<1>3. /\ operations' \in [Clients -> SUBSET (Nat \X Calls)]
      /\ \A w \in Clients : operations'[w] \subseteq Entries(w)
  BY <1>1 DEF Consistent, TypeOK
<1>4. answers' \in [Calls -> [how : Ways, of : Nat]]
  <2>1. Answer("closed", 0) \in [how : Ways, of : Nat]
    BY DEF Answer, Ways
  <2>2. answers' = answers \/ answers' = [answers EXCEPT ![x[2]] = Answer("closed", 0)]
    BY <1>1
  <2>3. QED
    BY <2>1, <2>2 DEF Consistent, TypeOK
<1>5. closed' \cup lost' \subseteq Calls
  BY <1>1, <1>2 DEF CloseOp, Consistent, TypeOK
<1>6. QED
  BY <1>3, <1>4, <1>5, ConsistentStep DEF CloseOp, Consistent, TypeOK

LEMMA ConsistentClean ==
  ASSUME Consistent, NEW a \in Apps, Clean(a)
  PROVE  Consistent'
<1>0. a \in Goroutines /\ Top(a).msg.u \in Clients
  <2>1. a \in Goroutines /\ Top(a).at = "clean"
    BY DEF Goroutines, Clean, At
  <2>2. Top(a) \in CleanFrames
    BY <2>1, FrameOf
  <2>3. QED
    BY <2>1, <2>2 DEF CleanFrames
<1>1. PICK u, ended : /\ u = Top(a).msg.u /\ ended = {x[2] : x \in operations[u]} /\ lost' = lost \cup ended
                      /\ operations' = [operations EXCEPT ![u] = {}] /\ handlers' = [handlers EXCEPT ![u] = {}]
  BY DEF Clean
<1>2. stack' \in [Goroutines -> Seq(GenuineFrames)]
  BY <1>0, StackMoves DEF Clean, Consistent
<1>3. /\ operations' \in [Clients -> SUBSET (Nat \X Calls)] /\ handlers' \in [Clients -> SUBSET (Ops \X Types)]
      /\ \A w \in Clients : operations'[w] \subseteq Entries(w)
  BY <1>1 DEF Consistent, TypeOK
<1>4. closed' \cup lost' \subseteq Calls
  <2>1. operations[u] \subseteq Nat \X Calls
    BY <1>0, <1>1 DEF Consistent, TypeOK
  <2>2. ended \subseteq Calls
    BY <1>1, <2>1
  <2>3. QED
    BY <1>1, <2>2 DEF Clean, Consistent, TypeOK
<1>5. QED
  BY <1>2, <1>3, <1>4, ConsistentStep DEF Clean, Consistent, TypeOK

LEMMA ConsistentClosed ==
  ASSUME Consistent, NEW a \in Apps, Closed(a)
  PROVE  Consistent'
<1>1. stack' \in [Goroutines -> Seq(GenuineFrames)]
  BY StackMoves DEF Closed, Consistent, Goroutines
<1>2. QED
  BY <1>1, ConsistentStep DEF Closed, tables, Consistent, TypeOK

\* The ends and the beginnings of listeners.
LEMMA ConsistentListeners ==
  ASSUME Consistent,
         \/ \E a \in Apps : NewClient(a)
         \/ \E u \in EndPoints : CloseEndPoint(u) \/ NewEndPoint(u)
  PROVE  Consistent'
<1>1. listeners' \in [Contexts -> SUBSET Uris]
  <2>0. listeners \in [Contexts -> SUBSET Uris] /\ \A a \in Apps : AppUri[a] \in Uris
    BY HomeAssumption DEF Consistent, TypeOK, Uris
  <2>1. ASSUME NEW v \in Uris, NEW c
        PROVE  /\ [listeners EXCEPT ![c] = @ \cup {v}] \in [Contexts -> SUBSET Uris]
               /\ [listeners EXCEPT ![c] = @ \ {v}] \in [Contexts -> SUBSET Uris]
    BY <2>0
  <2>2. ASSUME NEW a \in Apps, NewClient(a) PROVE listeners' \in [Contexts -> SUBSET Uris]
    BY <2>0, <2>1, <2>2 DEF NewClient
  <2>3. ASSUME NEW u \in EndPoints, CloseEndPoint(u) PROVE listeners' \in [Contexts -> SUBSET Uris]
    BY <2>1, <2>3 DEF CloseEndPoint, Unregister, Uris
  <2>4. ASSUME NEW u \in EndPoints, NewEndPoint(u) PROVE listeners' \in [Contexts -> SUBSET Uris]
    BY <2>1, <2>4 DEF NewEndPoint, Uris
  <2>5. QED
    BY <2>2, <2>3, <2>4
<1>2. inbox' \in [EndPoints -> Seq(Genuine)] /\ \A w \in EndPoints : Len(inbox'[w]) <= InboxSize
  <2>0. inbox \in [EndPoints -> Seq(Genuine)] /\ \A w \in EndPoints : Len(inbox[w]) <= InboxSize
    BY DEF Consistent, TypeOK
  <2>1. ASSUME NEW u \in EndPoints, NewEndPoint(u)
        PROVE  inbox' \in [EndPoints -> Seq(Genuine)] /\ \A w \in EndPoints : Len(inbox'[w]) <= InboxSize
    <3>1. <<>> \in Seq(Genuine) /\ Len(<<>>) <= InboxSize
      BY SizeAssumption
    <3>2. inbox' = [inbox EXCEPT ![u] = <<>>]
      BY <2>1 DEF NewEndPoint
    <3>3. QED
      BY <2>0, <3>1, <3>2
  <2>2. CASE UNCHANGED inbox
    BY <2>0, <2>2
  <2>3. QED
    BY <2>1, <2>2 DEF NewClient, CloseEndPoint, Unregister
<1>3. txcounter' \in [Clients -> Nat]
  BY DEF NewClient, CloseEndPoint, NewEndPoint, Unregister, Consistent, TypeOK
<1>4. QED
  BY <1>1, <1>2, <1>3, ConsistentStep DEF NewClient, CloseEndPoint, NewEndPoint, Unregister, Consistent, TypeOK

\* Every step.
LEMMA ConsistentNext == Consistent /\ [Next]_vars => Consistent'
<1> SUFFICES ASSUME Consistent, [Next]_vars PROVE Consistent'
  OBVIOUS
<1>1. CASE CallSome
  BY <1>1, ConsistentCall DEF CallSome
<1>2. CASE Administer
  BY <1>2, ConsistentRegister, ConsistentListeners, ConsistentClose DEF Administer
<1>3. CASE Progress
  <2>1. ASSUME NEW g \in Goroutines, Run(g) PROVE Consistent'
    BY <2>1, ConsistentSend, ConsistentAwait, ConsistentReturn, ConsistentRuns DEF Run
  <2>2. ASSUME NEW c \in Contexts, Loop(c) PROVE Consistent'
    BY <2>2, ConsistentHandle, ConsistentOnMessage, ConsistentDeliver DEF Loop
  <2>3. ASSUME NEW a \in Apps, Recv(a) \/ Closing(a) PROVE Consistent'
    BY <2>3, ConsistentRecv, ConsistentOnClose, ConsistentCloseOp, ConsistentClean, ConsistentClosed DEF Closing
  <2>4. QED
    BY <1>3, <2>1, <2>2, <2>3 DEF Progress
<1>4. CASE UNCHANGED vars
  BY <1>4, ConsistentStep DEF vars, tables, Consistent, TypeOK
<1>5. QED
  BY <1>1, <1>2, <1>3, <1>4 DEF Next

\* What goes round is messages of calls that were made, and the channels hold no
\* more than their sizes, for any number of Contexts, clients and goroutines.
THEOREM TypeCorrect == Spec => []TypeOK
<1>1. Spec => []Consistent
  BY ConsistentInit, ConsistentNext, PTL DEF Spec
<1>2. Consistent => TypeOK
  BY DEF Consistent
<1>3. QED
  BY <1>1, <1>2, PTL

-----------------------------------------------------------------------------
(* Answers.  A new ClientContext starts its transaction ids again, and an old  *)
(* answer can then be taken for a new one: the run context_renewed shows it.   *)
(* Without one, the counter tells the calls of a client apart.                 *)

\* A client has counted its calls, and their transaction ids differ.
Counted == \A i \in 1 .. Used : calls[i].msg.from \in Clients => calls[i].msg.tid <= txcounter[calls[i].msg.from]
Apart ==
  \A i, j \in 1 .. Used :
    /\ calls[i].msg.from \in Clients /\ calls[i].msg.from = calls[j].msg.from
    /\ calls[i].msg.tid = calls[j].msg.tid
    => i = j

\* Only a client asks.
Asking(n) == n <= Used /\ calls[n].msg.type = "REQUEST"
ClientsAsk == \A n \in 1 .. Used : Asking(n) => calls[n].msg.from \in Clients

Matched == Consistent /\ Counted /\ Apart /\ ClientsAsk /\ RepliesMatch

\* A ClientContext is made again only for an address that has made no call.
FirstUse == \A a \in Apps : NewClient(a) => \A i \in 1 .. Used : calls[i].msg.from # AppUri[a]

\* A call gets a transaction id above those of its client.
LEMMA ApartCall ==
  ASSUME Matched, NEW g \in Goroutines, NEW u \in Uris, NEW v \in Uris, NEW op \in Ops, NEW type \in Types,
         Call(g, u, v, op, type)
  PROVE  Counted' /\ Apart' /\ ClientsAsk'
<1> DEFINE m == [n |-> Used + 1, stage |-> "init", type |-> type, from |-> u, to |-> v, op |-> op,
                 tid |-> NextTid(u)]
<1>1. /\ Used \in Nat /\ Used' = Used + 1 /\ calls'[Used + 1].msg = m
      /\ \A i \in 1 .. Used : calls'[i] = calls[i]
  BY CallMessage DEF Matched
<1>2. txcounter \in [Clients -> Nat]
  BY DEF Matched, Consistent, TypeOK
<1>3. \A w \in Clients : txcounter[w] \in Nat /\ txcounter'[w] = IF w = u THEN txcounter[w] + 1 ELSE txcounter[w]
  BY <1>2 DEF Call
<1>4. u \in Clients => m.tid = txcounter[u] + 1
  BY DEF NextTid
<1>5. \A i \in 1 .. Used' : i \in 1 .. Used \/ i = Used + 1
  BY <1>1
<1>6. \A i \in 1 .. Used : calls[i].msg.from \in Clients =>
                            calls[i].msg.tid \in Nat /\ calls[i].msg.tid <= txcounter[calls[i].msg.from]
  <2>1. calls \in Seq([by : Goroutines, msg : Message])
    BY DEF Matched, Consistent, TypeOK
  <2>2. ASSUME NEW i \in 1 .. Used PROVE calls[i].msg.tid \in Nat
    <3>1. calls[i] \in [by : Goroutines, msg : Message]
      BY <2>1, ItemOf DEF Used
    <3>2. calls[i].msg \in Message
      BY <3>1
    <3>3. QED
      BY <3>2 DEF Message
  <2>3. QED
    BY <2>2 DEF Matched, Counted
<1>7. Counted'
  <2>1. ASSUME NEW i \in 1 .. Used', calls'[i].msg.from \in Clients
        PROVE  calls'[i].msg.tid <= txcounter'[calls'[i].msg.from]
    <3>1. CASE i \in 1 .. Used
      <4>1. calls'[i] = calls[i]
        BY <1>1, <3>1
      <4>2. calls[i].msg.tid \in Nat /\ calls[i].msg.tid <= txcounter[calls[i].msg.from]
        BY <1>6, <2>1, <3>1, <4>1
      <4>3. QED
        BY <1>3, <2>1, <4>1, <4>2
    <3>2. CASE i = Used + 1
      <4>1. calls'[i].msg.from = u /\ calls'[i].msg.tid = m.tid
        BY <1>1, <3>2
      <4>2. QED
        BY <1>3, <1>4, <2>1, <4>1
    <3>3. QED
      BY <1>5, <3>1, <3>2
  <2>2. QED
    BY <2>1 DEF Counted
<1>8. Apart'
  <2>1. ASSUME NEW i \in 1 .. Used, calls[i].msg.from = u, u \in Clients
        PROVE  calls[i].msg.tid # m.tid
    BY <1>3, <1>4, <1>6, <2>1
  <2>2. ASSUME NEW i \in 1 .. Used', NEW j \in 1 .. Used', calls'[i].msg.from \in Clients,
               calls'[i].msg.from = calls'[j].msg.from, calls'[i].msg.tid = calls'[j].msg.tid
        PROVE  i = j
    <3>0. /\ \A k \in 1 .. Used : calls'[k] = calls[k]
          /\ \A k : k = Used + 1 => calls'[k].msg.from = u /\ calls'[k].msg.tid = m.tid
      BY <1>1
    <3>1. CASE i \in 1 .. Used /\ j \in 1 .. Used
      BY <2>2, <3>0, <3>1 DEF Matched, Apart
    <3>2. CASE i \in 1 .. Used /\ j = Used + 1
      BY <2>1, <2>2, <3>0, <3>2
    <3>3. CASE i = Used + 1 /\ j \in 1 .. Used
      BY <2>1, <2>2, <3>0, <3>3
    <3>4. QED
      BY <1>5, <2>2, <3>1, <3>2, <3>3
  <2>3. QED
    BY <2>2 DEF Apart
<1>9. ClientsAsk'
  <2>1. ASSUME NEW i \in 1 .. Used', Asking(i)' PROVE calls'[i].msg.from \in Clients
    <3>1. CASE i \in 1 .. Used
      <4>1. calls'[i] = calls[i] /\ i <= Used
        BY <1>1, <3>1
      <4>2. Asking(i)
        BY <2>1, <4>1 DEF Asking
      <4>3. QED
        BY <3>1, <4>1, <4>2 DEF Matched, ClientsAsk
    <3>2. CASE i = Used + 1
      <4>1. calls'[i].msg = m /\ type = "REQUEST"
        BY <1>1, <2>1, <3>2 DEF Asking
      <4>2. u \in Clients
        BY <4>1 DEF Call, Uris
      <4>3. QED
        BY <4>1, <4>2
    <3>3. QED
      BY <1>5, <3>1, <3>2
  <2>2. QED
    BY <2>1 DEF ClientsAsk, Asking
<1>10. QED
  BY <1>7, <1>8, <1>9

\* A call that ends without a reply has its own answer.
LEMMA OtherAnswers ==
  ASSUME RepliesMatch, answers \in [Calls -> [how : Ways, of : Nat]],
         \A n \in Calls : answers'[n] = answers[n] \/ answers'[n].how # "reply" \/ answers'[n].of = n
  PROVE  RepliesMatch'
  BY DEF RepliesMatch

\* A reply that was found to be for a call is the reply to that call.
LEMMA AimedOf ==
  ASSUME Consistent, Apart, NEW f \in Aimed, f.msg.to \in Clients, NEW n \in f.rest
  PROVE  n = f.msg.n /\ n \in 1 .. Used /\ n \in Calls
<1>1. PICK x, u : u = f.msg.to /\ x = <<f.msg.tid, n>> /\ x \in Entries(u)
  BY DEF Aimed
<1>2. x[1] = f.msg.tid /\ x[2] = n
  BY <1>1
<1>3. n \in Calls /\ n <= Used /\ calls[n].msg.from = f.msg.to /\ calls[n].msg.tid = f.msg.tid
  BY <1>1, <1>2 DEF Entries
<1>4. /\ f.msg.n \in Calls /\ f.msg.n <= Used
      /\ calls[f.msg.n].msg.from = f.msg.to /\ calls[f.msg.n].msg.tid = f.msg.tid
  BY DEF Aimed, Genuine, Message
<1>5. n \in 1 .. Used /\ f.msg.n \in 1 .. Used
  <2>1. Used \in Nat /\ MaxCalls \in Nat
    BY SizeAssumption DEF Used, Consistent, TypeOK
  <2>2. QED
    BY <1>3, <1>4, <2>1 DEF Calls
<1>6. QED
  BY <1>3, <1>4, <1>5 DEF Apart

\* The reply that the Context hands over is given to its own call only.
LEMMA DeliverOwn ==
  ASSUME Matched, NEW c \in Contexts, Deliver(c), NEW n, n = Top(c).msg.n
  PROVE  /\ n \in 1 .. Used /\ n \in Calls /\ Asking(n)
         /\ answers' = [answers EXCEPT ![n] = Answer("reply", n)]
<1>1. Top(c) \in Aimed
  BY FrameOf DEF Deliver, At, Goroutines, Matched
<1>2. n \in Calls /\ Asking(n) /\ Top(c).msg.to = calls[n].msg.from
  BY <1>1 DEF Aimed, Genuine, Message, Asking
<1>3. n \in 1 .. Used
  <2>1. Used \in Nat /\ MaxCalls \in Nat
    BY SizeAssumption DEF Used, Matched, Consistent, TypeOK
  <2>2. QED
    BY <1>2, <2>1 DEF Calls, Asking
<1>4. Top(c).msg.to \in Clients
  BY <1>2, <1>3 DEF Matched, ClientsAsk
<1>5. PICK k \in Top(c).rest : answers' = [answers EXCEPT ![k] = Answer("reply", n)]
  BY DEF Deliver
<1>6. k = n
  BY <1>1, <1>4, AimedOf DEF Matched
<1>7. QED
  BY <1>2, <1>3, <1>5, <1>6

LEMMA ReplyMatches ==
  ASSUME Matched, NEW c \in Contexts, Deliver(c)
  PROVE  RepliesMatch'
<1>0. RepliesMatch /\ answers \in [Calls -> [how : Ways, of : Nat]]
  BY DEF Matched, Consistent, TypeOK
<1>1. PICK n : answers' = [answers EXCEPT ![n] = Answer("reply", n)]
  BY DeliverOwn
<1>2. \A k \in Calls : answers'[k] = answers[k] \/ answers'[k].of = k
  BY <1>0, <1>1 DEF Answer
<1>3. QED
  BY <1>0, <1>2, OtherAnswers

\* The other ends of a call.
LEMMA EndsMatch ==
  ASSUME Matched,
         \/ \E g \in Goroutines, u, v \in Uris, op \in Ops, type \in Types : Call(g, u, v, op, type)
         \/ \E g \in Goroutines : Send(g)
         \/ \E a \in Apps : CloseOp(a)
  PROVE  RepliesMatch'
<1>0. RepliesMatch /\ answers \in [Calls -> [how : Ways, of : Nat]]
  BY DEF Matched, Consistent, TypeOK
<1>1. \A n : Answer("error", n).how # "reply" /\ Answer("sent", n).how # "reply" /\ Answer("closed", n).how # "reply"
  BY DEF Answer
<1>2. ASSUME NEW g \in Goroutines, NEW u \in Uris, NEW v \in Uris, NEW op \in Ops, NEW type \in Types,
             Call(g, u, v, op, type)
      PROVE  RepliesMatch'
  <2>1. answers' = answers \/ answers' = [answers EXCEPT ![Used + 1] = Answer("error", 0)]
    BY <1>2 DEF Call
  <2>2. QED
    BY <1>0, <1>1, <2>1, OtherAnswers
<1>3. ASSUME NEW g \in Goroutines, Send(g) PROVE RepliesMatch'
  <2>1. answers' = answers \/ answers' = [answers EXCEPT ![Top(g).msg.n] = Answer("sent", Top(g).msg.n)]
    BY <1>3 DEF Send
  <2>2. QED
    BY <1>0, <1>1, <2>1, OtherAnswers
<1>4. ASSUME NEW a \in Apps, CloseOp(a) PROVE RepliesMatch'
  <2>1. UNCHANGED answers \/ \E n : answers' = [answers EXCEPT ![n] = Answer("closed", 0)]
    BY <1>4 DEF CloseOp
  <2>2. QED
    BY <1>0, <1>1, <2>1, OtherAnswers
<1>5. QED
  BY <1>2, <1>3, <1>4

\* A step that makes no call and no client keeps the calls apart.
LEMMA ApartKept ==
  ASSUME Matched, UNCHANGED <<calls, txcounter>>
  PROVE  Counted' /\ Apart' /\ ClientsAsk'
  BY DEF Matched, Counted, Apart, ClientsAsk, Asking, Used

\* A step that ends no call keeps the answers.
LEMMA MatchesKept ==
  ASSUME Matched, UNCHANGED answers
  PROVE  RepliesMatch'
  BY DEF Matched, RepliesMatch

LEMMA MatchedNext ==
  Matched /\ [Next]_vars /\ [FirstUse]_vars => Matched'
<1> SUFFICES ASSUME Matched, [Next]_vars, [FirstUse]_vars PROVE Matched'
  OBVIOUS
<1>0. Consistent'
  BY ConsistentNext DEF Matched
<1>1. CASE CallSome
  BY <1>0, <1>1, ApartCall, EndsMatch DEF CallSome, Matched
<1>2. CASE UNCHANGED vars
  BY <1>0, <1>2, ApartKept, MatchesKept DEF vars, tables, Matched
<1>3. CASE Administer /\ FirstUse
  <2>1. UNCHANGED <<calls, answers>>
    BY <1>3 DEF Administer, SetConcurrency, RegisterHandler, DeregisterHandler, CloseEndPoint, NewEndPoint,
                CloseClient, CloseContext, NewClient, Unregister, tables
  <2>2. RepliesMatch' /\ Apart' /\ ClientsAsk'
    BY <2>1 DEF Matched, RepliesMatch, Apart, ClientsAsk, Asking, Used
  <2>3. Counted'
    <3>1. ASSUME NEW a \in Apps, NewClient(a) PROVE Counted'
      <4>1. /\ txcounter' = [txcounter EXCEPT ![AppUri[a]] = 0]
            /\ \A i \in 1 .. Used : calls[i].msg.from # AppUri[a]
        BY <1>3, <3>1 DEF FirstUse, NewClient
      <4>2. txcounter \in [Clients -> Nat]
        BY DEF Matched, Consistent, TypeOK
      <4>3. \A i \in 1 .. Used : calls[i].msg.from \in Clients => txcounter'[calls[i].msg.from] = txcounter[calls[i].msg.from]
        BY <4>1, <4>2
      <4>4. QED
        BY <2>1, <4>3 DEF Matched, Counted, Used
    <3>2. CASE UNCHANGED txcounter
      BY <2>1, <3>2 DEF Matched, Counted, Used
    <3>3. QED
      BY <1>3, <3>1, <3>2 DEF Administer, SetConcurrency, RegisterHandler, DeregisterHandler, CloseEndPoint,
                              NewEndPoint, CloseClient, CloseContext, Unregister, tables
  <2>4. QED
    BY <1>0, <2>2, <2>3 DEF Matched
<1>4. CASE Progress
  <2>1. UNCHANGED <<calls, txcounter>>
    BY <1>4 DEF Progress, Run, Loop, Closing, Send, Await, Return, Begin, Reply, Finish, Handle, OnMessage, Evaluate,
                Deliver, Recv, OnClose, CloseOp, Clean, Closed, tables
  <2>2. CASE UNCHANGED answers
    BY <1>0, <2>1, <2>2, ApartKept, MatchesKept DEF Matched
  <2>3. CASE answers' # answers
    <3>1. \/ \E g \in Goroutines : Send(g)
          \/ \E c \in Contexts : Deliver(c)
          \/ \E a \in Apps : CloseOp(a)
      BY <1>4, <2>3 DEF Progress, Run, Loop, Closing, Await, Return, Begin, Reply, Finish, Handle, OnMessage, Evaluate,
                        Recv, OnClose, Clean, Closed
    <3>2. QED
      BY <1>0, <2>1, <3>1, ApartKept, ReplyMatches, EndsMatch DEF Matched
  <2>4. QED
    BY <2>2, <2>3
<1>5. QED
  BY <1>1, <1>2, <1>3, <1>4 DEF Next

\* A call gets the answer to its own request, whatever the messages, handlers and
\* closings around it, unless a ClientContext is made again for an address that has
\* made calls.
THEOREM AnswersMatch == Spec /\ [][FirstUse]_vars => []RepliesMatch
<1>1. Init => Matched
  <2>1. Init => Consistent
    BY ConsistentInit
  <2>2. Init => Counted /\ Apart /\ ClientsAsk /\ RepliesMatch
    BY DEF Init, Used, Counted, Apart, ClientsAsk, RepliesMatch, Waiting, Answer
  <2>3. QED
    BY <2>1, <2>2 DEF Matched
<1>2. Matched => RepliesMatch
  BY DEF Matched
<1>3. QED
  BY <1>1, <1>2, MatchedNext, PTL DEF Spec

-----------------------------------------------------------------------------
(* The goroutines: what a step does to the top of a stack, and to the rest.   *)

\* A goroutine that makes a call, or waits, is in a handler of each call below; one
\* that cleans a client may close its Context.
Under == {"handle", "closing"}
Nested(s) == \A i \in 1 .. Len(s) - 1 : s[i].at \in Under
Deep == \A g \in Goroutines : Nested(stack[g])

TopOf_(s) == IF s = <<>> THEN Idle ELSE Last(s)
Resting(f) == f.at \in {"idle"} \cup Under

\* The stacks that the steps make of a stack.
LEMMA NestedMoves ==
  ASSUME NEW F, NEW s \in Seq(F), NEW f \in F, Nested(s)
  PROVE  /\ TopOf_(Append(s, f)) = f /\ TopOf_(<<f>>) = f /\ Nested(<<f>>)
         /\ s = <<>> \/ TopOf_(s).at \in Under => Nested(Append(s, f))
         /\ s # <<>> => /\ Nested(Front(s)) /\ Resting(TopOf_(Front(s)))
                        /\ Nested(Append(Front(s), f)) /\ TopOf_(Append(Front(s), f)) = f
<1>1. /\ Append(s, f) # <<>> /\ Append(s, f)[Len(s) + 1] = f /\ Len(Append(s, f)) = Len(s) + 1 /\ Len(s) \in Nat
      /\ \A i \in 1 .. Len(s) : Append(s, f)[i] = s[i]
  OBVIOUS
<1>2. TopOf_(Append(s, f)) = f
  BY <1>1 DEF TopOf_, Last
<1>3. TopOf_(<<f>>) = f /\ Nested(<<f>>)
  BY DEF TopOf_, Last, Nested
<1>4. s = <<>> \/ TopOf_(s).at \in Under => Nested(Append(s, f))
  <2>1. ASSUME s = <<>> \/ TopOf_(s).at \in Under, NEW i \in 1 .. Len(s) PROVE s[i].at \in Under
    <3>1. s # <<>>
      OBVIOUS
    <3>2. s[Len(s)].at \in Under
      BY <2>1, <3>1 DEF TopOf_, Last
    <3>3. i \in 1 .. Len(s) - 1 \/ i = Len(s)
      BY <1>1
    <3>4. QED
      BY <3>2, <3>3 DEF Nested
  <2>2. QED
    BY <1>1, <2>1 DEF Nested
<1>5. ASSUME s # <<>>
      PROVE  /\ Nested(Front(s)) /\ Resting(TopOf_(Front(s)))
             /\ Nested(Append(Front(s), f)) /\ TopOf_(Append(Front(s), f)) = f
  <2>1. /\ Front(s) \in Seq(F) /\ Len(Front(s)) = Len(s) - 1 /\ Len(s) \in Nat \ {0}
        /\ \A i \in 1 .. Len(s) - 1 : Front(s)[i] = s[i]
    <3>1. Len(s) \in Nat \ {0} /\ Front(s) = SubSeq(s, 1, Len(s) - 1)
      BY <1>5 DEF Front
    <3>2. Len(s) - 1 \in Int /\ 1 \in Int /\ \A i \in 1 .. Len(s) - 1 : s[i] \in F
      BY <3>1
    <3>3. /\ SubSeq(s, 1, Len(s) - 1) \in Seq(F)
          /\ Len(SubSeq(s, 1, Len(s) - 1)) = IF 1 <= Len(s) - 1 THEN (Len(s) - 1) - 1 + 1 ELSE 0
          /\ \A i \in 1 .. (Len(s) - 1) - 1 + 1 : SubSeq(s, 1, Len(s) - 1)[i] = s[1 + i - 1]
      BY <3>2, SubSeqProperties
    <3>4. \A l \in Nat \ {0} : /\ (IF 1 <= l - 1 THEN (l - 1) - 1 + 1 ELSE 0) = l - 1 /\ (l - 1) - 1 + 1 = l - 1
                               /\ \A i \in 1 .. l - 1 : 1 + i - 1 = i
      OBVIOUS
    <3>5. Len(SubSeq(s, 1, Len(s) - 1)) = Len(s) - 1
      BY <3>1, <3>3, <3>4
    <3>6. \A i \in 1 .. Len(s) - 1 : SubSeq(s, 1, Len(s) - 1)[i] = s[i]
      BY <3>1, <3>3, <3>4
    <3>7. QED
      BY <3>1, <3>3, <3>5, <3>6, Zenon
  <2>2. \A i \in 1 .. Len(Front(s)) : Front(s)[i].at \in Under
    BY <2>1 DEF Nested
  <2>3. Nested(Front(s))
    BY <2>1, <2>2 DEF Nested
  <2>4. Resting(TopOf_(Front(s)))
    <3>1. CASE Front(s) = <<>>
      BY <3>1 DEF TopOf_, Resting, Idle, Frame
    <3>2. CASE Front(s) # <<>>
      <4>1. Len(Front(s)) \in 1 .. Len(Front(s))
        BY <2>1, <3>2
      <4>2. QED
        BY <2>2, <3>2, <4>1 DEF TopOf_, Last, Resting
    <3>3. QED
      BY <3>1, <3>2
  <2>5. Append(Front(s), f) # <<>> /\ Append(Front(s), f)[Len(Front(s)) + 1] = f /\ Len(Append(Front(s), f)) = Len(Front(s)) + 1
        /\ \A i \in 1 .. Len(Front(s)) : Append(Front(s), f)[i] = Front(s)[i]
    <3>1. \A x \in Seq(F) : /\ Append(x, f) # <<>> /\ Append(x, f)[Len(x) + 1] = f /\ Len(Append(x, f)) = Len(x) + 1
                            /\ \A i \in 1 .. Len(x) : Append(x, f)[i] = x[i]
      OBVIOUS
    <3>2. QED
      BY <2>1, <3>1
  <2>6. QED
    BY <2>1, <2>2, <2>3, <2>4, <2>5 DEF Nested, TopOf_, Last
<1>6. QED
  BY <1>2, <1>3, <1>4, <1>5
\* A step changes the stack of one goroutine.
Tops(g, f) == \A h \in Goroutines : Top(h)' = IF h = g THEN f ELSE Top(h)
LEMMA TopMoves ==
  ASSUME NEW F, stack \in [Goroutines -> Seq(F)], Deep, NEW g \in Goroutines, NEW f \in F
  PROVE  /\ Push(g, f) /\ (stack[g] = <<>> \/ Top(g).at \in Under) => Deep' /\ Tops(g, f)
         /\ Become(g, f) /\ stack[g] # <<>> => Deep' /\ Tops(g, f)
         /\ Pop(g) /\ stack[g] # <<>> =>
              Deep' /\ Resting(Top(g)') /\ \A h \in Goroutines : h # g => Top(h)' = Top(h)
         /\ stack' = [stack EXCEPT ![g] = <<f>>] => Deep' /\ Tops(g, f)
         /\ \A e \in F : Above(g, e, f) /\ e.at \in Under /\ stack[g] # <<>> => Deep' /\ Tops(g, f)
<1> DEFINE s == stack[g]
<1>1. s \in Seq(F) /\ Nested(s)
  BY DEF Deep
<1>2. /\ TopOf_(Append(s, f)) = f /\ TopOf_(<<f>>) = f /\ Nested(<<f>>)
      /\ s = <<>> \/ TopOf_(s).at \in Under => Nested(Append(s, f))
      /\ s # <<>> => /\ Nested(Front(s)) /\ Resting(TopOf_(Front(s)))
                     /\ Nested(Append(Front(s), f)) /\ TopOf_(Append(Front(s), f)) = f
  BY <1>1, NestedMoves
<1>3. \A h \in Goroutines : Top(h) = TopOf_(stack[h]) /\ Top(h)' = TopOf_(stack'[h])
  BY DEF Top, TopOf_
<1>4. s # <<>> => Below(g) = Front(s)
  BY DEF Below
<1>5. ASSUME NEW t, stack' = [stack EXCEPT ![g] = t], Nested(t)
      PROVE  Deep' /\ Top(g)' = TopOf_(t) /\ \A h \in Goroutines : h # g => Top(h)' = Top(h)
  <2>1. stack'[g] = t /\ \A h \in Goroutines : h # g => stack'[h] = stack[h]
    BY <1>5
  <2>2. ASSUME NEW h \in Goroutines PROVE Nested(stack'[h])
    <3>1. CASE h = g
      BY <1>5, <2>1, <3>1
    <3>2. CASE h # g
      BY <2>1, <3>2 DEF Deep
    <3>3. QED
      BY <3>1, <3>2
  <2>3. Deep'
    BY <2>2 DEF Deep, Nested
  <2>4. QED
    BY <1>3, <2>1, <2>3
<1>6. ASSUME NEW e \in F, s # <<>> PROVE Nested(Append(Front(s), e)) /\ TopOf_(Append(Front(s), e)) = e
  BY <1>1, <1>6, NestedMoves
<1> HIDE DEF s
<1>7. ASSUME Push(g, f), stack[g] = <<>> \/ Top(g).at \in Under PROVE Deep' /\ Tops(g, f)
  <2>1. stack' = [stack EXCEPT ![g] = Append(s, f)] /\ Nested(Append(s, f))
    BY <1>2, <1>3, <1>7 DEF Push, s
  <2>2. QED
    BY <1>2, <1>5, <2>1 DEF Tops
<1>8. ASSUME Become(g, f), stack[g] # <<>> PROVE Deep' /\ Tops(g, f)
  <2>1. stack' = [stack EXCEPT ![g] = Append(Front(s), f)] /\ Nested(Append(Front(s), f))
    BY <1>2, <1>4, <1>8 DEF Become, s
  <2>2. QED
    BY <1>2, <1>5, <1>8, <2>1 DEF Tops, s
<1>9. ASSUME Pop(g), stack[g] # <<>>
      PROVE  Deep' /\ Resting(Top(g)') /\ \A h \in Goroutines : h # g => Top(h)' = Top(h)
  <2>1. stack' = [stack EXCEPT ![g] = Front(s)] /\ Nested(Front(s)) /\ Resting(TopOf_(Front(s)))
    BY <1>2, <1>4, <1>9 DEF Pop, s
  <2>2. Deep' /\ Top(g)' = TopOf_(Front(s)) /\ \A h \in Goroutines : h # g => Top(h)' = Top(h)
    BY <1>5, <2>1
  <2>3. QED
    BY <2>1, <2>2 DEF Resting
<1>10. ASSUME stack' = [stack EXCEPT ![g] = <<f>>] PROVE Deep' /\ Tops(g, f)
  BY <1>2, <1>5, <1>10 DEF Tops
<1>11. ASSUME NEW e \in F, Above(g, e, f), e.at \in Under, stack[g] # <<>> PROVE Deep' /\ Tops(g, f)
  <2>1. PICK b, t : b = Below(g) /\ t = Append(b, e)
    OBVIOUS
  <2>2. b \in Seq(F)
    BY <2>1, BelowOf
  <2>3. t \in Seq(F)
    BY <2>1, <2>2
  <2>4. Nested(t) /\ TopOf_(t) = e
    <3>1. s # <<>> /\ b = Front(s)
      BY <1>4, <1>11, <2>1 DEF s
    <3>2. QED
      BY <1>6, <2>1, <3>1
  <2>5. Nested(Append(t, f)) /\ TopOf_(Append(t, f)) = f
    BY <1>11, <2>3, <2>4, NestedMoves
  <2>6. stack' = [stack EXCEPT ![g] = Append(t, f)]
    BY <1>11, <2>1 DEF Above
  <2>7. QED
    BY <1>5, <2>5, <2>6 DEF Tops
<1>12. QED
  BY <1>7, <1>8, <1>9, <1>10, <1>11

\* A frame that stands for a request on its way, and a step that makes none.
Fresh(f) == f.at = "begin" \/ (f.at = "send" /\ f.msg.stage = "init")
Calm == Deep' /\ \A h \in Goroutines : Top(h)' = Top(h) \/ ~Fresh(Top(h)')

LEMMA CalmMoves ==
  ASSUME NEW F, stack \in [Goroutines -> Seq(F)], Deep, NEW g \in Goroutines
  PROVE  /\ \A f \in F : Push(g, f) /\ (stack[g] = <<>> \/ Top(g).at \in Under) /\ ~Fresh(f) => Calm
         /\ \A e, f \in F : Above(g, e, f) /\ e.at \in Under /\ stack[g] # <<>> /\ ~Fresh(f) => Calm
         /\ \A f \in F : Become(g, f) /\ stack[g] # <<>> /\ ~Fresh(f) => Calm
         /\ Pop(g) /\ stack[g] # <<>> => Calm
         /\ UNCHANGED stack => Calm
<1>1. ASSUME NEW f \in F, Tops(g, f), ~Fresh(f), Deep' PROVE Calm
  <2>1. ASSUME NEW h \in Goroutines PROVE Top(h)' = Top(h) \/ ~Fresh(Top(h)')
    <3>1. Top(h)' = IF h = g THEN f ELSE Top(h)
      BY <1>1 DEF Tops
    <3>2. QED
      BY <1>1, <3>1 DEF Fresh
  <2>2. QED
    BY <1>1, <2>1 DEF Calm
<1>2. ASSUME NEW f \in F, Push(g, f), stack[g] = <<>> \/ Top(g).at \in Under, ~Fresh(f) PROVE Calm
  BY <1>1, <1>2, TopMoves
<1>3. ASSUME NEW e \in F, NEW f \in F, Above(g, e, f), e.at \in Under, stack[g] # <<>>, ~Fresh(f) PROVE Calm
  BY <1>1, <1>3, TopMoves
<1>4. ASSUME NEW f \in F, Become(g, f), stack[g] # <<>>, ~Fresh(f) PROVE Calm
  BY <1>1, <1>4, TopMoves
<1>5. ASSUME Pop(g), stack[g] # <<>> PROVE Calm
  <2>1. Deep' /\ Resting(Top(g)') /\ \A h \in Goroutines : h # g => Top(h)' = Top(h)
    <3>1. PICK f \in F : TRUE
      BY <1>5, HeadTail
    <3>2. QED
      BY <1>5, TopMoves
  <2>2. QED
    BY <2>1 DEF Calm, Resting, Under, Fresh
<1>6. ASSUME UNCHANGED stack PROVE Calm
  BY <1>6 DEF Calm, Deep, Top
<1>7. QED
  BY <1>2, <1>3, <1>4, <1>5, <1>6

\* The steps that bring no request on its way.
Quiet ==
  \/ \E g \in Goroutines : Await(g) \/ Return(g) \/ Reply(g) \/ Finish(g)
  \/ \E c \in Contexts : OnMessage(c) \/ Evaluate(c) \/ Deliver(c)
  \/ \E a \in Apps : Recv(a) \/ Closing(a)
  \/ Administer

LEMMA FramesTyped ==
  ASSUME Consistent
  PROVE  stack \in [Goroutines -> Seq(GenuineFrames)] /\ \A f \in GenuineFrames : f.at # "idle"
  BY DEF Consistent, GenuineFrames, Aimed, CleanFrames, ClosingFrames

LEMMA QuietRuns ==
  ASSUME Consistent, Deep, NEW g \in Goroutines, Await(g) \/ Return(g) \/ Reply(g) \/ Finish(g)
  PROVE  Calm
<1>1. stack \in [Goroutines -> Seq(GenuineFrames)] /\ Top(g).at \in {"receive", "wait", "handle"} /\ stack[g] # <<>>
  BY FrameOf DEF Consistent, Await, Return, Reply, Finish, At
<1>2. Pop(g) => Calm
  BY <1>1, CalmMoves
<1>3. CASE Reply(g)
  <2> DEFINE m == Top(g).msg
             r == [m EXCEPT !.stage = "reply", !.from = m.to, !.to = m.from]
  <2>1. m \in Requests
    BY <1>3, FrameOf DEF Reply, At
  <2>2. r \in Genuine /\ r.stage = "reply"
    BY <1>3, <2>1 DEF Requests, Genuine, Message, Reply
  <2>3. Frame("send", r) \in GenuineFrames /\ ~Fresh(Frame("send", r))
    BY <2>2 DEF Frame, GenuineFrames, Fresh
  <2>4. Become(g, Frame("send", r)) => Calm
    BY <1>1, <2>3, CalmMoves
  <2>5. QED
    BY <1>2, <1>3, <2>4 DEF Reply
<1>4. CASE Await(g)
  <2>1. PICK f \in GenuineFrames : Become(g, f) /\ ~Fresh(f)
    <3>1. Top(g).msg \in Requests
      BY <1>4, FrameOf DEF Await, At
    <3>2. /\ Frame("nil", Top(g).msg) \in GenuineFrames /\ ~Fresh(Frame("nil", Top(g).msg))
          /\ Frame("wait", Top(g).msg) \in GenuineFrames /\ ~Fresh(Frame("wait", Top(g).msg))
      BY <3>1 DEF Frame, GenuineFrames, Fresh
    <3>3. QED
      BY <1>4, <3>2 DEF Await
  <2>2. QED
    BY <1>1, <2>1, CalmMoves
<1>5. QED
  BY <1>2, <1>3, <1>4 DEF Return, Finish

LEMMA QuietCalm ==
  ASSUME Consistent, Deep, Quiet
  PROVE  Calm
<1>1. stack \in [Goroutines -> Seq(GenuineFrames)]
  BY DEF Consistent
<1>2. CASE \E g \in Goroutines : Await(g) \/ Return(g) \/ Reply(g) \/ Finish(g)
  BY <1>2, QuietRuns
<1>3. ASSUME NEW c \in Contexts, OnMessage(c) \/ Evaluate(c) \/ Deliver(c) PROVE Calm
  <2>1. c \in Goroutines /\ stack[c] # <<>>
    BY <1>3, FrameOf DEF OnMessage, Evaluate, Deliver, At, Goroutines
  <2>2. Pop(c) => Calm
    BY <1>1, <2>1, CalmMoves
  <2>3. CASE Evaluate(c)
    <3>1. PICK f \in GenuineFrames : Become(c, f) /\ ~Fresh(f)
      BY <2>1, <2>3, EvaluateFrame DEF Fresh
    <3>2. QED
      BY <1>1, <2>1, <3>1, CalmMoves
  <2>4. QED
    BY <1>3, <2>2, <2>3 DEF OnMessage, Deliver
<1>4. ASSUME NEW g \in Goroutines, UNCHANGED stack PROVE Calm
  BY <1>1, <1>4, CalmMoves
<1>5. ASSUME NEW a \in Apps, Recv(a) \/ Closing(a) PROVE Calm
  <2>1. a \in Goroutines
    BY DEF Goroutines
  <2>2. CASE Recv(a)
    BY <1>4, <2>1, <2>2 DEF Recv
  <2>3. CASE Closed(a)
    <3>1. stack[a] # <<>> /\ Pop(a)
      BY <2>1, <2>3, FrameOf DEF Closed, At
    <3>2. QED
      BY <1>1, <2>1, <3>1, CalmMoves
  <2>4. CASE Clean(a)
    <3>1. stack[a] # <<>> /\ Pop(a)
      BY <2>1, <2>4, FrameOf DEF Clean, At
    <3>2. QED
      BY <1>1, <2>1, <3>1, CalmMoves
  <2>5. CASE CloseOp(a)
    BY <1>4, <2>1, <2>5 DEF CloseOp
  <2>6. CASE OnClose(a)
    <3>1. PICK e \in ClosingFrames : Become(a, e) \/ \E f \in CleanFrames : Above(a, e, f)
      BY <2>6, OnCloseFrames
    <3>2. /\ e \in GenuineFrames /\ ~Fresh(e) /\ e.at \in Under
          /\ \A f \in CleanFrames : f \in GenuineFrames /\ ~Fresh(f)
      BY DEF GenuineFrames, ClosingFrames, CleanFrames, Fresh, Under
    <3>3. stack[a] # <<>>
      BY <2>6, OnCloseFrames
    <3>4. Become(a, e) => Calm
      BY <1>1, <2>1, <3>2, <3>3, CalmMoves
    <3>5. ASSUME NEW f \in CleanFrames, Above(a, e, f) PROVE Calm
      BY <1>1, <2>1, <3>2, <3>3, <3>5, CalmMoves
    <3>6. QED
      BY <3>1, <3>4, <3>5
  <2>7. QED
    BY <1>5, <2>2, <2>3, <2>4, <2>5, <2>6 DEF Closing
<1>6. ASSUME NEW a \in Apps, CloseClient(a) \/ \E c \in Contexts : CloseContext(a, c) PROVE Calm
  <2>1. a \in Goroutines /\ stack[a] = <<>>
    BY <1>6 DEF Goroutines, CloseClient, CloseContext
  <2>2. \E f \in GenuineFrames : Push(a, f) /\ ~Fresh(f)
    <3>1. /\ \A f \in CleanFrames : f \in GenuineFrames /\ ~Fresh(f)
          /\ \A f \in ClosingFrames : f \in GenuineFrames /\ ~Fresh(f)
      BY DEF GenuineFrames, ClosingFrames, CleanFrames, Fresh
    <3>2. QED
      BY <1>6, <3>1, CloseFrames DEF CloseClient, CloseContext
  <2>3. QED
    BY <1>1, <2>1, <2>2, CalmMoves
<1>7. CASE Administer
  <2>1. \/ UNCHANGED stack
        \/ \E a \in Apps : CloseClient(a) \/ \E c \in Contexts : CloseContext(a, c)
    BY <1>7 DEF Administer, SetConcurrency, RegisterHandler, DeregisterHandler, CloseEndPoint, NewEndPoint, NewClient
  <2>2. UNCHANGED stack => Calm
    BY DEF Calm, Deep, Top
  <2>3. QED
    BY <1>6, <2>1, <2>2
<1>8. QED
  BY <1>2, <1>3, <1>5, <1>7 DEF Quiet
-----------------------------------------------------------------------------
(* The order of the messages of one goroutine to one client: those that it    *)
(* has handled, the one that its Context has begun, those in the channel, and  *)
(* the ones that are being sent.                                               *)

Before(x, y) == calls[x].by = calls[y].by => x < y
For(u, m) == m.stage = "init" /\ m.to = u

Begun(u) == {Top(g).msg.n : g \in {h \in Goroutines : Top(h).at = "begin" /\ Top(h).msg.to = u}}
Leaving(u) == {Top(g).msg.n : g \in {h \in Goroutines : Top(h).at = "send" /\ For(u, Top(h).msg)}}
Arriving(u, s) == {s[i].n : i \in {j \in 1 .. Len(s) : For(u, s[j])}}

Queued(u, s) == \A i, j \in 1 .. Len(s) : i < j /\ For(u, s[i]) /\ For(u, s[j]) => Before(s[i].n, s[j].n)

Line(u, h, s) ==
  /\ \A i, j \in 1 .. Len(h) : i < j => Before(h[i], h[j])
  /\ \A i \in 1 .. Len(h) : \A y \in Begun(u) \cup Arriving(u, s) \cup Leaving(u) : Before(h[i], y)
  /\ \A x \in Begun(u) : \A y \in Arriving(u, s) \cup Leaving(u) : Before(x, y)
  /\ Queued(u, s)
  /\ \A x \in Arriving(u, s) : \A y \in Leaving(u) : Before(x, y)
Lines == \A u \in Clients \ concurrency : Line(u, handled[u], channel[Home[u]])

\* A message is in the channel of the Context of its receiver.
AtHome == \A c \in Contexts : \A i \in 1 .. Len(channel[c]) : Home[channel[c][i].to] = c

\* Who sends a request made the call, and a client without concurrency handles in
\* the goroutine of its Context.
OwnSends == \A g \in Goroutines : Top(g).at = "send" /\ Top(g).msg.stage = "init" => calls[Top(g).msg.n].by = g
InLoopOnly ==
  \A g \in Goroutines : Top(g).at = "begin" /\ Top(g).msg.to \in Clients \ concurrency => g = Home[Top(g).msg.to]

Heard == handled \in [Uris -> Seq(1 .. Used)]

Straight == Consistent /\ Deep /\ AtHome /\ OwnSends /\ InLoopOnly /\ Heard /\ Lines

\* What arrives in a channel that is longer, or shorter.
LEMMA ArrivingMoves ==
  ASSUME NEW S, NEW s \in Seq(S), NEW u
  PROVE  /\ \A m \in S : /\ Arriving(u, Append(s, m)) = Arriving(u, s) \cup (IF For(u, m) THEN {m.n} ELSE {})
                         /\ Queued(u, s) /\ (For(u, m) => \A x \in Arriving(u, s) : Before(x, m.n)) => Queued(u, Append(s, m))
         /\ s # <<>> => /\ Arriving(u, Tail(s)) \subseteq Arriving(u, s) /\ (Queued(u, s) => Queued(u, Tail(s)))
                        /\ For(u, Head(s)) => Head(s).n \in Arriving(u, s)
                        /\ Queued(u, s) /\ For(u, Head(s)) => \A y \in Arriving(u, Tail(s)) : Before(Head(s).n, y)
<1>1. ASSUME NEW m \in S
      PROVE  /\ Arriving(u, Append(s, m)) = Arriving(u, s) \cup (IF For(u, m) THEN {m.n} ELSE {})
             /\ Queued(u, s) /\ (For(u, m) => \A x \in Arriving(u, s) : Before(x, m.n)) => Queued(u, Append(s, m))
  <2> DEFINE t == Append(s, m)
             l == Len(s)
  <2>1. Len(t) = l + 1 /\ l \in Nat /\ t[l + 1] = m /\ \A i \in 1 .. l : t[i] = s[i]
    OBVIOUS
  <2>2. \A i \in 1 .. l + 1 : i \in 1 .. l \/ i = l + 1
    BY <2>1
  <2>3. \A i \in 1 .. l : i \in 1 .. l + 1
    BY <2>1
  <2>4. l + 1 \in 1 .. l + 1 /\ \A i \in 1 .. l + 1 : ~(l + 1 < i)
    BY <2>1
  <2> HIDE DEF t, l
  <2>5. Arriving(u, t) = Arriving(u, s) \cup (IF For(u, m) THEN {m.n} ELSE {})
    <3>1. ASSUME NEW x \in Arriving(u, t) PROVE x \in Arriving(u, s) \cup (IF For(u, m) THEN {m.n} ELSE {})
      BY <2>1, <2>2 DEF Arriving, l
    <3>2. ASSUME NEW x \in Arriving(u, s) PROVE x \in Arriving(u, t)
      BY <2>1, <2>3 DEF Arriving, l
    <3>3. For(u, m) => m.n \in Arriving(u, t)
      BY <2>1, <2>4 DEF Arriving
    <3>4. QED
      BY <3>1, <3>2, <3>3
  <2>6. ASSUME Queued(u, s), For(u, m) => \A x \in Arriving(u, s) : Before(x, m.n) PROVE Queued(u, t)
    <3>1. ASSUME NEW i \in 1 .. l + 1, NEW j \in 1 .. l + 1, i < j, For(u, t[i]), For(u, t[j])
          PROVE  Before(t[i].n, t[j].n)
      <4>1. i \in 1 .. l /\ t[i] = s[i]
        BY <2>1, <2>2, <2>4, <3>1
      <4>2. CASE j \in 1 .. l
        <5>1. t[j] = s[j]
          BY <2>1, <4>2
        <5>2. QED
          BY <2>6, <3>1, <4>1, <4>2, <5>1 DEF Queued, l
      <4>3. CASE j = l + 1
        <5>1. t[j] = m /\ s[i].n \in Arriving(u, s)
          BY <2>1, <3>1, <4>1, <4>3 DEF Arriving, l
        <5>2. QED
          BY <2>6, <3>1, <4>1, <5>1
      <4>4. QED
        BY <2>2, <4>2, <4>3
    <3>2. QED
      BY <2>1, <3>1 DEF Queued
  <2>7. QED
    BY <2>5, <2>6 DEF t
<1>2. ASSUME s # <<>>
      PROVE  /\ Arriving(u, Tail(s)) \subseteq Arriving(u, s) /\ (Queued(u, s) => Queued(u, Tail(s)))
             /\ For(u, Head(s)) => Head(s).n \in Arriving(u, s)
             /\ Queued(u, s) /\ For(u, Head(s)) => \A y \in Arriving(u, Tail(s)) : Before(Head(s).n, y)
  <2> DEFINE t == Tail(s)
  <2>1. /\ Len(s) \in Nat \ {0} /\ Len(t) = Len(s) - 1 /\ Head(s) = s[1]
        /\ \A i \in 1 .. Len(t) : t[i] = s[i + 1]
    BY <1>2
  <2>2. \A l \in Nat \ {0} : 1 \in 1 .. l /\ \A i \in 1 .. l - 1 : i + 1 \in 1 .. l /\ 1 < i + 1
    OBVIOUS
  <2>3. \A i \in 1 .. Len(t) : i + 1 \in 1 .. Len(s) /\ 1 < i + 1
    BY <2>1, <2>2
  <2>4. \A i, j \in 1 .. Len(t) : i < j => i + 1 < j + 1
    BY <2>1
  <2>5. 1 \in 1 .. Len(s)
    BY <2>1
  <2> HIDE DEF t
  <2>6. Arriving(u, t) \subseteq Arriving(u, s)
    BY <2>1, <2>3 DEF Arriving
  <2>7. Queued(u, s) => Queued(u, t)
    BY <2>1, <2>3, <2>4 DEF Queued
  <2>8. For(u, Head(s)) => Head(s).n \in Arriving(u, s)
    BY <2>1, <2>5 DEF Arriving
  <2>9. Queued(u, s) /\ For(u, Head(s)) => \A y \in Arriving(u, t) : Before(Head(s).n, y)
    BY <2>1, <2>3, <2>5 DEF Queued, Arriving
  <2>10. QED
    BY <2>6, <2>7, <2>8, <2>9 DEF t
<1>3. QED
  BY <1>1, <1>2
\* The messages of a line belong to calls that were made.
LEMMA LineTyped ==
  ASSUME Consistent, NEW u, NEW c \in Contexts
  PROVE  Begun(u) \cup Leaving(u) \cup Arriving(u, channel[c]) \subseteq 1 .. Used
<1>1. \A m \in Genuine : m.n \in 1 .. Used
  <2>1. Used \in Nat
    BY DEF Used, Consistent, TypeOK
  <2>2. QED
    BY <2>1 DEF Genuine, Message, Calls
<1>2. ASSUME NEW g \in Goroutines, Top(g).at \in {"begin", "send"} PROVE Top(g).msg.n \in 1 .. Used
  BY <1>1, <1>2, FrameOf DEF Requests
<1>3. ASSUME NEW i \in 1 .. Len(channel[c]) PROVE channel[c][i].n \in 1 .. Used
  <2>1. channel[c] \in Seq(Genuine)
    BY DEF Consistent
  <2>2. QED
    BY <1>1, <2>1, ItemOf
<1>4. QED
  BY <1>2, <1>3 DEF Begun, Leaving, Arriving

\* A line of which only messages leave.
LEMMA LineShrinks ==
  ASSUME UNCHANGED calls, NEW u, NEW h, NEW s, NEW t, Line(u, h, s),
         Begun(u)' \subseteq Begun(u), Leaving(u)' \subseteq Leaving(u), Arriving(u, t) \subseteq Arriving(u, s),
         Queued(u, t)
  PROVE  Line(u, h, t)'
<1>1. \A x, y : Before(x, y)' = Before(x, y)
  BY DEF Before
<1>2. Arriving(u, t)' = Arriving(u, t)
  BY DEF Arriving, For
<1>3. Queued(u, t)'
  BY DEF Queued, Before, For
<1>4. QED
  BY <1>1, <1>2, <1>3 DEF Line

\* The lines, one by one.
LEMMA LinesOf ==
  ASSUME \A u \in Clients \ concurrency' : \E h, s : h = handled'[u] /\ s = channel'[Home[u]] /\ Line(u, h, s)'
  PROVE  Lines'
<1>1. ASSUME NEW u \in Clients \ concurrency' PROVE Line(u, handled[u], channel[Home[u]])'
  <2>1. PICK h, s : h = handled'[u] /\ s = channel'[Home[u]] /\ Line(u, h, s)'
    OBVIOUS
  <2>2. QED
    BY <2>1 DEF Line, Queued, Arriving
<1>2. QED
  BY <1>1 DEF Lines

\* What a calm step leaves.
LEMMA CalmRests ==
  ASSUME Calm
  PROVE  /\ \A u : Begun(u)' \subseteq Begun(u) /\ Leaving(u)' \subseteq Leaving(u)
         /\ OwnSends /\ InLoopOnly /\ UNCHANGED calls /\ concurrency \subseteq concurrency' => OwnSends' /\ InLoopOnly'
<1>1. \A h \in Goroutines : Fresh(Top(h)') => Top(h)' = Top(h)
  BY DEF Calm
<1>2. ASSUME NEW u PROVE Begun(u)' \subseteq Begun(u) /\ Leaving(u)' \subseteq Leaving(u)
  <2>1. \A h \in Goroutines : Top(h)'.at = "begin" => Top(h)' = Top(h)
    BY <1>1 DEF Fresh
  <2>2. \A h \in Goroutines : Top(h)'.at = "send" /\ Top(h)'.msg.stage = "init" => Top(h)' = Top(h)
    BY <1>1 DEF Fresh, For
  <2>3. QED
    BY <2>1, <2>2 DEF Begun, Leaving, For
<1>3. ASSUME OwnSends, InLoopOnly, UNCHANGED calls, concurrency \subseteq concurrency' PROVE OwnSends' /\ InLoopOnly'
  BY <1>1, <1>3 DEF OwnSends, InLoopOnly, Fresh
<1>4. QED
  BY <1>2, <1>3
LEMMA QuietStraight ==
  ASSUME Straight, Quiet, concurrency \subseteq concurrency'
  PROVE  Deep' /\ AtHome' /\ OwnSends' /\ InLoopOnly' /\ Heard' /\ Lines'
<1>1. Calm
  BY QuietCalm DEF Straight
<1>2. UNCHANGED <<calls, channel>>
  BY DEF Quiet, Await, Return, Reply, Finish, OnMessage, Evaluate, Deliver, Recv, Closing, OnClose, CloseOp, Clean,
         Closed, Administer, SetConcurrency,
         RegisterHandler, DeregisterHandler, CloseEndPoint, NewEndPoint, CloseClient, CloseContext, NewClient, Unregister
<1>3. handled' = handled \/ \E a \in Apps : Recv(a)
  BY DEF Quiet, Await, Return, Reply, Finish, OnMessage, Evaluate, Deliver, Closing, OnClose, CloseOp, Clean,
         Closed, Administer, SetConcurrency,
         RegisterHandler, DeregisterHandler, CloseEndPoint, NewEndPoint, CloseClient, CloseContext, NewClient, Unregister
<1>4. Heard' /\ \A u \in Clients : handled'[u] = handled[u]
  <2>1. CASE handled' = handled
    BY <1>2, <2>1 DEF Straight, Heard, Used
  <2>2. CASE \E a \in Apps : Recv(a)
    <3>1. PICK a \in Apps : Recv(a)
      BY <2>2
    <3>2. PICK u : u = AppUri[a]
      OBVIOUS
    <3>3. /\ u \in EndPoints /\ inbox[u] # <<>> /\ inbox[u] \in Seq(Genuine)
          /\ handled' = [handled EXCEPT ![u] = Append(@, Head(inbox[u]).n)]
      BY <3>1, <3>2 DEF Recv, Straight, Consistent
    <3>4. Head(inbox[u]).n \in 1 .. Used
      <4>1. Head(inbox[u]) \in Genuine /\ Used \in Nat
        BY <3>3, HeadTail DEF Straight, Used, Consistent, TypeOK
      <4>2. QED
        BY <4>1 DEF Genuine, Message, Calls
    <3>5. u \notin Clients /\ u \in Uris /\ Used' = Used
      BY <1>2, <3>3, HomeAssumption DEF Uris, Used
    <3>6. Append(handled[u], Head(inbox[u]).n) \in Seq(1 .. Used)
      BY <3>4, <3>5 DEF Straight, Heard
    <3>7. handled' \in [Uris -> Seq(1 .. Used')] /\ \A w \in Clients : handled'[w] = handled[w]
      BY <3>3, <3>5, <3>6 DEF Straight, Heard, Uris
    <3>8. QED
      BY <3>7 DEF Heard
  <2>3. QED
    BY <1>3, <2>1, <2>2
<1>5. Deep' /\ AtHome'
  BY <1>1, <1>2 DEF Calm, Straight, AtHome
<1>6. OwnSends' /\ InLoopOnly' /\ \A u : Begun(u)' \subseteq Begun(u) /\ Leaving(u)' \subseteq Leaving(u)
  BY <1>1, <1>2, CalmRests DEF Straight
<1>7. Lines'
  <2>1. ASSUME NEW u \in Clients \ concurrency'
        PROVE  \E h, s : h = handled'[u] /\ s = channel'[Home[u]] /\ Line(u, h, s)'
    <3>1. PICK h, s : h = handled[u] /\ s = channel[Home[u]]
      OBVIOUS
    <3>2. Line(u, h, s)
      BY <3>1 DEF Straight, Lines
    <3>3. Line(u, h, s)'
      BY <1>2, <1>6, <3>2, LineShrinks DEF Line
    <3>4. QED
      BY <1>2, <1>4, <3>1, <3>3
  <2>2. QED
    BY <2>1, LinesOf
<1>8. QED
  BY <1>4, <1>5, <1>6, <1>7

\* A channel gets only what is for its Context.
LEMMA AtHomeMoves ==
  ASSUME Consistent, AtHome
  PROVE  /\ \A g \in Goroutines : Send(g) => AtHome'
         /\ \A c \in Contexts : Handle(c) => AtHome'
         /\ UNCHANGED channel => AtHome'
<1>1. channel \in [Contexts -> Seq(Genuine)]
  BY DEF Consistent
<1>2. ASSUME NEW c \in Contexts, NEW s, channel' = [channel EXCEPT ![c] = s], \A i \in 1 .. Len(s) : Home[s[i].to] = c
      PROVE  AtHome'
  <2>1. channel'[c] = s /\ \A d \in Contexts : d # c => channel'[d] = channel[d]
    BY <1>1, <1>2
  <2>2. QED
    BY <1>2, <2>1 DEF AtHome
<1>3. ASSUME NEW g \in Goroutines, Send(g) PROVE AtHome'
  <2>1. PICK m, c, q : m = Top(g).msg /\ c = Home[m.to] /\ q = channel[c]
    OBVIOUS
  <2>2. m \in Genuine /\ c \in Contexts /\ q \in Seq(Genuine) /\ channel' = [channel EXCEPT ![c] = Append(q, m)]
    <3>1. m \in Genuine
      BY <1>3, <2>1, FrameOf DEF Send, At
    <3>2. c \in Contexts
      BY <2>1, <3>1, HomeAssumption DEF Genuine, Message, Uris
    <3>3. QED
      BY <1>1, <1>3, <2>1, <3>1, <3>2 DEF Send
  <2>3. \A i \in 1 .. Len(Append(q, m)) : (i \in 1 .. Len(q) /\ Append(q, m)[i] = q[i]) \/ Append(q, m)[i] = m
    BY <2>2
  <2>4. \A i \in 1 .. Len(Append(q, m)) : Home[Append(q, m)[i].to] = c
    BY <2>1, <2>2, <2>3 DEF AtHome
  <2>5. QED
    BY <1>2, <2>2, <2>4
<1>4. ASSUME NEW c \in Contexts, Handle(c) PROVE AtHome'
  <2>1. PICK q : q = channel[c]
    OBVIOUS
  <2>2. q \in Seq(Genuine) /\ q # <<>> /\ channel' = [channel EXCEPT ![c] = Tail(q)]
    BY <1>1, <1>4, <2>1 DEF Handle
  <2>3. \A i \in 1 .. Len(Tail(q)) : i + 1 \in 1 .. Len(q) /\ Tail(q)[i] = q[i + 1]
    BY <2>2
  <2>4. \A i \in 1 .. Len(Tail(q)) : Home[Tail(q)[i].to] = c
    BY <2>1, <2>3 DEF AtHome
  <2>5. QED
    BY <1>2, <2>2, <2>4
<1>5. UNCHANGED channel => AtHome'
  BY DEF AtHome
<1>6. QED
  BY <1>3, <1>4, <1>5

LEMMA SendStraight ==
  ASSUME Straight, NEW g \in Goroutines, Send(g)
  PROVE  Deep' /\ AtHome' /\ OwnSends' /\ InLoopOnly' /\ Heard' /\ Lines'
<1>1. PICK m, c : m = Top(g).msg /\ c = Home[m.to]
  OBVIOUS
<1>2. /\ Top(g).at = "send" /\ stack[g] # <<>> /\ m \in Genuine /\ m.to \in Uris /\ c \in Contexts
      /\ channel' = [channel EXCEPT ![c] = Append(@, m)] /\ UNCHANGED <<calls, handled, concurrency>>
      /\ IF m.stage = "init" /\ m.type = "REQUEST" THEN Become(g, Frame("receive", m)) ELSE Pop(g)
  <2>1. Top(g).at = "send" /\ stack[g] # <<>> /\ m \in Genuine
    BY <1>1, FrameOf DEF Send, At, Straight
  <2>2. m.to \in Uris /\ c \in Contexts
    BY <1>1, <2>1, HomeAssumption DEF Genuine, Message, Uris
  <2>3. QED
    BY <1>1, <2>1, <2>2 DEF Send, tables
<1>3. Calm
  <2>1. m.stage = "init" => Frame("receive", m) \in GenuineFrames /\ ~Fresh(Frame("receive", m))
    BY <1>2 DEF Frame, GenuineFrames, Requests, Fresh
  <2>2. stack \in [Goroutines -> Seq(GenuineFrames)] /\ Deep
    BY DEF Straight, Consistent
  <2>3. QED
    BY <1>2, <2>1, <2>2, CalmMoves
<1>4. OwnSends' /\ InLoopOnly' /\ \A u : Begun(u)' \subseteq Begun(u) /\ Leaving(u)' \subseteq Leaving(u)
  BY <1>2, <1>3, CalmRests DEF Straight
<1>5. channel \in [Contexts -> Seq(Genuine)]
  BY DEF Straight, Consistent
<1>6. AtHome'
  BY AtHomeMoves DEF Straight
<1>7. m.stage = "init" => \A u : \A y \in Leaving(u)' : ~(calls[y].by = calls[m.n].by)
  <2>0. Top(g)'.at # "send"
    <3>1. CASE m.stage = "init" /\ m.type = "REQUEST"
      <4>1. Frame("receive", m) \in GenuineFrames /\ Become(g, Frame("receive", m))
        BY <1>2, <3>1 DEF Frame, GenuineFrames, Requests
      <4>2. Tops(g, Frame("receive", m))
        BY <1>2, <4>1, TopMoves DEF Straight, Consistent
      <4>3. QED
        BY <4>2 DEF Tops, Frame
    <3>2. CASE ~(m.stage = "init" /\ m.type = "REQUEST")
      <4>1. Pop(g) /\ \E f \in GenuineFrames : TRUE
        BY <1>2, <3>2, FrameOf, TopOf DEF Straight, Consistent
      <4>2. Resting(Top(g)')
        BY <1>2, <4>1, TopMoves DEF Straight, Consistent
      <4>3. QED
        BY <4>2 DEF Resting, Under
    <3>3. QED
      BY <3>1, <3>2
  <2>1. ASSUME m.stage = "init", NEW u, NEW h \in Goroutines, Top(h)'.at = "send", For(u, Top(h)'.msg)
        PROVE  calls[Top(h)'.msg.n].by # calls[m.n].by
    <3>1. Top(h)' = Top(h) /\ h # g
      BY <1>3, <2>0, <2>1 DEF Calm, Fresh, For
    <3>2. calls[Top(h)'.msg.n].by = h /\ calls[m.n].by = g
      BY <1>1, <1>2, <2>1, <3>1 DEF Straight, OwnSends, For
    <3>3. QED
      BY <3>1, <3>2
  <2>2. ASSUME m.stage = "init", NEW u, NEW y, y \in Leaving(u)' PROVE calls[y].by # calls[m.n].by
    <3>1. PICK h \in Goroutines : y = Top(h)'.msg.n /\ Top(h)'.at = "send" /\ For(u, Top(h)'.msg)
      BY <2>2 DEF Leaving, For
    <3>2. QED
      BY <2>1, <2>2, <3>1
  <2>3. QED
    BY <2>2
<1>8. Lines'
  <2>1. ASSUME NEW u \in Clients \ concurrency'
        PROVE  \E h, s : h = handled'[u] /\ s = channel'[Home[u]] /\ Line(u, h, s)'
    <3>1. PICK h, s : h = handled[u] /\ s = channel[Home[u]]
      OBVIOUS
    <3>2. Line(u, h, s) /\ h = handled'[u] /\ Home[u] \in Contexts /\ s \in Seq(Genuine)
      BY <1>2, <1>5, <2>1, <3>1, HomeAssumption DEF Straight, Lines
    <3>3. CASE Home[u] # c
      <4>1. channel'[Home[u]] = s
        BY <1>2, <1>5, <3>1, <3>2, <3>3
      <4>2. Line(u, h, s)'
        BY <1>2, <1>4, <3>2, LineShrinks DEF Line
      <4>3. QED
        BY <3>2, <4>1, <4>2
    <3>4. CASE Home[u] = c
      <4>1. channel'[Home[u]] = Append(s, m)
        BY <1>2, <1>5, <3>1, <3>4
      <4>2. /\ Arriving(u, Append(s, m)) = Arriving(u, s) \cup (IF For(u, m) THEN {m.n} ELSE {})
            /\ Queued(u, s) /\ (For(u, m) => \A x \in Arriving(u, s) : Before(x, m.n)) => Queued(u, Append(s, m))
        BY <1>2, <3>2, ArrivingMoves
      <4>3. For(u, m) => m.n \in Leaving(u)
        BY <1>1, <1>2 DEF Leaving
      <4>4. Queued(u, Append(s, m))
        BY <3>2, <4>2, <4>3 DEF Line
      <4>5. Line(u, h, Append(s, m))'
        <5>1. PICK t : t = Append(s, m)
          OBVIOUS
        <5>2. /\ \A x, y : Before(x, y)' = Before(x, y)
              /\ Arriving(u, t)' = Arriving(u, t)
          BY <1>2 DEF Before, Arriving, For
        <5>3. Queued(u, t)'
          BY <1>2, <4>4, <5>1 DEF Queued, Before, For
        <5>4. \A x \in Arriving(u, t) : x \in Arriving(u, s) \/ (x = m.n /\ For(u, m))
          BY <4>2, <5>1
        <5>5. For(u, m) => \A y \in Leaving(u)' : Before(m.n, y)
          BY <1>7 DEF Before, For
        <5>6. Line(u, h, t)'
          BY <1>4, <3>2, <4>3, <5>2, <5>3, <5>4, <5>5 DEF Line
        <5>7. QED
          BY <5>1, <5>6
      <4>6. QED
        BY <3>2, <4>1, <4>5
    <3>5. QED
      BY <3>3, <3>4
  <2>2. QED
    BY <2>1, LinesOf
<1>9. QED
  BY <1>2, <1>3, <1>4, <1>6, <1>8 DEF Calm, Straight, Heard, Used

\* The head of a line is handled.
LEMMA LineHandled ==
  ASSUME UNCHANGED calls, NEW S, NEW u, NEW h \in Seq(S), NEW s, NEW x \in Begun(u), x \in S, Line(u, h, s),
         Begun(u)' = {}, Leaving(u)' \subseteq Leaving(u)
  PROVE  Line(u, Append(h, x), s)'
<1>1. \A y, z : Before(y, z)' = Before(y, z)
  BY DEF Before
<1>2. Arriving(u, s)' = Arriving(u, s) /\ Queued(u, s)'
  BY DEF Arriving, For, Line, Queued, Before
<1>3. PICK k, l : k = Append(h, x) /\ l = Len(h)
  OBVIOUS
<1>4. /\ l \in Nat /\ Len(k) = l + 1 /\ k[l + 1] = x /\ \A i \in 1 .. l : k[i] = h[i]
  BY <1>3
<1>5. \A i \in 1 .. l + 1 : i \in 1 .. l \/ i = l + 1
  BY <1>4
<1>6. \A i, j \in 1 .. l + 1 : i < j => i \in 1 .. l
  BY <1>4
<1>7. ASSUME NEW i \in 1 .. l + 1, NEW j \in 1 .. l + 1, i < j PROVE Before(k[i], k[j])
  <2>1. i \in 1 .. l /\ k[i] = h[i]
    BY <1>4, <1>6, <1>7
  <2>2. CASE j \in 1 .. l
    BY <1>3, <1>4, <1>7, <2>1, <2>2 DEF Line
  <2>3. CASE j = l + 1
    BY <1>3, <1>4, <2>1, <2>3 DEF Line
  <2>4. QED
    BY <1>5, <2>2, <2>3
<1>8. ASSUME NEW i \in 1 .. l + 1, NEW y \in Arriving(u, s) \cup Leaving(u) PROVE Before(k[i], y)
  BY <1>3, <1>4, <1>5 DEF Line
<1>9. Line(u, k, s)'
  BY <1>1, <1>2, <1>4, <1>7, <1>8 DEF Line
<1>10. QED
  BY <1>3, <1>9

LEMMA BeginStraight ==
  ASSUME Straight, NEW g \in Goroutines, Begin(g)
  PROVE  Deep' /\ AtHome' /\ OwnSends' /\ InLoopOnly' /\ Heard' /\ Lines'
<1>1. PICK m : m = Top(g).msg
  OBVIOUS
<1>2. /\ Top(g).at = "begin" /\ stack[g] # <<>> /\ m \in Requests /\ m.to \in Uris /\ m.n \in 1 .. Used
      /\ Become(g, Frame("handle", m)) /\ handled' = [handled EXCEPT ![m.to] = Append(@, m.n)]
      /\ UNCHANGED <<calls, channel, concurrency>>
  <2>1. Top(g).at = "begin" /\ stack[g] # <<>> /\ m \in Requests
    BY <1>1, FrameOf DEF Begin, At, Straight
  <2>2. Used \in Nat
    BY DEF Used, Straight, Consistent, TypeOK
  <2>3. m.to \in Uris /\ m.n \in 1 .. Used
    BY <2>1, <2>2 DEF Requests, Genuine, Message, Calls
  <2>4. QED
    BY <1>1, <2>1, <2>3 DEF Begin, tables
<1>3. Calm /\ Tops(g, Frame("handle", m))
  <2>1. Frame("handle", m) \in GenuineFrames /\ ~Fresh(Frame("handle", m))
    BY <1>2 DEF Frame, GenuineFrames, Fresh
  <2>2. stack \in [Goroutines -> Seq(GenuineFrames)] /\ Deep
    BY DEF Straight, Consistent
  <2>3. QED
    BY <1>2, <2>1, <2>2, CalmMoves, TopMoves
<1>4. OwnSends' /\ InLoopOnly' /\ \A u : Begun(u)' \subseteq Begun(u) /\ Leaving(u)' \subseteq Leaving(u)
  BY <1>2, <1>3, CalmRests DEF Straight
<1>5. Heard'
  <2>1. handled \in [Uris -> Seq(1 .. Used)] /\ Used' = Used
    BY <1>2 DEF Straight, Heard, Used
  <2>2. Append(handled[m.to], m.n) \in Seq(1 .. Used)
    BY <1>2, <2>1
  <2>3. handled' \in [Uris -> Seq(1 .. Used')]
    BY <1>2, <2>1, <2>2
  <2>4. QED
    BY <2>3 DEF Heard
<1>6. Lines'
  <2>1. ASSUME NEW u \in Clients \ concurrency'
        PROVE  \E h, s : h = handled'[u] /\ s = channel'[Home[u]] /\ Line(u, h, s)'
    <3>1. PICK h, s : h = handled[u] /\ s = channel[Home[u]]
      OBVIOUS
    <3>2. Line(u, h, s) /\ s = channel'[Home[u]] /\ h \in Seq(1 .. Used) /\ u \in Clients \ concurrency /\ u \in Uris
      BY <1>2, <2>1, <3>1 DEF Straight, Lines, Heard, Uris
    <3>3. CASE u # m.to
      <4>1. handled'[u] = h
        BY <1>2, <3>1, <3>2, <3>3 DEF Straight, Heard
      <4>2. Line(u, h, s)'
        BY <1>2, <1>4, <3>2, LineShrinks DEF Line
      <4>3. QED
        BY <3>2, <4>1, <4>2
    <3>4. CASE u = m.to
      <4>1. handled'[u] = Append(h, m.n)
        BY <1>2, <3>1, <3>2, <3>4 DEF Straight, Heard
      <4>2. m.n \in Begun(u)
        BY <1>1, <1>2, <3>4 DEF Begun
      <4>3. ASSUME NEW x \in Goroutines, Top(x)'.at = "begin", Top(x)'.msg.to = u PROVE FALSE
        <5>1. x # g /\ Top(x)' = Top(x)
          BY <1>3, <4>3 DEF Tops, Frame
        <5>2. x = Home[u] /\ g = Home[u]
          BY <1>1, <1>2, <3>2, <3>4, <4>3, <5>1 DEF Straight, InLoopOnly
        <5>3. QED
          BY <5>1, <5>2
      <4>4. Begun(u)' = {}
        BY <4>3 DEF Begun
      <4>5. Line(u, Append(h, m.n), s)'
        BY <1>2, <1>4, <3>2, <4>2, <4>4, LineHandled
      <4>6. QED
        BY <3>2, <4>1, <4>5
    <3>5. QED
      BY <3>3, <3>4
  <2>2. QED
    BY <2>1, LinesOf
<1>7. QED
  BY <1>2, <1>3, <1>4, <1>5, <1>6 DEF Calm, Straight, AtHome

\* The head of a channel is begun.
LEMMA LineBegun ==
  ASSUME UNCHANGED calls, NEW S, NEW u, NEW h, NEW s \in Seq(S), s # <<>>, For(u, Head(s)), Line(u, h, s),
         Begun(u)' \subseteq {Head(s).n}, Leaving(u)' \subseteq Leaving(u)
  PROVE  Line(u, h, Tail(s))'
<1>1. /\ Arriving(u, Tail(s)) \subseteq Arriving(u, s) /\ Queued(u, Tail(s))
      /\ Head(s).n \in Arriving(u, s) /\ \A y \in Arriving(u, Tail(s)) : Before(Head(s).n, y)
  BY ArrivingMoves DEF Line
<1>2. PICK t, x : t = Tail(s) /\ x = Head(s).n
  OBVIOUS
<1>3. \A y, z : Before(y, z)' = Before(y, z)
  BY DEF Before
<1>4. Arriving(u, t)' = Arriving(u, t) /\ Queued(u, t)'
  BY <1>1, <1>2 DEF Arriving, For, Queued, Before
<1>5. Line(u, h, t)'
  BY <1>1, <1>2, <1>3, <1>4 DEF Line
<1>6. QED
  BY <1>2, <1>5

\* What the goroutine of a Context makes of the message that it takes.
Starts(c, m) ==
  /\ m.stage = "init" /\ Deep'
  /\ \/ m.to \in Clients \ concurrency /\ Tops(c, Frame("begin", m))
     \/ m.to \in concurrency /\ \E k \in Goroutines : Tops(k, Frame("begin", m))

LEMMA HandleTakes ==
  ASSUME Consistent, Deep, NEW c \in Contexts, Handle(c), NEW m, m = Head(channel[c])
  PROVE  m \in Genuine /\ (Calm \/ Starts(c, m))
<1>1. channel[c] \in Seq(Genuine) /\ channel[c] # <<>>
  BY DEF Consistent, Handle
<1>2. m \in Genuine /\ m.n \in Goroutines /\ c \in Goroutines /\ stack[c] = <<>>
  BY <1>1, HeadTail DEF Genuine, Message, Goroutines, Handle
<1>3. stack \in [Goroutines -> Seq(GenuineFrames)] /\ Deep
  BY DEF Consistent
<1>4. CASE UNCHANGED stack
  BY <1>2, <1>3, <1>4, CalmMoves
<1>5. CASE Push(c, Frame("inbox", m))
  <2>1. Frame("inbox", m) \in GenuineFrames /\ ~Fresh(Frame("inbox", m))
    BY <1>2 DEF Frame, GenuineFrames, Fresh
  <2>2. QED
    BY <1>2, <1>3, <1>5, <2>1, CalmMoves
<1>6. CASE m.to \in Clients /\ m.stage = "init" /\ StartHandler(c, m)
  <2>1. Frame("begin", m) \in GenuineFrames
    BY <1>2, <1>6 DEF Frame, GenuineFrames, Requests
  <2>2. CASE m.to \in concurrency
    <3>1. stack' = [stack EXCEPT ![m.n] = <<Frame("begin", m)>>]
      BY <1>6, <2>2 DEF StartHandler
    <3>2. Deep' /\ Tops(m.n, Frame("begin", m))
      BY <1>2, <1>3, <2>1, <3>1, TopMoves
    <3>3. QED
      BY <1>2, <1>6, <2>2, <3>2 DEF Starts
  <2>3. CASE m.to \notin concurrency
    <3>1. Push(c, Frame("begin", m))
      BY <1>6, <2>3 DEF StartHandler
    <3>2. Deep' /\ Tops(c, Frame("begin", m))
      BY <1>2, <1>3, <2>1, <3>1, TopMoves
    <3>3. QED
      BY <1>2, <1>6, <2>3, <3>2 DEF Starts
  <2>4. QED
    BY <2>2, <2>3
<1>7. CASE m.to \in Clients /\ m.stage = "reply" /\ \E n \in Found(m) : Push(c, FoundFrame(m, n))
  <2>1. PICK n \in Found(m) : Push(c, FoundFrame(m, n))
    BY <1>7
  <2>2. FoundFrame(m, n) \in GenuineFrames
    BY <1>2, <1>7, FoundAimed
  <2>3. ~Fresh(FoundFrame(m, n))
    BY DEF FoundFrame, Fresh
  <2>4. QED
    BY <1>2, <1>3, <2>1, <2>2, <2>3, CalmMoves
<1>8. QED
  BY <1>2, <1>4, <1>5, <1>6, <1>7 DEF Handle, Drop, HandleRequest, HandleReply

LEMMA HandleStraight ==
  ASSUME Straight, NEW c \in Contexts, Handle(c)
  PROVE  Deep' /\ AtHome' /\ OwnSends' /\ InLoopOnly' /\ Heard' /\ Lines'
<1>1. PICK m, q : m = Head(channel[c]) /\ q = channel[c]
  OBVIOUS
<1>2. /\ q \in Seq(Genuine) /\ q # <<>> /\ m \in Genuine /\ (Calm \/ Starts(c, m))
      /\ channel' = [channel EXCEPT ![c] = Tail(q)] /\ UNCHANGED <<calls, handled, concurrency>>
      /\ channel \in [Contexts -> Seq(Genuine)] /\ stack[c] = <<>> /\ Home[m.to] = c
  <2>1. q \in Seq(Genuine) /\ q # <<>> /\ channel \in [Contexts -> Seq(Genuine)] /\ stack[c] = <<>>
        /\ channel' = [channel EXCEPT ![c] = Tail(q)] /\ UNCHANGED <<calls, handled, concurrency>>
    BY <1>1 DEF Straight, Consistent, Handle, tables
  <2>2. m \in Genuine /\ (Calm \/ Starts(c, m))
    BY <1>1, HandleTakes DEF Straight
  <2>3. 1 \in 1 .. Len(channel[c]) /\ m = channel[c][1]
    BY <1>1, <2>1
  <2>4. QED
    BY <2>1, <2>2, <2>3 DEF Straight, AtHome
<1>3. AtHome'
  BY AtHomeMoves DEF Straight
<1>4. ASSUME NEW k \in Goroutines, Tops(k, Frame("begin", m))
      PROVE  /\ \A u : Leaving(u)' \subseteq Leaving(u) /\ (u # m.to => Begun(u)' \subseteq Begun(u))
             /\ Begun(m.to)' \subseteq Begun(m.to) \cup {m.n}
             /\ OwnSends' /\ (m.to \in concurrency \/ k = c => InLoopOnly')
  <2>1. \A h \in Goroutines : \/ h # k /\ Top(h)' = Top(h)
                              \/ Top(h)'.at = "begin" /\ Top(h)'.msg = m /\ h = k
    BY <1>4 DEF Tops, Frame
  <2>2. \A u : Leaving(u)' \subseteq Leaving(u)
    <3>1. \A h \in Goroutines : Top(h)'.at = "send" => Top(h)' = Top(h)
      BY <2>1
    <3>2. QED
      BY <3>1 DEF Leaving, For
  <2>3. \A u : Begun(u)' \subseteq Begun(u) \cup (IF u = m.to THEN {m.n} ELSE {})
    BY <2>1 DEF Begun
  <2>4. OwnSends'
    BY <1>2, <2>1 DEF Straight, OwnSends
  <2>5. m.to \in concurrency \/ k = c => InLoopOnly'
    BY <1>2, <2>1 DEF Straight, InLoopOnly
  <2>6. QED
    BY <2>2, <2>3, <2>4, <2>5
<1>5. /\ Deep' /\ OwnSends' /\ InLoopOnly' /\ \A u : Leaving(u)' \subseteq Leaving(u)
      /\ \A u \in Clients \ concurrency : Begun(u)' \subseteq Begun(u) \/ (u = m.to /\ m.stage = "init" /\ Begun(u)' \subseteq Begun(u) \cup {m.n})
  <2>1. CASE Calm
    BY <1>2, <2>1, CalmRests DEF Straight, Calm
  <2>2. CASE Starts(c, m)
    <3>1. PICK k \in Goroutines : Tops(k, Frame("begin", m)) /\ (m.to \in concurrency \/ k = c)
      BY <2>2 DEF Starts, Goroutines
    <3>2. QED
      BY <1>4, <2>2, <3>1 DEF Starts
  <2>3. QED
    BY <1>2, <2>1, <2>2
<1>6. Heard'
  BY <1>2 DEF Straight, Heard, Used
<1>7. Lines'
  <2>1. ASSUME NEW u \in Clients \ concurrency'
        PROVE  \E h, s : h = handled'[u] /\ s = channel'[Home[u]] /\ Line(u, h, s)'
    <3>1. PICK h, s : h = handled[u] /\ s = channel[Home[u]]
      OBVIOUS
    <3>2. /\ Line(u, h, s) /\ h = handled'[u] /\ u \in Clients \ concurrency /\ u \in Uris
          /\ Home[u] \in Contexts /\ Leaving(u)' \subseteq Leaving(u)
      BY <1>2, <1>5, <2>1, <3>1, HomeAssumption DEF Straight, Lines, Uris
    <3>3. CASE Home[u] # c
      <4>1. channel'[Home[u]] = s /\ Begun(u)' \subseteq Begun(u)
        BY <1>2, <1>5, <3>1, <3>2, <3>3
      <4>2. Line(u, h, s)'
        BY <1>2, <3>2, <4>1, LineShrinks DEF Line
      <4>3. QED
        BY <3>2, <4>1, <4>2
    <3>4. CASE Home[u] = c
      <4>1. channel'[Home[u]] = Tail(s) /\ s = q
        BY <1>1, <1>2, <3>1, <3>4
      <4>2. CASE Begun(u)' \subseteq Begun(u)
        <5>1. Arriving(u, Tail(s)) \subseteq Arriving(u, s) /\ (Queued(u, s) => Queued(u, Tail(s)))
          BY <1>2, <4>1, ArrivingMoves
        <5>2. Line(u, h, Tail(s))'
          BY <1>2, <3>2, <4>2, <5>1, LineShrinks DEF Line
        <5>3. QED
          BY <3>2, <4>1, <5>2
      <4>3. CASE u = m.to /\ m.stage = "init" /\ Begun(u)' \subseteq Begun(u) \cup {m.n}
        <5>1. ASSUME NEW g \in Goroutines, Top(g).at = "begin", Top(g).msg.to = u PROVE FALSE
          <6>1. g = c
            BY <3>2, <3>4, <5>1 DEF Straight, InLoopOnly
          <6>2. Top(g).at = "idle"
            BY <1>2, <6>1 DEF Top, Idle, Frame
          <6>3. QED
            BY <5>1, <6>2
        <5>2. Begun(u) = {}
          BY <5>1 DEF Begun
        <5>3. Begun(u)' \subseteq {Head(s).n} /\ For(u, Head(s)) /\ s \in Seq(Genuine) /\ s # <<>>
          BY <1>1, <1>2, <4>1, <4>3, <5>2 DEF For
        <5>4. Line(u, h, Tail(s))'
          BY <1>2, <3>2, <5>3, LineBegun
        <5>5. QED
          BY <3>2, <4>1, <5>4
      <4>4. QED
        BY <1>5, <3>2, <4>2, <4>3
    <3>5. QED
      BY <3>3, <3>4
  <2>2. QED
    BY <2>1, LinesOf
<1>8. QED
  BY <1>3, <1>5, <1>6, <1>7

\* A call comes after all those that were made.
LEMMA LineGrows ==
  ASSUME NEW u, NEW h, NEW s, NEW n, Used \in Nat, n = Used + 1, \A i \in 1 .. Used : calls'[i] = calls[i], Line(u, h, s),
         \A i \in 1 .. Len(h) : h[i] \in 1 .. Used, Begun(u) \cup Leaving(u) \cup Arriving(u, s) \subseteq 1 .. Used,
         Begun(u)' \subseteq Begun(u), Leaving(u)' \subseteq Leaving(u) \cup {n}
  PROVE  Line(u, h, s)'
<1>1. \A x, y \in 1 .. Used : Before(x, y) => Before(x, y)'
  BY DEF Before
<1>2. \A x \in 1 .. Used : Before(x, n)'
  <2>1. \A x \in 1 .. Used : x < n
    OBVIOUS
  <2>2. QED
    BY <2>1 DEF Before
<1>3. Arriving(u, s)' = Arriving(u, s)
  BY DEF Arriving, For
<1>4. Queued(u, s)'
  <2>1. ASSUME NEW i \in 1 .. Len(s), NEW j \in 1 .. Len(s), i < j, For(u, s[i]), For(u, s[j])
        PROVE  Before(s[i].n, s[j].n)'
    <3>1. s[i].n \in 1 .. Used /\ s[j].n \in 1 .. Used
      BY <2>1 DEF Arriving
    <3>2. Before(s[i].n, s[j].n)
      BY <2>1 DEF Line, Queued
    <3>3. PICK x, y : x = s[i].n /\ y = s[j].n
      OBVIOUS
    <3>4. Before(x, y)'
      BY <1>1, <3>1, <3>2, <3>3
    <3>5. QED
      BY <3>3, <3>4 DEF Before
  <2>2. QED
    BY <2>1 DEF Queued, For, Before
<1>5. \A i, j \in 1 .. Len(h) : i < j => Before(h[i], h[j])'
  <2>1. ASSUME NEW i \in 1 .. Len(h), NEW j \in 1 .. Len(h), i < j PROVE Before(h[i], h[j])'
    <3>1. PICK x, y : x = h[i] /\ y = h[j]
      OBVIOUS
    <3>2. Before(x, y)'
      BY <1>1, <2>1, <3>1 DEF Line
    <3>3. QED
      BY <3>1, <3>2
  <2>2. QED
    BY <2>1
<1>6. ASSUME NEW x \in 1 .. Used, \A y \in Arriving(u, s) \cup Leaving(u) : Before(x, y)
      PROVE  \A y \in Arriving(u, s) \cup Leaving(u)' : Before(x, y)'
  BY <1>1, <1>2, <1>6
<1>7. \A i \in 1 .. Len(h) : \A y \in Begun(u)' \cup Arriving(u, s) \cup Leaving(u)' : Before(h[i], y)'
  <2>1. ASSUME NEW i \in 1 .. Len(h) PROVE \A y \in Begun(u)' \cup Arriving(u, s) \cup Leaving(u)' : Before(h[i], y)'
    <3>1. PICK x \in 1 .. Used : x = h[i]
      OBVIOUS
    <3>2. \A y \in Begun(u) \cup Arriving(u, s) \cup Leaving(u) : Before(x, y)
      BY <3>1 DEF Line
    <3>3. \A y \in Begun(u)' \cup Arriving(u, s) \cup Leaving(u)' : Before(x, y)'
      BY <1>1, <1>2, <3>2
    <3>4. QED
      BY <3>1, <3>3
  <2>2. QED
    BY <2>1
<1>8. \A x \in Begun(u)' : \A y \in Arriving(u, s) \cup Leaving(u)' : Before(x, y)'
  BY <1>6 DEF Line
<1>9. \A x \in Arriving(u, s) : \A y \in Leaving(u)' : Before(x, y)'
  <2>1. ASSUME NEW x \in Arriving(u, s), NEW y \in Leaving(u)' PROVE Before(x, y)'
    <3>1. CASE y \in Leaving(u)
      BY <1>1, <2>1, <3>1 DEF Line
    <3>2. CASE y = n
      BY <1>2, <2>1, <3>2
    <3>3. QED
      BY <2>1, <3>1, <3>2
  <2>2. QED
    BY <2>1
<1>10. QED
  BY <1>3, <1>4, <1>5, <1>7, <1>8, <1>9 DEF Line

LEMMA CallStraight ==
  ASSUME Straight, NEW g \in Goroutines, NEW a \in Uris, NEW b \in Uris, NEW op \in Ops, NEW type \in Types,
         Call(g, a, b, op, type)
  PROVE  Deep' /\ AtHome' /\ OwnSends' /\ InLoopOnly' /\ Heard' /\ Lines'
<1>1. PICK m : m = [n |-> Used + 1, stage |-> "init", type |-> type, from |-> a, to |-> b, op |-> op, tid |-> NextTid(a)]
  OBVIOUS
<1>2. /\ Used \in Nat /\ Used' = Used + 1 /\ calls' = Append(calls, [by |-> g, msg |-> m]) /\ m.n = Used + 1
      /\ m.stage = "init" /\ m \in Requests' /\ GenuineFrames \subseteq GenuineFrames'
      /\ \A i \in 1 .. Used : calls'[i] = calls[i]
  BY <1>1, CallMessage DEF Straight
<1>3. calls'[Used + 1].by = g
  <2>1. calls \in Seq([by : Goroutines, msg : Message]) /\ Used = Len(calls)
    BY DEF Straight, Consistent, TypeOK, Used
  <2>2. QED
    BY <1>2, <2>1
<1>4. /\ UNCHANGED <<channel, handled, concurrency>>
      /\ UNCHANGED stack \/ Push(g, Frame("send", m))
      /\ stack[g] = <<>> \/ Top(g).at \in Under
  BY <1>1 DEF Call, MayCall, Under
<1>5. Deep' /\ \A h \in Goroutines : \/ Top(h)' = Top(h)
                                     \/ h = g /\ Top(h)'.at = "send" /\ Top(h)'.msg = m
  <2>1. CASE UNCHANGED stack
    BY <2>1 DEF Straight, Deep, Top
  <2>2. CASE Push(g, Frame("send", m))
    <3>1. PICK F : F = GenuineFrames'
      OBVIOUS
    <3>2. Frame("send", m) \in F
      BY <1>2, <3>1 DEF Frame, GenuineFrames, Requests
    <3>3. stack \in [Goroutines -> Seq(F)]
      <4>1. \A s \in Seq(GenuineFrames) : s \in Seq(F)
        BY <1>2, <3>1, SeqMonotone
      <4>2. QED
        BY <4>1 DEF Straight, Consistent
    <3>4. Deep' /\ Tops(g, Frame("send", m))
      BY <1>4, <2>2, <3>2, <3>3, TopMoves DEF Straight
    <3>5. QED
      BY <3>4 DEF Tops, Frame
  <2>3. QED
    BY <1>4, <2>1, <2>2
<1>6. \A h \in Goroutines : Top(h).at = "send" => Top(h).msg.n \in 1 .. Used
  <2>1. ASSUME NEW h \in Goroutines, Top(h).at = "send" PROVE Top(h).msg.n \in 1 .. Used
    <3>1. Top(h).msg \in Genuine
      BY <2>1, FrameOf DEF Straight
    <3>2. QED
      BY <1>2, <3>1 DEF Genuine, Message, Calls
  <2>2. QED
    BY <2>1
<1>7. OwnSends'
  <2>1. ASSUME NEW h \in Goroutines, Top(h)'.at = "send", Top(h)'.msg.stage = "init" PROVE calls'[Top(h)'.msg.n].by = h
    <3>1. CASE Top(h)' = Top(h)
      BY <1>2, <1>6, <2>1, <3>1 DEF Straight, OwnSends
    <3>2. CASE h = g /\ Top(h)'.msg = m
      BY <1>2, <1>3, <3>2
    <3>3. QED
      BY <1>5, <3>1, <3>2
  <2>2. QED
    BY <2>1 DEF OwnSends
<1>8. InLoopOnly'
  <2>1. \A h \in Goroutines : Top(h)'.at = "begin" => Top(h)' = Top(h)
    BY <1>5
  <2>2. QED
    BY <1>4, <2>1 DEF Straight, InLoopOnly
<1>9. Heard'
  <2>1. handled \in [Uris -> Seq(1 .. Used)] /\ 1 .. Used \subseteq 1 .. Used'
    BY <1>2 DEF Straight, Heard
  <2>2. \A s \in Seq(1 .. Used) : s \in Seq(1 .. Used')
    BY <2>1, SeqMonotone
  <2>3. handled' \in [Uris -> Seq(1 .. Used')]
    BY <1>4, <2>1, <2>2
  <2>4. QED
    BY <2>3 DEF Heard
<1>10. \A u : Begun(u)' \subseteq Begun(u) /\ Leaving(u)' \subseteq Leaving(u) \cup {Used + 1}
  <2>1. \A h \in Goroutines : Top(h)'.at = "begin" => Top(h)' = Top(h)
    BY <1>5
  <2>2. \A h \in Goroutines : Top(h)'.at = "send" => Top(h)' = Top(h) \/ Top(h)'.msg.n = Used + 1
    BY <1>2, <1>5
  <2>3. QED
    BY <2>1, <2>2 DEF Begun, Leaving, For
<1>11. Lines'
  <2>1. ASSUME NEW u \in Clients \ concurrency'
        PROVE  \E h, s : h = handled'[u] /\ s = channel'[Home[u]] /\ Line(u, h, s)'
    <3>1. PICK h, s : h = handled[u] /\ s = channel[Home[u]]
      OBVIOUS
    <3>2. /\ Line(u, h, s) /\ h = handled'[u] /\ s = channel'[Home[u]] /\ u \in Uris /\ Home[u] \in Contexts
          /\ h \in Seq(1 .. Used)
      BY <1>4, <2>1, <3>1, HomeAssumption DEF Straight, Lines, Uris, Heard
    <3>3. \A i \in 1 .. Len(h) : h[i] \in 1 .. Used
      BY <3>2, ItemOf
    <3>4. Begun(u) \cup Leaving(u) \cup Arriving(u, s) \subseteq 1 .. Used
      BY <3>1, <3>2, LineTyped DEF Straight
    <3>5. Line(u, h, s)'
      <4>1. PICK n : n = Used + 1
        OBVIOUS
      <4>2. Begun(u)' \subseteq Begun(u) /\ Leaving(u)' \subseteq Leaving(u) \cup {n}
        BY <1>10, <4>1
      <4>3. QED
        BY <1>2, <3>2, <3>3, <3>4, <4>1, <4>2, LineGrows
    <3>6. QED
      BY <3>2, <3>5
  <2>2. QED
    BY <2>1, LinesOf
<1>12. AtHome'
  BY <1>4 DEF Straight, AtHome
<1>13. QED
  BY <1>5, <1>7, <1>8, <1>9, <1>11, <1>12

LEMMA StraightInit == Init => Straight
<1> SUFFICES ASSUME Init PROVE Straight
  OBVIOUS
<1>1. Consistent
  BY ConsistentInit
<1>2. \A g \in Goroutines : stack[g] = <<>> /\ Top(g).at = "idle"
  BY DEF Init, Top, Idle, Frame
<1>3. Deep
  BY <1>2 DEF Deep, Nested
<1>4. AtHome
  BY DEF Init, AtHome
<1>5. OwnSends /\ InLoopOnly
  BY <1>2 DEF OwnSends, InLoopOnly
<1>6. Heard
  BY DEF Init, Heard
<1>7. Lines
  <2>1. ASSUME NEW u \in Clients PROVE Line(u, handled[u], channel[Home[u]])
    <3>1. u \in Uris /\ Home[u] \in Contexts
      BY HomeAssumption DEF Uris
    <3>2. handled[u] = <<>> /\ channel[Home[u]] = <<>>
      BY <3>1 DEF Init
    <3>3. Begun(u) = {} /\ Leaving(u) = {}
      BY <1>2 DEF Begun, Leaving
    <3>4. QED
      BY <3>2, <3>3 DEF Line, Queued
  <2>2. QED
    BY <2>1 DEF Lines
<1>8. QED
  BY <1>1, <1>3, <1>4, <1>5, <1>6, <1>7 DEF Straight

LEMMA StraightNext ==
  Straight /\ [Next]_vars /\ [concurrency \subseteq concurrency']_vars => Straight'
<1> SUFFICES ASSUME Straight, [Next]_vars, [concurrency \subseteq concurrency']_vars PROVE Straight'
  OBVIOUS
<1>0. Consistent'
  BY ConsistentNext DEF Straight
<1>1. concurrency \subseteq concurrency'
  BY DEF vars, tables
<1>2. CASE CallSome
  BY <1>0, <1>2, CallStraight DEF CallSome, Straight
<1>3. CASE Administer
  BY <1>0, <1>1, <1>3, QuietStraight DEF Straight, Quiet
<1>4. CASE Progress
  <2>1. ASSUME NEW g \in Goroutines, Run(g) PROVE Straight'
    <3>1. CASE Send(g)
      BY <1>0, <3>1, SendStraight DEF Straight
    <3>2. CASE Begin(g)
      BY <1>0, <3>2, BeginStraight DEF Straight
    <3>3. CASE Await(g) \/ Return(g) \/ Reply(g) \/ Finish(g)
      BY <1>0, <1>1, <3>3, QuietStraight DEF Straight, Quiet
    <3>4. QED
      BY <2>1, <3>1, <3>2, <3>3 DEF Run
  <2>2. ASSUME NEW c \in Contexts, Loop(c) PROVE Straight'
    <3>1. CASE Handle(c)
      BY <1>0, <3>1, HandleStraight DEF Straight
    <3>2. CASE OnMessage(c) \/ Evaluate(c) \/ Deliver(c)
      BY <1>0, <1>1, <3>2, QuietStraight DEF Straight, Quiet
    <3>3. QED
      BY <2>2, <3>1, <3>2 DEF Loop
  <2>3. ASSUME NEW a \in Apps, Recv(a) \/ Closing(a) PROVE Straight'
    BY <1>0, <1>1, <2>3, QuietStraight DEF Straight, Quiet
  <2>4. QED
    BY <1>4, <2>1, <2>2, <2>3 DEF Progress
<1>5. CASE UNCHANGED vars
  <2>1. UNCHANGED <<calls, channel, handled, concurrency, stack>>
    BY <1>5 DEF vars, tables
  <2>2. Calm
    BY <2>1 DEF Straight, Calm, Deep, Top
  <2>3. OwnSends' /\ InLoopOnly' /\ Deep'
    BY <2>1, <2>2, CalmRests DEF Straight, Calm
  <2>4. AtHome' /\ Heard'
    BY <2>1 DEF Straight, AtHome, Heard, Used
  <2>5. Lines'
    BY <2>1, SMTT(30) DEF Straight, Lines, Line, Queued, Arriving, Begun, Leaving, Before, For, Top
  <2>6. QED
    BY <1>0, <2>3, <2>4, <2>5 DEF Straight
<1>6. QED
  BY <1>2, <1>3, <1>4, <1>5 DEF Next

\* A client that never runs its handlers with "go", or from some moment on always
\* does, handles the messages of one goroutine in the order in which they were
\* sent: through the channel of its Context and the goroutine that reads it, with
\* any number of senders blocked on the channel, and handlers that call.
THEOREM OrderKept == Spec /\ [][concurrency \subseteq concurrency']_vars => []InOrder
<1>1. Straight => InOrder
  <2> SUFFICES ASSUME Straight, NEW u \in Clients \ concurrency, NEW i \in DOMAIN handled[u], NEW j \in DOMAIN handled[u],
                      i < j, calls[handled[u][i]].by = calls[handled[u][j]].by
               PROVE  handled[u][i] < handled[u][j]
    BY DEF InOrder
  <2>1. handled[u] \in Seq(1 .. Used) /\ Line(u, handled[u], channel[Home[u]])
    BY DEF Straight, Heard, Lines, Uris
  <2>2. DOMAIN handled[u] = 1 .. Len(handled[u])
    BY <2>1
  <2>3. QED
    BY <2>1, <2>2 DEF Line, Before
<1>2. QED
  BY <1>1, StraightInit, StraightNext, PTL DEF Spec

-----------------------------------------------------------------------------
(* The places of the messages: each is in one stack or one channel, once, from *)
(* its call to the end of its reply.                                           *)

Moving(f) == f.at \in {"send", "begin", "handle", "found", "deliver"}
Token(f) == IF Moving(f) THEN {f.msg.n} ELSE {}

Carries(s) == UNION {Token(s[i]) : i \in 1 .. Len(s)}
Once(s) == \A i, j \in 1 .. Len(s) : i # j => Token(s[i]) \cap Token(s[j]) = {}
Holds(s) == {s[i].n : i \in 1 .. Len(s)}
OnceIn(s) == \A i, j \in 1 .. Len(s) : i # j => s[i].n # s[j].n

\* A frame more, one less, another one.
LEMMA CarriesOf ==
  ASSUME NEW F, NEW s \in Seq(F), NEW f \in F, Once(s)
  PROVE  /\ Carries(Append(s, f)) = Carries(s) \cup Token(f)
         /\ Token(f) \cap Carries(s) = {} => Once(Append(s, f))
         /\ Carries(<<f>>) = Token(f) /\ Once(<<f>>)
         /\ s # <<>> => /\ Once(Front(s)) /\ Carries(Front(s)) = Carries(s) \ Token(Last(s))
                        /\ Token(Last(s)) \subseteq Carries(s)
<1>1. PICK l, t : l = Len(s) /\ t = Append(s, f)
  OBVIOUS
<1>2. Len(t) = l + 1 /\ l \in Nat /\ t[l + 1] = f /\ \A i \in 1 .. l : t[i] = s[i]
  BY <1>1
<1>3. /\ \A i \in 1 .. l + 1 : i \in 1 .. l \/ i = l + 1
      /\ \A i \in 1 .. l : i \in 1 .. l + 1 /\ i # l + 1
      /\ l + 1 \in 1 .. l + 1
  BY <1>2
<1>4. Carries(t) = Carries(s) \cup Token(f)
  <2>1. ASSUME NEW x \in Carries(t) PROVE x \in Carries(s) \cup Token(f)
    <3>1. PICK i \in 1 .. l + 1 : x \in Token(t[i])
      BY <1>2, <2>1 DEF Carries
    <3>2. CASE i \in 1 .. l
      BY <1>1, <1>2, <3>1, <3>2 DEF Carries
    <3>3. QED
      BY <1>2, <1>3, <3>1, <3>2
  <2>2. ASSUME NEW x \in Carries(s) PROVE x \in Carries(t)
    <3>1. PICK i \in 1 .. l : x \in Token(s[i])
      BY <1>1, <2>2 DEF Carries
    <3>2. i \in 1 .. l + 1 /\ x \in Token(t[i])
      BY <1>2, <1>3, <3>1
    <3>3. QED
      BY <1>2, <3>2 DEF Carries
  <2>3. Token(f) \subseteq Carries(t)
    BY <1>2, <1>3 DEF Carries
  <2>4. QED
    BY <2>1, <2>2, <2>3
<1>5. Token(f) \cap Carries(s) = {} => Once(t)
  <2>1. ASSUME Token(f) \cap Carries(s) = {}, NEW i \in 1 .. l + 1, NEW j \in 1 .. l + 1, i # j
        PROVE  Token(t[i]) \cap Token(t[j]) = {}
    <3>1. \A k \in 1 .. l : Token(t[k]) \cap Token(f) = {}
      BY <1>1, <1>2, <2>1 DEF Carries
    <3>2. CASE i \in 1 .. l /\ j \in 1 .. l
      BY <1>1, <1>2, <2>1, <3>2 DEF Once
    <3>3. CASE i = l + 1 \/ j = l + 1
      BY <1>2, <1>3, <2>1, <3>1, <3>3
    <3>4. QED
      BY <1>3, <3>2, <3>3
  <2>2. QED
    BY <1>2, <2>1 DEF Once
<1>6. Carries(<<f>>) = Token(f) /\ Once(<<f>>)
  <2>1. Len(<<f>>) = 1 /\ <<f>>[1] = f /\ \A i \in 1 .. 1 : i = 1
    OBVIOUS
  <2>2. QED
    BY <2>1 DEF Carries, Once
<1>7. ASSUME s # <<>>
      PROVE  /\ Once(Front(s)) /\ Carries(Front(s)) = Carries(s) \ Token(Last(s))
             /\ Token(Last(s)) \subseteq Carries(s)
  <2>1. PICK r : r = Front(s)
    OBVIOUS
  <2>2. l \in Nat \ {0} /\ Last(s) = s[l] /\ r = SubSeq(s, 1, l - 1)
    BY <1>1, <1>7, <2>1 DEF Front, Last
  <2>3. l - 1 \in Int /\ \A i \in 1 .. l - 1 : s[i] \in F
    BY <1>1, <2>2
  <2>4. /\ Len(r) = IF 1 <= l - 1 THEN (l - 1) - 1 + 1 ELSE 0
        /\ \A i \in 1 .. (l - 1) - 1 + 1 : r[i] = s[1 + i - 1]
    BY <2>2, <2>3, SubSeqProperties
  <2>5. /\ (IF 1 <= l - 1 THEN (l - 1) - 1 + 1 ELSE 0) = l - 1 /\ (l - 1) - 1 + 1 = l - 1
        /\ \A i \in 1 .. l - 1 : 1 + i - 1 = i /\ i \in 1 .. l /\ i # l
        /\ l \in 1 .. l /\ \A i \in 1 .. l : i = l \/ i \in 1 .. l - 1
    BY <2>2
  <2>6. Len(r) = l - 1 /\ \A i \in 1 .. l - 1 : r[i] = s[i]
    BY <2>4, <2>5
  <2>7. Once(r)
    BY <1>1, <2>5, <2>6, ZenonT(30) DEF Once
  <2>8. Token(Last(s)) \subseteq Carries(s)
    BY <1>1, <2>2, <2>5 DEF Carries
  <2>9. ASSUME NEW x \in Carries(r) PROVE x \in Carries(s) \ Token(s[l])
    <3>1. PICK i \in 1 .. l - 1 : x \in Token(s[i])
      BY <2>6, <2>9 DEF Carries
    <3>2. x \in Carries(s) /\ Token(s[i]) \cap Token(s[l]) = {}
      BY <1>1, <2>5, <3>1 DEF Carries, Once
    <3>3. QED
      BY <3>1, <3>2
  <2>10. ASSUME NEW x \in Carries(s), x \notin Token(s[l]) PROVE x \in Carries(r)
    <3>1. PICK i \in 1 .. l : x \in Token(s[i])
      BY <1>1, <2>10 DEF Carries
    <3>2. i \in 1 .. l - 1
      BY <2>5, <2>10, <3>1
    <3>3. QED
      BY <2>6, <3>1, <3>2 DEF Carries
  <2>11. QED
    BY <2>1, <2>2, <2>7, <2>8, <2>9, <2>10
<1>8. QED
  BY <1>1, <1>4, <1>5, <1>6, <1>7

\* A message more in a channel, and one less.
LEMMA HoldsOf ==
  ASSUME NEW S, NEW s \in Seq(S), OnceIn(s)
  PROVE  /\ \A m \in S : /\ Holds(Append(s, m)) = Holds(s) \cup {m.n}
                         /\ m.n \notin Holds(s) => OnceIn(Append(s, m))
         /\ s # <<>> => OnceIn(Tail(s)) /\ Holds(Tail(s)) = Holds(s) \ {Head(s).n} /\ Head(s).n \in Holds(s)
<1>1. PICK l : l = Len(s)
  OBVIOUS
<1>2. ASSUME NEW m \in S
      PROVE  /\ Holds(Append(s, m)) = Holds(s) \cup {m.n}
             /\ m.n \notin Holds(s) => OnceIn(Append(s, m))
  <2>1. PICK t : t = Append(s, m)
    OBVIOUS
  <2>2. Len(t) = l + 1 /\ l \in Nat /\ t[l + 1] = m /\ \A i \in 1 .. l : t[i] = s[i]
    BY <1>1, <2>1
  <2>3. /\ \A i \in 1 .. l + 1 : i \in 1 .. l \/ i = l + 1
        /\ \A i \in 1 .. l : i \in 1 .. l + 1 /\ i # l + 1
        /\ l + 1 \in 1 .. l + 1
    BY <2>2
  <2>4. Holds(t) = Holds(s) \cup {m.n}
    BY <1>1, <2>2, <2>3 DEF Holds
  <2>5. m.n \notin Holds(s) => OnceIn(t)
    <3>1. ASSUME m.n \notin Holds(s), NEW i \in 1 .. l + 1, NEW j \in 1 .. l + 1, i # j PROVE t[i].n # t[j].n
      <4>1. \A k \in 1 .. l : t[k].n # m.n
        BY <1>1, <2>2, <3>1 DEF Holds
      <4>2. CASE i \in 1 .. l /\ j \in 1 .. l
        BY <1>1, <2>2, <3>1, <4>2 DEF OnceIn
      <4>3. CASE i = l + 1 \/ j = l + 1
        BY <2>2, <2>3, <3>1, <4>1, <4>3
      <4>4. QED
        BY <2>3, <4>2, <4>3
    <3>2. QED
      BY <2>2, <3>1 DEF OnceIn
  <2>6. QED
    BY <2>1, <2>4, <2>5
<1>3. ASSUME s # <<>>
      PROVE  OnceIn(Tail(s)) /\ Holds(Tail(s)) = Holds(s) \ {Head(s).n} /\ Head(s).n \in Holds(s)
  <2>1. PICK t : t = Tail(s)
    OBVIOUS
  <2>2. /\ l \in Nat \ {0} /\ Len(t) = l - 1 /\ Head(s) = s[1]
        /\ \A i \in 1 .. l - 1 : t[i] = s[i + 1]
    BY <1>1, <1>3, <2>1
  <2>3. /\ 1 \in 1 .. l /\ \A i \in 1 .. l - 1 : i + 1 \in 1 .. l /\ 1 # i + 1
        /\ \A i, j \in 1 .. l - 1 : i # j => i + 1 # j + 1
        /\ \A i \in 1 .. l : i = 1 \/ (i - 1 \in 1 .. l - 1 /\ (i - 1) + 1 = i)
    BY <2>2
  <2>4. OnceIn(t)
    BY <1>1, <2>2, <2>3 DEF OnceIn
  <2>5. Head(s).n \in Holds(s)
    BY <1>1, <2>2, <2>3 DEF Holds
  <2>6. ASSUME NEW x \in Holds(t) PROVE x \in Holds(s) \ {s[1].n}
    <3>1. PICK i \in 1 .. l - 1 : x = s[i + 1].n
      BY <2>2, <2>6 DEF Holds
    <3>2. QED
      BY <1>1, <2>3, <3>1 DEF Holds, OnceIn
  <2>7. ASSUME NEW x \in Holds(s), x # s[1].n PROVE x \in Holds(t)
    <3>1. PICK i \in 1 .. l : x = s[i].n
      BY <1>1, <2>7 DEF Holds
    <3>2. i - 1 \in 1 .. l - 1 /\ (i - 1) + 1 = i
      BY <2>3, <2>7, <3>1
    <3>3. t[i - 1] = s[i]
      BY <2>2, <3>2
    <3>4. QED
      BY <2>2, <3>1, <3>2, <3>3 DEF Holds
  <2>8. QED
    BY <2>1, <2>2, <2>4, <2>5, <2>6, <2>7
<1>4. QED
  BY <1>2, <1>3

\* A step moves a message at most from one place to another.
Places == ({"stack"} \X Goroutines) \cup ({"channel"} \X Contexts)
Where(k) == IF k[1] = "stack" THEN Carries(stack[k[2]]) ELSE Holds(channel[k[2]])

Singly == (\A g \in Goroutines : Once(stack[g])) /\ \A c \in Contexts : OnceIn(channel[c])
Alone == \A k, l \in Places : k # l => Where(k) \cap Where(l) = {}
OnePlace == Singly /\ Alone

LEMMA PlaceOf ==
  /\ \A g \in Goroutines : <<"stack", g>> \in Places /\ Where(<<"stack", g>>) = Carries(stack[g])
  /\ \A c \in Contexts : <<"channel", c>> \in Places /\ Where(<<"channel", c>>) = Holds(channel[c])
  /\ \A k \in Places : \/ \E g \in Goroutines : k = <<"stack", g>>
                       \/ \E c \in Contexts : k = <<"channel", c>>
  /\ \A g \in Goroutines, c \in Contexts : <<"stack", g>> # <<"channel", c>>
  BY DEF Places, Where

\* The stacks after a step of a goroutine.
StacksHold(g, T) == \A h \in Goroutines : Once(stack'[h]) /\ Carries(stack'[h]) \subseteq IF h = g THEN T ELSE Carries(stack[h])

LEMMA CarriesMoves ==
  ASSUME NEW F, stack \in [Goroutines -> Seq(F)], \A g \in Goroutines : Once(stack[g]), NEW g \in Goroutines
  PROVE  /\ \A f \in F : Push(g, f) /\ Token(f) \cap Carries(stack[g]) = {} => StacksHold(g, Carries(stack[g]) \cup Token(f))
         /\ \A f \in F : Become(g, f) /\ stack[g] # <<>> /\ Token(f) \subseteq Token(Top(g))
              => StacksHold(g, (Carries(stack[g]) \ Token(Top(g))) \cup Token(f))
         /\ Pop(g) /\ stack[g] # <<>> => StacksHold(g, Carries(stack[g]) \ Token(Top(g)))
         /\ \A f \in F : stack' = [stack EXCEPT ![g] = <<f>>] => StacksHold(g, Token(f))
         /\ \A e, f \in F : Above(g, e, f) /\ stack[g] # <<>> /\ Token(e) = {} /\ Token(f) = {}
              => StacksHold(g, Carries(stack[g]) \ Token(Top(g)))
         /\ stack[g] # <<>> => Token(Top(g)) \subseteq Carries(stack[g])
<1> DEFINE s == stack[g]
<1>0. s \in Seq(F) /\ Once(s)
  OBVIOUS
<1>1. ASSUME NEW t, NEW T, stack' = [stack EXCEPT ![g] = t], Once(t), Carries(t) \subseteq T PROVE StacksHold(g, T)
  <2>1. stack'[g] = t /\ \A h \in Goroutines : h # g => stack'[h] = stack[h]
    BY <1>1
  <2>2. ASSUME NEW h \in Goroutines
        PROVE  Once(stack'[h]) /\ Carries(stack'[h]) \subseteq IF h = g THEN T ELSE Carries(stack[h])
    <3>1. CASE h = g
      BY <1>1, <2>1, <3>1
    <3>2. CASE h # g
      BY <2>1, <3>2
    <3>3. QED
      BY <3>1, <3>2
  <2>3. QED
    BY <2>2 DEF StacksHold
<1>2. s # <<>> => /\ Below(g) = Front(s) /\ Top(g) = Last(s)
  BY DEF Below, Top
<1> HIDE DEF s
<1>3. ASSUME NEW f \in F, Push(g, f), Token(f) \cap Carries(s) = {} PROVE StacksHold(g, Carries(s) \cup Token(f))
  <2>1. Carries(Append(s, f)) = Carries(s) \cup Token(f) /\ Once(Append(s, f))
    BY <1>0, <1>3, CarriesOf
  <2>2. stack' = [stack EXCEPT ![g] = Append(s, f)]
    BY <1>3 DEF Push, s
  <2>3. QED
    BY <1>1, <2>1, <2>2
<1>4. ASSUME s # <<>>
      PROVE  Once(Front(s)) /\ Carries(Front(s)) = Carries(s) \ Token(Top(g)) /\ Token(Top(g)) \subseteq Carries(s)
             /\ Front(s) \in Seq(F)
  <2>1. PICK f \in F : TRUE
    BY <1>0, <1>4, HeadTail
  <2>2. Front(s) \in Seq(F)
    BY <1>0, <1>2, <1>4, BelowOf DEF s
  <2>3. QED
    BY <1>0, <1>2, <1>4, <2>1, <2>2, CarriesOf
<1>5. ASSUME Pop(g), s # <<>> PROVE StacksHold(g, Carries(s) \ Token(Top(g)))
  <2>1. stack' = [stack EXCEPT ![g] = Front(s)]
    BY <1>2, <1>5 DEF Pop
  <2>2. PICK T : T = Carries(s) \ Token(Top(g))
    OBVIOUS
  <2>3. QED
    BY <1>1, <1>4, <1>5, <2>1, <2>2
<1>6. ASSUME NEW f \in F, Become(g, f), s # <<>>, Token(f) \subseteq Token(Top(g))
      PROVE  StacksHold(g, (Carries(s) \ Token(Top(g))) \cup Token(f))
  <2>1. stack' = [stack EXCEPT ![g] = Append(Front(s), f)]
    BY <1>2, <1>6 DEF Become
  <2>2. Token(f) \cap Carries(Front(s)) = {}
    BY <1>4, <1>6
  <2>3. Once(Append(Front(s), f)) /\ Carries(Append(Front(s), f)) = (Carries(s) \ Token(Top(g))) \cup Token(f)
    BY <1>4, <1>6, <2>2, CarriesOf
  <2>4. QED
    BY <1>1, <2>1, <2>3
<1>7. ASSUME NEW f \in F, stack' = [stack EXCEPT ![g] = <<f>>] PROVE StacksHold(g, Token(f))
  <2>1. Carries(<<f>>) = Token(f) /\ Once(<<f>>)
    BY <1>0, CarriesOf
  <2>2. QED
    BY <1>1, <1>7, <2>1
<1>8. ASSUME NEW e \in F, NEW f \in F, Above(g, e, f), s # <<>>, Token(e) = {}, Token(f) = {}
      PROVE  StacksHold(g, Carries(s) \ Token(Top(g)))
  <2>1. ASSUME NEW q \in Seq(F), Once(q), NEW h \in F, Token(h) = {}
        PROVE  Append(q, h) \in Seq(F) /\ Once(Append(q, h)) /\ Carries(Append(q, h)) = Carries(q)
    <3>1. Token(h) \cap Carries(q) = {} /\ Carries(q) \cup Token(h) = Carries(q)
      BY <2>1
    <3>2. Carries(Append(q, h)) = Carries(q) \cup Token(h) /\ Once(Append(q, h))
      BY <2>1, <3>1, CarriesOf
    <3>3. QED
      BY <3>1, <3>2
  <2>2. PICK q, r, t : q = Front(s) /\ r = Append(q, e) /\ t = Append(r, f)
    OBVIOUS
  <2>3. stack' = [stack EXCEPT ![g] = t]
    BY <1>2, <1>8, <2>2 DEF Above
  <2>4. r \in Seq(F) /\ Once(r) /\ Carries(r) = Carries(q)
    BY <1>4, <1>8, <2>1, <2>2
  <2>5. Once(t) /\ Carries(t) = Carries(r)
    BY <1>8, <2>1, <2>2, <2>4
  <2>6. Carries(t) = Carries(s) \ Token(Top(g))
    BY <1>4, <1>8, <2>2, <2>4, <2>5
  <2>7. QED
    BY <1>1, <2>3, <2>5, <2>6
<1>9. QED
  BY <1>3, <1>4, <1>5, <1>6, <1>7, <1>8 DEF s

UnderWay == UNION {Where(k) : k \in Places}

\* What keeps each message in one place.
LEMMA OneMoves ==
  ASSUME OnePlace, Singly', NEW x, NEW l \in Places,
         \A i \in Places : Where(i)' \subseteq IF i = l THEN Where(i) \cup {x} ELSE Where(i) \ {x}
  PROVE  OnePlace' /\ UnderWay' \subseteq UnderWay \cup {x}
<1>1. ASSUME NEW i \in Places, NEW j \in Places, i # j, NEW y \in Where(i)', y \in Where(j)' PROVE FALSE
  <2>1. y # x
    BY <1>1
  <2>2. y \in Where(i) /\ y \in Where(j)
    BY <1>1, <2>1
  <2>3. QED
    BY <1>1, <2>2 DEF OnePlace, Alone
<1>2. Places' = Places
  BY DEF Places
<1>3. Alone'
  BY <1>1, <1>2 DEF Alone
<1>4. UnderWay' \subseteq UnderWay \cup {x}
  BY <1>2 DEF UnderWay
<1>5. QED
  BY <1>3, <1>4 DEF OnePlace

Rests == OnePlace' /\ UnderWay' \subseteq UnderWay

LEMMA OneRests ==
  ASSUME OnePlace, Singly', \A i \in Places : Where(i)' \subseteq Where(i)
  PROVE  Rests
<1>1. Places' = Places
  BY DEF Places
<1>2. Alone'
  BY <1>1 DEF OnePlace, Alone
<1>3. UnderWay' \subseteq UnderWay
  BY <1>1 DEF UnderWay
<1>4. QED
  BY <1>2, <1>3 DEF OnePlace, Rests

\* A step of a goroutine that leaves the channels alone.
LEMMA StackRests ==
  ASSUME Consistent, OnePlace, NEW g \in Goroutines, UNCHANGED channel
  PROVE  /\ \A f \in GenuineFrames : Push(g, f) /\ ~Moving(f) => Rests
         /\ \A f \in GenuineFrames : Become(g, f) /\ stack[g] # <<>> /\ Token(f) \subseteq Token(Top(g)) => Rests
         /\ Pop(g) /\ stack[g] # <<>> => Rests /\ \A x \in Token(Top(g)) : x \notin UnderWay'
         /\ \A e, f \in GenuineFrames : Above(g, e, f) /\ stack[g] # <<>> /\ ~Moving(e) /\ ~Moving(f) => Rests
         /\ UNCHANGED stack => Rests
<1>1. stack \in [Goroutines -> Seq(GenuineFrames)] /\ \A h \in Goroutines : Once(stack[h])
  BY DEF Consistent, OnePlace, Singly
<1>2. ASSUME NEW T, StacksHold(g, T), T \subseteq Carries(stack[g]) PROVE Rests
  <2>1. \A h \in Goroutines : Once(stack'[h]) /\ Carries(stack'[h]) \subseteq Carries(stack[h])
    BY <1>2 DEF StacksHold
  <2>2. Singly'
    <3>1. ASSUME NEW h \in Goroutines PROVE Once(stack[h])'
      <4>1. Once(stack'[h])
        BY <2>1
      <4>2. QED
        BY <4>1 DEF Once
    <3>2. ASSUME NEW c \in Contexts PROVE OnceIn(channel[c])'
      <4>1. OnceIn(channel[c]) /\ channel' = channel
        BY DEF OnePlace, Singly
      <4>2. QED
        BY <4>1 DEF OnceIn
    <3>3. QED
      BY <3>1, <3>2 DEF Singly
  <2>3. \A i \in Places : Where(i)' \subseteq Where(i)
    <3>1. ASSUME NEW h \in Goroutines PROVE Where(<<"stack", h>>)' \subseteq Where(<<"stack", h>>)
      BY <2>1 DEF Where, Carries
    <3>2. ASSUME NEW c \in Contexts PROVE Where(<<"channel", c>>)' \subseteq Where(<<"channel", c>>)
      BY DEF Where, Holds
    <3>3. QED
      BY <3>1, <3>2, PlaceOf
  <2>4. QED
    BY <2>2, <2>3, OneRests
<1>3. ASSUME NEW f \in GenuineFrames, Push(g, f), ~Moving(f) PROVE Rests
  BY <1>1, <1>2, <1>3, CarriesMoves DEF Token
<1>4. ASSUME NEW f \in GenuineFrames, Become(g, f), stack[g] # <<>>, Token(f) \subseteq Token(Top(g)) PROVE Rests
  <2>1. StacksHold(g, (Carries(stack[g]) \ Token(Top(g))) \cup Token(f)) /\ Token(Top(g)) \subseteq Carries(stack[g])
    BY <1>1, <1>4, CarriesMoves
  <2>2. QED
    BY <1>2, <1>4, <2>1
<1>5. ASSUME Pop(g), stack[g] # <<>> PROVE Rests /\ \A x \in Token(Top(g)) : x \notin UnderWay'
  <2>1. StacksHold(g, Carries(stack[g]) \ Token(Top(g))) /\ Token(Top(g)) \subseteq Carries(stack[g])
    BY <1>1, <1>5, CarriesMoves
  <2>2. Rests
    BY <1>2, <2>1
  <2>3. ASSUME NEW x \in Token(Top(g)), x \in UnderWay' PROVE FALSE
    <3>1. PICK i \in Places : x \in Where(i)'
      BY <2>3 DEF UnderWay, Places
    <3>2. x \in Where(<<"stack", g>>) /\ <<"stack", g>> \in Places
      BY <2>1, PlaceOf
    <3>3. CASE i = <<"stack", g>>
      <4>1. Where(i)' = Carries(stack'[g])
        BY <3>3 DEF Where, Carries
      <4>2. QED
        BY <2>1, <2>3, <3>1, <4>1 DEF StacksHold
    <3>4. CASE i # <<"stack", g>>
      <4>1. Where(i)' \subseteq Where(i)
        <5>1. ASSUME NEW h \in Goroutines, i = <<"stack", h>> PROVE Where(i)' \subseteq Where(i)
          <6>1. Where(i)' = Carries(stack'[h]) /\ Where(i) = Carries(stack[h]) /\ h # g
            BY <3>4, <5>1 DEF Where, Carries
          <6>2. QED
            BY <2>1, <6>1 DEF StacksHold
        <5>2. ASSUME NEW c \in Contexts, i = <<"channel", c>> PROVE Where(i)' \subseteq Where(i)
          BY <5>2 DEF Where, Holds
        <5>3. QED
          BY <5>1, <5>2, PlaceOf
      <4>2. Where(i) \cap Where(<<"stack", g>>) = {}
        BY <3>2, <3>4 DEF OnePlace, Alone
      <4>3. QED
        BY <3>1, <3>2, <4>1, <4>2
    <3>5. QED
      BY <3>3, <3>4
  <2>4. QED
    BY <2>2, <2>3
<1>6. ASSUME UNCHANGED stack PROVE Rests
  <2>1. StacksHold(g, Carries(stack[g]))
    BY <1>1, <1>6 DEF StacksHold
  <2>2. QED
    BY <1>2, <2>1
<1>7. ASSUME NEW e \in GenuineFrames, NEW f \in GenuineFrames, Above(g, e, f), stack[g] # <<>>, ~Moving(e), ~Moving(f)
      PROVE  Rests
  <2>1. Token(e) = {} /\ Token(f) = {}
    BY <1>7 DEF Token
  <2>2. StacksHold(g, Carries(stack[g]) \ Token(Top(g)))
    BY <1>1, <1>7, <2>1, CarriesMoves
  <2>3. QED
    BY <1>2, <2>2
<1>8. QED
  BY <1>3, <1>4, <1>5, <1>6, <1>7

LEMMA RunRests ==
  ASSUME Consistent, OnePlace, NEW g \in Goroutines, Await(g) \/ Return(g) \/ Begin(g) \/ Reply(g) \/ Finish(g)
  PROVE  Rests
<1>1. /\ Top(g).at \in {"receive", "wait", "begin", "handle"} /\ stack[g] # <<>> /\ Top(g).msg \in Requests /\ UNCHANGED channel
  BY FrameOf DEF Await, Return, Begin, Reply, Finish, At, tables
<1>2. Pop(g) => Rests
  BY <1>1, StackRests
<1>3. CASE Begin(g)
  <2>1. Frame("handle", Top(g).msg) \in GenuineFrames /\ Token(Frame("handle", Top(g).msg)) \subseteq Token(Top(g))
    BY <1>1, <1>3 DEF Frame, GenuineFrames, Token, Moving, Begin, At
  <2>2. QED
    BY <1>1, <1>3, <2>1, StackRests DEF Begin
<1>4. CASE Reply(g)
  <2> DEFINE m == Top(g).msg
             r == [m EXCEPT !.stage = "reply", !.from = m.to, !.to = m.from]
  <2>1. r \in Genuine /\ r.n = m.n
    BY <1>1, <1>4 DEF Requests, Genuine, Message, Reply
  <2>2. Frame("send", r) \in GenuineFrames /\ Token(Frame("send", r)) \subseteq Token(Top(g))
    BY <1>4, <2>1 DEF Frame, GenuineFrames, Token, Moving, Reply, At
  <2>3. Become(g, Frame("send", r)) => Rests
    BY <1>1, <2>2, StackRests
  <2>4. QED
    BY <1>2, <1>4, <2>3 DEF Reply
<1>5. CASE Await(g)
  <2>1. PICK f \in GenuineFrames : Become(g, f) /\ Token(f) = {}
    <3>1. /\ Frame("nil", Top(g).msg) \in GenuineFrames /\ Token(Frame("nil", Top(g).msg)) = {}
          /\ Frame("wait", Top(g).msg) \in GenuineFrames /\ Token(Frame("wait", Top(g).msg)) = {}
      BY <1>1 DEF Frame, GenuineFrames, Token, Moving
    <3>2. QED
      BY <1>5, <3>1 DEF Await
  <2>2. QED
    BY <1>1, <2>1, StackRests
<1>6. QED
  BY <1>2, <1>3, <1>4, <1>5 DEF Return, Finish

LEMMA QuietRests ==
  ASSUME Consistent, OnePlace, Quiet
  PROVE  Rests
<1>1. CASE \E g \in Goroutines : Await(g) \/ Return(g) \/ Reply(g) \/ Finish(g)
  BY <1>1, RunRests
<1>2. ASSUME NEW c \in Contexts, OnMessage(c) \/ Evaluate(c) \/ Deliver(c) PROVE Rests
  <2>1. c \in Goroutines /\ stack[c] # <<>> /\ UNCHANGED channel
    BY <1>2, FrameOf DEF OnMessage, Evaluate, Deliver, At, Goroutines
  <2>2. Pop(c) => Rests
    BY <2>1, StackRests
  <2>3. CASE Evaluate(c)
    <3>1. PICK f \in GenuineFrames : Become(c, f) /\ f.msg = Top(c).msg /\ Top(c).at = "found"
      BY <2>3, EvaluateFrame
    <3>2. Token(f) \subseteq Token(Top(c))
      BY <3>1 DEF Token, Moving
    <3>3. QED
      BY <2>1, <3>1, <3>2, StackRests
  <2>4. QED
    BY <1>2, <2>2, <2>3 DEF OnMessage, Deliver
<1>3. ASSUME NEW a \in Apps, UNCHANGED <<stack, channel>> PROVE Rests
  BY <1>3, StackRests DEF Goroutines
<1>4. ASSUME NEW a \in Apps, Recv(a) \/ Closing(a) PROVE Rests
  <2>1. a \in Goroutines
    BY DEF Goroutines
  <2>2. CASE Recv(a) \/ CloseOp(a)
    BY <1>3, <2>2 DEF Recv, CloseOp
  <2>3. CASE Closed(a) \/ Clean(a)
    <3>1. stack[a] # <<>> /\ Pop(a) /\ UNCHANGED channel
      BY <2>1, <2>3, FrameOf DEF Closed, Clean, At
    <3>2. QED
      BY <2>1, <3>1, StackRests
  <2>4. CASE OnClose(a)
    <3>1. PICK e \in ClosingFrames : Become(a, e) \/ \E f \in CleanFrames : Above(a, e, f)
      BY <2>4, OnCloseFrames
    <3>2. /\ e \in GenuineFrames /\ ~Moving(e) /\ Token(e) = {}
          /\ \A f \in CleanFrames : f \in GenuineFrames /\ ~Moving(f)
      BY DEF GenuineFrames, ClosingFrames, CleanFrames, Moving, Token
    <3>3. stack[a] # <<>> /\ UNCHANGED channel
      BY <2>4, OnCloseFrames DEF OnClose
    <3>4. Become(a, e) => Rests
      BY <2>1, <3>2, <3>3, StackRests
    <3>5. ASSUME NEW f \in CleanFrames, Above(a, e, f) PROVE Rests
      BY <2>1, <3>2, <3>3, <3>5, StackRests
    <3>6. QED
      BY <3>1, <3>4, <3>5
  <2>5. QED
    BY <1>4, <2>2, <2>3, <2>4 DEF Closing
<1>5. ASSUME NEW a \in Apps, CloseClient(a) \/ \E c \in Contexts : CloseContext(a, c) PROVE Rests
  <2>1. a \in Goroutines /\ UNCHANGED channel
    BY <1>5 DEF Goroutines, CloseClient, CloseContext, Unregister
  <2>2. \E f \in GenuineFrames : Push(a, f) /\ ~Moving(f)
    <3>1. /\ \A f \in CleanFrames : f \in GenuineFrames /\ ~Moving(f)
          /\ \A f \in ClosingFrames : f \in GenuineFrames /\ ~Moving(f)
      BY DEF GenuineFrames, ClosingFrames, CleanFrames, Moving
    <3>2. QED
      BY <1>5, <3>1, CloseFrames DEF CloseClient, CloseContext
  <2>3. QED
    BY <2>1, <2>2, StackRests
<1>6. CASE Administer
  <2>1. \/ UNCHANGED <<stack, channel>>
        \/ \E a \in Apps : CloseClient(a) \/ \E c \in Contexts : CloseContext(a, c)
    BY <1>6 DEF Administer, SetConcurrency, RegisterHandler, DeregisterHandler, CloseEndPoint, NewEndPoint, NewClient, Unregister
  <2>2. ASSUME UNCHANGED <<stack, channel>> PROVE Rests
    <3>1. Places' = Places /\ OnePlace' /\ UnderWay' = UnderWay
      BY <2>2 DEF OnePlace, Singly, Alone, UnderWay, Where, Places
    <3>2. QED
      BY <3>1 DEF Rests
  <2>3. QED
    BY <1>5, <2>1, <2>2
<1>7. QED
  BY <1>1, <1>2, <1>4, <1>6 DEF Quiet

\* The messages under way belong to calls that were made.
LEMMA UnderWayTyped ==
  ASSUME Consistent
  PROVE  /\ UnderWay \subseteq 1 .. Used
         /\ \A g \in Goroutines : Carries(stack[g]) \subseteq UnderWay
         /\ \A c \in Contexts : Holds(channel[c]) \subseteq UnderWay
<1>0. \A m \in Genuine : m.n \in 1 .. Used
  <2>1. Used \in Nat
    BY DEF Used, Consistent, TypeOK
  <2>2. QED
    BY <2>1 DEF Genuine, Message, Calls
<1>1. ASSUME NEW g \in Goroutines, NEW x \in Carries(stack[g]) PROVE x \in 1 .. Used
  <2>1. PICK i \in 1 .. Len(stack[g]) : x \in Token(stack[g][i])
    BY DEF Carries
  <2>2. stack[g][i] \in GenuineFrames
    BY ItemOf DEF Consistent
  <2>3. x = stack[g][i].msg.n /\ stack[g][i].msg \in Genuine
    BY <2>1, <2>2 DEF Token, Moving, GenuineFrames, Requests, Aimed, CleanFrames, ClosingFrames
  <2>4. QED
    BY <1>0, <2>3
<1>2. ASSUME NEW c \in Contexts, NEW x \in Holds(channel[c]) PROVE x \in 1 .. Used
  <2>1. PICK i \in 1 .. Len(channel[c]) : x = channel[c][i].n
    BY DEF Holds
  <2>2. channel[c][i] \in Genuine
    BY ItemOf DEF Consistent
  <2>3. QED
    BY <1>0, <2>1, <2>2
<1>3. UnderWay \subseteq 1 .. Used
  BY <1>1, <1>2, PlaceOf DEF UnderWay
<1>4. QED
  BY <1>3, PlaceOf DEF UnderWay

LEMMA SendRests ==
  ASSUME Consistent, OnePlace, NEW g \in Goroutines, Send(g)
  PROVE  Rests
<1>1. PICK m, c, x : m = Top(g).msg /\ c = Home[m.to] /\ x = m.n
  OBVIOUS
<1>2. /\ Top(g).at = "send" /\ stack[g] # <<>> /\ m \in Genuine /\ c \in Contexts
      /\ channel' = [channel EXCEPT ![c] = Append(@, m)] /\ Token(Top(g)) = {x}
      /\ IF m.stage = "init" /\ m.type = "REQUEST" THEN Become(g, Frame("receive", m)) ELSE Pop(g)
  <2>1. Top(g).at = "send" /\ stack[g] # <<>> /\ m \in Genuine
    BY <1>1, FrameOf DEF Send, At
  <2>2. c \in Contexts /\ Token(Top(g)) = {x}
    BY <1>1, <2>1, HomeAssumption DEF Genuine, Message, Uris, Token, Moving
  <2>3. QED
    BY <1>1, <2>1, <2>2 DEF Send
<1>3. /\ stack \in [Goroutines -> Seq(GenuineFrames)] /\ \A h \in Goroutines : Once(stack[h])
      /\ channel \in [Contexts -> Seq(Genuine)]
  BY DEF Consistent, OnePlace, Singly
<1>4. StacksHold(g, Carries(stack[g]) \ {x}) /\ x \in Carries(stack[g])
  <2>0. x \in Carries(stack[g])
    BY <1>2, <1>3, CarriesMoves
  <2>1. Pop(g) => StacksHold(g, Carries(stack[g]) \ {x})
    BY <1>2, <1>3, CarriesMoves
  <2>2. CASE m.stage = "init" /\ Become(g, Frame("receive", m))
    <3>1. Frame("receive", m) \in GenuineFrames /\ Token(Frame("receive", m)) = {}
      BY <1>2, <2>2 DEF Frame, GenuineFrames, Requests, Token, Moving
    <3>2. PICK T : T = (Carries(stack[g]) \ Token(Top(g))) \cup Token(Frame("receive", m))
      OBVIOUS
    <3>3. StacksHold(g, T)
      BY <1>2, <1>3, <2>2, <3>1, <3>2, CarriesMoves
    <3>4. T = Carries(stack[g]) \ {x}
      BY <1>2, <3>1, <3>2
    <3>5. QED
      BY <2>0, <3>3, <3>4
  <2>3. QED
    BY <1>2, <2>0, <2>1, <2>2
<1>5. ASSUME NEW i \in Places, i # <<"stack", g>> PROVE x \notin Where(i)
  <2>1. <<"stack", g>> \in Places /\ x \in Where(<<"stack", g>>)
    BY <1>4, PlaceOf
  <2>2. Where(i) \cap Where(<<"stack", g>>) = {}
    BY <1>5, <2>1 DEF OnePlace, Alone
  <2>3. QED
    BY <2>1, <2>2
<1>6. \A d \in Contexts : OnceIn(channel'[d]) /\ Holds(channel'[d]) \subseteq IF d = c THEN Holds(channel[c]) \cup {x} ELSE Holds(channel[d])
  <2>1. x \notin Holds(channel[c])
    BY <1>2, <1>5, PlaceOf
  <2>2. OnceIn(Append(channel[c], m)) /\ Holds(Append(channel[c], m)) = Holds(channel[c]) \cup {x}
    BY <1>1, <1>2, <1>3, <2>1, HoldsOf DEF OnePlace, Singly
  <2>3. channel'[c] = Append(channel[c], m) /\ \A d \in Contexts : d # c => channel'[d] = channel[d]
    BY <1>2, <1>3
  <2>4. QED
    BY <2>2, <2>3 DEF OnePlace, Singly
<1>7. Singly'
  BY <1>4, <1>6 DEF StacksHold, Singly, Once, OnceIn
<1>8. \A i \in Places : Where(i)' \subseteq IF i = <<"channel", c>> THEN Where(i) \cup {x} ELSE Where(i) \ {x}
  <2>1. ASSUME NEW h \in Goroutines PROVE Where(<<"stack", h>>)' \subseteq Where(<<"stack", h>>) \ {x}
    <3>1. Where(<<"stack", h>>)' = Carries(stack'[h]) /\ Where(<<"stack", h>>) = Carries(stack[h])
      BY DEF Where, Carries
    <3>2. h # g => x \notin Where(<<"stack", h>>)
      BY <1>5, PlaceOf
    <3>3. QED
      BY <1>4, <3>1, <3>2 DEF StacksHold
  <2>2. ASSUME NEW d \in Contexts
        PROVE  Where(<<"channel", d>>)' \subseteq IF d = c THEN Where(<<"channel", d>>) \cup {x} ELSE Where(<<"channel", d>>) \ {x}
    <3>1. Where(<<"channel", d>>)' = Holds(channel'[d]) /\ Where(<<"channel", d>>) = Holds(channel[d])
      BY DEF Where, Holds
    <3>2. x \notin Where(<<"channel", d>>)
      BY <1>5, PlaceOf
    <3>3. QED
      BY <1>6, <3>1, <3>2
  <2>3. QED
    BY <2>1, <2>2, PlaceOf
<1>9. x \in UnderWay
  BY <1>4, UnderWayTyped
<1>10. QED
  BY <1>2, <1>7, <1>8, <1>9, OneMoves, PlaceOf DEF Rests

LEMMA CallPlaces ==
  ASSUME Consistent, OnePlace, NEW g \in Goroutines, NEW u \in Uris, NEW v \in Uris, NEW op \in Ops,
         NEW type \in Types, NEW n, n = Used + 1, Call(g, u, v, op, type)
  PROVE  OnePlace' /\ UnderWay' \subseteq UnderWay \cup {n}
<1>1. PICK m : m = [n |-> n, stage |-> "init", type |-> type, from |-> u, to |-> v, op |-> op, tid |-> NextTid(u)]
  OBVIOUS
<1>2. m \in Requests' /\ Used \in Nat /\ GenuineFrames \subseteq GenuineFrames'
  BY <1>1, CallMessage
<1>3. UNCHANGED channel /\ (UNCHANGED stack \/ Push(g, Frame("send", m)))
  BY <1>1 DEF Call
<1>4. n \notin UnderWay
  BY <1>2, UnderWayTyped
<1>5. \A h \in Goroutines : Once(stack'[h]) /\ Carries(stack'[h]) \subseteq IF h = g THEN Carries(stack[h]) \cup {n} ELSE Carries(stack[h])
  <2>1. CASE UNCHANGED stack
    BY <2>1 DEF OnePlace, Singly
  <2>2. CASE Push(g, Frame("send", m))
    <3>1. PICK F : F = GenuineFrames'
      OBVIOUS
    <3>2. Frame("send", m) \in F /\ Token(Frame("send", m)) = {n}
      BY <1>1, <1>2, <3>1 DEF Frame, GenuineFrames, Requests, Token, Moving
    <3>3. stack \in [Goroutines -> Seq(F)]
      <4>1. \A s \in Seq(GenuineFrames) : s \in Seq(F)
        BY <1>2, <3>1, SeqMonotone
      <4>2. QED
        BY <4>1 DEF Consistent
    <3>4. StacksHold(g, Carries(stack[g]) \cup {n})
      <4>1. {n} \cap Carries(stack[g]) = {}
        BY <1>4, UnderWayTyped
      <4>2. QED
        BY <2>2, <3>2, <3>3, <4>1, CarriesMoves DEF OnePlace, Singly
    <3>5. QED
      BY <3>4 DEF StacksHold
  <2>3. QED
    BY <1>3, <2>1, <2>2
<1>6. Singly'
  BY <1>3, <1>5 DEF OnePlace, Singly, Once, OnceIn
<1>7. \A i \in Places : Where(i)' \subseteq IF i = <<"stack", g>> THEN Where(i) \cup {n} ELSE Where(i) \ {n}
  <2>0. \A i \in Places : n \notin Where(i)
    BY <1>4 DEF UnderWay
  <2>1. ASSUME NEW h \in Goroutines
        PROVE  Where(<<"stack", h>>)' \subseteq IF h = g THEN Where(<<"stack", h>>) \cup {n} ELSE Where(<<"stack", h>>) \ {n}
    <3>1. Where(<<"stack", h>>)' = Carries(stack'[h]) /\ Where(<<"stack", h>>) = Carries(stack[h])
      BY DEF Where, Carries
    <3>2. QED
      BY <1>5, <2>0, <3>1, PlaceOf
  <2>2. ASSUME NEW d \in Contexts PROVE Where(<<"channel", d>>)' \subseteq Where(<<"channel", d>>) \ {n}
    <3>1. Where(<<"channel", d>>)' = Where(<<"channel", d>>)
      BY <1>3 DEF Where, Holds
    <3>2. QED
      BY <2>0, <3>1, PlaceOf
  <2>3. QED
    BY <2>1, <2>2, PlaceOf
<1>8. QED
  BY <1>6, <1>7, OneMoves, PlaceOf

\* The message that a Context takes stays in one place, that of its handler, or
\* is nowhere any more.
LEMMA HandleRests ==
  ASSUME Consistent, OnePlace, NEW c \in Contexts, Handle(c), NEW x, x = Head(channel[c]).n
  PROVE  Rests /\ (UNCHANGED stack => x \notin UnderWay')
<1>1. PICK m, q : m = Head(channel[c]) /\ q = channel[c] /\ x = m.n
  OBVIOUS
<1>2. /\ q \in Seq(Genuine) /\ q # <<>> /\ m \in Genuine /\ channel' = [channel EXCEPT ![c] = Tail(q)]
      /\ x \in Calls /\ c \in Goroutines /\ x \in Goroutines
  <2>1. q \in Seq(Genuine) /\ q # <<>> /\ channel' = [channel EXCEPT ![c] = Tail(q)]
    BY <1>1 DEF Consistent, Handle
  <2>2. m \in Genuine
    BY <1>1, <2>1, HeadTail
  <2>3. QED
    BY <1>1, <2>1, <2>2 DEF Genuine, Message, Goroutines
<1>3. /\ stack \in [Goroutines -> Seq(GenuineFrames)] /\ \A h \in Goroutines : Once(stack[h])
      /\ channel \in [Contexts -> Seq(Genuine)]
  BY DEF Consistent, OnePlace, Singly
<1>4. \A d \in Contexts : OnceIn(channel'[d]) /\ Holds(channel'[d]) \subseteq IF d = c THEN Holds(channel[c]) \ {x} ELSE Holds(channel[d])
  <2>1. OnceIn(Tail(q)) /\ Holds(Tail(q)) = Holds(q) \ {x}
    BY <1>1, <1>2, HoldsOf DEF OnePlace, Singly
  <2>2. channel'[c] = Tail(q) /\ \A d \in Contexts : d # c => channel'[d] = channel[d]
    BY <1>2, <1>3
  <2>3. QED
    BY <1>1, <2>1, <2>2 DEF OnePlace, Singly
<1>5. x \in Holds(channel[c]) /\ x \in UnderWay
  <2>1. x \in Holds(channel[c])
    BY <1>1, <1>2, HoldsOf DEF OnePlace, Singly
  <2>2. QED
    BY <2>1, UnderWayTyped
<1>6. ASSUME NEW i \in Places, i # <<"channel", c>> PROVE x \notin Where(i)
  <2>1. <<"channel", c>> \in Places /\ x \in Where(<<"channel", c>>)
    BY <1>5, PlaceOf
  <2>2. Where(i) \cap Where(<<"channel", c>>) = {}
    BY <1>6, <2>1 DEF OnePlace, Alone
  <2>3. QED
    BY <2>1, <2>2
<1>7. ASSUME NEW d \in Contexts PROVE Where(<<"channel", d>>)' \subseteq Where(<<"channel", d>>) \ {x}
  <2>1. Where(<<"channel", d>>)' = Holds(channel'[d]) /\ Where(<<"channel", d>>) = Holds(channel[d])
    BY DEF Where, Holds
  <2>2. d # c => x \notin Where(<<"channel", d>>)
    BY <1>6, PlaceOf
  <2>3. QED
    BY <1>4, <2>1, <2>2
<1>8. ASSUME NEW k \in Goroutines, \A h \in Goroutines : Once(stack'[h]) /\ Carries(stack'[h]) \subseteq IF h = k THEN Carries(stack[h]) \cup {x} ELSE Carries(stack[h])
      PROVE  Rests
  <2>1. Singly'
    BY <1>4, <1>8 DEF Singly, Once, OnceIn
  <2>2. ASSUME NEW h \in Goroutines
        PROVE  Where(<<"stack", h>>)' \subseteq IF h = k THEN Where(<<"stack", h>>) \cup {x} ELSE Where(<<"stack", h>>) \ {x}
    <3>1. Where(<<"stack", h>>)' = Carries(stack'[h]) /\ Where(<<"stack", h>>) = Carries(stack[h])
      BY DEF Where, Carries
    <3>2. x \notin Where(<<"stack", h>>)
      BY <1>6, PlaceOf
    <3>3. QED
      BY <1>8, <3>1, <3>2
  <2>3. \A i \in Places : Where(i)' \subseteq IF i = <<"stack", k>> THEN Where(i) \cup {x} ELSE Where(i) \ {x}
    BY <1>7, <2>2, PlaceOf
  <2>4. OnePlace' /\ UnderWay' \subseteq UnderWay \cup {x}
    BY <2>1, <2>3, OneMoves, PlaceOf
  <2>5. QED
    BY <1>5, <2>4 DEF Rests
<1>9. CASE UNCHANGED stack
  <2>1. Rests
    BY <1>2, <1>3, <1>8, <1>9
  <2>2. ASSUME NEW h \in Goroutines PROVE x \notin Where(<<"stack", h>>)'
    <3>1. Where(<<"stack", h>>)' = Where(<<"stack", h>>)
      BY <1>9 DEF Where, Carries
    <3>2. QED
      BY <1>6, <3>1, PlaceOf
  <2>3. \A i \in Places : x \notin Where(i)'
    BY <1>7, <2>2, PlaceOf
  <2>4. x \notin UnderWay'
    BY <2>3 DEF UnderWay, Places
  <2>5. QED
    BY <2>1, <2>4
<1>10. ASSUME NEW f \in GenuineFrames, Token(f) \subseteq {x}, Push(c, f) PROVE Rests
  <2>1. Token(f) \cap Carries(stack[c]) = {}
    BY <1>2, <1>6, <1>10, PlaceOf
  <2>2. StacksHold(c, Carries(stack[c]) \cup Token(f))
    BY <1>2, <1>3, <1>10, <2>1, CarriesMoves
  <2>3. QED
    BY <1>2, <1>8, <1>10, <2>2 DEF StacksHold
<1>11. ASSUME NEW f \in GenuineFrames, Token(f) \subseteq {x}, stack' = [stack EXCEPT ![x] = <<f>>] PROVE Rests
  <2>1. StacksHold(x, Token(f))
    BY <1>2, <1>3, <1>11, CarriesMoves
  <2>2. QED
    BY <1>2, <1>8, <1>11, <2>1 DEF StacksHold
<1>12. CASE stack' # stack
  <2>1. \/ Push(c, Frame("inbox", m))
        \/ m.stage = "init" /\ (Push(c, Frame("begin", m)) \/ stack' = [stack EXCEPT ![x] = <<Frame("begin", m)>>])
        \/ m.to \in Clients /\ m.stage = "reply" /\ \E n \in Found(m) : Push(c, FoundFrame(m, n))
    BY <1>1, <1>12 DEF Handle, Drop, HandleRequest, StartHandler, HandleReply
  <2>2. /\ Frame("inbox", m) \in GenuineFrames /\ Token(Frame("inbox", m)) \subseteq {x}
        /\ m.stage = "init" => Frame("begin", m) \in GenuineFrames
        /\ Token(Frame("begin", m)) \subseteq {x}
    BY <1>1, <1>2 DEF Frame, GenuineFrames, Requests, Token, Moving
  <2>3. Push(c, Frame("inbox", m)) => Rests
    BY <1>10, <2>2
  <2>4. m.stage = "init" /\ Push(c, Frame("begin", m)) => Rests
    BY <1>10, <2>2
  <2>5. m.stage = "init" /\ stack' = [stack EXCEPT ![x] = <<Frame("begin", m)>>] => Rests
    BY <1>11, <2>2
  <2>6. ASSUME m.to \in Clients, m.stage = "reply", NEW n \in Found(m), Push(c, FoundFrame(m, n)) PROVE Rests
    <3>1. FoundFrame(m, n) \in GenuineFrames
      BY <1>2, <2>6, FoundAimed
    <3>2. Token(FoundFrame(m, n)) \subseteq {x}
      BY <1>1 DEF FoundFrame, Token, Moving
    <3>3. QED
      BY <1>10, <2>6, <3>1, <3>2
  <2>7. QED
    BY <1>12, <2>1, <2>3, <2>4, <2>5, <2>6
<1>13. QED
  BY <1>9, <1>12

-----------------------------------------------------------------------------
(* The answers: a REQUEST that is under way, or whose reply is, waits in the   *)
(* table of its caller, unless that was closed or set to nil.                  *)

Registered(n) == <<calls[n].msg.tid, n>> \in operations[calls[n].msg.from]
Ended == closed \cup lost

Later == \A n \in Calls : ~(n <= Used) => answers[n] = Waiting
Asked == \A n \in UnderWay : Asking(n) => n \in Ended \/ (answers[n] = Waiting /\ Registered(n))
Answering == Later /\ Asked

LEMMA UsedOf == ASSUME Consistent PROVE Used \in Nat /\ 1 .. Used \subseteq Calls /\ MaxCalls \in Nat
<1>1. Used \in Nat /\ MaxCalls \in Nat /\ Used <= MaxCalls
  BY SizeAssumption DEF Used, Consistent, TypeOK
<1>2. QED
  BY <1>1 DEF Calls

\* A step without a call, which leaves what is under way waiting in its table.
LEMMA AnswersMove ==
  ASSUME Consistent, Answering, UnderWay' \subseteq UnderWay, UNCHANGED calls, Ended \subseteq Ended',
         \A n \in Calls : ~(n <= Used) => answers'[n] = answers[n],
         \A n \in UnderWay' : Asking(n) /\ n \notin Ended' /\ answers[n] = Waiting /\ Registered(n)
                               => answers'[n] = Waiting /\ Registered(n)'
  PROVE  Answering'
<1>1. (\A n : Asking(n)' = Asking(n)) /\ Used' = Used /\ Waiting' = Waiting
  BY DEF Asking, Used, Waiting, Answer
<1>2. Later'
  BY <1>1 DEF Answering, Later
<1>3. ASSUME NEW n \in UnderWay', Asking(n) PROVE n \in Ended' \/ (answers'[n] = Waiting /\ Registered(n)')
  BY <1>3 DEF Answering, Asked
<1>4. Asked'
  BY <1>1, <1>3 DEF Asked
<1>5. QED
  BY <1>2, <1>4 DEF Answering

\* Tables and answers as they were.
LEMMA AnswersRest ==
  ASSUME Consistent, Answering, UnderWay' \subseteq UnderWay, UNCHANGED <<calls, answers, operations, closed, lost>>
  PROVE  Answering' /\ Ended \subseteq Ended'
<1>1. \A n : Registered(n)' = Registered(n)
  BY DEF Registered
<1>2. Ended \subseteq Ended'
  BY DEF Ended
<1>3. QED
  BY <1>1, <1>2, AnswersMove

\* The end of the call of a SEND is in no table.
LEMMA AnswersSend ==
  ASSUME Consistent, Answering, UnderWay' \subseteq UnderWay, NEW g \in Goroutines, Send(g)
  PROVE  Answering' /\ Ended \subseteq Ended'
<1>1. PICK m : m = Top(g).msg
  OBVIOUS
<1>2. m \in Genuine /\ m.type = calls[m.n].msg.type /\ m.n \in 1 .. Used
  <2>1. m \in Genuine
    BY <1>1, FrameOf DEF Send, At
  <2>2. QED
    BY <2>1, UsedOf DEF Genuine, Message, Calls
<1>3. /\ UNCHANGED <<calls, operations, closed, lost>> /\ answers \in [Calls -> [how : Ways, of : Nat]]
      /\ \/ UNCHANGED answers
         \/ m.type = "SEND" /\ answers' = [answers EXCEPT ![m.n] = Answer("sent", m.n)]
  BY <1>1 DEF Send, tables, Consistent, TypeOK
<1>4. CASE UNCHANGED answers
  BY <1>3, <1>4, AnswersRest
<1>5. CASE m.type = "SEND" /\ answers' = [answers EXCEPT ![m.n] = Answer("sent", m.n)]
  <2>1. \A n \in Calls : n # m.n => answers'[n] = answers[n]
    BY <1>3, <1>5
  <2>2. ASSUME NEW n, ~(n <= Used) \/ Asking(n) PROVE n # m.n
    <3>1. m.n <= Used /\ ~Asking(m.n)
      BY <1>2, <1>5, UsedOf DEF Asking
    <3>2. QED
      BY <2>2, <3>1
  <2>3. \A n \in UnderWay' : n \in Calls
    BY UsedOf, UnderWayTyped
  <2>4. \A n : Registered(n)' = Registered(n)
    BY <1>3 DEF Registered
  <2>5. Ended \subseteq Ended'
    BY <1>3 DEF Ended
  <2>6. QED
    BY <1>3, <2>1, <2>2, <2>3, <2>4, <2>5, AnswersMove
<1>6. QED
  BY <1>3, <1>4, <1>5

\* A call that returns has its answer.
LEMMA AnswersReturn ==
  ASSUME Matched, Answering, UnderWay' \subseteq UnderWay, NEW g \in Goroutines, Return(g)
  PROVE  Answering' /\ Ended \subseteq Ended'
<1>0. Consistent
  BY DEF Matched
<1>1. PICK m : m = Top(g).msg
  OBVIOUS
<1>2. /\ answers[m.n] # Waiting /\ UNCHANGED <<calls, answers, closed, lost>>
      /\ operations' = [operations EXCEPT ![m.from] = @ \ {<<m.tid, m.n>>}] /\ operations \in [Clients -> SUBSET (Nat \X Calls)]
  BY <1>0, <1>1 DEF Return, Consistent, TypeOK
<1>3. \A u \in Clients : \A n, t : n # m.n /\ <<t, n>> \in operations[u] => <<t, n>> \in operations'[u]
  BY <1>2
<1>4. Ended \subseteq Ended'
  BY <1>2 DEF Ended
<1>5. ASSUME NEW n \in UnderWay', Asking(n), answers[n] = Waiting, Registered(n)
      PROVE  answers'[n] = Waiting /\ Registered(n)'
  <2>1. n \in 1 .. Used
    BY <1>0, <1>5, UnderWayTyped
  <2>2. calls[n].msg.from \in Clients
    BY <1>5, <2>1 DEF Matched, ClientsAsk
  <2>3. n # m.n
    BY <1>2, <1>5
  <2>4. QED
    BY <1>2, <1>3, <1>5, <2>2, <2>3 DEF Registered
<1>6. QED
  BY <1>0, <1>2, <1>4, <1>5, AnswersMove

\* Entries belong to one caller.
LEMMA EntryOf ==
  ASSUME Consistent, NEW u \in Clients, NEW x \in operations[u]
  PROVE  x[2] \in 1 .. Used /\ x[2] \in Calls /\ calls[x[2]].msg.from = u /\ calls[x[2]].msg.tid = x[1] /\ x = <<x[1], x[2]>>
<1>1. x \in Entries(u)
  BY DEF Consistent
<1>2. x \in Nat \X Calls /\ x[2] <= Used /\ calls[x[2]].msg.from = u /\ calls[x[2]].msg.tid = x[1]
  BY <1>1 DEF Entries
<1>3. Used \in Nat
  BY UsedOf
<1>4. QED
  BY <1>2, <1>3 DEF Calls

\* An operation is closed: its call, and no other, has no entry any more.
LEMMA AnswersCloseOp ==
  ASSUME Matched, Answering, UnderWay' \subseteq UnderWay, NEW a \in Apps, CloseOp(a)
  PROVE  Answering' /\ Ended \subseteq Ended'
<1>0. Consistent
  BY DEF Matched
<1>1. PICK u : u = Top(a).msg.u
  OBVIOUS
<1>2. u \in Clients
  <2>1. Top(a) \in CleanFrames
    BY <1>0, FrameOf DEF CloseOp, At, Goroutines
  <2>2. QED
    BY <1>1, <2>1 DEF CleanFrames
<1>3. PICK x \in operations[u] :
        /\ operations' = [operations EXCEPT ![u] = @ \ {x}] /\ closed' = closed \cup {x[2]}
        /\ answers' = IF Waits(x[2]) THEN [answers EXCEPT ![x[2]] = Answer("closed", 0)] ELSE answers
  BY <1>1 DEF CloseOp
<1>4. UNCHANGED <<calls, lost>>
  BY DEF CloseOp
<1>5. PICK k : k = x[2]
  OBVIOUS
<1>6. x = <<x[1], k>> /\ k \in 1 .. Used /\ k \in Ended' /\ Ended \subseteq Ended'
  BY <1>0, <1>2, <1>3, <1>4, <1>5, EntryOf DEF Ended
<1>7. \A n \in Calls : n # k => answers'[n] = answers[n]
  <2>1. answers' = answers \/ answers' = [answers EXCEPT ![k] = Answer("closed", 0)]
    BY <1>3, <1>5
  <2>2. answers \in [Calls -> [how : Ways, of : Nat]]
    BY <1>0 DEF Consistent, TypeOK
  <2>3. QED
    BY <2>1, <2>2
<1>8. \A w \in Clients : \A n, t : n # k /\ <<t, n>> \in operations[w] => <<t, n>> \in operations'[w]
  <2>1. operations \in [Clients -> SUBSET (Nat \X Calls)]
    BY <1>0 DEF Consistent, TypeOK
  <2>2. QED
    BY <1>2, <1>3, <1>6, <2>1
<1>9. ASSUME NEW n \in UnderWay', Asking(n), n \notin Ended', answers[n] = Waiting, Registered(n)
      PROVE  answers'[n] = Waiting /\ Registered(n)'
  <2>1. n \in 1 .. Used /\ n \in Calls /\ n # k
    BY <1>0, <1>6, <1>9, UnderWayTyped, UsedOf
  <2>2. calls[n].msg.from \in Clients
    BY <1>9, <2>1 DEF Matched, ClientsAsk
  <2>3. QED
    BY <1>4, <1>7, <1>8, <1>9, <2>1, <2>2 DEF Registered
<1>10. \A n \in Calls : ~(n <= Used) => answers'[n] = answers[n]
  BY <1>0, <1>6, <1>7, UsedOf
<1>11. QED
  BY <1>0, <1>4, <1>6, <1>9, <1>10, AnswersMove

\* The tables are set to nil: the calls that were left in them are lost.
LEMMA AnswersClean ==
  ASSUME Matched, Answering, UnderWay' \subseteq UnderWay, NEW a \in Apps, Clean(a)
  PROVE  Answering' /\ Ended \subseteq Ended'
<1>0. Consistent
  BY DEF Matched
<1>1. PICK u, ended : u = Top(a).msg.u /\ ended = {x[2] : x \in operations[u]}
  OBVIOUS
<1>2. /\ UNCHANGED <<calls, answers, closed>> /\ lost' = lost \cup ended
      /\ operations' = [operations EXCEPT ![u] = {}] /\ operations \in [Clients -> SUBSET (Nat \X Calls)]
  BY <1>0, <1>1 DEF Clean, Consistent, TypeOK
<1>3. Ended \subseteq Ended'
  BY <1>2 DEF Ended
<1>4. ASSUME NEW n \in UnderWay', Asking(n), n \notin Ended', answers[n] = Waiting, Registered(n)
      PROVE  answers'[n] = Waiting /\ Registered(n)'
  <2>1. n \in 1 .. Used /\ calls[n].msg.from \in Clients
    BY <1>0, <1>4, UnderWayTyped DEF Matched, ClientsAsk
  <2>2. CASE calls[n].msg.from = u
    <3>1. n \in ended
      BY <1>1, <1>4, <2>2 DEF Registered
    <3>2. QED
      BY <1>2, <1>4, <3>1 DEF Ended
  <2>3. CASE calls[n].msg.from # u
    BY <1>2, <1>4, <2>1, <2>3 DEF Registered
  <2>4. QED
    BY <2>2, <2>3
<1>5. QED
  BY <1>0, <1>2, <1>3, <1>4, AnswersMove

\* A reply is given to its own call, which has no other message under way.
LEMMA AnswersReply ==
  ASSUME Matched, Answering, UnderWay' \subseteq UnderWay, NEW c \in Contexts, Deliver(c), Top(c).msg.n \notin UnderWay'
  PROVE  Answering' /\ Ended \subseteq Ended'
<1>0. Consistent
  BY DEF Matched
<1>1. PICK k : k = Top(c).msg.n
  OBVIOUS
<1>2. k \in 1 .. Used /\ k \notin UnderWay' /\ answers' = [answers EXCEPT ![k] = Answer("reply", k)]
  BY <1>1, DeliverOwn
<1>3. UNCHANGED <<calls, operations, closed, lost>> /\ Ended \subseteq Ended'
  BY DEF Deliver, tables, Ended
<1>4. \A n \in Calls : n # k => answers'[n] = answers[n]
  <2>1. answers \in [Calls -> [how : Ways, of : Nat]]
    BY <1>0 DEF Consistent, TypeOK
  <2>2. QED
    BY <1>2, <2>1
<1>5. ASSUME NEW n \in UnderWay', Asking(n), answers[n] = Waiting, Registered(n)
      PROVE  answers'[n] = Waiting /\ Registered(n)'
  <2>1. n \in Calls /\ n # k
    BY <1>0, <1>2, <1>5, UnderWayTyped, UsedOf
  <2>2. QED
    BY <1>3, <1>4, <1>5, <2>1 DEF Registered
<1>6. \A n \in Calls : ~(n <= Used) => answers'[n] = answers[n]
  BY <1>0, <1>2, <1>4, UsedOf
<1>7. QED
  BY <1>0, <1>3, <1>5, <1>6, AnswersMove

\* A REQUEST is registered before it is sent.
LEMMA AnswersCall ==
  ASSUME Matched, OnePlace, Answering, NEW g \in Goroutines, NEW u \in Uris, NEW v \in Uris, NEW op \in Ops,
         NEW type \in Types, Call(g, u, v, op, type)
  PROVE  Answering' /\ Ended \subseteq Ended'
<1>0. Consistent /\ UNCHANGED <<closed, lost>> /\ Ended' = Ended
  BY DEF Matched, Call, Ended
<1>1. PICK n, m : /\ n = Used + 1
                  /\ m = [n |-> n, stage |-> "init", type |-> type, from |-> u, to |-> v, op |-> op, tid |-> NextTid(u)]
  OBVIOUS
<1>2. /\ Used \in Nat /\ Used' = n /\ n \in Calls /\ calls'[n].msg = m /\ \A i \in 1 .. Used : calls'[i] = calls[i]
  <2>1. m \in Message /\ Used \in Nat /\ Used' = n /\ calls'[n].msg = m /\ \A i \in 1 .. Used : calls'[i] = calls[i]
    BY <1>0, <1>1, CallMessage
  <2>2. QED
    BY <1>1, <2>1 DEF Message
<1>3. \A i \in 1 .. Used : i # n /\ i \in 1 .. Used' /\ i \in Calls /\ i <= Used /\ i <= Used'
  <2>1. \A i \in 1 .. Used : i # n /\ i \in 1 .. n /\ i <= Used /\ i <= n
    BY <1>1, <1>2
  <2>2. QED
    BY <1>0, <1>2, <2>1, UsedOf
<1>4. /\ \A k \in Calls : k # n => answers'[k] = answers[k]
      /\ (~UNCHANGED stack => UNCHANGED answers) /\ ~(n <= Used) /\ \A k \in Calls : ~(k <= Used') => ~(k <= Used) /\ k # n
  <2>1. answers \in [Calls -> [how : Ways, of : Nat]] /\ \A k \in Calls : k \in Nat
    BY <1>0 DEF Consistent, TypeOK, Calls
  <2>2. ~(n <= Used) /\ \A k \in Nat : ~(k <= n) => ~(k <= Used) /\ k # n
    BY <1>1, <1>2
  <2>3. UNCHANGED answers \/ (answers' = [answers EXCEPT ![n] = Answer("error", 0)] /\ UNCHANGED stack)
    BY <1>1 DEF Call
  <2>4. QED
    BY <1>2, <2>1, <2>2, <2>3
<1>5. /\ \A i \in 1 .. Used : Asking(i)' = Asking(i)
      /\ Asking(n)' = (type = "REQUEST")
  BY <1>1, <1>2, <1>3 DEF Asking
<1>6. type = "REQUEST" => u \in Clients
  BY DEF Call, Uris
<1>8. Later'
  BY <1>4 DEF Answering, Later, Waiting, Answer
<1>9. answers[n] = Waiting
  BY <1>2, <1>4 DEF Answering, Later, Waiting, Answer
<1>10. /\ \A w \in Clients : operations[w] \subseteq operations'[w]
       /\ ~UNCHANGED stack /\ type = "REQUEST" => <<m.tid, n>> \in operations'[u]
  <2>1. operations \in [Clients -> SUBSET (Nat \X Calls)]
    BY <1>0 DEF Consistent, TypeOK
  <2>2. \/ UNCHANGED operations /\ (~UNCHANGED stack => type # "REQUEST")
        \/ type = "REQUEST" /\ UNCHANGED answers /\ operations' = [operations EXCEPT ![u] = @ \cup {<<m.tid, n>>}]
    BY <1>1 DEF Call, RegisterOp
  <2>3. CASE UNCHANGED operations /\ (~UNCHANGED stack => type # "REQUEST")
    BY <2>3
  <2>4. CASE type = "REQUEST" /\ UNCHANGED answers /\ operations' = [operations EXCEPT ![u] = @ \cup {<<m.tid, n>>}]
    BY <1>6, <2>1, <2>4
  <2>5. QED
    BY <2>2, <2>3, <2>4
<1>12. UnderWay' \subseteq UnderWay \cup {n} /\ (UNCHANGED stack => UnderWay' = UnderWay)
  <2>1. UNCHANGED channel
    BY DEF Call
  <2>2. UNCHANGED stack => UnderWay' = UnderWay
    BY <2>1 DEF UnderWay, Where, Places
  <2>3. QED
    BY <1>0, <1>1, <2>2, CallPlaces
<1>13. ASSUME NEW k \in UnderWay', Asking(k)' PROVE k \in Ended' \/ (answers'[k] = Waiting /\ Registered(k)')
  <2>1. CASE k \in UnderWay
    <3>1. k \in 1 .. Used /\ k \in Calls /\ Asking(k) /\ answers'[k] = answers[k] /\ calls'[k] = calls[k]
      <4>1. k \in 1 .. Used
        BY <1>0, <2>1, UnderWayTyped
      <4>2. QED
        BY <1>2, <1>3, <1>4, <1>5, <1>13, <4>1
    <3>2. calls[k].msg.from \in Clients
      BY <3>1 DEF Matched, ClientsAsk
    <3>3. Registered(k) => Registered(k)'
      BY <1>10, <3>1, <3>2 DEF Registered
    <3>4. QED
      BY <1>0, <2>1, <3>1, <3>3 DEF Answering, Asked
  <2>2. CASE k = n /\ ~UNCHANGED stack
    <3>1. type = "REQUEST" /\ answers'[n] = Waiting
      BY <1>4, <1>5, <1>9, <1>13, <2>2 DEF Asking
    <3>2. <<m.tid, n>> \in operations'[u] /\ calls'[n].msg.from = u /\ calls'[n].msg.tid = m.tid
      BY <1>1, <1>2, <1>10, <2>2, <3>1
    <3>3. QED
      BY <2>2, <3>1, <3>2 DEF Registered
  <2>3. QED
    BY <1>12, <1>13, <2>1, <2>2
<1>14. Asked'
  BY <1>13 DEF Asked, Asking, Registered, Waiting, Answer
<1>15. QED
  BY <1>0, <1>8, <1>14 DEF Answering

\* Every step keeps each message in one place and each question in its table.
LEMMA AnsweringNext ==
  ASSUME Matched, OnePlace, Answering, [Next]_vars
  PROVE  OnePlace' /\ Answering' /\ Ended \subseteq Ended'
<1>0. Consistent
  BY DEF Matched
<1>1. CASE CallSome
  <2>1. PICK g \in Goroutines, u \in Uris, v \in Uris, op \in Ops, type \in Types : Call(g, u, v, op, type)
    BY <1>1 DEF CallSome
  <2>2. PICK n : n = Used + 1
    OBVIOUS
  <2>3. OnePlace'
    BY <1>0, <2>1, <2>2, CallPlaces
  <2>4. QED
    BY <2>1, <2>3, AnswersCall
<1>2. CASE Administer
  <2>1. OnePlace' /\ UnderWay' \subseteq UnderWay
    BY <1>0, <1>2, QuietRests DEF Quiet, Rests
  <2>2. UNCHANGED <<calls, answers, operations, closed, lost>>
    BY <1>2 DEF Administer, SetConcurrency, RegisterHandler, DeregisterHandler, CloseEndPoint, NewEndPoint, NewClient,
                CloseClient, CloseContext, Unregister, tables
  <2>3. QED
    BY <1>0, <2>1, <2>2, AnswersRest
<1>3. ASSUME NEW g \in Goroutines, Run(g) PROVE OnePlace' /\ Answering' /\ Ended \subseteq Ended'
  <2>1. OnePlace' /\ UnderWay' \subseteq UnderWay
    BY <1>0, <1>3, SendRests, RunRests DEF Run, Rests
  <2>2. CASE Await(g) \/ Begin(g) \/ Reply(g) \/ Finish(g)
    <3>1. UNCHANGED <<calls, answers, operations, closed, lost>>
      BY <2>2 DEF Await, Begin, Reply, Finish, tables
    <3>2. QED
      BY <1>0, <2>1, <3>1, AnswersRest
  <2>3. QED
    BY <1>0, <1>3, <2>1, <2>2, AnswersSend, AnswersReturn DEF Run
<1>4. ASSUME NEW c \in Contexts, Loop(c) PROVE OnePlace' /\ Answering' /\ Ended \subseteq Ended'
  <2>1. CASE OnMessage(c) \/ Evaluate(c)
    <3>1. OnePlace' /\ UnderWay' \subseteq UnderWay /\ UNCHANGED <<calls, answers, operations, closed, lost>>
      BY <1>0, <2>1, QuietRests DEF Quiet, Rests, OnMessage, Evaluate, tables
    <3>2. QED
      BY <1>0, <3>1, AnswersRest
  <2>2. CASE Handle(c)
    <3>1. OnePlace' /\ UnderWay' \subseteq UnderWay
      BY <1>0, <2>2, HandleRests DEF Rests
    <3>2. UNCHANGED <<calls, answers, operations, closed, lost>>
      BY <2>2 DEF Handle, tables
    <3>3. QED
      BY <1>0, <3>1, <3>2, AnswersRest
  <2>3. CASE Deliver(c)
    <3>1. c \in Goroutines /\ stack[c] # <<>> /\ Pop(c) /\ UNCHANGED channel /\ Top(c).at = "deliver"
      BY <1>0, <2>3, FrameOf DEF Deliver, At, Goroutines
    <3>2. Rests /\ \A x \in Token(Top(c)) : x \notin UnderWay'
      BY <1>0, <3>1, StackRests
    <3>3. Top(c).msg.n \notin UnderWay'
      BY <3>1, <3>2 DEF Token, Moving
    <3>4. QED
      BY <2>3, <3>2, <3>3, AnswersReply DEF Rests
  <2>4. QED
    BY <1>4, <2>1, <2>2, <2>3 DEF Loop
<1>5. ASSUME NEW a \in Apps, Recv(a) \/ Closing(a) PROVE OnePlace' /\ Answering' /\ Ended \subseteq Ended'
  <2>1. OnePlace' /\ UnderWay' \subseteq UnderWay
    BY <1>0, <1>5, QuietRests DEF Quiet, Rests
  <2>2. \/ UNCHANGED <<calls, answers, operations, closed, lost>>
        \/ CloseOp(a) \/ Clean(a)
    BY <1>5 DEF Recv, Closing, OnClose, Closed, tables
  <2>3. QED
    BY <1>0, <2>1, <2>2, AnswersRest, AnswersCloseOp, AnswersClean
<1>6. CASE UNCHANGED vars
  <2>1. UNCHANGED <<calls, answers, operations, closed, lost, stack, channel>>
    BY <1>6 DEF vars, tables
  <2>2. OnePlace' /\ UnderWay' = UnderWay
    BY <2>1 DEF OnePlace, Singly, Alone, UnderWay, Where, Places
  <2>3. QED
    BY <1>0, <2>1, <2>2, AnswersRest
<1>7. QED
  BY <1>1, <1>2, <1>3, <1>4, <1>5, <1>6 DEF Next, Progress

-----------------------------------------------------------------------------
(* What is served from the first on, and what is dropped.                      *)

\* What is still kept has its listener and its handler.
KeptServed ==
  \A x \in kept : /\ x \in Uris \X Ops \X Types /\ x[1] \in listeners[Home[x[1]]]
                  /\ x[1] \in Clients => <<x[2], x[3]>> \in handlers[x[1]]

LEMMA KeptNext ==
  ASSUME Consistent, KeptServed, [Next]_vars
  PROVE  KeptServed' /\ kept' \subseteq kept
<1>1. listeners \in [Contexts -> SUBSET Uris] /\ handlers \in [Clients -> SUBSET (Ops \X Types)]
      /\ \A u \in Uris : Home[u] \in Contexts
  BY HomeAssumption DEF Consistent, TypeOK, Uris
<1>2. ASSUME kept' \subseteq kept,
             \A x \in kept' : /\ listeners[Home[x[1]]] \subseteq listeners'[Home[x[1]]] \/ x[1] \in listeners'[Home[x[1]]]
                              /\ x[1] \in Clients => (handlers[x[1]] \subseteq handlers'[x[1]] \/ <<x[2], x[3]>> \in handlers'[x[1]])
      PROVE  KeptServed'
  BY <1>2 DEF KeptServed
<1>3. CASE UNCHANGED <<kept, listeners, handlers>>
  BY <1>2, <1>3
<1>4. ASSUME NEW u \in Clients, NEW op \in Ops, NEW t \in Types, RegisterHandler(u, op, t) PROVE KeptServed' /\ kept' \subseteq kept
  <2>1. UNCHANGED <<kept, listeners>> /\ \A w \in Clients : handlers[w] \subseteq handlers'[w]
    BY <1>1, <1>4 DEF RegisterHandler
  <2>2. QED
    BY <1>2, <2>1
<1>5. ASSUME NEW u \in Clients, NEW op \in Ops, DeregisterHandler(u, op) PROVE KeptServed' /\ kept' \subseteq kept
  <2>1. UNCHANGED listeners /\ kept' = kept \ ({u} \X {op} \X Types)
        /\ handlers' = [handlers EXCEPT ![u] = @ \ ({op} \X Types)]
    BY <1>5 DEF DeregisterHandler
  <2>2. ASSUME NEW x \in kept', x[1] \in Clients PROVE <<x[2], x[3]>> \in handlers'[x[1]]
    <3>1. x \in kept /\ x \in Uris \X Ops \X Types /\ <<x[2], x[3]>> \in handlers[x[1]] /\ ~(x[1] = u /\ x[2] = op)
      BY <2>1, <2>2 DEF KeptServed
    <3>2. CASE x[1] = u
      BY <1>1, <2>1, <3>1, <3>2
    <3>3. CASE x[1] # u
      BY <1>1, <2>1, <2>2, <3>1, <3>3
    <3>4. QED
      BY <3>2, <3>3
  <2>3. QED
    BY <1>2, <2>1, <2>2
<1>6. ASSUME NEW u \in Uris, Unregister(u) PROVE KeptServed' /\ kept' \subseteq kept
  <2>1. UNCHANGED handlers /\ kept' = kept \ ({u} \X Ops \X Types)
        /\ listeners' = [listeners EXCEPT ![Home[u]] = @ \ {u}]
    BY <1>6 DEF Unregister
  <2>2. ASSUME NEW x \in kept' PROVE x[1] \in listeners'[Home[x[1]]]
    <3>1. x \in kept /\ x \in Uris \X Ops \X Types /\ x[1] # u /\ x[1] \in listeners[Home[x[1]]]
      BY <2>1, <2>2 DEF KeptServed
    <3>2. QED
      BY <1>1, <2>1, <3>1
  <2>3. QED
    BY <1>2, <2>1, <2>2
<1>7. ASSUME NEW a \in Apps, Clean(a) PROVE KeptServed' /\ kept' \subseteq kept
  <2>0. PICK u : u = Top(a).msg.u
    OBVIOUS
  <2>1. kept' = kept \ ({u} \X Ops \X Types) /\ handlers' = [handlers EXCEPT ![u] = {}] /\ UNCHANGED listeners
    BY <1>7, <2>0 DEF Clean
  <2>2. ASSUME NEW x \in kept', x[1] \in Clients PROVE handlers'[x[1]] = handlers[x[1]]
    <3>1. x \in kept /\ x \in Uris \X Ops \X Types /\ x[1] # u
      BY <2>1, <2>2 DEF KeptServed
    <3>2. QED
      BY <1>1, <2>1, <2>2, <3>1
  <2>3. QED
    BY <1>2, <2>1, <2>2
<1>8. ASSUME NEW u \in Uris, listeners' = [listeners EXCEPT ![Home[u]] = @ \cup {u}], UNCHANGED <<kept, handlers>>
      PROVE  KeptServed' /\ kept' \subseteq kept
  <2>1. \A c \in Contexts : listeners[c] \subseteq listeners'[c]
    BY <1>1, <1>8
  <2>2. \A x \in kept : Home[x[1]] \in Contexts
    BY <1>1 DEF KeptServed
  <2>3. QED
    BY <1>2, <1>8, <2>1, <2>2
<1>9. CASE Administer
  <2>1. ASSUME NEW a \in Apps, CloseClient(a) PROVE \E u \in Uris : Unregister(u)
    BY <2>1, HomeAssumption DEF CloseClient, Uris
  <2>2. ASSUME NEW a \in Apps, NewClient(a)
        PROVE  \E u \in Uris : listeners' = [listeners EXCEPT ![Home[u]] = @ \cup {u}] /\ UNCHANGED <<kept, handlers>>
    BY <2>2, HomeAssumption DEF NewClient, Uris
  <2>3. ASSUME NEW u \in EndPoints, CloseEndPoint(u) \/ NewEndPoint(u)
        PROVE  u \in Uris /\ (Unregister(u) \/ (listeners' = [listeners EXCEPT ![Home[u]] = @ \cup {u}] /\ UNCHANGED <<kept, handlers>>))
    BY <2>3 DEF CloseEndPoint, NewEndPoint, Uris
  <2>4. ASSUME NEW u \in Clients, NEW on \in BOOLEAN, SetConcurrency(u, on) PROVE UNCHANGED <<kept, listeners, handlers>>
    BY <2>4 DEF SetConcurrency
  <2>5. ASSUME NEW a \in Apps, NEW c \in Contexts, CloseContext(a, c) PROVE UNCHANGED <<kept, listeners, handlers>>
    BY <2>5 DEF CloseContext, tables
  <2>6. QED
    BY <1>3, <1>4, <1>5, <1>6, <1>8, <1>9, <2>1, <2>2, <2>3, <2>4, <2>5 DEF Administer
<1>10. CASE CallSome \/ Progress \/ UNCHANGED vars
  <2>1. \/ UNCHANGED <<kept, listeners, handlers>>
        \/ \E a \in Apps : Clean(a)
    <3>1. CASE CallSome
      BY <3>1 DEF CallSome, Call
    <3>2. CASE \E g \in Goroutines : Run(g)
      BY <3>2 DEF Run, Send, Await, Return, Begin, Reply, Finish, tables
    <3>3. CASE \E c \in Contexts : Loop(c)
      BY <3>3 DEF Loop, Handle, OnMessage, Evaluate, Deliver, tables
    <3>4. CASE \E a \in Apps : Recv(a) \/ Closing(a)
      BY <3>4 DEF Recv, Closing, OnClose, CloseOp, Closed, tables
    <3>5. CASE UNCHANGED vars
      BY <3>5 DEF vars, tables
    <3>6. QED
      BY <1>10, <3>1, <3>2, <3>3, <3>4, <3>5 DEF Progress
  <2>2. QED
    BY <1>3, <1>7, <2>1
<1>11. QED
  BY <1>9, <1>10 DEF Next

DropExcused(m) ==
  \/ m.stage = "reply" /\ (Gone(m.to) \/ m.n \in Ended)
  \/ m.stage = "init" /\ <<m.to, m.op, m.type>> \notin kept

\* A closed client is not there again, unless it is made again.
LEMMA GoneStays ==
  ASSUME Consistent, [Next]_vars, NEW u \in Clients, \A a \in Apps : NewClient(a) => AppUri[a] # u, Gone(u)
  PROVE  Gone(u)'
<1>1. /\ listeners \in [Contexts -> SUBSET Uris] /\ Home[u] \in Contexts /\ u \notin EndPoints
      /\ \A v \in Uris : Home[v] \in Contexts
  BY HomeAssumption DEF Consistent, TypeOK, Uris
<1>2. ASSUME routes' \subseteq routes, open' \subseteq open, listeners'[Home[u]] \subseteq listeners[Home[u]] PROVE Gone(u)'
  BY <1>2 DEF Gone
<1>3. CASE UNCHANGED <<open, listeners>> /\ routes' \subseteq routes
  BY <1>2, <1>3
<1>4. ASSUME NEW v \in Uris, Unregister(v) PROVE routes' \subseteq routes /\ open' \subseteq open /\ listeners'[Home[u]] \subseteq listeners[Home[u]]
  BY <1>1, <1>4 DEF Unregister
<1>5. CASE Administer
  <2>1. ASSUME NEW a \in Apps, CloseClient(a) PROVE Gone(u)'
    BY <1>2, <1>4, <2>1, HomeAssumption DEF CloseClient, Uris
  <2>2. ASSUME NEW v \in EndPoints, CloseEndPoint(v) PROVE Gone(u)'
    BY <1>2, <1>4, <2>2 DEF CloseEndPoint, Uris
  <2>3. ASSUME NEW v \in EndPoints, NewEndPoint(v) PROVE Gone(u)'
    <3>1. listeners' = [listeners EXCEPT ![Home[v]] = @ \cup {v}] /\ v # u /\ UNCHANGED <<routes, open>>
      BY <1>1, <2>3 DEF NewEndPoint
    <3>2. u \in listeners'[Home[u]] => u \in listeners[Home[u]]
      BY <1>1, <3>1
    <3>3. QED
      BY <3>1, <3>2 DEF Gone
  <2>4. ASSUME NEW a \in Apps, NewClient(a) PROVE Gone(u)'
    <3>1. PICK v : v = AppUri[a]
      OBVIOUS
    <3>2. listeners' = [listeners EXCEPT ![Home[v]] = @ \cup {v}] /\ v # u /\ open' = open \cup {v} /\ UNCHANGED routes
      BY <2>4, <3>1 DEF NewClient
    <3>3. (u \in listeners'[Home[u]] => u \in listeners[Home[u]]) /\ (u \in open' => u \in open)
      BY <1>1, <3>2
    <3>4. QED
      BY <3>2, <3>3 DEF Gone
  <2>5. ASSUME NEW v \in Clients, NEW op \in Ops, NEW t \in Types, RegisterHandler(v, op, t) PROVE Gone(u)'
    BY <1>3, <2>5 DEF RegisterHandler
  <2>6. ASSUME NEW v \in Clients, NEW op \in Ops, DeregisterHandler(v, op) PROVE Gone(u)'
    BY <1>3, <2>6 DEF DeregisterHandler
  <2>7. ASSUME NEW v \in Clients, NEW on \in BOOLEAN, SetConcurrency(v, on) PROVE Gone(u)'
    BY <1>3, <2>7 DEF SetConcurrency
  <2>8. ASSUME NEW a \in Apps, NEW c \in Contexts, CloseContext(a, c) PROVE Gone(u)'
    BY <1>3, <2>8 DEF CloseContext, tables
  <2>9. QED
    BY <1>5, <2>1, <2>2, <2>3, <2>4, <2>5, <2>6, <2>7, <2>8 DEF Administer
<1>6. CASE CallSome
  BY <1>3, <1>6 DEF CallSome, Call
<1>7. CASE \E g \in Goroutines : Run(g)
  BY <1>3, <1>7 DEF Run, Send, Await, Return, Begin, Reply, Finish, tables
<1>8. CASE \E c \in Contexts : Loop(c)
  BY <1>3, <1>8 DEF Loop, Handle, OnMessage, Evaluate, Deliver, tables
<1>9. ASSUME NEW a \in Apps, Recv(a) \/ Closing(a) PROVE Gone(u)'
  <2>1. UNCHANGED listeners /\ routes' \subseteq routes /\ open' \subseteq open
    BY <1>9 DEF Recv, Closing, OnClose, CloseOp, Closed, Clean, tables
  <2>2. QED
    BY <1>2, <2>1
<1>10. CASE UNCHANGED vars
  BY <1>3, <1>10 DEF vars, tables
<1>11. QED
  BY <1>5, <1>6, <1>7, <1>8, <1>9, <1>10 DEF Next, Progress

\* An excuse stays one.
LEMMA ExcuseStays ==
  ASSUME Matched, [Next]_vars, [FirstUse]_vars, Ended \subseteq Ended', kept' \subseteq kept, NEW m \in Genuine, DropExcused(m)
  PROVE  DropExcused(m)'
<1>0. Consistent
  BY DEF Matched
<1>1. m.n \in 1 .. Used
  BY <1>0, UsedOf DEF Genuine, Message, Calls
<1>2. CASE m.stage = "init" /\ <<m.to, m.op, m.type>> \notin kept
  BY <1>2 DEF DropExcused
<1>3. CASE m.stage = "reply" /\ (Gone(m.to) \/ m.n \in Ended)
  <2>1. m.to = calls[m.n].msg.from /\ m.to \in Clients
    BY <1>1, <1>3 DEF Genuine, Asking, Matched, ClientsAsk
  <2>2. CASE m.n \in Ended
    BY <1>3, <2>2 DEF DropExcused, Ended
  <2>3. CASE Gone(m.to)
    <3>1. ASSUME NEW a \in Apps, NewClient(a) PROVE AppUri[a] # m.to
      <4>1. PICK u : u = AppUri[a]
        OBVIOUS
      <4>2. open' # open
        BY <3>1 DEF NewClient
      <4>3. FirstUse
        BY <4>2 DEF vars, tables
      <4>4. QED
        BY <1>1, <2>1, <3>1, <4>3 DEF FirstUse
    <3>2. PICK u \in Clients : u = m.to
      BY <2>1
    <3>3. Gone(u)'
      BY <1>0, <2>3, <3>1, <3>2, GoneStays DEF Gone
    <3>4. QED
      BY <1>3, <3>2, <3>3 DEF DropExcused, Gone
  <2>4. QED
    BY <1>3, <2>2, <2>3
<1>4. QED
  BY <1>2, <1>3 DEF DropExcused

\* The message that a Context drops has an excuse.
LEMMA HandleExcused ==
  ASSUME Consistent, AtHome, OnePlace, Answering, KeptServed, NEW c \in Contexts, Handle(c), NEW m, m = Head(channel[c]),
         dropped' # dropped
  PROVE  m \in Genuine /\ dropped' = dropped \cup {m} /\ DropExcused(m)'
<1>1. channel[c] \in Seq(Genuine) /\ channel[c] # <<>>
  BY DEF Consistent, Handle
<1>2. m \in Genuine /\ m \in Message /\ Home[m.to] = c
  <2>1. m \in Genuine
    BY <1>1, HeadTail
  <2>2. 1 \in 1 .. Len(channel[c]) /\ m = channel[c][1]
    BY <1>1
  <2>3. QED
    BY <2>1, <2>2 DEF AtHome, Genuine
<1>3. m.n \in UnderWay
  <2>1. m.n \in Holds(channel[c])
    BY <1>1, HoldsOf DEF OnePlace, Singly
  <2>2. QED
    BY <2>1, UnderWayTyped
<1>4. UNCHANGED <<closed, lost, listeners, open, routes, kept>> /\ dropped' = dropped \cup {m}
  BY DEF Handle, HandleRequest, HandleReply, Drop, tables
<1>5. DropExcused(m)
  <2>1. m.stage \in {"init", "reply"} /\ m.to \in Uris
    BY <1>2 DEF Message
  <2>2. CASE m.to \notin listeners[c]
    BY <1>2, <2>1, <2>2 DEF DropExcused, Gone, KeptServed
  <2>3. CASE m.to \in Clients /\ m.stage = "init" /\ HandleRequest(c, m) /\ ~HasHandler(m)
    BY <2>3 DEF DropExcused, KeptServed, HasHandler
  <2>4. CASE m.to \in Clients /\ m.stage = "reply" /\ Found(m) = {}
    <3>1. /\ m.to = calls[m.n].msg.from /\ m.tid = calls[m.n].msg.tid /\ m.op = calls[m.n].msg.op /\ Asking(m.n)
          /\ m.n \in 1 .. Used
      BY <1>2, <1>3, <2>4, UnderWayTyped DEF Genuine, Message, Asking
    <3>2. ~Registered(m.n)
      BY <2>4, <3>1 DEF Registered, Found
    <3>3. m.n \in Ended
      BY <1>3, <3>1, <3>2 DEF Answering, Asked
    <3>4. QED
      BY <2>4, <3>3 DEF DropExcused
  <2>5. \/ m.to \notin listeners[c]
        \/ m.to \in Clients /\ m.stage = "init" /\ HandleRequest(c, m) /\ ~HasHandler(m)
        \/ m.to \in Clients /\ m.stage = "reply" /\ Found(m) = {}
    BY DEF Handle, HandleRequest, HandleReply
  <2>6. QED
    BY <2>2, <2>3, <2>4, <2>5
<1>6. QED
  BY <1>2, <1>4, <1>5 DEF DropExcused, Gone, Ended

LEMMA ReplyExcused ==
  ASSUME Consistent, NEW g \in Goroutines, Reply(g), dropped' # dropped
  PROVE  \E r \in Genuine : dropped' = dropped \cup {r} /\ DropExcused(r)'
<1>1. PICK m, r : m = Top(g).msg /\ r = [m EXCEPT !.stage = "reply", !.from = m.to, !.to = m.from]
  OBVIOUS
<1>2. m \in Requests
  BY <1>1, FrameOf DEF Reply, At
<1>3. r \in Genuine /\ r.stage = "reply"
  BY <1>1, <1>2 DEF Requests, Genuine, Message, Reply
<1>4. dropped' = dropped \cup {r} /\ Home[r.to] \notin routes /\ UNCHANGED routes
  BY <1>1 DEF Reply
<1>5. QED
  BY <1>3, <1>4 DEF DropExcused, Gone

Tracked ==
  /\ Matched /\ AtHome /\ OnePlace /\ Answering /\ KeptServed
  /\ dropped \subseteq Genuine /\ \A m \in dropped : DropExcused(m)

LEMMA TrackedInit == Init => Tracked
<1> SUFFICES ASSUME Init PROVE Tracked
  OBVIOUS
<1>1. Consistent
  BY ConsistentInit
<1>2. Matched
  BY <1>1 DEF Init, Used, Matched, Counted, Apart, ClientsAsk, RepliesMatch, Waiting, Answer
<1>3. (\A g \in Goroutines : Len(stack[g]) = 0) /\ (\A c \in Contexts : Len(channel[c]) = 0) /\ calls = <<>> /\ Used = 0
  BY DEF Init, Used
<1>4. AtHome
  BY <1>3 DEF AtHome
<1>5. OnePlace /\ UnderWay = {}
  <2>1. Singly
    BY <1>3 DEF Singly, Once, OnceIn
  <2>2. (\A g \in Goroutines : Carries(stack[g]) = {}) /\ \A c \in Contexts : Holds(channel[c]) = {}
    BY <1>3 DEF Carries, Holds
  <2>3. \A k \in Places : Where(k) = {}
    BY <2>2, PlaceOf
  <2>4. QED
    BY <2>1, <2>3 DEF OnePlace, Alone, UnderWay
<1>6. Answering
  BY <1>3, <1>5 DEF Init, Answering, Later, Asked
<1>7. KeptServed
  <2>1. ASSUME NEW x \in kept
        PROVE  /\ x \in Uris \X Ops \X Types /\ x[1] \in listeners[Home[x[1]]]
               /\ x[1] \in Clients => <<x[2], x[3]>> \in handlers[x[1]]
    <3>1. x \in Uris \X Ops \X Types /\ (x[1] \in EndPoints \/ <<x[2], x[3]>> \in handlers[x[1]])
      BY DEF Init
    <3>2. PICK u \in Uris : u = x[1]
      BY <3>1
    <3>3. Home[u] \in Contexts /\ listeners[Home[u]] = {v \in Uris : Home[v] = Home[u]}
      BY <3>2, HomeAssumption DEF Init, Uris
    <3>4. x[1] \in listeners[Home[x[1]]]
      BY <3>2, <3>3
    <3>5. QED
      BY <3>1, <3>4, HomeAssumption
  <2>2. QED
    BY <2>1 DEF KeptServed
<1>8. dropped = {}
  BY DEF Init
<1>9. QED
  BY <1>2, <1>4, <1>5, <1>6, <1>7, <1>8 DEF Tracked

LEMMA TrackedNext ==
  Tracked /\ [Next]_vars /\ [FirstUse]_vars => Tracked'
<1> SUFFICES ASSUME Tracked, [Next]_vars, [FirstUse]_vars PROVE Tracked'
  OBVIOUS
<1>1. Consistent /\ Apart
  BY DEF Tracked, Matched
<1>2. Matched'
  BY MatchedNext DEF Tracked
<1>3. OnePlace' /\ Answering' /\ Ended \subseteq Ended'
  BY AnsweringNext DEF Tracked
<1>4. KeptServed' /\ kept' \subseteq kept
  BY <1>1, KeptNext DEF Tracked
<1>5. Genuine \subseteq Genuine'
  <2>1. CASE CallSome
    BY <1>1, <2>1, CallMessage DEF CallSome
  <2>2. CASE ~CallSome
    <3>1. CASE Administer
      BY <3>1, GenuineKept DEF Administer, SetConcurrency, RegisterHandler, DeregisterHandler, CloseEndPoint, NewEndPoint,
                               NewClient, CloseClient, CloseContext, Unregister
    <3>2. CASE Progress
      BY <3>2, GenuineKept DEF Progress, Run, Loop, Closing, Send, Await, Return, Begin, Reply, Finish, Handle, OnMessage,
                               Evaluate, Deliver, Recv, OnClose, CloseOp, Clean, Closed
    <3>3. CASE UNCHANGED vars
      BY <3>3, GenuineKept DEF vars
    <3>4. QED
      BY <2>2, <3>1, <3>2, <3>3 DEF Next
  <2>3. QED
    BY <2>1, <2>2
<1>6. AtHome'
  <2>1. \/ UNCHANGED channel
        \/ \E g \in Goroutines : Send(g)
        \/ \E c \in Contexts : Handle(c)
    <3>1. CASE CallSome
      BY <3>1 DEF CallSome, Call
    <3>2. CASE Administer
      BY <3>2 DEF Administer, SetConcurrency, RegisterHandler, DeregisterHandler, CloseEndPoint, NewEndPoint,
                  NewClient, CloseClient, CloseContext, Unregister
    <3>3. CASE Progress
      BY <3>3 DEF Progress, Run, Loop, Closing, Await, Return, Begin, Reply, Finish, OnMessage, Evaluate, Deliver, Recv,
                  OnClose, CloseOp, Clean, Closed
    <3>4. QED
      BY <3>1, <3>2, <3>3 DEF Next, vars
  <2>2. QED
    BY <1>1, <2>1, AtHomeMoves DEF Tracked
<1>7. \A m \in dropped : DropExcused(m)'
  BY <1>3, <1>4, ExcuseStays DEF Tracked
<1>8. UNCHANGED dropped \/ \E r \in Genuine : dropped' = dropped \cup {r} /\ DropExcused(r)'
  <2>1. \/ UNCHANGED dropped
        \/ \E g \in Goroutines : Reply(g)
        \/ \E c \in Contexts : Handle(c)
    <3>1. CASE CallSome
      BY <3>1 DEF CallSome, Call
    <3>2. CASE Administer
      BY <3>2 DEF Administer, SetConcurrency, RegisterHandler, DeregisterHandler, CloseEndPoint, NewEndPoint,
                  NewClient, CloseClient, CloseContext, Unregister
    <3>3. CASE Progress
      BY <3>3 DEF Progress, Run, Loop, Closing, Send, Await, Return, Begin, Finish, OnMessage, Evaluate, Deliver, Recv,
                  OnClose, CloseOp, Clean, Closed
    <3>4. QED
      BY <3>1, <3>2, <3>3 DEF Next, vars
  <2>2. ASSUME dropped' # dropped, NEW c \in Contexts, Handle(c)
        PROVE  \E r \in Genuine : dropped' = dropped \cup {r} /\ DropExcused(r)'
    <3>1. PICK m : m = Head(channel[c])
      OBVIOUS
    <3>2. m \in Genuine /\ dropped' = dropped \cup {m} /\ DropExcused(m)'
      BY <1>1, <2>2, <3>1, HandleExcused DEF Tracked
    <3>3. QED
      BY <3>2
  <2>3. QED
    BY <1>1, <2>1, <2>2, ReplyExcused
<1>9. dropped' \subseteq Genuine' /\ \A m \in dropped' : DropExcused(m)'
  BY <1>5, <1>7, <1>8 DEF Tracked
<1>10. QED
  BY <1>2, <1>3, <1>4, <1>6, <1>9 DEF Tracked, DropExcused, Gone, Ended

\* What a Context drops comes too late: with any nesting of calls, full channels
\* and closings at any point, it drops neither the reply to a call whose
\* client still has its operation nor a request whose handler or EndPoint was there from the first on,
\* unless a ClientContext is made again for an address that has made calls.
THEOREM LossesExcused == Spec /\ [][FirstUse]_vars => []DropsExcused
<1>1. Tracked => DropsExcused
  BY DEF Tracked, DropExcused, DropsExcused, Ended
<1>2. QED
  BY <1>1, TrackedInit, TrackedNext, PTL DEF Spec
=============================================================================
