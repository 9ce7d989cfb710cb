----------------------------- MODULE MalContext -----------------------------
(***************************************************************************)
(* MAL Contexts over the InVM transport, with the ClientContexts and the   *)
(* EndPoints registered in them (mal/context.go, mal/endpoint.go,          *)
(* transport/invm/invm.go and the half of api/context.go that serves the   *)
(* providers).                                                             *)
(*                                                                         *)
(* A Context is a goroutine that takes the messages of a bounded channel   *)
(* and calls the listener they are for.  A goroutine is a stack of frames: *)
(* a call, a handler or a listener that it is in, and where it is.  The    *)
(* goroutines are those of the Contexts, those of the applications, and    *)
(* one, numbered by the call, for each handler run with "go".              *)
(*                                                                         *)
(* Consumers make two kinds of calls, SEND and REQUEST; ConsumerOperations *)
(* has the others, and what a call does when it gets the wrong answer.  A  *)
(* provider replies once to a request, possibly after calls of its own.    *)
(***************************************************************************)
EXTENDS Naturals, SequencesExt

CONSTANTS Contexts, Clients, EndPoints,
          Home,          \* the Context of each URI
          Ops,           \* the operations of the services
          Apps, AppUri,  \* goroutines of the applications, and the URI each uses
          ChannelSize,   \* of a Context: 10 in the code
          InboxSize,     \* of an EndPoint: 10 too, or the application's
          MaxCalls       \* bound: calls of a behaviour

\* A URI belongs to one Context, which has one listener for it, and an
\* application uses one URI.
ASSUME HomeAssumption ==
  /\ Clients \cap EndPoints = {} /\ Home \in [Clients \cup EndPoints -> Contexts]
  /\ AppUri \in [Apps -> Clients \cup EndPoints]
ASSUME SizeAssumption == ChannelSize \in Nat \ {0} /\ InboxSize \in Nat \ {0} /\ MaxCalls \in Nat

Uris == Clients \cup EndPoints
Types == {"SEND", "REQUEST"}
Calls == 1 .. MaxCalls
Goroutines == Contexts \cup Apps \cup Calls

VARIABLES routes,       \* Contexts in the InVM table
          listeners,    \* the URIs registered in each Context
          channel,      \* ctx.ch of each Context
          inbox,        \* endpoint.ch of each EndPoint
          handlers,     \* pairs <<operation, type>> of each ClientContext
          concurrency,  \* the ClientContexts that run handlers with "go"
          operations,   \* pairs <<transaction id, call>> waiting for an answer
          closed,       \* calls whose operation is closed: its op.ch is nil
          lost,         \* calls whose entry went with its table, not closed
          open,         \* the ClientContexts whose two tables are not nil
          txcounter,    \* the last transaction id of each ClientContext
          stack,        \* the frames of each goroutine
          alive,        \* FALSE after a panic
          calls,        \* history: the message and the goroutine of each call
          answers,      \* how each call ended
          handled,      \* history: the calls in the order in which each URI got them
          dropped,      \* history: the messages that nobody got
          kept          \* history: <<address, operation, type>> served from the first on

tables == <<listeners, handlers, concurrency, operations, closed, lost, open, txcounter, kept>>
vars == <<routes, channel, inbox, stack, alive, calls, answers, handled, dropped, tables>>

\* What is left to a frame that goes through a table, or the call whose operation
\* a message was found to be for, is its "rest".
Frame(at, msg) == [at |-> at, msg |-> msg, rest |-> {}]
FoundFrame(msg, n) == [at |-> "found", msg |-> msg, rest |-> {n}]
CleanFrame(u) == [at |-> "clean", msg |-> [n |-> 0, u |-> u], rest |-> {x[2] : x \in operations[u]}]
ClosingFrame(c) == [at |-> "closing", msg |-> [n |-> 0, c |-> c], rest |-> listeners[c]]
Idle == Frame("idle", [n |-> 0])

Top(g) == IF stack[g] = <<>> THEN Idle ELSE Last(stack[g])
Below(g) == IF stack[g] = <<>> THEN <<>> ELSE Front(stack[g])
Push(g, f) == stack' = [stack EXCEPT ![g] = Append(@, f)]
Pop(g) == stack' = [stack EXCEPT ![g] = Below(g)]
Become(g, f) == stack' = [stack EXCEPT ![g] = Append(Below(g), f)]

At(g, where) == alive /\ Top(g).at = where

Answer(how, of) == [how |-> how, of |-> of]
Waiting == Answer("none", 0)
Used == Len(calls)

Init ==
  /\ routes = Contexts /\ listeners = [c \in Contexts |-> {u \in Uris : Home[u] = c}]
  /\ channel = [c \in Contexts |-> <<>>] /\ inbox = [u \in EndPoints |-> <<>>]
  /\ handlers \in [Clients -> {{}, Ops \X {"SEND"}, Ops \X {"REQUEST"}}]
  /\ concurrency \in SUBSET Clients
  /\ operations = [u \in Clients |-> {}] /\ closed = {} /\ lost = {} /\ open = Clients /\ txcounter = [u \in Clients |-> 0]
  /\ stack = [g \in Goroutines |-> <<>>] /\ alive = TRUE
  /\ calls = <<>> /\ answers = [n \in Calls |-> Waiting]
  /\ handled = [u \in Uris |-> <<>>] /\ dropped = {}
  /\ kept = {x \in Uris \X Ops \X Types : x[1] \in EndPoints \/ <<x[2], x[3]>> \in handlers[x[1]]}

-----------------------------------------------------------------------------
(* A call, and what a goroutine does with it. *)

\* An application calls when it does nothing else, and a handler within its call.
MayCall(g, u) ==
  \/ g \in Apps /\ AppUri[g] = u /\ stack[g] = <<>>
  \/ Top(g).at = "handle" /\ Top(g).msg.to = u

FirstTid(u) == 1   \* mutant: the counter does not count
NextTid(u) == IF u \in Clients THEN txcounter[u] + 1 ELSE 0

Unregistered(u, m) == UNCHANGED operations   \* mutant: the request is sent without registerOp
RegisterOp(u, m) == operations' = [operations EXCEPT ![u] = @ \cup {<<m.tid, m.n>>}]

\* The operation is registered in a table that is nil once the client is closed;
\* then Transmit looks for the Context of the address.
Call(g, u, v, op, type) ==
  LET m == [n |-> Used + 1, stage |-> "init", type |-> type, from |-> u, to |-> v, op |-> op,
            tid |-> NextTid(u)]
      routed == Home[v] \in routes
      panics == type = "REQUEST" /\ u \notin open
  IN  /\ alive /\ Used < MaxCalls /\ MayCall(g, u) /\ (u \in EndPoints => type = "SEND")
      /\ calls' = Append(calls, [by |-> g, msg |-> m])
      /\ txcounter' = IF u \in Clients THEN [txcounter EXCEPT ![u] = @ + 1] ELSE txcounter
      /\ alive' = ~panics
      /\ IF panics \/ ~routed
         THEN answers' = [answers EXCEPT ![m.n] = Answer("error", 0)] /\ UNCHANGED <<operations, stack>>
         ELSE /\ Push(g, Frame("send", m)) /\ UNCHANGED answers
              /\ IF type = "REQUEST" THEN RegisterOp(u, m) ELSE UNCHANGED operations
      /\ UNCHANGED <<routes, listeners, channel, inbox, handlers, concurrency, closed, lost, open,
                     handled, dropped, kept>>

OneMore(c) == Len(channel[c]) <= ChannelSize   \* mutant
HasRoom(c) == Len(channel[c]) < ChannelSize

\* Context.Receive in the goroutine of the sender, which waits for a free slot.
Send(g) ==
  LET m == Top(g).msg
      c == Home[m.to]
  IN  /\ At(g, "send") /\ HasRoom(c)
      /\ channel' = [channel EXCEPT ![c] = Append(@, m)]
      /\ IF m.stage = "init" /\ m.type = "REQUEST" THEN Become(g, Frame("receive", m)) ELSE Pop(g)
      /\ answers' = IF m.type = "SEND" THEN [answers EXCEPT ![m.n] = Answer("sent", m.n)] ELSE answers
      /\ UNCHANGED <<routes, inbox, alive, calls, handled, dropped, tables>>

\* The caller evaluates op.ch and receives from that channel; from nil, for ever.
Await(g) ==
  /\ At(g, "receive")
  /\ Become(g, Frame(IF Top(g).msg.n \in closed THEN "nil" ELSE "wait", Top(g).msg))
  /\ UNCHANGED <<routes, channel, inbox, alive, calls, answers, handled, dropped, tables>>

Waits(n) == answers[n] = Waiting /\ \E g \in Goroutines : Top(g).at = "wait" /\ Top(g).msg.n = n

\* The call ends with what it has received; finalize deregisters it unless op.ch
\* is nil, and then it has no entry.
Return(g) ==
  LET m == Top(g).msg
  IN  /\ At(g, "wait") /\ answers[m.n] # Waiting
      /\ Pop(g) /\ operations' = [operations EXCEPT ![m.from] = @ \ {<<m.tid, m.n>>}]
      /\ UNCHANGED <<routes, listeners, channel, inbox, handlers, concurrency, closed, lost, open,
                     txcounter, alive, calls, answers, handled, dropped, kept>>

-----------------------------------------------------------------------------
(* The goroutine of a Context. *)

Drop(m) == dropped' = dropped \cup {m} /\ UNCHANGED stack

\* registered in the table of the handlers, with the type of the message.
HasHandler(m) == <<m.op, m.type>> \in handlers[m.to]

InLoop(c, m) == Push(c, Frame("begin", m))   \* mutant: handler(msg, transaction) without "go"
InGo(c, m) == stack' = [stack EXCEPT ![m.n] = <<Frame("begin", m)>>]   \* mutant: always with "go"

StartHandler(c, m) ==
  IF m.to \in concurrency THEN stack' = [stack EXCEPT ![m.n] = <<Frame("begin", m)>>]
  ELSE Push(c, Frame("begin", m))

HandleRequest(c, m) ==
  IF HasHandler(m) THEN StartHandler(c, m) /\ UNCHANGED dropped ELSE Drop(m)

\* The operation of the transaction id gets the message, whichever call it is for,
\* unless it is another operation of a service.
Found(m) == {n \in 1 .. Used : <<m.tid, n>> \in operations[m.to] /\ calls[n].msg.op = m.op}

HandleReply(c, m) ==
  IF Found(m) = {} THEN Drop(m)
  ELSE (\E n \in Found(m) : Push(c, FoundFrame(m, n))) /\ UNCHANGED dropped

\* Context.handle takes a message and calls its listener.
Handle(c) ==
  LET m == Head(channel[c])
  IN  /\ alive /\ stack[c] = <<>> /\ channel[c] # <<>>
      /\ channel' = [channel EXCEPT ![c] = Tail(@)]
      /\ \/ m.to \notin listeners[c] /\ Drop(m)
         \/ /\ m.to \in listeners[c] /\ m.to \in EndPoints
            /\ Push(c, Frame("inbox", m)) /\ UNCHANGED dropped
         \/ m.to \in listeners[c] /\ m.to \in Clients /\ m.stage = "init" /\ HandleRequest(c, m)
         \/ m.to \in listeners[c] /\ m.to \in Clients /\ m.stage = "reply" /\ HandleReply(c, m)
      /\ UNCHANGED <<routes, inbox, alive, calls, answers, handled, tables>>

\* op.ch <- msg: the operation's channel is evaluated; the send to it, which has no
\* buffer, meets the caller's receive. A send to nil waits for ever.
Evaluate(c) ==
  /\ At(c, "found")
  /\ Become(c, [Top(c) EXCEPT !.at = IF Top(c).rest \subseteq closed THEN "nil" ELSE "deliver"])
  /\ UNCHANGED <<routes, channel, inbox, alive, calls, answers, handled, dropped, tables>>

Deliver(c) ==
  /\ At(c, "deliver") /\ Pop(c)
  /\ \E n \in Top(c).rest :
       Waits(n) /\ answers' = [answers EXCEPT ![n] = Answer("reply", Top(c).msg.n)]
  /\ UNCHANGED <<routes, channel, inbox, alive, calls, handled, dropped, tables>>

\* EndPoint.OnMessage waits for a free slot, and the Context with it.
OnMessage(c) ==
  LET m == Top(c).msg
  IN  /\ At(c, "inbox") /\ Len(inbox[m.to]) < InboxSize
      /\ inbox' = [inbox EXCEPT ![m.to] = Append(@, m)] /\ Pop(c)
      /\ UNCHANGED <<routes, channel, alive, calls, answers, handled, dropped, tables>>

-----------------------------------------------------------------------------
(* Handlers and the applications of EndPoints. *)

Begin(g) ==
  LET m == Top(g).msg
  IN  /\ At(g, "begin") /\ Become(g, Frame("handle", m))
      /\ handled' = [handled EXCEPT ![m.to] = Append(@, m.n)]
      /\ UNCHANGED <<routes, channel, inbox, alive, calls, answers, dropped, tables>>

\* The last call of the transaction: to the caller, if its Context is still there.
Reply(g) ==
  LET m == Top(g).msg
      r == [m EXCEPT !.stage = "reply", !.from = m.to, !.to = m.from]
  IN  /\ At(g, "handle") /\ m.type = "REQUEST"
      /\ IF Home[r.to] \in routes THEN Become(g, Frame("send", r)) /\ UNCHANGED dropped
         ELSE Pop(g) /\ dropped' = dropped \cup {r}
      /\ UNCHANGED <<routes, channel, inbox, alive, calls, answers, handled, tables>>

\* The handler of a SEND returns.
Finish(g) ==
  /\ At(g, "handle") /\ Top(g).msg.type = "SEND" /\ Pop(g)
  /\ UNCHANGED <<routes, channel, inbox, alive, calls, answers, handled, dropped, tables>>

Recv(a) ==
  LET u == AppUri[a]
  IN  /\ alive /\ u \in EndPoints /\ stack[a] = <<>> /\ inbox[u] # <<>>
      /\ inbox' = [inbox EXCEPT ![u] = Tail(@)]
      /\ handled' = [handled EXCEPT ![u] = Append(@, Head(inbox[u]).n)]
      /\ UNCHANGED <<routes, channel, stack, alive, calls, answers, dropped, tables>>

-----------------------------------------------------------------------------
(* Registering and closing. *)

Unused(u) == \A g \in Goroutines : \A i \in DOMAIN stack[g] : stack[g][i].msg.n # 0 => stack[g][i].msg.to # u

SetConcurrency(u, on) ==
  /\ alive /\ concurrency' = IF on THEN concurrency \cup {u} ELSE concurrency \ {u}
  /\ UNCHANGED <<routes, channel, inbox, stack, alive, calls, answers, handled, dropped,
                 listeners, handlers, operations, closed, lost, open, txcounter, kept>>

\* Refused when the operation has a handler; a panic once the table is nil.
RegisterHandler(u, op, type) ==
  /\ alive /\ alive' = (u \in open)
  /\ handlers' = IF u \in open /\ \A t \in Types : <<op, t>> \notin handlers[u]
                 THEN [handlers EXCEPT ![u] = @ \cup {<<op, type>>}] ELSE handlers
  /\ UNCHANGED <<routes, channel, inbox, stack, calls, answers, handled, dropped,
                 listeners, concurrency, operations, closed, lost, open, txcounter, kept>>

\* Whatever the type of the handler.
DeregisterHandler(u, op) ==
  /\ alive /\ handlers' = [handlers EXCEPT ![u] = @ \ ({op} \X Types)]
  /\ kept' = kept \ ({u} \X {op} \X Types)
  /\ UNCHANGED <<routes, channel, inbox, stack, alive, calls, answers, handled, dropped,
                 listeners, concurrency, operations, closed, lost, open, txcounter>>

\* EndPoint.Close, and the first half of ClientContext.Close.
Unregister(u) ==
  /\ listeners' = [listeners EXCEPT ![Home[u]] = @ \ {u}]
  /\ kept' = kept \ ({u} \X Ops \X Types)
  /\ UNCHANGED <<routes, channel, inbox, alive, calls, answers, handled, dropped,
                 handlers, concurrency, operations, closed, lost, open, txcounter>>

CloseEndPoint(u) ==
  /\ alive /\ u \in listeners[Home[u]] /\ Unregister(u) /\ UNCHANGED stack

CloseClient(a) ==
  LET u == AppUri[a]
  IN  /\ alive /\ u \in Clients /\ stack[a] = <<>> /\ u \in listeners[Home[u]]
      /\ Unregister(u) /\ Push(a, CleanFrame(u))

CloseContext(a, c) ==
  /\ alive /\ stack[a] = <<>> /\ c \in routes /\ Push(a, ClosingFrame(c))
  /\ UNCHANGED <<routes, channel, inbox, alive, calls, answers, handled, dropped, tables>>

\* A loop over a Go map takes every entry, in any order; none that is removed
\* meanwhile, and perhaps one that is added.  OnClose of the listeners of a Context:
OnClose(a) ==
  LET f == Top(a)
  IN  /\ At(a, "closing")
      /\ \E u \in listeners[f.msg.c] :
           /\ u \in f.rest \cup open
           /\ LET shorter == Append(Below(a), [f EXCEPT !.rest = @ \ {u}])
              IN  stack' = [stack EXCEPT ![a] = IF u \in Clients THEN Append(shorter, CleanFrame(u)) ELSE shorter]
      /\ UNCHANGED <<routes, channel, inbox, alive, calls, answers, handled, dropped, tables>>

\* cleanOps closes an operation: who receives from its channel gets nothing more,
\* a send that waits on it panics, and who has not evaluated op.ch will find nil.
CloseOp(a) ==
  LET u == Top(a).msg.u
  IN  /\ At(a, "clean")
      /\ \E x \in operations[u] :
           /\ operations' = [operations EXCEPT ![u] = @ \ {x}] /\ closed' = closed \cup {x[2]}
           /\ alive' = \A g \in Goroutines : Top(g).at = "deliver" => x[2] \notin Top(g).rest
           /\ answers' = IF Waits(x[2]) THEN [answers EXCEPT ![x[2]] = Answer("closed", 0)] ELSE answers
      /\ UNCHANGED <<routes, channel, inbox, stack, calls, handled, dropped,
                     listeners, handlers, concurrency, lost, open, txcounter, kept>>

\* The tables are set to nil, with the entries that the loop did not see.
Clean(a) ==
  LET u == Top(a).msg.u
      ended == {x[2] : x \in operations[u]}
  IN  /\ At(a, "clean") /\ Top(a).rest \cap ended = {} /\ Pop(a)
      /\ operations' = [operations EXCEPT ![u] = {}] /\ handlers' = [handlers EXCEPT ![u] = {}]
      /\ lost' = lost \cup ended
      /\ kept' = kept \ ({u} \X Ops \X Types) /\ open' = open \ {u}
      /\ UNCHANGED <<routes, channel, inbox, alive, calls, answers, handled, dropped,
                     listeners, concurrency, closed, txcounter>>

\* The end of Context.Close closes its transport.
Closed(a) ==
  /\ At(a, "closing") /\ Top(a).rest \cap listeners[Top(a).msg.c] = {} /\ Pop(a)
  /\ routes' = routes \ {Top(a).msg.c}
  /\ UNCHANGED <<channel, inbox, alive, calls, answers, handled, dropped, tables>>

\* A new ClientContext for the address of a closed one, whose handlers are over.
NewClient(a) ==
  LET u == AppUri[a]
  IN  /\ alive /\ u \in Clients \ open /\ stack[a] = <<>> /\ u \notin listeners[Home[u]] /\ Unused(u)
      /\ listeners' = [listeners EXCEPT ![Home[u]] = @ \cup {u}]
      /\ open' = open \cup {u} /\ concurrency' = concurrency \ {u}
      /\ txcounter' = [txcounter EXCEPT ![u] = 0]
      /\ UNCHANGED <<routes, channel, inbox, stack, alive, calls, answers, handled, dropped,
                     handlers, operations, closed, lost, kept>>

NewEndPoint(u) ==
  /\ alive /\ u \notin listeners[Home[u]] /\ Top(Home[u]).at # "inbox"
  /\ listeners' = [listeners EXCEPT ![Home[u]] = @ \cup {u}] /\ inbox' = [inbox EXCEPT ![u] = <<>>]
  /\ UNCHANGED <<routes, channel, stack, alive, calls, answers, handled, dropped,
                 handlers, concurrency, operations, closed, lost, open, txcounter, kept>>

-----------------------------------------------------------------------------

Run(g) == Send(g) \/ Await(g) \/ Return(g) \/ Begin(g) \/ Reply(g) \/ Finish(g)
Loop(c) == Handle(c) \/ OnMessage(c) \/ Evaluate(c) \/ Deliver(c)
Closing(a) == OnClose(a) \/ CloseOp(a) \/ Clean(a) \/ Closed(a)

CallSome == \E g \in Goroutines, u, v \in Uris, op \in Ops, type \in Types : Call(g, u, v, op, type)

Administer ==
  \/ \E u \in Clients : \/ \E on \in BOOLEAN : SetConcurrency(u, on)
                        \/ \E op \in Ops : (\E t \in Types : RegisterHandler(u, op, t)) \/ DeregisterHandler(u, op)
  \/ \E u \in EndPoints : CloseEndPoint(u) \/ NewEndPoint(u)
  \/ \E a \in Apps : CloseClient(a) \/ NewClient(a) \/ \E c \in Contexts : CloseContext(a, c)

Progress ==
  \/ \E g \in Goroutines : Run(g)
  \/ \E c \in Contexts : Loop(c)
  \/ \E a \in Apps : Recv(a) \/ Closing(a)

Next == CallSome \/ Administer \/ Progress

\* The Go scheduler runs a goroutine that can run; an application reads its
\* EndPoint, ends its calls and ends what it closes, and a handler replies.
Step(g) == Run(g) \/ (g \in Contexts /\ Loop(g)) \/ (g \in Apps /\ (Recv(g) \/ Closing(g)))
Fairness == \A g \in Goroutines : WF_vars(Step(g))

Spec == Init /\ [][Next]_vars
LiveSpec == Spec /\ Fairness

-----------------------------------------------------------------------------
(* Properties. *)

Message == [n : Calls, stage : {"init", "reply"}, type : Types, from : Uris, to : Uris, op : Ops, tid : Nat]
Frames == [at : {"send", "receive", "wait", "nil", "begin", "handle", "inbox"}, msg : Message, rest : {{}}]
          \cup [at : {"found", "deliver", "nil"}, msg : Message, rest : {{n} : n \in Calls}]
          \cup [at : {"clean"}, msg : [n : {0}, u : Clients], rest : SUBSET Calls]
          \cup [at : {"closing"}, msg : [n : {0}, c : Contexts], rest : SUBSET Uris]
Ways == {"none", "error", "sent", "reply", "closed"}

\* Types; and the channels of a Context and of an EndPoint never hold more than
\* their sizes.
TypeOK ==
  /\ routes \subseteq Contexts /\ listeners \in [Contexts -> SUBSET Uris]
  /\ channel \in [Contexts -> Seq(Message)] /\ \A c \in Contexts : Len(channel[c]) <= ChannelSize
  /\ inbox \in [EndPoints -> Seq(Message)] /\ \A u \in EndPoints : Len(inbox[u]) <= InboxSize
  /\ operations \in [Clients -> SUBSET (Nat \X Calls)] /\ closed \cup lost \subseteq Calls
  /\ handlers \in [Clients -> SUBSET (Ops \X Types)]
  /\ txcounter \in [Clients -> Nat] /\ stack \in [Goroutines -> Seq(Frames)]
  /\ calls \in Seq([by : Goroutines, msg : Message]) /\ Used <= MaxCalls
  /\ answers \in [Calls -> [how : Ways, of : Nat]]

\* A call gets the answer to its own request: the transaction id "is unique for
\* this requesting URI" (api/context.go:321).
RepliesMatch == \A n \in Calls : answers[n].how = "reply" => answers[n].of = n

\* A client that does not run its handlers with "go" handles the messages of one
\* goroutine in the order in which they were sent.
InOrder ==
  \A u \in Clients \ concurrency : \A i, j \in DOMAIN handled[u] :
    i < j /\ calls[handled[u][i]].by = calls[handled[u][j]].by => handled[u][i] < handled[u][j]

\* A message is lost only when it comes too late or for a handler that is not
\* there: a request, when the handler was taken away; a reply, when the caller or
\* its Context was closed.
Gone(u) == u \in Clients \ open \/ u \notin listeners[Home[u]] \/ Home[u] \notin routes

DropsExcused ==
  \A m \in dropped :
    \/ m.stage = "reply" /\ (Gone(m.to) \/ m.n \in closed \cup lost)
    \/ m.stage = "init" /\ <<m.to, m.op, m.type>> \notin kept

\* The calls in whose handlers, each with a goroutine of its own, a call was made.
Around(n) ==
  LET around[k \in 1 .. Used] ==
        {k} \cup IF calls[k].by \in 1 .. (k - 1) THEN around[calls[k].by] ELSE {}
  IN  around[n]

\* A goroutine waits on nil for ever when the client is closed under a call that
\* has not begun to receive, or under its reply.  That of a Context serves nobody.
Stuck == {g \in Goroutines : Top(g).at = "nil"}

\* A call ends, with calls nested in its handler and with bounded channels, unless
\* a message of it or of a call within it is lost, or a client is closed under it:
\* within a client that runs its handlers with "go", "concurrency is needed to
\* allow the use of ClientContext in a nested way".
Excused(n) ==
  \/ \E m \in dropped : n \in Around(m.n)
  \/ \E g \in Stuck : g \in Contexts \/ n \in Around(Top(g).msg.n)

\* The calls of a behaviour are finitely many, and one that has ended stays so.
CallsReturn == []<>(\A n \in 1 .. Used : answers[n] # Waiting \/ ~alive \/ Excused(n))
=============================================================================
