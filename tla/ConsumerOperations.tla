------------------------- MODULE ConsumerOperations -------------------------
(***************************************************************************)
(* The consumer side of the high level MAL API of src/mal/api: the         *)
(* operations of operations.go (Send, Submit, Request, Invoke, Progress,   *)
(* Subscriber and Publisher), the table of a ClientContext that routes     *)
(* replies to them, and the one goroutine of the MAL Context (Context.     *)
(* handle in src/mal/context.go) that delivers every incoming message.     *)
(*                                                                         *)
(* Actors: the application's goroutines (Thread), each inside at most one  *)
(* call; the context's goroutine (handler); the remote provider or broker, *)
(* reached through a FIFO transport (inbox: the transport and Context.ch). *)
(* A step ends where another goroutine can be observed: at a blocking      *)
(* channel operation, at a use of the shared table, at a transmission.     *)
(***************************************************************************)
EXTENDS Integers, Sequences, FiniteSets

CONSTANTS
  Op,              \* the operation objects of one ClientContext
  Thread,          \* the application's goroutines
  Pattern,         \* Pattern[o]: the interaction pattern o was created for
  Program,         \* <<th, o, c>>: goroutine th may make call c on o
  BufferLength,    \* make(chan *Message, 10) of Progress and Subscriber
  ErrBufferLength, \* make(chan *Message, 5) of Publisher's err_ch
  Provider,        \* "conforming" or "any": what the remote side may send
  SendErrors,      \* TRUE if Context.Send may return an error
  MaxTid,          \* bound on the transactions of a behaviour
  MaxReplies,      \* bound on the stream of messages of one transaction
  NoOp             \* a free slot of the table; no operation

Patterns == {"Send", "Submit", "Request", "Invoke", "Progress",
             "Subscriber", "Publisher"}

Methods(p) ==
  CASE p = "Invoke"     -> {"Initiate", "GetResponse"}
    [] p = "Progress"   -> {"Initiate", "GetUpdate", "GetResponse"}
    [] p = "Subscriber" -> {"Initiate", "GetNotify", "Deregister"}
    [] p = "Publisher"  -> {"Initiate", "Publish", "Deregister"}
    [] OTHER            -> {"Initiate"}

Calls == {"Initiate", "GetResponse", "GetUpdate", "GetNotify", "Publish",
          "Deregister", "GetPublishError", "Reset", "Close", "Interrupt",
          "CloseContext", "OnClose"}

ASSUME OpAssumption == NoOp \notin Op
ASSUME PatternAssumption == Pattern \in [Op -> Patterns]
ASSUME ProgramAssumption == Program \subseteq Thread \X (Op \cup {NoOp}) \X Calls
ASSUME BoundAssumption == /\ BufferLength \in Nat \ {0}
                          /\ ErrBufferLength \in Nat \ {0}
                          /\ MaxTid \in Nat
                          /\ MaxReplies \in Nat
ASSUME ModeAssumption == /\ Provider \in {"conforming", "any"}
                         /\ SendErrors \in BOOLEAN

Tid == 1 .. MaxTid

Statuses == {"NONE", "CREATED", "INITIATED", "ACKNOWLEDGED", "PROGRESSING",
             "REGISTER_INITIATED", "REGISTERED", "REREGISTER_INITIATED",
             "DEREGISTER_INITIATED", "FINAL", "CLOSED"}

Stages == {"ACK", "UPDATE", "RESPONSE", "NOTIFY", "DEREGISTER_ACK", "PUBLISH"}

Phases == {"none", "requested", "acked", "registered", "published",
           "deregistering", "done"}

Message == [tid : Tid, type : Patterns, stage : Stages, err : BOOLEAN]

\* Go's nil *Message: what Interrupt puts in a channel, what a failed call returns.
Nil == [tid |-> 0, type |-> "nil", stage |-> "nil", err |-> FALSE]

Returns == [out : {"none", "pending", "ok", "error", "ended", "interrupted",
                   "bad", "send"},
            msg : Message \cup {Nil}]

VARIABLES
  status,      \* OperationX.status ("NONE" before the constructor)
  tid,         \* OperationX.tid
  response,    \* InvokeOperationX.response, ProgressOperationX.response
  open,        \* OperationX.ch is not nil; FALSE once closed and set to nil
  chan,        \* the messages buffered in OperationX.ch
  errOpen,     \* OperationX.err_ch is not nil
  errChan,     \* the messages buffered in OperationX.err_ch
  txcounter,   \* ClientContext.txcounter
  operations,  \* ClientContext.operations
  tableNil,    \* ClientContext.operations is the nil map
  endpoint,    \* the ClientContext is a listener of the Context
  todo,        \* the entries cleanOps still has to visit
  inbox,       \* messages on their way to this ClientContext
  handler,     \* the context's goroutine: where it is, with which message
  thread,      \* each goroutine: where it is, in which call, on which operation
  ret,         \* what the last call of each goroutine returned
  exchange,    \* the remote side's view of each transaction
  panicked     \* a goroutine has panicked: the process is dead

opVars   == <<status, tid, response, open, chan, errOpen, errChan>>
cctxVars == <<txcounter, operations, tableNil, endpoint, todo>>
vars     == <<opVars, cctxVars, inbox, handler, thread, ret, exchange, panicked>>

Idle    == [pc |-> "idle", op |-> NoOp, call |-> "none"]
Asleep  == [at |-> "idle", op |-> NoOp, msg |-> Nil]
Unused  == [type |-> "Send", phase |-> "none", count |-> 0]

Pcs == {"idle", "register", "send", "await", "wait", "stuck", "interrupt",
        "close", "cleanOps"}

\* Every variable has its type, and an actor in the middle of something knows
\* the operation it works on.
OpsTypeOK ==
  /\ status \in [Op -> Statuses]
  /\ tid \in [Op -> Tid \cup {0}]
  /\ response \in [Op -> Message \cup {Nil}]
  /\ open \in [Op -> BOOLEAN]
  /\ chan \in [Op -> Seq(Message \cup {Nil})]
  /\ errOpen \in [Op -> BOOLEAN]
  /\ errChan \in [Op -> Seq(Message)]
ContextTypeOK ==
  /\ txcounter \in 0 .. MaxTid
  /\ operations \in [Tid -> Op \cup {NoOp}]
  /\ tableNil \in BOOLEAN
  /\ endpoint \in BOOLEAN
  /\ todo \subseteq Tid
RemoteTypeOK ==
  /\ inbox \in Seq(Message)
  /\ exchange \in [Tid -> [type : Patterns, phase : Phases, count : 0 .. MaxReplies]]
ActorsTypeOK ==
  /\ handler \in [at : {"idle", "lookup", "send", "sendErr", "stuck"},
                  op : Op \cup {NoOp}, msg : Message \cup {Nil}]
  /\ handler.at # "idle" => handler.op \in Op /\ handler.msg \in Message
  /\ thread \in [Thread -> [pc : Pcs, op : Op \cup {NoOp}, call : Calls \cup {"none"}]]
  /\ \A th \in Thread : thread[th].pc \notin {"idle", "cleanOps"} => thread[th].op \in Op
  /\ ret \in [Thread -> Returns]
  /\ panicked \in BOOLEAN
TypeOK == OpsTypeOK /\ ContextTypeOK /\ RemoteTypeOK /\ ActorsTypeOK

Init ==
  /\ status = [o \in Op |-> "NONE"]
  /\ tid = [o \in Op |-> 0]
  /\ response = [o \in Op |-> Nil]
  /\ open = [o \in Op |-> FALSE]
  /\ chan = [o \in Op |-> <<>>]
  /\ errOpen = [o \in Op |-> FALSE]
  /\ errChan = [o \in Op |-> <<>>]
  /\ txcounter = 0
  /\ operations = [t \in Tid |-> NoOp]
  /\ tableNil = FALSE
  /\ endpoint = TRUE
  /\ todo = {}
  /\ inbox = <<>>
  /\ handler = Asleep
  /\ thread = [th \in Thread |-> Idle]
  /\ ret = [th \in Thread |-> [out |-> "none", msg |-> Nil]]
  /\ exchange = [t \in Tid |-> Unused]
  /\ panicked = FALSE

-----------------------------------------------------------------------------
(* Helpers of the code that every call uses.                               *)

\* The operation is made with a channel: every pattern but Send.
HasChannel(o) == Pattern[o] # "Send"

Capacity(o) ==
  IF Pattern[o] \in {"Progress", "Subscriber"} THEN BufferLength ELSE 0

\* finalize: the status becomes FINAL, and the transaction leaves the table
\* unless the operation has no channel (any more).
FinalStatus(o) == [status EXCEPT ![o] = "FINAL"]
NotDeregistered(o) == operations   \* mutant: finalize without deregisterOp
Finalized(o) ==
  IF open[o] THEN [operations EXCEPT ![tid[o]] = NoOp] ELSE operations

At(th, pc) == [thread EXCEPT ![th].pc = pc]
Done(th) == [thread EXCEPT ![th] = Idle]
Returned(th, out, m) == [ret EXCEPT ![th] = [out |-> out, msg |-> m]]

MayCall(th, o, c) == thread[th].pc = "idle" /\ <<th, o, c>> \in Program

-----------------------------------------------------------------------------
(* The constructors and the first part of a call.                          *)

\* TransactionId: an atomic increment of the context's counter.
SameTid(o) == IF tid[o] = 0 THEN txcounter + 1 ELSE tid[o]   \* mutant: Reset keeps the id
NextTid(o) == txcounter + 1

\* New*Operation: a new transaction id, the status CREATED, the channels.
New(o) ==
  /\ status[o] = "NONE"
  /\ txcounter < MaxTid
  /\ txcounter' = txcounter + 1
  /\ tid' = [tid EXCEPT ![o] = NextTid(o)]
  /\ status' = [status EXCEPT ![o] = "CREATED"]
  /\ open' = [open EXCEPT ![o] = HasChannel(o)]
  /\ errOpen' = [errOpen EXCEPT ![o] = (Pattern[o] = "Publisher")]
  /\ UNCHANGED <<response, chan, errChan, operations, tableNil, endpoint, todo,
                 inbox, handler, thread, ret, exchange, panicked>>

\* Mutant: the first method of an operation is accepted once it has finished.
FinishedIsGood(p, c) ==
  CASE c = "Initiate"    -> {"CREATED", "FINAL"}
    [] c = "GetUpdate"   -> {"ACKNOWLEDGED", "PROGRESSING"}
    [] c = "GetResponse" -> {"ACKNOWLEDGED"} \cup (IF p = "Progress" THEN {"PROGRESSING"} ELSE {})
    [] c = "GetNotify"   -> {"REGISTERED", "REREGISTER_INITIATED", "DEREGISTER_INITIATED"}
    [] OTHER             -> {"REGISTERED"}

\* The statuses in which a method passes its first test; in any other it
\* returns "Bad operation status" and changes nothing.
GoodStatus(p, c) ==
  CASE c = "Initiate"    -> {"CREATED"}
    [] c = "GetUpdate"   -> {"ACKNOWLEDGED", "PROGRESSING"}
    [] c = "GetResponse" -> {"ACKNOWLEDGED"} \cup (IF p = "Progress" THEN {"PROGRESSING"} ELSE {})
    [] c = "GetNotify"   -> {"REGISTERED", "REREGISTER_INITIATED", "DEREGISTER_INITIATED"}
    [] OTHER             -> {"REGISTERED"}

BeginStatus(p, c, s) ==
  CASE c = "Initiate"   -> IF p \in {"Subscriber", "Publisher"}
                           THEN "REGISTER_INITIATED" ELSE "INITIATED"
    [] c = "Deregister" -> "DEREGISTER_INITIATED"
    [] OTHER            -> s

\* The first thing a method does: registerOp, Context.Send or the wait.
NoRegisterOp(p, c) ==   \* mutant: the request is sent without registerOp
  IF c \in {"Initiate", "Publish", "Deregister"} THEN "send" ELSE "await"
FirstPc(p, c) ==
  IF c = "Initiate" /\ p # "Send" THEN "register"
  ELSE IF c \in {"Initiate", "Publish", "Deregister"} THEN "send" ELSE "await"

\* A method is entered: Send, Submit, Request, Invoke, Progress and the two
\* Register methods are "Initiate", the others keep their name.
Begin(th, o, c) ==
  /\ MayCall(th, o, c)
  /\ c \in Methods(Pattern[o])
  /\ status[o] \in GoodStatus(Pattern[o], c)
  /\ status' = [status EXCEPT ![o] = BeginStatus(Pattern[o], c, @)]
  /\ thread' = [thread EXCEPT ![th] = [pc |-> FirstPc(Pattern[o], c), op |-> o, call |-> c]]
  /\ ret' = Returned(th, "pending", Nil)
  /\ UNCHANGED <<tid, response, open, chan, errOpen, errChan, cctxVars, inbox,
                 handler, exchange, panicked>>

\* registerOp: an entry for the transaction, an error if there is one already,
\* a panic if ClientContext.Close has set the table to nil.
RegisterOp(th) ==
  /\ thread[th].pc = "register"
  /\ LET o == thread[th].op IN
       IF operations[tid[o]] # NoOp
       THEN /\ status' = FinalStatus(o)
            /\ operations' = Finalized(o)
            /\ thread' = Done(th)
            /\ ret' = Returned(th, "error", Nil)
            /\ UNCHANGED panicked
       ELSE /\ panicked' = tableNil
            /\ operations' = IF tableNil THEN operations
                             ELSE [operations EXCEPT ![tid[o]] = o]
            /\ thread' = At(th, "send")
            /\ UNCHANGED <<status, ret>>
  /\ UNCHANGED <<tid, response, open, chan, errOpen, errChan, txcounter,
                 tableNil, endpoint, todo, inbox, handler, exchange>>

\* What the remote side learns from a message that reaches it.
Requested(o, c) ==
  LET x == exchange[tid[o]] IN
  CASE c = "Initiate"   -> [x EXCEPT !.type = Pattern[o], !.phase = "requested"]
    [] c = "Deregister" -> [x EXCEPT !.phase = "deregistering"]
    [] c = "Publish" /\ x.phase = "registered" -> [x EXCEPT !.phase = "published"]
    [] OTHER -> x

\* The methods that wait for an answer: all but Send and Publish.
SubmitIsSend(p, c) == c # "Publish" /\ p \notin {"Send", "Submit"}   \* mutant
Waits(p, c) == c # "Publish" /\ p # "Send"

\* Context.Send: the message leaves, and the call goes on to wait for the
\* answer or returns.
Transmit(th) ==
  /\ thread[th].pc = "send"
  /\ LET o == thread[th].op
         c == thread[th].call
         waits == Waits(Pattern[o], c) IN
       /\ exchange' = [exchange EXCEPT ![tid[o]] = Requested(o, c)]
       /\ status' = IF Pattern[o] = "Send" THEN FinalStatus(o) ELSE status
       /\ thread' = IF waits THEN At(th, "await") ELSE Done(th)
       /\ ret' = IF waits THEN ret ELSE Returned(th, "ok", Nil)
  /\ UNCHANGED <<tid, response, open, chan, errOpen, errChan, cctxVars, inbox,
                 handler, panicked>>

\* Context.Send returns an error: the operation is finalized.
TransmitFails(th) ==
  /\ SendErrors
  /\ thread[th].pc = "send"
  /\ LET o == thread[th].op IN
       /\ status' = FinalStatus(o)
       /\ operations' = Finalized(o)
  /\ thread' = Done(th)
  /\ ret' = Returned(th, "send", Nil)
  /\ UNCHANGED <<tid, response, open, chan, errOpen, errChan, txcounter,
                 tableNil, endpoint, todo, inbox, handler, exchange, panicked>>

\* The channel of `<-op.ch` is read from the field: nil blocks for ever.
Await(th) ==
  /\ thread[th].pc = "await"
  /\ thread' = At(th, IF open[thread[th].op] THEN "wait" ELSE "stuck")
  /\ UNCHANGED <<opVars, cctxVars, inbox, handler, ret, exchange, panicked>>

-----------------------------------------------------------------------------
(* The second part of a call: what it does with what it receives.          *)

Expected(p, c) ==
  CASE c = "Initiate"    -> {IF p = "Request" THEN "RESPONSE" ELSE "ACK"}
    [] c = "GetResponse" -> {"RESPONSE"}
    [] c = "GetUpdate"   -> {"UPDATE", "RESPONSE"}
    [] c = "GetNotify"   -> {"NOTIFY"}
    [] OTHER             -> {"DEREGISTER_ACK"}

\* An interrupted call leaves the operation as it was, or finalizes it.
Resumable(p, c) == c \in {"GetUpdate", "GetNotify"} \/ (c = "GetResponse" /\ p = "Progress")

Outcome(p, c, m) ==
  IF m = Nil THEN "interrupted"
  ELSE IF m.stage \notin Expected(p, c) THEN "bad"
  ELSE IF c = "GetUpdate" /\ m.stage = "RESPONSE" THEN "none"
  ELSE IF m.err THEN "error" ELSE "ok"

\* Whether the call ends the operation, with finalize, on message m.
Finalizes(p, c, m) ==
  LET out == Outcome(p, c, m) IN
  CASE out = "interrupted" -> ~Resumable(p, c)
    [] out = "ok" -> \/ c \in {"GetResponse", "Deregister"}
                     \/ c = "Initiate" /\ p \in {"Submit", "Request"}
    [] OTHER      -> TRUE

\* The status a call that does not end the operation leaves it in.
AckIgnored(p, c, m, s) ==   \* mutant: the ACK of an Invoke does not change its status
  CASE m = Nil \/ c = "GetNotify" \/ p = "Invoke" -> s
    [] m # Nil /\ c = "GetUpdate"                  -> "PROGRESSING"
    [] m # Nil /\ c = "Initiate" /\ p = "Progress" -> "ACKNOWLEDGED"
    [] OTHER                                       -> "REGISTERED"
Advanced(p, c, m, s) ==
  CASE m = Nil \/ c = "GetNotify"   -> s
    [] m # Nil /\ c = "GetUpdate"    -> "PROGRESSING"
    [] m # Nil /\ c = "Initiate" /\ p \in {"Invoke", "Progress"} -> "ACKNOWLEDGED"
    [] OTHER                         -> "REGISTERED"

\* Deregister of a subscriber discards a NOTIFY and waits for the next message.
NoDiscard(p, c, m) == FALSE   \* mutant: Deregister takes the next message as its answer
Discards(p, c, m) == p = "Subscriber" /\ c = "Deregister" /\ m.stage = "NOTIFY"

\* The rest of the call, from the message it took to its return.
Conclude(th, m) ==
  LET o == thread[th].op
      p == Pattern[o]
      c == thread[th].call
      out == Outcome(p, c, m) IN
  IF Discards(p, c, m)
  THEN UNCHANGED <<status, operations, response, ret>>
  ELSE /\ status' = IF Finalizes(p, c, m) THEN FinalStatus(o)
                    ELSE [status EXCEPT ![o] = Advanced(p, c, m, @)]
       /\ operations' = IF Finalizes(p, c, m) THEN Finalized(o) ELSE operations
       /\ response' = IF c \in {"GetResponse", "GetUpdate"} /\ m.stage = "RESPONSE"
                      THEN [response EXCEPT ![o] = m] ELSE response
       /\ ret' = Returned(th, out, IF out \in {"ok", "error"} THEN m ELSE Nil)

\* The goroutine waits again after a discarded message and is free otherwise.
Concluded(th, m) ==
  IF Discards(Pattern[thread[th].op], thread[th].call, m)
  THEN At(th, "await") ELSE Done(th)

\* `msg := <-op.ch` takes a message buffered in the channel,
ReceiveBuffered(th) ==
  /\ thread[th].pc = "wait"
  /\ LET o == thread[th].op IN
       /\ chan[o] # <<>>
       /\ chan' = [chan EXCEPT ![o] = Tail(@)]
       /\ Conclude(th, Head(chan[o]))
       /\ thread' = Concluded(th, Head(chan[o]))
  /\ UNCHANGED <<tid, open, errOpen, errChan, txcounter, tableNil, endpoint,
                 todo, inbox, handler, exchange, panicked>>

\* or, from an unbuffered one, the message the context's goroutine holds,
ReceiveFromHandler(th) ==
  /\ thread[th].pc = "wait"
  /\ handler.at = "send"
  /\ handler.op = thread[th].op
  /\ Capacity(handler.op) = 0
  /\ Conclude(th, handler.msg)
  /\ thread' = Concluded(th, handler.msg)
  /\ handler' = Asleep
  /\ UNCHANGED <<tid, open, chan, errOpen, errChan, txcounter, tableNil,
                 endpoint, todo, inbox, exchange, panicked>>

\* or the nil of a goroutine inside Interrupt,
ReceiveInterrupt(th, other) ==
  /\ thread[th].pc = "wait"
  /\ thread[other].pc = "interrupt"
  /\ thread[other].op = thread[th].op
  /\ Capacity(thread[th].op) = 0
  /\ Conclude(th, Nil)
  /\ thread' = [thread EXCEPT ![th] = Idle, ![other] = Idle]
  /\ UNCHANGED <<tid, open, chan, errOpen, errChan, txcounter, tableNil,
                 endpoint, todo, inbox, handler, exchange, panicked>>

\* or finds the channel closed: "Operation ends".
ReceiveClosed(th) ==
  /\ thread[th].pc = "wait"
  /\ LET o == thread[th].op IN
       /\ ~open[o]
       /\ chan[o] = <<>>
       /\ status' = FinalStatus(o)
       /\ operations' = Finalized(o)
  /\ thread' = Done(th)
  /\ ret' = Returned(th, "ended", Nil)
  /\ UNCHANGED <<tid, response, open, chan, errOpen, errChan, txcounter, tableNil,
                 endpoint, todo, inbox, handler, exchange, panicked>>

\* GetResponse of a finished operation returns the response it kept.
CachedResponse(th, o) ==
  /\ MayCall(th, o, "GetResponse")
  /\ status[o] = "FINAL"
  /\ response[o] # Nil
  /\ ret' = Returned(th, IF response[o].err THEN "error" ELSE "ok", response[o])
  /\ UNCHANGED <<opVars, cctxVars, inbox, handler, thread, exchange, panicked>>

\* GetPublishError never waits; a nil or empty err_ch gives nil.
GetPublishError(th, o) ==
  /\ MayCall(th, o, "GetPublishError")
  /\ Pattern[o] = "Publisher"
  /\ status[o] = "REGISTERED"
  /\ errChan[o] # <<>>
  /\ errChan' = [errChan EXCEPT ![o] = Tail(@)]
  /\ ret' = Returned(th, "ok", Head(errChan[o]))
  /\ UNCHANGED <<status, tid, response, open, chan, errOpen, cctxVars, inbox,
                 handler, thread, exchange, panicked>>

-----------------------------------------------------------------------------
(* Reset, Interrupt and Close of one operation, Close of the context.      *)

\* The statuses in which an operation may be reset.
ResetClosed == {"FINAL", "CLOSED"}        \* mutant: a closed operation too
ResetPending == {"FINAL", "ACKNOWLEDGED"}  \* mutant: one whose response is pending too
Resettable == {"FINAL"}

\* Reset: a finished operation gets a new transaction; nothing else changes.
Reset(th, o) ==
  /\ MayCall(th, o, "Reset")
  /\ status[o] \in Resettable
  /\ txcounter < MaxTid
  /\ txcounter' = txcounter + 1
  /\ tid' = [tid EXCEPT ![o] = NextTid(o)]
  /\ status' = [status EXCEPT ![o] = "CREATED"]
  /\ ret' = Returned(th, "ok", Nil)
  /\ UNCHANGED <<response, open, chan, errOpen, errChan, operations, tableNil,
                 endpoint, todo, inbox, handler, thread, exchange, panicked>>

\* Interrupt: a goroutine blocks on `op.ch <- nil` until the nil is taken.
Interrupt(th, o) ==
  /\ MayCall(th, o, "Interrupt")
  /\ status[o] \notin {"NONE", "CLOSED"}
  /\ open[o]
  /\ thread' = [thread EXCEPT ![th] = [pc |-> "interrupt", op |-> o, call |-> "Interrupt"]]
  /\ UNCHANGED <<opVars, cctxVars, inbox, handler, ret, exchange, panicked>>

InterruptBuffered(th) ==
  /\ thread[th].pc = "interrupt"
  /\ LET o == thread[th].op IN
       /\ Len(chan[o]) < Capacity(o)
       /\ chan' = [chan EXCEPT ![o] = Append(@, Nil)]
  /\ thread' = Done(th)
  /\ UNCHANGED <<status, tid, response, open, errOpen, errChan, cctxVars, inbox,
                 handler, ret, exchange, panicked>>

\* The first part of OperationX.Close, up to close(op.ch).  The status is
\* overwritten before it is tested, so the entry is always looked for, and its
\* absence is the error Close returns.
CloseOp(th, o, c) ==
  /\ status' = [status EXCEPT ![o] = "CLOSED"]
  /\ IF open[o]
     THEN /\ operations' = [operations EXCEPT ![tid[o]] = NoOp]
          /\ thread' = [thread EXCEPT ![th] = [pc |-> "close", op |-> o, call |-> c]]
          /\ ret' = Returned(th, IF operations[tid[o]] = NoOp THEN "error" ELSE "ok", Nil)
          /\ UNCHANGED <<errOpen, panicked>>
     ELSE /\ errOpen' = [errOpen EXCEPT ![o] = FALSE]
          /\ panicked' = (errOpen[o] /\ handler.at = "sendErr" /\ handler.op = o)
          /\ UNCHANGED <<operations, thread, ret>>

Close(th, o) ==
  /\ MayCall(th, o, "Close")
  /\ status[o] \notin {"NONE", "CLOSED"}
  /\ CloseOp(th, o, "Close")
  /\ UNCHANGED <<tid, response, open, chan, errChan, txcounter, tableNil,
                 endpoint, todo, inbox, handler, exchange>>

\* The second part: close(op.ch), which panics for a nil channel and makes
\* every goroutine blocked in a send to it panic; then op.ch = nil.
CloseChannel(th) ==
  /\ thread[th].pc = "close"
  /\ LET o == thread[th].op IN
       /\ open' = [open EXCEPT ![o] = FALSE]
       /\ panicked' = \/ ~open[o]
                      \/ handler.at = "send" /\ handler.op = o
                      \/ \E other \in Thread : /\ thread[other].pc = "interrupt"
                                               /\ thread[other].op = o
  /\ thread' = IF thread[th].call = "Close" THEN Done(th) ELSE At(th, "cleanOps")
  /\ UNCHANGED <<status, tid, response, chan, errOpen, errChan, cctxVars, inbox,
                 handler, ret, exchange>>

\* ClientContext.Close, called by the application: first the endpoint is
\* unregistered.  OnClose, called by Context.Close, leaves it registered.
CloseContext(th, c) ==
  /\ c \in {"CloseContext", "OnClose"}
  /\ MayCall(th, NoOp, c)
  /\ c = "CloseContext" => endpoint
  /\ endpoint' = (endpoint /\ c = "OnClose")
  /\ todo' = {t \in Tid : operations[t] # NoOp}
  /\ thread' = [thread EXCEPT ![th] = [pc |-> "cleanOps", op |-> NoOp, call |-> c]]
  /\ UNCHANGED <<opVars, txcounter, operations, tableNil, inbox, handler, ret,
                 exchange, panicked>>

\* cleanOps: op.onClose, which is Close, for an entry of the table.  The range
\* visits what was there from the start and may visit what was added since.
CleanOp(th, t) ==
  /\ thread[th].pc = "cleanOps"
  /\ operations[t] # NoOp
  /\ todo' = todo \ {t}
  /\ IF status[operations[t]] = "CLOSED"
     THEN UNCHANGED <<status, operations, errOpen, thread, ret, panicked>>
     ELSE CloseOp(th, operations[t], thread[th].call)
  /\ UNCHANGED <<tid, response, open, chan, errChan, txcounter, tableNil,
                 endpoint, inbox, handler, exchange>>

\* cleanOps ends with `cctx.operations = nil`; then cleanHandlers.
CleanOpsEnds(th) ==
  /\ thread[th].pc = "cleanOps"
  /\ \A t \in todo : operations[t] = NoOp
  /\ operations' = [t \in Tid |-> NoOp]
  /\ tableNil' = TRUE
  /\ todo' = {}
  /\ thread' = Done(th)
  /\ UNCHANGED <<opVars, txcounter, endpoint, inbox, handler, ret, exchange, panicked>>

-----------------------------------------------------------------------------
(* The context's goroutine.                                                *)

\* ClientContext.OnMessage looks the transaction of the message up; without
\* listener or entry the message is dropped.
Unchecked(m) == [at |-> "lookup", op |-> operations[m.tid], msg |-> m]   \* mutant
Routed(m) ==
  IF endpoint /\ operations[m.tid] # NoOp
  THEN [at |-> "lookup", op |-> operations[m.tid], msg |-> m]
  ELSE Asleep

\* Context.handle takes a message.
HandleMessage ==
  /\ handler.at = "idle"
  /\ inbox # <<>>
  /\ inbox' = Tail(inbox)
  /\ handler' = Routed(Head(inbox))
  /\ UNCHANGED <<opVars, cctxVars, thread, ret, exchange, panicked>>

\* onMessage of the operation: a message of another type is dropped, a
\* PUBLISH error goes to err_ch, any other to ch (nil blocks for ever).
OnMessage ==
  /\ handler.at = "lookup"
  /\ LET o == handler.op
         m == handler.msg
         toErr == Pattern[o] = "Publisher" /\ m.stage = "PUBLISH" /\ m.err IN
       handler' = IF m.type # Pattern[o] THEN Asleep
                  ELSE [handler EXCEPT !.at = CASE toErr /\ errOpen[o] -> "sendErr"
                                                [] ~toErr /\ open[o]   -> "send"
                                                [] OTHER               -> "stuck"]
  /\ UNCHANGED <<opVars, cctxVars, inbox, thread, ret, exchange, panicked>>

\* `op.ch <- msg` and `op.err_ch <- msg` when the buffer has room.
Buffer ==
  /\ handler.at = "send"
  /\ Len(chan[handler.op]) < Capacity(handler.op)
  /\ chan' = [chan EXCEPT ![handler.op] = Append(@, handler.msg)]
  /\ handler' = Asleep
  /\ UNCHANGED <<status, tid, response, open, errOpen, errChan, cctxVars, inbox,
                 thread, ret, exchange, panicked>>

BufferError ==
  /\ handler.at = "sendErr"
  /\ Len(errChan[handler.op]) < ErrBufferLength
  /\ errChan' = [errChan EXCEPT ![handler.op] = Append(@, handler.msg)]
  /\ handler' = Asleep
  /\ UNCHANGED <<status, tid, response, open, chan, errOpen, cctxVars, inbox,
                 thread, ret, exchange, panicked>>

-----------------------------------------------------------------------------
(* The remote side.  transaction.go lets a provider send any of the replies *)
(* of its pattern, any number of times; a conforming one follows MAL.      *)

\* One message of the remote side: the pattern and the phase of the transaction
\* it belongs to, its stage, its error flag, the phase it leads to.
Step(p, ph, s, e, n) == [type |-> p, phase |-> ph, stage |-> s, err |-> e, next |-> n]

\* The messages of a conforming remote side.
Protocol ==
  {Step("Submit", "requested", "ACK", e, "done") : e \in BOOLEAN}
  \cup {Step("Request", "requested", "RESPONSE", e, "done") : e \in BOOLEAN}
  \cup {Step(p, "requested", "ACK", TRUE, "done") :
          p \in {"Invoke", "Progress", "Subscriber", "Publisher"}}
  \cup {Step(p, "requested", "ACK", FALSE, "acked") : p \in {"Invoke", "Progress"}}
  \cup {Step(p, "requested", "ACK", FALSE, "registered") : p \in {"Subscriber", "Publisher"}}
  \cup {Step("Invoke", "acked", "RESPONSE", e, "done") : e \in BOOLEAN}
  \cup {Step("Progress", "acked", "RESPONSE", e, "done") : e \in BOOLEAN}
  \cup {Step("Progress", "acked", "UPDATE", FALSE, "acked"),
        Step("Progress", "acked", "UPDATE", TRUE, "done")}
  \cup {Step("Subscriber", ph, "NOTIFY", FALSE, ph) : ph \in {"registered", "deregistering"}}
  \cup {Step("Publisher", "published", "PUBLISH", TRUE, "registered"),
        Step("Publisher", "deregistering", "PUBLISH", TRUE, "deregistering")}
  \cup {Step(p, "deregistering", "DEREGISTER_ACK", FALSE, "done") :
          p \in {"Subscriber", "Publisher"}}

\* A message of another pattern than that of the operation it reaches.
Foreign == Step("Send", "none", "ACK", FALSE, "none")

Streaming == {"UPDATE", "NOTIFY", "PUBLISH"}

\* The remote side sends one more message of transaction t.  One that does not
\* conform sends the messages of the pattern in any phase and with any error
\* flag (a PUBLISH that is no error goes to the provider handlers), and foreign
\* ones.  The messages of a stream, and all those of a remote side that does
\* not conform, are bounded.
Reply(t) ==
  /\ exchange[t].phase # "none"
  /\ \E r \in Protocol \cup {Foreign}, e \in BOOLEAN :
       LET x == exchange[t]
           conforming == Provider = "conforming"
           bounded == r.stage \in Streaming \/ ~conforming IN
       /\ IF conforming THEN r.type = x.type /\ r.phase = x.phase /\ r.err = e
          ELSE IF r = Foreign THEN ~e ELSE r.type = x.type /\ (r.stage = "PUBLISH" => e)
       /\ bounded => x.count < MaxReplies
       /\ inbox' = Append(inbox, [tid |-> t, type |-> r.type, stage |-> r.stage, err |-> e])
       /\ exchange' = [exchange EXCEPT ![t] = [type  |-> x.type,
                                               phase |-> IF conforming THEN r.next ELSE x.phase,
                                               count |-> IF bounded THEN x.count + 1 ELSE x.count]]
  /\ UNCHANGED <<opVars, cctxVars, handler, thread, ret, panicked>>

-----------------------------------------------------------------------------
Application(th) ==
  \/ \E o \in Op, c \in Calls : Begin(th, o, c)
  \/ RegisterOp(th) \/ Transmit(th) \/ TransmitFails(th) \/ Await(th)
  \/ ReceiveBuffered(th) \/ ReceiveFromHandler(th) \/ ReceiveClosed(th)
  \/ \E other \in Thread : ReceiveInterrupt(th, other)
  \/ \E o \in Op : \/ CachedResponse(th, o) \/ GetPublishError(th, o)
                   \/ Reset(th, o) \/ Interrupt(th, o) \/ Close(th, o)
  \/ InterruptBuffered(th) \/ CloseChannel(th)
  \/ \E c \in Calls : CloseContext(th, c)
  \/ \E t \in Tid : CleanOp(th, t)
  \/ CleanOpsEnds(th)

Handler == HandleMessage \/ OnMessage \/ Buffer \/ BufferError

Remote == \E t \in Tid : Reply(t)

\* A panic in any goroutine ends the process.
Next ==
  /\ ~panicked
  /\ \/ \E o \in Op : New(o)
     \/ \E th \in Thread : Application(th)
     \/ Handler
     \/ Remote

Spec == Init /\ [][Next]_vars
-----------------------------------------------------------------------------
(* How the application uses the API.                                       *)

\* One goroutine makes all the calls on an operation but Interrupt and Close.
SingleUser ==
  \A e, f \in Program :
    e[2] = f[2] /\ {e[3], f[3]} \cap {"Interrupt", "Close"} = {} => e[1] = f[1]

\* Moreover Close is a call of that goroutine, and no context is closed.
OwnerCloses ==
  /\ \A e, f \in Program : e[2] = f[2] /\ "Interrupt" \notin {e[3], f[3]} => e[1] = f[1]
  /\ \A e \in Program : e[3] \notin {"CloseContext", "OnClose"}

-----------------------------------------------------------------------------
(* Safety.                                                                 *)

\* The statuses of an operation whose transaction is under way.
Live == {"INITIATED", "ACKNOWLEDGED", "PROGRESSING", "REGISTER_INITIATED",
         "REGISTERED", "REREGISTER_INITIATED", "DEREGISTER_INITIATED"}

Registering(o) == \E th \in Thread : thread[th].pc = "register" /\ thread[th].op = o

Ready(o) == status[o] = "CREATED" \/ Registering(o)

\* The ids of TransactionId are not reused, whatever was reset, closed or
\* interrupted before: an id belongs to one operation and has no entry before its
\* registerOp, which meets none, and one goroutine at a time is about to register
\* an operation.
IdsFresh ==
  /\ \A o \in Op : tid[o] <= txcounter /\ (status[o] = "NONE" => tid[o] = 0)
  /\ \A o, p \in Op : tid[o] = tid[p] /\ tid[o] # 0 => o = p
  /\ \A t \in Tid : operations[t] # NoOp => t <= txcounter
  /\ \A o \in Op : Ready(o) => tid[o] # 0 /\ operations[tid[o]] = NoOp
  /\ \A th \in Thread : thread[th].pc = "register"
       => /\ <<th, thread[th].op, "Initiate">> \in Program
          /\ status[thread[th].op] # "CREATED"

\* ClientContext.operations holds an operation exactly while its current
\* transaction is under way: a reply to a finished or an earlier transaction
\* finds no operation, and a reply to the current one finds its operation.
TableExact ==
  /\ \A t \in Tid, o \in Op : operations[t] = o => tid[o] = t /\ status[o] \in Live
  /\ \A o \in Op : HasChannel(o) /\ status[o] \in Live /\ ~Registering(o)
                     => operations[tid[o]] = o

\* A call that waits returns a message of the transaction it waits for, and
\* not a reply to an earlier transaction of the same operation.
RepliesMatch ==
  [][\A th \in Thread :
       thread[th].pc = "wait" /\ ret'[th].msg # Nil
         => ret'[th].msg.tid = tid[thread[th].op]]_vars

\* The response GetResponse returns again after the operation has finished is
\* the response of the transaction that has finished.
KeptResponseCurrent ==
  \A o \in Op : status[o] = "FINAL" /\ response[o] # Nil => response[o].tid = tid[o]

\* No call meets a message of a stage it does not expect: "Bad return message".
NoBadReturn == \A th \in Thread : ret[th].out # "bad"

\* No send on a closed channel, close of a nil channel or write to a nil map.
NoPanic == ~panicked

\* No call waits on a nil channel, where no message and no Close can reach it.
NeverStuck ==
  /\ \A th \in Thread : thread[th].pc # "stuck"
  /\ handler.at # "stuck"

\* "A closed operation cannot be used anymore": once its channel is closed an
\* operation never gets a new transaction.
ClosedNotReused ==
  [][\A o \in Op : HasChannel(o) /\ ~open[o] /\ status[o] = "FINAL"
                     => status'[o] # "CREATED"]_vars

\* The state of each transaction id, as Transactions describes it: an id is
\* ready from its allocation to the registerOp of the call that uses it.
txState ==
  [t \in Tid |->
     IF t > txcounter THEN "unused"
     ELSE IF operations[t] # NoOp THEN "open"
     ELSE IF \E o \in Op : tid[o] = t /\ Ready(o)
     THEN "ready" ELSE "over"]

Tx == INSTANCE Transactions WITH state <- txState

\* The operations implement Transactions: whatever is reset, interrupted,
\* closed or answered twice, no id is opened twice or revived.
TransactionsSpec == Tx!Spec

-----------------------------------------------------------------------------
(* Liveness.  Go runs every goroutine that can run, so a call goes on and   *)
(* so does the context's goroutine; the remote side answers what it got.    *)

CallStep(th) ==
  \/ RegisterOp(th) \/ Transmit(th) \/ TransmitFails(th) \/ Await(th)
  \/ ReceiveBuffered(th) \/ ReceiveFromHandler(th) \/ ReceiveClosed(th)
  \/ CloseChannel(th)

\* The application goes on reading a started transaction.
Reads(th) == \E o \in Op, c \in {"GetResponse", "GetUpdate"} : Begin(th, o, c)

Fairness ==
  /\ \A th \in Thread : WF_vars(~panicked /\ CallStep(th))
  /\ WF_vars(~panicked /\ Handler)
  /\ \A t \in Tid : WF_vars(~panicked /\ Reply(t))

\* An application that may stop reading, and one that does not.
FairSpec    == Spec /\ Fairness
ReadingSpec == FairSpec /\ \A th \in Thread : WF_vars(~panicked /\ Reads(th))

\* Every call of the application returns.
CallsReturn == \A th \in Thread : thread[th].pc # "idle" ~> thread[th].pc = "idle"

\* "This code is not blocking": the context's goroutine, which delivers the
\* messages of every endpoint, always comes back from OnMessage.
HandlerComesBack == handler.at # "idle" ~> handler.at = "idle"
=============================================================================
