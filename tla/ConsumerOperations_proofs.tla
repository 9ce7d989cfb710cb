---------------------- MODULE ConsumerOperations_proofs ----------------------
(***************************************************************************)
(* Proofs about ConsumerOperations, for every set of operations and        *)
(* goroutines, every program of the application, every bound and every     *)
(* remote side.                                                            *)
(***************************************************************************)
EXTENDS ConsumerOperations, TLAPS

-----------------------------------------------------------------------------
(* Type correctness.                                                       *)

\* What the remote side sends, conforming or not, is a message.
LEMMA ProtocolType ==
  ASSUME NEW r \in Protocol \cup {Foreign}
  PROVE  /\ r.type \in Patterns
         /\ r.stage \in Stages
         /\ r.next \in Phases
  BY DEF Protocol, Foreign, Step, Patterns, Stages, Phases

\* The part of a call after its receive keeps the types of what it changes.
LEMMA ConcludeType ==
  ASSUME TypeOK, NEW th \in Thread, thread[th].pc = "wait",
         NEW m \in Message \cup {Nil}, Conclude(th, m)
  PROVE  /\ status' \in [Op -> Statuses]
         /\ operations' \in [Tid -> Op \cup {NoOp}]
         /\ response' \in [Op -> Message \cup {Nil}]
         /\ ret' \in [Thread -> Returns]
<1>1. thread[th].op \in Op
  BY DEF TypeOK, ActorsTypeOK
<1>2. CASE Discards(Pattern[thread[th].op], thread[th].call, m)
  BY <1>2 DEF Conclude, TypeOK, OpsTypeOK, ContextTypeOK, ActorsTypeOK
<1>3. CASE ~Discards(Pattern[thread[th].op], thread[th].call, m)
  <2> DEFINE o == thread[th].op
             p == Pattern[o]
             c == thread[th].call
             out == Outcome(p, c, m)
  <2>1. /\ status' = IF Finalizes(p, c, m) THEN FinalStatus(o)
                     ELSE [status EXCEPT ![o] = Advanced(p, c, m, @)]
        /\ operations' = IF Finalizes(p, c, m) THEN Finalized(o) ELSE operations
        /\ response' = IF c \in {"GetResponse", "GetUpdate"} /\ m.stage = "RESPONSE"
                       THEN [response EXCEPT ![o] = m] ELSE response
        /\ ret' = Returned(th, out, IF out \in {"ok", "error"} THEN m ELSE Nil)
    BY <1>3 DEF Conclude
  <2>2. status' \in [Op -> Statuses]
    BY <1>1, <2>1 DEF FinalStatus, Advanced, TypeOK, OpsTypeOK, Statuses
  <2>3. operations' \in [Tid -> Op \cup {NoOp}]
    BY <2>1 DEF Finalized, TypeOK, ContextTypeOK
  <2>4. response' \in [Op -> Message \cup {Nil}]
    BY <2>1 DEF TypeOK, OpsTypeOK
  <2>5. out \in {"interrupted", "bad", "none", "error", "ok"}
    BY DEF Outcome
  <2>6. ret' \in [Thread -> Returns]
    <3> HIDE DEF out
    <3>1. [out |-> out, msg |-> IF out \in {"ok", "error"} THEN m ELSE Nil] \in Returns
      BY <2>5 DEF Returns
    <3>2. QED
      BY <2>1, <3>1 DEF Returned, TypeOK, ActorsTypeOK
  <2>7. QED
    BY <2>2, <2>3, <2>4, <2>6
<1>4. QED
  BY <1>2, <1>3

-----------------------------------------------------------------------------
\* The initial state and every step are well typed.
LEMMA TypeInit == Init => TypeOK
<1>1. Nil \in Message \cup {Nil} /\ Asleep.op = NoOp /\ Asleep.at = "idle" /\ Asleep.msg = Nil
  BY DEF Asleep
<1>2. [out |-> "none", msg |-> Nil] \in Returns
  BY DEF Returns
<1>3. Unused \in [type : Patterns, phase : Phases, count : 0 .. MaxReplies]
  BY BoundAssumption DEF Unused, Patterns, Phases
<1>4. Idle \in [pc : Pcs, op : Op \cup {NoOp}, call : Calls \cup {"none"}] /\ Idle.pc = "idle"
  BY DEF Idle, Pcs
<1>5. Asleep \in [at : {"idle", "lookup", "send", "sendErr", "stuck"},
                  op : Op \cup {NoOp}, msg : Message \cup {Nil}]
  BY DEF Asleep
<1>6. ASSUME Init PROVE OpsTypeOK
  BY <1>6 DEF Init, OpsTypeOK, Statuses
<1>7. ASSUME Init PROVE ContextTypeOK
  <2>1. txcounter \in 0 .. MaxTid
    BY <1>7, BoundAssumption DEF Init
  <2>2. operations \in [Tid -> Op \cup {NoOp}] /\ tableNil \in BOOLEAN /\ endpoint \in BOOLEAN
    BY <1>7 DEF Init
  <2>3. todo \subseteq Tid
    BY <1>7 DEF Init
  <2>4. QED
    BY <2>1, <2>2, <2>3 DEF ContextTypeOK
<1>8. ASSUME Init PROVE RemoteTypeOK
  BY <1>8, <1>3 DEF Init, RemoteTypeOK
<1>9. ASSUME Init PROVE ActorsTypeOK
  BY <1>9, <1>1, <1>2, <1>4, <1>5 DEF Init, ActorsTypeOK
<1>10. QED
  BY <1>6, <1>7, <1>8, <1>9 DEF TypeOK

\* A step of the application keeps the types.
LEMMA ApplicationType ==
  ASSUME TypeOK, NEW th \in Thread, Application(th)
  PROVE  TypeOK'
<1> USE DEF opVars, cctxVars
<1>t. /\ Nil \in Message \cup {Nil}
      /\ Idle \in [pc : Pcs, op : Op \cup {NoOp}, call : Calls \cup {"none"}]
      /\ Idle.pc = "idle"
  BY DEF Idle, Pcs
<1>r. ASSUME NEW out \in {"none", "pending", "ok", "error", "ended", "interrupted", "bad", "send"},
             NEW m \in Message \cup {Nil}
      PROVE  Returned(th, out, m) \in [Thread -> Returns]
  BY DEF Returned, Returns, TypeOK, ActorsTypeOK
<1> DEFINE ThreadType == [pc : Pcs, op : Op \cup {NoOp}, call : Calls \cup {"none"}]
           WellTyped(f) == /\ f \in [Thread -> ThreadType]
                           /\ \A u \in Thread : f[u].pc \notin {"idle", "cleanOps"} => f[u].op \in Op
<1>w. WellTyped(thread)
  BY DEF TypeOK, ActorsTypeOK
<1>a. ASSUME NEW pc \in Pcs, thread[th].op \in Op
      PROVE  WellTyped(At(th, pc))
  <2> DEFINE moved == [thread[th] EXCEPT !.pc = pc]
  <2>1. moved \in ThreadType /\ moved.op = thread[th].op
    BY <1>w
  <2>2. At(th, pc) = [thread EXCEPT ![th] = moved]
    BY DEF At
  <2> HIDE DEF moved
  <2>3. QED
    BY <1>a, <1>w, <2>1, <2>2
<1>d. WellTyped(Done(th))
  BY <1>w, <1>t DEF Done
<1>p. Pcs = {"idle", "register", "send", "await", "wait", "stuck", "interrupt", "close", "cleanOps"}
  BY DEF Pcs
<1> HIDE DEF WellTyped
<1>1. CASE \E o \in Op, c \in Calls : Begin(th, o, c)
  <2>1. PICK o \in Op, c \in Calls : Begin(th, o, c)
    BY <1>1
  <2>2. BeginStatus(Pattern[o], c, status[o]) \in Statuses
    BY DEF BeginStatus, TypeOK, OpsTypeOK, Statuses
  <2>3. FirstPc(Pattern[o], c) \in Pcs
    BY DEF FirstPc, Pcs
  <2>4. OpsTypeOK'
    BY <2>1, <2>2 DEF Begin, TypeOK, OpsTypeOK
  <2>5. ContextTypeOK' /\ RemoteTypeOK'
    BY <2>1 DEF Begin, TypeOK, ContextTypeOK, RemoteTypeOK
  <2>6. ActorsTypeOK'
    BY <2>1, <2>3, <1>r DEF Begin, TypeOK, ActorsTypeOK
  <2>7. QED
    BY <2>4, <2>5, <2>6 DEF TypeOK
<1>2. CASE RegisterOp(th)
  <2>1. thread[th].op \in Op
    BY <1>2 DEF RegisterOp, TypeOK, ActorsTypeOK
  <2>2. OpsTypeOK'
    BY <1>2, <2>1 DEF RegisterOp, FinalStatus, TypeOK, OpsTypeOK, Statuses
  <2>3. ContextTypeOK'
    BY <1>2, <2>1 DEF RegisterOp, Finalized, TypeOK, ContextTypeOK
  <2>4. RemoteTypeOK'
    BY <1>2 DEF RegisterOp, TypeOK, RemoteTypeOK
  <2>5. ActorsTypeOK'
    <3>1. thread' = Done(th) \/ thread' = At(th, "send")
      BY <1>2 DEF RegisterOp
    <3>2. WellTyped(thread')
      BY <3>1, <2>1, <1>p, <1>a, <1>d
    <3>3. ret' \in [Thread -> Returns]
      BY <1>2, <1>r, <1>t DEF RegisterOp, TypeOK, ActorsTypeOK
    <3>4. panicked' \in BOOLEAN
      BY <1>2 DEF RegisterOp, TypeOK, ActorsTypeOK, ContextTypeOK
    <3>5. UNCHANGED handler
      BY <1>2 DEF RegisterOp
    <3>6. QED
      BY <3>2, <3>3, <3>4, <3>5 DEF WellTyped, TypeOK, ActorsTypeOK
  <2>6. QED
    BY <2>2, <2>3, <2>4, <2>5 DEF TypeOK
<1>3. CASE Transmit(th)
  <2>1. thread[th].op \in Op
    BY <1>3 DEF Transmit, TypeOK, ActorsTypeOK
  <2>2. OpsTypeOK'
    BY <1>3, <2>1 DEF Transmit, FinalStatus, TypeOK, OpsTypeOK, Statuses
  <2>3. ContextTypeOK'
    BY <1>3 DEF Transmit, TypeOK, ContextTypeOK
  <2>4. RemoteTypeOK'
    <3>1. ASSUME NEW c, NEW o \in Op, tid[o] \in Tid
          PROVE  Requested(o, c) \in [type : Patterns, phase : Phases, count : 0 .. MaxReplies]
      <4>1. exchange[tid[o]] \in [type : Patterns, phase : Phases, count : 0 .. MaxReplies]
        BY <3>1 DEF TypeOK, RemoteTypeOK
      <4>2. QED
        BY <4>1, PatternAssumption DEF Requested, Phases
    <3>2. QED
      BY <1>3, <2>1, <3>1 DEF Transmit, TypeOK, RemoteTypeOK
  <2>5. ActorsTypeOK'
    <3>1. thread' = Done(th) \/ thread' = At(th, "await")
      BY <1>3 DEF Transmit
    <3>2. WellTyped(thread')
      BY <3>1, <2>1, <1>p, <1>a, <1>d
    <3>3. QED
      BY <1>3, <3>2, <1>r, <1>t DEF WellTyped, Transmit, TypeOK, ActorsTypeOK
  <2>6. QED
    BY <2>2, <2>3, <2>4, <2>5 DEF TypeOK
<1>4. CASE TransmitFails(th)
  <2>1. thread[th].op \in Op
    BY <1>4 DEF TransmitFails, TypeOK, ActorsTypeOK
  <2>2. OpsTypeOK'
    BY <1>4, <2>1 DEF TransmitFails, FinalStatus, TypeOK, OpsTypeOK, Statuses
  <2>3. ContextTypeOK'
    BY <1>4 DEF TransmitFails, Finalized, TypeOK, ContextTypeOK
  <2>4. RemoteTypeOK'
    BY <1>4 DEF TransmitFails, TypeOK, RemoteTypeOK
  <2>5. ActorsTypeOK'
    BY <1>4, <1>r, <1>t DEF TransmitFails, Done, TypeOK, ActorsTypeOK
  <2>6. QED
    BY <2>2, <2>3, <2>4, <2>5 DEF TypeOK
<1>5. CASE Await(th)
  <2>1. OpsTypeOK' /\ ContextTypeOK' /\ RemoteTypeOK'
    BY <1>5 DEF Await, TypeOK, OpsTypeOK, ContextTypeOK, RemoteTypeOK
  <2>2. ActorsTypeOK'
    <3>1. thread' = At(th, "wait") \/ thread' = At(th, "stuck")
      BY <1>5 DEF Await
    <3>2. thread[th].op \in Op
      BY <1>5 DEF Await, TypeOK, ActorsTypeOK
    <3>3. WellTyped(thread')
      BY <3>1, <3>2, <1>p, <1>a
    <3>4. QED
      BY <1>5, <3>3 DEF WellTyped, Await, TypeOK, ActorsTypeOK
  <2>3. QED
    BY <2>1, <2>2 DEF TypeOK
<1>6. CASE ReceiveBuffered(th) \/ ReceiveFromHandler(th) \/ \E other \in Thread : ReceiveInterrupt(th, other)
  <2>1. thread[th].pc = "wait" /\ thread[th].op \in Op
    BY <1>6 DEF ReceiveBuffered, ReceiveFromHandler, ReceiveInterrupt, TypeOK, ActorsTypeOK
  <2>2. PICK m \in Message \cup {Nil} : Conclude(th, m)
    <3>1. CASE ReceiveBuffered(th)
      <4>1. chan[thread[th].op] \in Seq(Message \cup {Nil}) /\ chan[thread[th].op] # <<>>
        BY <3>1, <2>1 DEF ReceiveBuffered, TypeOK, OpsTypeOK
      <4>2. Head(chan[thread[th].op]) \in Message \cup {Nil}
        BY <4>1
      <4>3. QED
        BY <3>1, <4>2 DEF ReceiveBuffered
    <3>2. CASE ReceiveFromHandler(th)
      BY <3>2 DEF ReceiveFromHandler, TypeOK, ActorsTypeOK
    <3>3. CASE \E other \in Thread : ReceiveInterrupt(th, other)
      BY <3>3, <1>t DEF ReceiveInterrupt
    <3>4. QED
      BY <1>6, <3>1, <3>2, <3>3
  <2>3. /\ status' \in [Op -> Statuses]
        /\ operations' \in [Tid -> Op \cup {NoOp}]
        /\ response' \in [Op -> Message \cup {Nil}]
        /\ ret' \in [Thread -> Returns]
    BY <2>1, <2>2, ConcludeType
  <2>4. chan' \in [Op -> Seq(Message \cup {Nil})]
    <3>1. CASE ReceiveBuffered(th)
      <4>1. chan[thread[th].op] \in Seq(Message \cup {Nil}) /\ chan[thread[th].op] # <<>>
        BY <3>1, <2>1 DEF ReceiveBuffered, TypeOK, OpsTypeOK
      <4>2. Tail(chan[thread[th].op]) \in Seq(Message \cup {Nil})
        BY <4>1
      <4>3. QED
        BY <3>1, <4>2 DEF ReceiveBuffered, TypeOK, OpsTypeOK
    <3>2. QED
      BY <1>6, <3>1 DEF ReceiveFromHandler, ReceiveInterrupt, TypeOK, OpsTypeOK
  <2>5. UNCHANGED <<tid, open, errOpen, errChan, txcounter, tableNil, endpoint, todo,
                    inbox, exchange, panicked>>
    BY <1>6 DEF ReceiveBuffered, ReceiveFromHandler, ReceiveInterrupt
  <2>6. handler' = handler \/ handler' = Asleep
    BY <1>6 DEF ReceiveBuffered, ReceiveFromHandler, ReceiveInterrupt
  <2>7. \/ thread' = At(th, "await")
        \/ thread' = Done(th)
        \/ \E other \in Thread : thread' = [thread EXCEPT ![th] = Idle, ![other] = Idle]
    BY <1>6 DEF ReceiveBuffered, ReceiveFromHandler, ReceiveInterrupt, Concluded
  <2>8. WellTyped(thread')
    <3>1. ASSUME NEW other \in Thread PROVE WellTyped([thread EXCEPT ![th] = Idle, ![other] = Idle])
      BY <1>w, <1>t DEF WellTyped
    <3>2. QED
      BY <2>1, <2>7, <3>1, <1>p, <1>a, <1>d
  <2>9. /\ handler' \in [at : {"idle", "lookup", "send", "sendErr", "stuck"},
                         op : Op \cup {NoOp}, msg : Message \cup {Nil}]
        /\ handler'.at # "idle" => handler'.op \in Op /\ handler'.msg \in Message
    BY <2>6, <1>t DEF Asleep, TypeOK, ActorsTypeOK
  <2>10. OpsTypeOK' /\ ContextTypeOK'
    BY <2>3, <2>4, <2>5 DEF TypeOK, OpsTypeOK, ContextTypeOK
  <2>11. RemoteTypeOK' /\ ActorsTypeOK'
    BY <2>3, <2>5, <2>8, <2>9 DEF WellTyped, TypeOK, RemoteTypeOK, ActorsTypeOK
  <2>12. QED
    BY <2>10, <2>11 DEF TypeOK
<1>7. CASE ReceiveClosed(th)
  <2>1. OpsTypeOK'
    BY <1>7 DEF ReceiveClosed, FinalStatus, TypeOK, OpsTypeOK, Statuses
  <2>2. ContextTypeOK' /\ RemoteTypeOK'
    BY <1>7 DEF ReceiveClosed, Finalized, TypeOK, ContextTypeOK, RemoteTypeOK
  <2>3. ActorsTypeOK'
    BY <1>7, <1>r, <1>t DEF ReceiveClosed, Done, TypeOK, ActorsTypeOK
  <2>4. QED
    BY <2>1, <2>2, <2>3 DEF TypeOK
<1>8. CASE \E o \in Op : CachedResponse(th, o)
  <2>1. PICK o \in Op : CachedResponse(th, o)
    BY <1>8
  <2>2. response[o] \in Message \cup {Nil}
    BY DEF TypeOK, OpsTypeOK
  <2>3. OpsTypeOK' /\ ContextTypeOK' /\ RemoteTypeOK'
    BY <2>1 DEF CachedResponse, TypeOK, OpsTypeOK, ContextTypeOK, RemoteTypeOK
  <2>4. ret' \in [Thread -> Returns]
    BY <2>1, <2>2, <1>r DEF CachedResponse
  <2>5. ActorsTypeOK'
    BY <2>1, <2>4 DEF CachedResponse, TypeOK, ActorsTypeOK
  <2>6. QED
    BY <2>3, <2>5 DEF TypeOK
<1>9. CASE \E o \in Op : GetPublishError(th, o)
  <2>1. PICK o \in Op : GetPublishError(th, o)
    BY <1>9
  <2>2. errChan[o] \in Seq(Message) /\ errChan[o] # <<>>
    BY <2>1 DEF GetPublishError, TypeOK, OpsTypeOK
  <2>3. Head(errChan[o]) \in Message /\ Tail(errChan[o]) \in Seq(Message)
    BY <2>2
  <2>4. OpsTypeOK' /\ ContextTypeOK' /\ RemoteTypeOK'
    BY <2>1, <2>3 DEF GetPublishError, TypeOK, OpsTypeOK, ContextTypeOK, RemoteTypeOK
  <2>5. ret' \in [Thread -> Returns]
    BY <2>1, <2>3, <1>r DEF GetPublishError
  <2>6. ActorsTypeOK'
    BY <2>1, <2>5 DEF GetPublishError, TypeOK, ActorsTypeOK
  <2>7. QED
    BY <2>4, <2>6 DEF TypeOK
<1>10. CASE \E o \in Op : Reset(th, o)
  <2>1. PICK o \in Op : Reset(th, o)
    BY <1>10
  <2>2. txcounter + 1 \in Tid /\ txcounter + 1 \in 0 .. MaxTid
    BY <2>1, BoundAssumption DEF Reset, TypeOK, ContextTypeOK, Tid
  <2>3. OpsTypeOK'
    BY <2>1, <2>2 DEF Reset, NextTid, TypeOK, OpsTypeOK, Statuses
  <2>4. ContextTypeOK' /\ RemoteTypeOK'
    BY <2>1, <2>2 DEF Reset, TypeOK, ContextTypeOK, RemoteTypeOK
  <2>5. ActorsTypeOK'
    BY <2>1, <1>r, <1>t DEF Reset, TypeOK, ActorsTypeOK
  <2>6. QED
    BY <2>3, <2>4, <2>5 DEF TypeOK
<1>11. CASE \E o \in Op : Interrupt(th, o)
  <2>1. PICK o \in Op : Interrupt(th, o)
    BY <1>11
  <2>2. OpsTypeOK' /\ ContextTypeOK' /\ RemoteTypeOK'
    BY <2>1 DEF Interrupt, TypeOK, OpsTypeOK, ContextTypeOK, RemoteTypeOK
  <2>3. ActorsTypeOK'
    BY <2>1 DEF Interrupt, TypeOK, ActorsTypeOK, Pcs, Calls
  <2>4. QED
    BY <2>2, <2>3 DEF TypeOK
<1>12. CASE InterruptBuffered(th)
  <2>1. thread[th].op \in Op
    BY <1>12 DEF InterruptBuffered, TypeOK, ActorsTypeOK
  <2>2. Append(chan[thread[th].op], Nil) \in Seq(Message \cup {Nil})
    BY <2>1, <1>t DEF TypeOK, OpsTypeOK
  <2>3. OpsTypeOK' /\ ContextTypeOK' /\ RemoteTypeOK'
    BY <1>12, <2>1, <2>2 DEF InterruptBuffered, TypeOK, OpsTypeOK, ContextTypeOK, RemoteTypeOK
  <2>4. ActorsTypeOK'
    BY <1>12, <1>t DEF InterruptBuffered, Done, TypeOK, ActorsTypeOK
  <2>5. QED
    BY <2>3, <2>4 DEF TypeOK
<1>c. ASSUME NEW o \in Op, NEW c \in Calls \cup {"none"}, CloseOp(th, o, c),
             UNCHANGED <<tid, response, open, chan, errChan, txcounter, tableNil,
                         endpoint, inbox, handler, exchange>>,
             todo' \subseteq todo
      PROVE  TypeOK'
  <2>1. OpsTypeOK'
    BY <1>c DEF CloseOp, TypeOK, OpsTypeOK, Statuses
  <2>2. ContextTypeOK' /\ RemoteTypeOK'
    BY <1>c DEF CloseOp, TypeOK, ContextTypeOK, RemoteTypeOK
  <2>3. /\ thread' \in [Thread -> [pc : Pcs, op : Op \cup {NoOp}, call : Calls \cup {"none"}]]
        /\ \A u \in Thread : thread'[u].pc \notin {"idle", "cleanOps"} => thread'[u].op \in Op
    BY <1>c DEF CloseOp, TypeOK, ActorsTypeOK, Pcs
  <2>4. ret' \in [Thread -> Returns]
    BY <1>c, <1>r, <1>t DEF CloseOp, TypeOK, ActorsTypeOK
  <2>5. panicked' \in BOOLEAN
    BY <1>c DEF CloseOp, TypeOK, ActorsTypeOK
  <2>6. ActorsTypeOK'
    BY <1>c, <2>3, <2>4, <2>5 DEF TypeOK, ActorsTypeOK
  <2>7. QED
    BY <2>1, <2>2, <2>6 DEF TypeOK
<1>13. CASE \E o \in Op : Close(th, o)
  BY <1>13, <1>c DEF Close, Calls
<1>14. CASE CloseChannel(th)
  <2>1. thread[th].op \in Op
    BY <1>14 DEF CloseChannel, TypeOK, ActorsTypeOK
  <2>2. OpsTypeOK' /\ ContextTypeOK' /\ RemoteTypeOK'
    BY <1>14, <2>1 DEF CloseChannel, TypeOK, OpsTypeOK, ContextTypeOK, RemoteTypeOK
  <2>3. thread' = Done(th) \/ thread' = At(th, "cleanOps")
    BY <1>14 DEF CloseChannel
  <2>4. WellTyped(thread')
    BY <2>1, <2>3, <1>p, <1>a, <1>d
  <2>5. panicked' \in BOOLEAN
    BY <1>14 DEF CloseChannel
  <2>6. ActorsTypeOK'
    BY <1>14, <2>4, <2>5 DEF WellTyped, CloseChannel, TypeOK, ActorsTypeOK
  <2>7. QED
    BY <2>2, <2>6 DEF TypeOK
<1>15. CASE \E c \in Calls : CloseContext(th, c)
  <2>1. PICK c \in Calls : CloseContext(th, c)
    BY <1>15
  <2>2. OpsTypeOK' /\ RemoteTypeOK'
    BY <2>1 DEF CloseContext, TypeOK, OpsTypeOK, RemoteTypeOK
  <2>3. endpoint' \in BOOLEAN
    BY <2>1 DEF CloseContext
  <2>4. ContextTypeOK'
    BY <2>1, <2>3 DEF CloseContext, TypeOK, ContextTypeOK
  <2>5. ActorsTypeOK'
    BY <2>1 DEF CloseContext, TypeOK, ActorsTypeOK, Pcs
  <2>6. QED
    BY <2>2, <2>4, <2>5 DEF TypeOK
<1>16. CASE \E t \in Tid : CleanOp(th, t)
  <2>1. PICK t \in Tid : CleanOp(th, t)
    BY <1>16
  <2>2. operations[t] \in Op
    BY <2>1 DEF CleanOp, TypeOK, ContextTypeOK
  <2>3. CASE status[operations[t]] = "CLOSED"
    <3>1. OpsTypeOK' /\ ContextTypeOK'
      BY <2>1, <2>3 DEF CleanOp, TypeOK, OpsTypeOK, ContextTypeOK
    <3>2. RemoteTypeOK' /\ ActorsTypeOK'
      BY <2>1, <2>3 DEF CleanOp, TypeOK, RemoteTypeOK, ActorsTypeOK
    <3>3. QED
      BY <3>1, <3>2 DEF TypeOK
  <2>4. CASE status[operations[t]] # "CLOSED"
    <3>1. CloseOp(th, operations[t], thread[th].call)
      BY <2>1, <2>4 DEF CleanOp
    <3>2. thread[th].call \in Calls \cup {"none"}
      BY DEF TypeOK, ActorsTypeOK
    <3>3. QED
      BY <2>1, <2>2, <3>1, <3>2, <1>c DEF CleanOp
  <2>5. QED
    BY <2>3, <2>4
<1>17. CASE CleanOpsEnds(th)
  <2>1. OpsTypeOK' /\ ContextTypeOK' /\ RemoteTypeOK'
    BY <1>17 DEF CleanOpsEnds, TypeOK, OpsTypeOK, ContextTypeOK, RemoteTypeOK
  <2>2. ActorsTypeOK'
    BY <1>17, <1>t DEF CleanOpsEnds, Done, TypeOK, ActorsTypeOK
  <2>3. QED
    BY <2>1, <2>2 DEF TypeOK
<1>18. QED
  BY <1>1, <1>2, <1>3, <1>4, <1>5, <1>6, <1>7, <1>8, <1>9, <1>10, <1>11, <1>12,
     <1>13, <1>14, <1>15, <1>16, <1>17 DEF Application

\* So does a step of the context's goroutine.
LEMMA HandlerType ==
  ASSUME TypeOK, Handler
  PROVE  TypeOK'
<1> USE DEF opVars, cctxVars
<1>t. /\ Nil \in Message \cup {Nil}
      /\ Asleep \in [at : {"idle", "lookup", "send", "sendErr", "stuck"},
                     op : Op \cup {NoOp}, msg : Message \cup {Nil}]
      /\ Asleep.at = "idle"
  BY DEF Asleep
<1>1. CASE HandleMessage
  <2>1. inbox # <<>> /\ inbox \in Seq(Message)
    BY <1>1 DEF HandleMessage, TypeOK, RemoteTypeOK
  <2>2. Head(inbox) \in Message /\ Tail(inbox) \in Seq(Message)
    BY <2>1
  <2>3. Head(inbox).tid \in Tid
    BY <2>2 DEF Message
  <2>4. OpsTypeOK' /\ ContextTypeOK' /\ RemoteTypeOK'
    BY <1>1, <2>2 DEF HandleMessage, TypeOK, OpsTypeOK, ContextTypeOK, RemoteTypeOK
  <2>5. /\ handler' \in [at : {"idle", "lookup", "send", "sendErr", "stuck"},
                         op : Op \cup {NoOp}, msg : Message \cup {Nil}]
        /\ handler'.at # "idle" => handler'.op \in Op /\ handler'.msg \in Message
    BY <1>1, <1>t, <2>2, <2>3 DEF HandleMessage, Routed, TypeOK, ContextTypeOK
  <2>6. ActorsTypeOK'
    BY <1>1, <2>5 DEF HandleMessage, TypeOK, ActorsTypeOK
  <2>7. QED
    BY <2>4, <2>6 DEF TypeOK
<1>2. CASE OnMessage
  <2>1. OpsTypeOK' /\ ContextTypeOK' /\ RemoteTypeOK'
    BY <1>2 DEF OnMessage, TypeOK, OpsTypeOK, ContextTypeOK, RemoteTypeOK
  <2>2. handler.at = "lookup" /\ handler.op \in Op /\ handler.msg \in Message
    BY <1>2 DEF OnMessage, TypeOK, ActorsTypeOK
  <2>3. ASSUME NEW at \in {"send", "sendErr", "stuck"}
        PROVE  /\ [handler EXCEPT !.at = at] \in
                    [at : {"idle", "lookup", "send", "sendErr", "stuck"},
                     op : Op \cup {NoOp}, msg : Message \cup {Nil}]
               /\ [handler EXCEPT !.at = at].op \in Op
               /\ [handler EXCEPT !.at = at].msg \in Message
    BY <2>2 DEF TypeOK, ActorsTypeOK
  <2>4. \/ handler' = Asleep
        \/ \E at \in {"send", "sendErr", "stuck"} : handler' = [handler EXCEPT !.at = at]
    BY <1>2 DEF OnMessage
  <2>5. /\ handler' \in [at : {"idle", "lookup", "send", "sendErr", "stuck"},
                         op : Op \cup {NoOp}, msg : Message \cup {Nil}]
        /\ handler'.at # "idle" => handler'.op \in Op /\ handler'.msg \in Message
    BY <1>t, <2>3, <2>4
  <2>6. ActorsTypeOK'
    BY <1>2, <2>5 DEF OnMessage, TypeOK, ActorsTypeOK
  <2>7. QED
    BY <2>1, <2>6 DEF TypeOK
<1>3. CASE Buffer
  <2>1. handler.op \in Op /\ handler.msg \in Message
    BY <1>3 DEF Buffer, TypeOK, ActorsTypeOK
  <2>2. Append(chan[handler.op], handler.msg) \in Seq(Message \cup {Nil})
    BY <2>1 DEF TypeOK, OpsTypeOK
  <2>3. OpsTypeOK' /\ ContextTypeOK' /\ RemoteTypeOK'
    BY <1>3, <2>1, <2>2 DEF Buffer, TypeOK, OpsTypeOK, ContextTypeOK, RemoteTypeOK
  <2>4. ActorsTypeOK'
    BY <1>3, <1>t DEF Buffer, TypeOK, ActorsTypeOK
  <2>5. QED
    BY <2>3, <2>4 DEF TypeOK
<1>4. CASE BufferError
  <2>1. handler.op \in Op /\ handler.msg \in Message
    BY <1>4 DEF BufferError, TypeOK, ActorsTypeOK
  <2>2. Append(errChan[handler.op], handler.msg) \in Seq(Message)
    BY <2>1 DEF TypeOK, OpsTypeOK
  <2>3. OpsTypeOK' /\ ContextTypeOK' /\ RemoteTypeOK'
    BY <1>4, <2>1, <2>2 DEF BufferError, TypeOK, OpsTypeOK, ContextTypeOK, RemoteTypeOK
  <2>4. ActorsTypeOK'
    BY <1>4, <1>t DEF BufferError, TypeOK, ActorsTypeOK
  <2>5. QED
    BY <2>3, <2>4 DEF TypeOK
<1>5. QED
  BY <1>1, <1>2, <1>3, <1>4 DEF Handler

\* So does a message of the remote side.
LEMMA ReplyType ==
  ASSUME TypeOK, NEW t \in Tid, Reply(t)
  PROVE  TypeOK'
<1>1. PICK r \in Protocol \cup {Foreign}, e \in BOOLEAN :
        LET x == exchange[t]
            conforming == Provider = "conforming"
            bounded == r.stage \in Streaming \/ ~conforming IN
        /\ bounded => x.count < MaxReplies
        /\ inbox' = Append(inbox, [tid |-> t, type |-> r.type, stage |-> r.stage, err |-> e])
        /\ exchange' = [exchange EXCEPT ![t] =
                          [type  |-> x.type,
                           phase |-> IF conforming THEN r.next ELSE x.phase,
                           count |-> IF bounded THEN x.count + 1 ELSE x.count]]
  BY DEF Reply
<1>2. r.type \in Patterns /\ r.stage \in Stages /\ r.next \in Phases
  BY ProtocolType
<1>3. inbox' \in Seq(Message)
  <2>1. [tid |-> t, type |-> r.type, stage |-> r.stage, err |-> e] \in Message
    BY <1>2 DEF Message
  <2>2. QED
    BY <1>1, <2>1 DEF TypeOK, RemoteTypeOK
<1>4. exchange' \in [Tid -> [type : Patterns, phase : Phases, count : 0 .. MaxReplies]]
  <2>1. exchange[t] \in [type : Patterns, phase : Phases, count : 0 .. MaxReplies]
    BY DEF TypeOK, RemoteTypeOK
  <2>2. exchange[t].count < MaxReplies => exchange[t].count + 1 \in 0 .. MaxReplies
    BY <2>1, BoundAssumption
  <2>3. QED
    BY <1>1, <1>2, <2>1, <2>2 DEF TypeOK, RemoteTypeOK
<1>5. OpsTypeOK' /\ ContextTypeOK' /\ ActorsTypeOK'
  BY DEF Reply, opVars, cctxVars, TypeOK, OpsTypeOK, ContextTypeOK, ActorsTypeOK
<1>6. QED
  BY <1>3, <1>4, <1>5 DEF TypeOK, RemoteTypeOK

\* So does a constructor.
LEMMA NewType ==
  ASSUME TypeOK, NEW o \in Op, New(o)
  PROVE  TypeOK'
<1>1. txcounter + 1 \in Tid /\ txcounter + 1 \in 0 .. MaxTid
  BY BoundAssumption DEF New, TypeOK, ContextTypeOK, Tid
<1>2. OpsTypeOK'
  BY <1>1 DEF New, NextTid, HasChannel, TypeOK, OpsTypeOK, Statuses
<1>3. ContextTypeOK' /\ RemoteTypeOK' /\ ActorsTypeOK'
  BY <1>1 DEF New, TypeOK, ContextTypeOK, RemoteTypeOK, ActorsTypeOK
<1>4. QED
  BY <1>2, <1>3 DEF TypeOK

\* Hence every step keeps the type invariant.
LEMMA TypeStep == TypeOK /\ [Next]_vars => TypeOK'
<1>1. ASSUME TypeOK, Next PROVE TypeOK'
  BY <1>1, NewType, ApplicationType, HandlerType, ReplyType DEF Next, Remote
<1>2. ASSUME TypeOK, UNCHANGED vars PROVE TypeOK'
  BY <1>2 DEF vars, opVars, cctxVars, TypeOK, OpsTypeOK, ContextTypeOK, RemoteTypeOK, ActorsTypeOK
<1>3. QED
  BY <1>1, <1>2

\* Every variable keeps its type, and every goroutine that is inside a call or
\* a delivery knows the operation it works on, whatever calls are made and
\* whatever the remote side sends.
THEOREM TypeCorrect == Spec => []TypeOK
<1>1. QED
  BY TypeInit, TypeStep, PTL DEF Spec

-----------------------------------------------------------------------------
(* Transaction ids.                                                        *)

\* A step that allocates nothing, enters nothing in the table and brings no
\* operation nearer to its registerOp.
Quiet ==
  /\ tid' = tid
  /\ txcounter' = txcounter
  /\ \A t \in Tid : operations'[t] \in {operations[t], NoOp}
  /\ \A o \in Op : /\ status'[o] = "NONE" => status[o] = "NONE"
                   /\ status'[o] = "CREATED" => status[o] = "CREATED"
  /\ \A th \in Thread : thread'[th].pc = "register" => thread'[th] = thread[th]

\* Only three kinds of application step are not quiet.
Entering(th, o) == Begin(th, o, "Initiate") /\ Pattern[o] # "Send"

\* What a call does after its receive is quiet: it ends an id or none.
LEMMA ConcludeQuiet ==
  ASSUME TypeOK, NEW th \in Thread, thread[th].pc = "wait",
         NEW m \in Message \cup {Nil}, Conclude(th, m)
  PROVE  /\ \A t \in Tid : operations'[t] \in {operations[t], NoOp}
         /\ \A o \in Op : status'[o] \in {"NONE", "CREATED"} => status'[o] = status[o]
<1>1. thread[th].op \in Op
  BY DEF TypeOK, ActorsTypeOK
<1>2. CASE Discards(Pattern[thread[th].op], thread[th].call, m)
  BY <1>2 DEF Conclude
<1>3. CASE ~Discards(Pattern[thread[th].op], thread[th].call, m)
  <2> DEFINE o == thread[th].op
             p == Pattern[o]
             c == thread[th].call
  <2>1. /\ status' = IF Finalizes(p, c, m) THEN FinalStatus(o)
                     ELSE [status EXCEPT ![o] = Advanced(p, c, m, @)]
        /\ operations' = IF Finalizes(p, c, m) THEN Finalized(o) ELSE operations
    BY <1>3 DEF Conclude
  <2>2. Advanced(p, c, m, status[o]) \in {"NONE", "CREATED"} => Advanced(p, c, m, status[o]) = status[o]
    BY DEF Advanced
  <2>3. QED
    BY <1>1, <2>1, <2>2 DEF FinalStatus, Finalized, TypeOK, OpsTypeOK, ContextTypeOK
<1>4. QED
  BY <1>2, <1>3

\* So is a step of the application that is no Begin, registerOp or Reset.
LEMMA ApplicationQuiet ==
  ASSUME TypeOK, NEW th \in Thread, Application(th)
  PROVE  \/ Quiet
         \/ RegisterOp(th)
         \/ \E o \in Op : Reset(th, o) \/ Entering(th, o)
<1> USE DEF opVars, cctxVars
<1>t. /\ Idle.pc = "idle"
      /\ thread \in [Thread -> [pc : Pcs, op : Op \cup {NoOp}, call : Calls \cup {"none"}]]
  BY DEF Idle, TypeOK, ActorsTypeOK
<1>a. ASSUME NEW pc, pc # "register", thread' = At(th, pc)
      PROVE  \A u \in Thread : thread'[u].pc = "register" => thread'[u] = thread[u]
  <2>1. thread[th] \in [pc : Pcs, op : Op \cup {NoOp}, call : Calls \cup {"none"}]
    BY <1>t
  <2> DEFINE moved == [thread[th] EXCEPT !.pc = pc]
  <2>2. moved.pc # "register"
    BY <1>a, <2>1
  <2>3. thread' = [thread EXCEPT ![th] = moved]
    BY <1>a DEF At
  <2> HIDE DEF moved
  <2>4. QED
    BY <1>t, <2>2, <2>3
<1>d. ASSUME thread' = Done(th)
      PROVE  \A u \in Thread : thread'[u].pc = "register" => thread'[u] = thread[u]
  BY <1>t, <1>d DEF Done
<1>f. ASSUME NEW o, status' = FinalStatus(o)
      PROVE  \A p \in Op : status'[p] \in {"NONE", "CREATED"} => status'[p] = status[p]
  BY <1>f DEF FinalStatus, TypeOK, OpsTypeOK
<1>g. ASSUME NEW o, operations' = Finalized(o)
      PROVE  \A t \in Tid : operations'[t] \in {operations[t], NoOp}
  BY <1>g DEF Finalized, TypeOK, ContextTypeOK
<1>1. ASSUME NEW o \in Op, NEW c \in Calls, Begin(th, o, c), ~Entering(th, o)
      PROVE  Quiet
  <2>1. FirstPc(Pattern[o], c) # "register"
    BY <1>1 DEF Entering, FirstPc
  <2>2. \A u \in Thread : thread'[u].pc = "register" => thread'[u] = thread[u]
    BY <1>1, <1>t, <2>1 DEF Begin
  <2>3. BeginStatus(Pattern[o], c, status[o]) \in {"NONE", "CREATED"}
          => BeginStatus(Pattern[o], c, status[o]) = status[o]
    BY DEF BeginStatus
  <2>4. \A p \in Op : status'[p] \in {"NONE", "CREATED"} => status'[p] = status[p]
    BY <1>1, <2>3 DEF Begin, TypeOK, OpsTypeOK
  <2>5. QED
    BY <1>1, <2>2, <2>4 DEF Begin, Quiet
<1>3. ASSUME Transmit(th) PROVE Quiet
  <2>1. thread' = Done(th) \/ thread' = At(th, "await")
    BY <1>3 DEF Transmit
  <2>2. status' = status \/ \E o \in Op : status' = FinalStatus(o)
    BY <1>3 DEF Transmit, TypeOK, ActorsTypeOK
  <2>3. QED
    BY <1>3, <2>1, <2>2, <1>a, <1>d, <1>f DEF Transmit, Quiet
<1>4. ASSUME TransmitFails(th) PROVE Quiet
  BY <1>4, <1>d, <1>f, <1>g DEF TransmitFails, Quiet
<1>5. ASSUME Await(th) PROVE Quiet
  <2>1. thread' = At(th, "wait") \/ thread' = At(th, "stuck")
    BY <1>5 DEF Await
  <2>2. QED
    BY <1>5, <2>1, <1>a DEF Await, Quiet
<1>6. ASSUME \/ ReceiveBuffered(th) \/ ReceiveFromHandler(th)
             \/ \E other \in Thread : ReceiveInterrupt(th, other)
      PROVE  Quiet
  <2>1. thread[th].pc = "wait" /\ thread[th].op \in Op
    BY <1>6 DEF ReceiveBuffered, ReceiveFromHandler, ReceiveInterrupt, TypeOK, ActorsTypeOK
  <2>2. PICK m \in Message \cup {Nil} : Conclude(th, m)
    <3>1. CASE ReceiveBuffered(th)
      <4>1. chan[thread[th].op] \in Seq(Message \cup {Nil}) /\ chan[thread[th].op] # <<>>
        BY <3>1, <2>1 DEF ReceiveBuffered, TypeOK, OpsTypeOK
      <4>2. Head(chan[thread[th].op]) \in Message \cup {Nil}
        BY <4>1
      <4>3. QED
        BY <3>1, <4>2 DEF ReceiveBuffered
    <3>2. CASE ReceiveFromHandler(th)
      BY <3>2 DEF ReceiveFromHandler, TypeOK, ActorsTypeOK
    <3>3. CASE \E other \in Thread : ReceiveInterrupt(th, other)
      BY <3>3 DEF ReceiveInterrupt
    <3>4. QED
      BY <1>6, <3>1, <3>2, <3>3
  <2>3. /\ \A t \in Tid : operations'[t] \in {operations[t], NoOp}
        /\ \A o \in Op : status'[o] \in {"NONE", "CREATED"} => status'[o] = status[o]
    BY <2>1, <2>2, ConcludeQuiet
  <2>4. \/ thread' = At(th, "await")
        \/ thread' = Done(th)
        \/ \E other \in Thread : thread' = [thread EXCEPT ![th] = Idle, ![other] = Idle]
    BY <1>6 DEF ReceiveBuffered, ReceiveFromHandler, ReceiveInterrupt, Concluded
  <2>5. ASSUME NEW other \in Thread, thread' = [thread EXCEPT ![th] = Idle, ![other] = Idle]
        PROVE  \A u \in Thread : thread'[u].pc = "register" => thread'[u] = thread[u]
    BY <1>t, <2>5
  <2>6. \A u \in Thread : thread'[u].pc = "register" => thread'[u] = thread[u]
    BY <2>4, <2>5, <1>a, <1>d
  <2>7. tid' = tid /\ txcounter' = txcounter
    BY <1>6 DEF ReceiveBuffered, ReceiveFromHandler, ReceiveInterrupt
  <2>8. QED
    BY <2>3, <2>6, <2>7 DEF Quiet
<1>7. ASSUME ReceiveClosed(th) PROVE Quiet
  <2>1. /\ status' = FinalStatus(thread[th].op)
        /\ operations' = Finalized(thread[th].op)
        /\ thread' = Done(th)
        /\ UNCHANGED <<tid, txcounter>>
    BY <1>7 DEF ReceiveClosed
  <2>2. QED
    BY <2>1, <1>d, <1>f, <1>g DEF Quiet
<1>8. ASSUME NEW o \in Op, CachedResponse(th, o) \/ GetPublishError(th, o)
      PROVE  Quiet
  BY <1>8 DEF CachedResponse, GetPublishError, Quiet
<1>11. ASSUME NEW o \in Op, Interrupt(th, o) PROVE Quiet
  BY <1>11, <1>t DEF Interrupt, Quiet
<1>12. ASSUME InterruptBuffered(th) PROVE Quiet
  BY <1>12, <1>d DEF InterruptBuffered, Quiet
<1>c. ASSUME NEW o \in Op, NEW c, CloseOp(th, o, c), UNCHANGED <<tid, txcounter>>
      PROVE  Quiet
  BY <1>c, <1>t DEF CloseOp, Quiet, TypeOK, OpsTypeOK, ContextTypeOK
<1>13. ASSUME NEW o \in Op, Close(th, o) PROVE Quiet
  BY <1>13, <1>c DEF Close
<1>14. ASSUME CloseChannel(th) PROVE Quiet
  <2>1. thread' = Done(th) \/ thread' = At(th, "cleanOps")
    BY <1>14 DEF CloseChannel
  <2>2. QED
    BY <1>14, <2>1, <1>a, <1>d DEF CloseChannel, Quiet
<1>15. ASSUME NEW c \in Calls, CloseContext(th, c) PROVE Quiet
  BY <1>15, <1>t DEF CloseContext, Quiet
<1>16. ASSUME NEW t \in Tid, CleanOp(th, t) PROVE Quiet
  <2>1. operations[t] \in Op
    BY <1>16 DEF CleanOp, TypeOK, ContextTypeOK
  <2>2. CASE status[operations[t]] = "CLOSED"
    BY <1>16, <2>2 DEF CleanOp, Quiet
  <2>3. CASE status[operations[t]] # "CLOSED"
    BY <1>16, <2>1, <2>3, <1>c DEF CleanOp
  <2>4. QED
    BY <2>2, <2>3
<1>17. ASSUME CleanOpsEnds(th) PROVE Quiet
  BY <1>17, <1>d DEF CleanOpsEnds, Quiet
<1>18. QED
  BY <1>1, <1>3, <1>4, <1>5, <1>6, <1>7, <1>8, <1>11, <1>12, <1>13, <1>14, <1>15,
     <1>16, <1>17 DEF Application

\* A quiet step keeps the ids fresh.
LEMMA QuietIds ==
  ASSUME TypeOK, IdsFresh, Quiet
  PROVE  IdsFresh'
<1>1. \A o \in Op : Ready(o)' => Ready(o)
  BY DEF Ready, Registering, Quiet
<1>2. \A o \in Op : tid[o] # 0 => tid[o] \in Tid
  BY DEF TypeOK, OpsTypeOK
<1>3. \A o \in Op : Ready(o)' => tid'[o] # 0 /\ operations'[tid'[o]] = NoOp
  BY <1>1, <1>2 DEF IdsFresh, Quiet
<1>4. \A o \in Op : tid'[o] <= txcounter' /\ (status'[o] = "NONE" => tid'[o] = 0)
  BY DEF IdsFresh, Quiet
<1>5. \A t \in Tid : operations'[t] # NoOp => t <= txcounter'
  BY DEF IdsFresh, Quiet
<1>6. \A th \in Thread : thread'[th].pc = "register" => thread[th].op \in Op
  BY DEF Quiet, TypeOK, ActorsTypeOK
<1>7. \A th \in Thread : thread'[th].pc = "register"
         => /\ <<th, thread'[th].op, "Initiate">> \in Program
            /\ status'[thread'[th].op] # "CREATED"
  BY <1>6 DEF IdsFresh, Quiet
<1>8. QED
  BY <1>3, <1>4, <1>5, <1>7 DEF IdsFresh, Quiet

\* The steps that are not quiet.
LEMMA AllocatedIds ==
  ASSUME TypeOK, TypeOK', IdsFresh, NEW o \in Op,
         txcounter < MaxTid, txcounter' = txcounter + 1,
         tid' = [tid EXCEPT ![o] = txcounter + 1],
         status' = [status EXCEPT ![o] = "CREATED"],
         UNCHANGED <<operations, thread>>,
         ~Registering(o)
  PROVE  IdsFresh'
<1>1. /\ txcounter \in Nat /\ txcounter + 1 \in Tid
      /\ tid \in [Op -> Tid \cup {0}] /\ status \in [Op -> Statuses]
  BY BoundAssumption DEF TypeOK, OpsTypeOK, ContextTypeOK, Tid
<1>2. \A p \in Op : tid[p] \in Nat
  BY <1>1 DEF Tid
<1>3. \A p \in Op : tid'[p] <= txcounter' /\ (status'[p] = "NONE" => tid'[p] = 0)
  BY <1>1, <1>2 DEF IdsFresh
<1>4. \A p, q \in Op : tid'[p] = tid'[q] /\ tid'[p] # 0 => p = q
  BY <1>1, <1>2 DEF IdsFresh
<1>5. \A t \in Tid : operations'[t] # NoOp => t <= txcounter'
  BY <1>1 DEF IdsFresh, Tid
<1>6. operations[txcounter + 1] = NoOp
  BY <1>1 DEF IdsFresh
<1>7. \A p \in Op : Ready(p)' => tid'[p] # 0 /\ operations'[tid'[p]] = NoOp
  BY <1>1, <1>6 DEF IdsFresh, Ready, Registering
<1>8. \A th \in Thread : thread'[th].pc = "register"
         => /\ <<th, thread'[th].op, "Initiate">> \in Program
            /\ status'[thread'[th].op] # "CREATED"
  BY <1>1 DEF IdsFresh, Registering, TypeOK, ActorsTypeOK
<1>9. QED
  BY <1>3, <1>4, <1>5, <1>7, <1>8 DEF IdsFresh

\* Reset gives a finished operation the next id.
LEMMA ResetIds ==
  ASSUME SingleUser, TypeOK, TypeOK', IdsFresh,
         NEW th \in Thread, NEW o \in Op, Reset(th, o)
  PROVE  IdsFresh' /\ ~Registering(o)
<1>1. ~Registering(o)
  <2>1. SUFFICES ASSUME NEW u \in Thread, thread[u].pc = "register", thread[u].op = o
                 PROVE  FALSE
    BY DEF Registering
  <2>2. <<u, o, "Initiate">> \in Program /\ <<th, o, "Reset">> \in Program
    BY <2>1 DEF IdsFresh, Reset, MayCall
  <2>3. u = th
    BY <2>2 DEF SingleUser
  <2>4. QED
    BY <2>1, <2>3 DEF Reset, MayCall
<1>2. QED
  BY <1>1, AllocatedIds DEF Reset, NextTid

\* A constructor gives a new operation the next id.
LEMMA NewIds ==
  ASSUME TypeOK, TypeOK', IdsFresh, NEW o \in Op, New(o)
  PROVE  IdsFresh' /\ ~Registering(o)
<1>1. ~Registering(o)
  BY DEF New, IdsFresh, Registering, Ready
<1>2. QED
  BY <1>1, AllocatedIds DEF New, NextTid

\* A method that is entered is about to register a fresh id, or none.
LEMMA EnteringIds ==
  ASSUME SingleUser, TypeOK, TypeOK', IdsFresh,
         NEW th \in Thread, NEW o \in Op, Entering(th, o)
  PROVE  IdsFresh'
<1>1. /\ status[o] = "CREATED"
      /\ <<th, o, "Initiate">> \in Program
      /\ UNCHANGED <<tid, txcounter, operations>>
      /\ status' = [status EXCEPT ![o] = BeginStatus(Pattern[o], "Initiate", @)]
      /\ thread' = [thread EXCEPT ![th] =
                      [pc |-> FirstPc(Pattern[o], "Initiate"), op |-> o, call |-> "Initiate"]]
  BY DEF Entering, Begin, MayCall, GoodStatus, opVars, cctxVars
<1>2. BeginStatus(Pattern[o], "Initiate", status[o]) \in {"INITIATED", "REGISTER_INITIATED"}
  BY DEF BeginStatus
<1>3. \A p \in Op : p # o => status'[p] = status[p]
  BY <1>1 DEF TypeOK, OpsTypeOK
<1>4. status'[o] \notin {"CREATED", "NONE"}
  BY <1>1, <1>2 DEF TypeOK, OpsTypeOK
<1>5. \A u \in Thread : u # th => thread'[u] = thread[u]
  BY <1>1 DEF TypeOK, ActorsTypeOK
<1>6. thread'[th].op = o
  BY <1>1 DEF TypeOK, ActorsTypeOK
<1>7. \A p \in Op : Ready(p)' => Ready(p)
  BY <1>1, <1>3, <1>4, <1>5, <1>6 DEF Ready, Registering
<1>8. \A u \in Thread : thread'[u].pc = "register"
         => /\ <<u, thread'[u].op, "Initiate">> \in Program
            /\ status'[thread'[u].op] # "CREATED"
  <2>1. TAKE u \in Thread
  <2>2. HAVE thread'[u].pc = "register"
  <2>3. CASE u = th
    BY <2>3, <1>1, <1>4, <1>6
  <2>4. CASE u # th
    <3>1. thread[u].op \in Op
      BY <2>2, <2>4, <1>5 DEF TypeOK, ActorsTypeOK
    <3>2. QED
      BY <2>2, <2>4, <1>3, <1>4, <1>5, <3>1 DEF IdsFresh
  <2>5. QED
    BY <2>3, <2>4
<1>9. QED
  BY <1>1, <1>3, <1>4, <1>7, <1>8 DEF IdsFresh

\* registerOp makes an entry of the fresh id.
LEMMA RegisterIds ==
  ASSUME SingleUser, TypeOK, TypeOK', IdsFresh, NEW th \in Thread, RegisterOp(th)
  PROVE  IdsFresh'
<1> DEFINE o == thread[th].op
<1>1. o \in Op /\ Registering(o) /\ thread[th].pc = "register"
  BY DEF RegisterOp, Registering, TypeOK, ActorsTypeOK
<1>2. tid[o] \in Tid /\ operations[tid[o]] = NoOp
  BY <1>1 DEF IdsFresh, Ready, TypeOK, OpsTypeOK
<1>3. /\ operations' = operations \/ operations' = [operations EXCEPT ![tid[o]] = o]
      /\ thread' = At(th, "send")
      /\ UNCHANGED <<tid, txcounter, status>>
  BY <1>2 DEF RegisterOp
<1>4. \A u \in Thread : u # th => thread'[u] = thread[u]
  BY <1>3 DEF At, TypeOK, ActorsTypeOK
<1>5. thread'[th].pc # "register"
  <2>1. thread[th] \in [pc : Pcs, op : Op \cup {NoOp}, call : Calls \cup {"none"}]
    BY DEF TypeOK, ActorsTypeOK
  <2> DEFINE moved == [thread[th] EXCEPT !.pc = "send"]
  <2>2. moved.pc = "send"
    BY <2>1
  <2>3. thread' = [thread EXCEPT ![th] = moved]
    BY <1>3 DEF At
  <2> HIDE DEF moved
  <2>4. QED
    BY <2>2, <2>3 DEF TypeOK, ActorsTypeOK
<1>6. \A p \in Op : Ready(p)' => Ready(p) /\ p # o
  <2>1. TAKE p \in Op
  <2>2. HAVE Ready(p)'
  <2>3. Ready(p)
    BY <2>2, <1>3, <1>4, <1>5 DEF Ready, Registering
  <2>4. ASSUME p = o PROVE FALSE
    <3>1. status[o] # "CREATED"
      BY <1>1 DEF IdsFresh
    <3>2. PICK u \in Thread : thread'[u].pc = "register" /\ thread'[u].op = o
      BY <2>2, <2>4, <3>1, <1>3 DEF Ready, Registering
    <3>3. u # th /\ thread[u].pc = "register" /\ thread[u].op = o
      BY <3>2, <1>4, <1>5
    <3>4. <<u, o, "Initiate">> \in Program /\ <<th, o, "Initiate">> \in Program
      BY <3>3, <1>1 DEF IdsFresh
    <3>5. QED
      BY <3>3, <3>4 DEF SingleUser
  <2>5. QED
    BY <2>3, <2>4
<1>7. \A p \in Op : Ready(p)' => tid'[p] # 0 /\ operations'[tid'[p]] = NoOp
  <2>1. TAKE p \in Op
  <2>2. HAVE Ready(p)'
  <2>3. Ready(p) /\ p # o /\ tid[p] # 0 /\ operations[tid[p]] = NoOp
    BY <2>2, <1>6 DEF IdsFresh
  <2>4. tid[p] # tid[o] /\ tid[p] \in Tid
    BY <2>3, <1>1, <1>2 DEF IdsFresh, TypeOK, OpsTypeOK
  <2>5. operations'[tid[p]] = operations[tid[p]]
    BY <2>4, <1>3 DEF TypeOK, ContextTypeOK
  <2>6. QED
    BY <2>3, <2>5, <1>3
<1>8. \A t \in Tid : operations'[t] # NoOp => t <= txcounter'
  BY <1>1, <1>2, <1>3 DEF IdsFresh, TypeOK, ContextTypeOK
<1>9. \A u \in Thread : thread'[u].pc = "register"
         => /\ <<u, thread'[u].op, "Initiate">> \in Program
            /\ status'[thread'[u].op] # "CREATED"
  BY <1>3, <1>4, <1>5 DEF IdsFresh
<1>10. QED
  BY <1>3, <1>7, <1>8, <1>9 DEF IdsFresh

\* No id is in use at the start.
LEMMA IdsInit == Init => IdsFresh /\ TypeOK
<1>1. SUFFICES ASSUME Init PROVE IdsFresh
  BY TypeInit
<1>2. \A th \in Thread : thread[th].pc = "idle"
  BY <1>1 DEF Init, Idle
<1>3. \A o \in Op : ~Ready(o)
  BY <1>1, <1>2 DEF Init, Ready, Registering
<1>4. \A o \in Op : tid[o] <= txcounter /\ tid[o] = 0
  BY <1>1 DEF Init
<1>5. \A t \in Tid : operations[t] = NoOp
  BY <1>1 DEF Init
<1>6. QED
  BY <1>2, <1>3, <1>4, <1>5 DEF IdsFresh

\* Every step of the program is quiet or one of the four others.
LEMMA NextQuiet ==
  ASSUME TypeOK, [Next]_vars
  PROVE  \/ Quiet
         \/ \E o \in Op : New(o)
         \/ \E th \in Thread : \/ RegisterOp(th)
                               \/ \E o \in Op : Reset(th, o) \/ Entering(th, o)
<1>1. CASE UNCHANGED vars
  BY <1>1 DEF vars, opVars, cctxVars, Quiet
<1>2. CASE Handler
  BY <1>2 DEF Handler, HandleMessage, OnMessage, Buffer, BufferError, opVars, cctxVars, Quiet
<1>3. CASE Remote
  BY <1>3 DEF Remote, Reply, opVars, cctxVars, Quiet
<1>4. QED
  BY <1>1, <1>2, <1>3, ApplicationQuiet DEF Next

\* Hence every step keeps the ids fresh.
LEMMA IdsStep ==
  ASSUME SingleUser, TypeOK, IdsFresh, [Next]_vars
  PROVE  IdsFresh' /\ TypeOK'
<1>1. TypeOK'
  BY TypeStep
<1>2. QED
  BY <1>1, NextQuiet, QuietIds, NewIds, ResetIds, EnteringIds, RegisterIds

\* When the calls on each operation but Interrupt and Close are made by one
\* goroutine, the ids of every reachable state are fresh, whatever the remote side
\* sends and whoever interrupts and closes: an id belongs to one operation, and
\* has no entry before the registerOp that uses it.
THEOREM AlwaysFresh ==
  ASSUME SingleUser
  PROVE  Spec => []IdsFresh
<1>1. TypeOK /\ IdsFresh /\ [Next]_vars => TypeOK' /\ IdsFresh'
  BY IdsStep
<1>2. QED
  BY IdsInit, <1>1, PTL DEF Spec

-----------------------------------------------------------------------------
(* The operations implement Transactions.                                  *)

\* The mapped state has the type of the state of Transactions.
LEMMA TxType == txState \in [Tid -> {"unused", "ready", "open", "over"}]
  BY DEF txState

\* The mapped state of an id before and after a step, with the prime inside.
LEMMA TxValue ==
  ASSUME NEW t \in Tid
  PROVE  txState[t] = IF t > txcounter THEN "unused"
                      ELSE IF operations[t] # NoOp THEN "open"
                      ELSE IF \E o \in Op : tid[o] = t /\ Ready(o) THEN "ready" ELSE "over"
  BY DEF txState

\* Ids that end, or none, make a step of Transactions.
LEMMA TxEnds ==
  ASSUME \A t \in Tid : \/ txState'[t] = txState[t]
                        \/ txState[t] \in {"ready", "open"} /\ txState'[t] = "over"
  PROVE  Tx!Next
<1> DEFINE S == {t \in Tid : txState'[t] # txState[t]}
<1>1. txState' \in [Tid -> {"unused", "ready", "open", "over"}]
  BY DEF txState
<1>2. \A t \in Tid : txState'[t] = IF t \in S THEN "over" ELSE txState[t]
  OBVIOUS
<1>3. txState' = [t \in Tid |-> IF t \in S THEN "over" ELSE txState[t]]
  BY <1>1, <1>2
<1>4. \A t \in S : txState[t] \in {"ready", "open"}
  OBVIOUS
<1>5. S \in SUBSET Tid
  OBVIOUS
<1> HIDE DEF S
<1>6. Tx!End(S)
  BY <1>3, <1>4 DEF Tx!End, Tx!Tid, Tid
<1>7. QED
  BY <1>5, <1>6 DEF Tx!Next, Tx!Tid, Tid

\* A quiet step ends the ids whose entries it removes.
LEMMA QuietTx ==
  ASSUME TypeOK, IdsFresh, Quiet
  PROVE  Tx!Next
<1>1. \A o \in Op : Ready(o)' => Ready(o)
  BY DEF Ready, Registering, Quiet
<1>2. ASSUME NEW t \in Tid
      PROVE  \/ txState'[t] = txState[t]
             \/ txState[t] \in {"ready", "open"} /\ txState'[t] = "over"
  <2>1. /\ operations'[t] \in {operations[t], NoOp}
        /\ txcounter' = txcounter
        /\ (\E o \in Op : tid'[o] = t /\ Ready(o)') => (\E o \in Op : tid[o] = t /\ Ready(o))
    BY <1>1 DEF Quiet
  <2>2. (\E o \in Op : tid[o] = t /\ Ready(o)) => operations[t] = NoOp
    BY DEF IdsFresh
  <2>3. txState'[t] = IF t > txcounter' THEN "unused"
                      ELSE IF operations'[t] # NoOp THEN "open"
                      ELSE IF \E o \in Op : tid'[o] = t /\ Ready(o)' THEN "ready" ELSE "over"
    BY DEF txState
  <2>4. QED
    BY <2>1, <2>2, <2>3, TxValue
<1>3. QED
  BY <1>2, TxEnds

\* The constructors and Reset take the next id.
LEMMA AllocatedTx ==
  ASSUME TypeOK, IdsFresh, NEW o \in Op,
         txcounter < MaxTid, txcounter' = txcounter + 1,
         tid' = [tid EXCEPT ![o] = txcounter + 1],
         status' = [status EXCEPT ![o] = "CREATED"],
         UNCHANGED <<operations, thread>>,
         ~Ready(o)
  PROVE  Tx!Next
<1> DEFINE n == txcounter + 1
<1>1. /\ txcounter \in Nat /\ n \in Tid
      /\ tid \in [Op -> Tid \cup {0}] /\ status \in [Op -> Statuses]
  BY BoundAssumption DEF TypeOK, OpsTypeOK, ContextTypeOK, Tid
<1>2. \A p \in Op : p # o => (Ready(p)' <=> Ready(p)) /\ tid'[p] = tid[p]
  BY <1>1 DEF Ready, Registering
<1>3. tid'[o] = n /\ Ready(o)' /\ operations[n] = NoOp
  BY <1>1 DEF Ready, IdsFresh
<1>4. \A t \in Tid :
        txState'[t] = IF t > txcounter' THEN "unused"
                      ELSE IF operations'[t] # NoOp THEN "open"
                      ELSE IF \E p \in Op : tid'[p] = t /\ Ready(p)' THEN "ready" ELSE "over"
  BY DEF txState
<1>5. txState[n] = "unused" /\ txState'[n] = "ready"
  BY <1>1, <1>3, <1>4, TxValue
<1>6. ASSUME NEW t \in Tid, t # n PROVE txState'[t] = txState[t]
  <2>1. (\E p \in Op : tid'[p] = t /\ Ready(p)') <=> (\E p \in Op : tid[p] = t /\ Ready(p))
    BY <1>2, <1>3, <1>6
  <2>2. t > txcounter' <=> t > txcounter
    BY <1>1, <1>6 DEF Tid
  <2>3. QED
    BY <1>4, <2>1, <2>2, TxValue
<1>7. txState' = [txState EXCEPT ![n] = "ready"]
  <2>1. txState' \in [Tid -> {"unused", "ready", "open", "over"}]
    BY DEF txState
  <2>2. QED
    BY <2>1, <1>1, <1>5, <1>6, TxType
<1>8. ASSUME NEW u \in Tid, u < n PROVE txState[u] # "unused"
  BY <1>1, <1>8, TxValue DEF Tid
<1>9. Tx!Allocate(n)
  BY <1>1, <1>5, <1>7, <1>8 DEF Tx!Allocate, Tx!Tid, Tid
<1>10. QED
  BY <1>1, <1>9 DEF Tx!Next, Tx!Tid, Tid

\* An operation that is about to be registered is as ready as before.
LEMMA EnteringTx ==
  ASSUME TypeOK, IdsFresh, NEW th \in Thread, NEW o \in Op, Entering(th, o)
  PROVE  txState' = txState
<1>1. /\ status[o] = "CREATED" /\ Pattern[o] # "Send"
      /\ thread[th].pc = "idle"
      /\ UNCHANGED <<tid, txcounter, operations>>
      /\ status' = [status EXCEPT ![o] = BeginStatus(Pattern[o], "Initiate", @)]
      /\ thread' = [thread EXCEPT ![th] =
                      [pc |-> FirstPc(Pattern[o], "Initiate"), op |-> o, call |-> "Initiate"]]
  BY DEF Entering, Begin, MayCall, GoodStatus, opVars, cctxVars
<1>2. FirstPc(Pattern[o], "Initiate") = "register"
  BY <1>1 DEF FirstPc
<1>3. thread'[th].pc = "register" /\ thread'[th].op = o
  BY <1>1, <1>2 DEF TypeOK, ActorsTypeOK
<1>4. \A u \in Thread : u # th => thread'[u] = thread[u]
  BY <1>1 DEF TypeOK, ActorsTypeOK
<1>5. Ready(o) /\ Ready(o)'
  BY <1>1, <1>3 DEF Ready, Registering
<1>6. \A p \in Op : p # o => status'[p] = status[p]
  BY <1>1 DEF TypeOK, OpsTypeOK
<1>7. \A p \in Op : p # o => (Registering(p)' <=> Registering(p))
  BY <1>1, <1>3, <1>4 DEF Registering
<1>8. \A p \in Op : Ready(p)' <=> Ready(p)
  BY <1>5, <1>6, <1>7 DEF Ready
<1>9. QED
  BY <1>1, <1>8 DEF txState

\* registerOp opens the id of its operation, or panics and ends it.
LEMMA RegisterTx ==
  ASSUME SingleUser, TypeOK, TypeOK', IdsFresh, IdsFresh', NEW th \in Thread, RegisterOp(th)
  PROVE  Tx!Next
<1>0. PICK o \in Op : o = thread[th].op
  BY DEF RegisterOp, TypeOK, ActorsTypeOK
<1> DEFINE n == tid[o]
<1>1. Registering(o) /\ thread[th].pc = "register" /\ thread[th].op = o
  BY <1>0 DEF RegisterOp, Registering
<1>2. n \in Tid /\ operations[n] = NoOp /\ n <= txcounter
  BY <1>1 DEF IdsFresh, Ready, TypeOK, OpsTypeOK
<1>3. /\ operations' = operations \/ operations' = [operations EXCEPT ![n] = o]
      /\ thread' = At(th, "send")
      /\ UNCHANGED <<tid, txcounter, status>>
  BY <1>0, <1>2 DEF RegisterOp
<1>4. \A u \in Thread : u # th => thread'[u] = thread[u]
  BY <1>3 DEF At, TypeOK, ActorsTypeOK
<1>5. thread'[th].pc # "register"
  <2>1. thread[th] \in [pc : Pcs, op : Op \cup {NoOp}, call : Calls \cup {"none"}]
    BY DEF TypeOK, ActorsTypeOK
  <2> DEFINE moved == [thread[th] EXCEPT !.pc = "send"]
  <2>2. moved.pc = "send"
    BY <2>1
  <2>3. thread' = [thread EXCEPT ![th] = moved]
    BY <1>3 DEF At
  <2> HIDE DEF moved
  <2>4. QED
    BY <2>2, <2>3 DEF TypeOK, ActorsTypeOK
<1>6. \A p \in Op : p # o => (Ready(p)' <=> Ready(p))
  BY <1>1, <1>3, <1>4, <1>5 DEF Ready, Registering
<1>7. ~Ready(o)'
  <2>1. status'[o] # "CREATED"
    BY <1>1, <1>3 DEF IdsFresh
  <2>2. ASSUME NEW u \in Thread, thread'[u].pc = "register", thread'[u].op = o PROVE FALSE
    <3>1. u # th /\ thread[u].pc = "register" /\ thread[u].op = o
      BY <2>2, <1>4, <1>5
    <3>2. <<u, o, "Initiate">> \in Program /\ <<th, o, "Initiate">> \in Program
      BY <3>1, <1>1 DEF IdsFresh
    <3>3. QED
      BY <3>1, <3>2 DEF SingleUser
  <2>3. QED
    BY <2>1, <2>2 DEF Ready, Registering
<1>8. \A t \in Tid :
        txState'[t] = IF t > txcounter' THEN "unused"
                      ELSE IF operations'[t] # NoOp THEN "open"
                      ELSE IF \E p \in Op : tid'[p] = t /\ Ready(p)' THEN "ready" ELSE "over"
  BY DEF txState
<1>9. ASSUME NEW t \in Tid, t # n PROVE txState'[t] = txState[t]
  <2>1. operations'[t] = operations[t]
    BY <1>3, <1>9 DEF TypeOK, ContextTypeOK
  <2>2. (\E p \in Op : tid'[p] = t /\ Ready(p)') <=> (\E p \in Op : tid[p] = t /\ Ready(p))
    BY <1>3, <1>6, <1>7, <1>9
  <2>3. QED
    BY <1>3, <1>8, <2>1, <2>2, TxValue
<1>10. txState[n] = "ready"
  BY <1>1, <1>2, TxValue DEF Ready, IdsFresh, TypeOK, ContextTypeOK, Tid
<1>11. CASE operations' = operations
  <2>1. ASSUME NEW p \in Op, tid'[p] = n PROVE ~Ready(p)'
    <3>1. n # 0
      BY <1>2 DEF Tid
    <3>2. p = o
      BY <2>1, <3>1, <1>3 DEF IdsFresh
    <3>3. QED
      BY <3>2, <1>7
  <2>2. ~(n > txcounter')
    BY <1>2, <1>3 DEF TypeOK, ContextTypeOK, Tid
  <2>3. txState'[n] = "over"
    BY <1>2, <1>8, <1>11, <2>1, <2>2
  <2>4. QED
    BY <1>9, <1>10, <2>3, TxEnds
<1>12. CASE operations' = [operations EXCEPT ![n] = o]
  <2>1. operations'[n] # NoOp
    BY <1>1, <1>2, <1>12, OpAssumption DEF TypeOK, ContextTypeOK
  <2>2. ~(n > txcounter')
    BY <1>2, <1>3 DEF TypeOK, ContextTypeOK, Tid
  <2>3. txState'[n] = "open"
    BY <1>2, <1>8, <2>1, <2>2
  <2>4. txState' = [txState EXCEPT ![n] = "open"]
    <3>1. txState' \in [Tid -> {"unused", "ready", "open", "over"}]
      BY DEF txState
    <3>2. QED
      BY <3>1, <1>2, <1>9, <2>3, TxType
  <2>5. Tx!Open(n)
    BY <1>10, <2>4 DEF Tx!Open
  <2>6. QED
    BY <1>2, <2>5 DEF Tx!Next, Tx!Tid, Tid
<1>13. QED
  BY <1>3, <1>11, <1>12

\* At the start every id is unused.
LEMMA TxInit == Init => Tx!Init
<1>1. SUFFICES ASSUME Init PROVE Tx!Init
  OBVIOUS
<1>2. \A t \in Tid : t > txcounter
  BY <1>1 DEF Init, Tid
<1>3. txState = [t \in Tid |-> "unused"]
  BY <1>2 DEF txState
<1>4. QED
  BY <1>3 DEF Tx!Init, Tx!Tid, Tid

\* Every step of the operations is a step of Transactions or a stutter.
LEMMA TxStep ==
  ASSUME SingleUser, TypeOK, IdsFresh, [Next]_vars
  PROVE  [Tx!Next]_txState
<1>1. TypeOK' /\ IdsFresh'
  BY IdsStep
<1>2. CASE Quiet
  BY <1>2, QuietTx
<1>3. ASSUME NEW o \in Op, New(o) PROVE Tx!Next
  <2>1. ~Ready(o)
    BY <1>1, <1>3, NewIds DEF New, Ready
  <2>2. QED
    BY <1>3, <2>1, AllocatedTx DEF New, NextTid
<1>4. ASSUME NEW th \in Thread, NEW o \in Op, Reset(th, o) PROVE Tx!Next
  <2>1. ~Ready(o)
    BY <1>1, <1>4, ResetIds DEF Reset, Resettable, Ready
  <2>2. QED
    BY <1>4, <2>1, AllocatedTx DEF Reset, NextTid
<1>5. ASSUME NEW th \in Thread, NEW o \in Op, Entering(th, o) PROVE txState' = txState
  BY <1>5, EnteringTx
<1>6. ASSUME NEW th \in Thread, RegisterOp(th) PROVE Tx!Next
  BY <1>1, <1>6, RegisterTx
<1>7. QED
  BY <1>2, <1>3, <1>4, <1>5, <1>6, NextQuiet

\* No id is opened to replies twice or revived, by whatever sequence of calls,
\* interrupts, resets, closes and replies: the operations of a context
\* implement Transactions (one goroutine at a time using each operation).
THEOREM ImplementsTransactions ==
  ASSUME SingleUser
  PROVE  Spec => TransactionsSpec
<1>1. TypeOK /\ IdsFresh /\ [Next]_vars => TypeOK' /\ IdsFresh' /\ [Tx!Next]_txState
  BY IdsStep, TxStep
<1>2. QED
  BY IdsInit, TxInit, <1>1, PTL DEF Spec, TransactionsSpec, Tx!Spec

-----------------------------------------------------------------------------
(* The table of transactions is exact when each operation is closed by the *)
(* goroutine that uses it.                                                 *)

\* Where a goroutine is inside a call of an operation.
InCall == {"register", "send", "await", "wait", "stuck"}

\* The call a goroutine is in is one of its program, on an operation whose
\* transaction is under way; nobody else can end it.
CallsOwned ==
  \A th \in Thread : thread[th].pc \in InCall =>
     /\ <<th, thread[th].op, thread[th].call>> \in Program
     /\ thread[th].call # "Interrupt"
     /\ status[thread[th].op] \in Live
     /\ thread[th].pc # "send" => HasChannel(thread[th].op)

ClosesOwned ==
  \A th \in Thread : thread[th].pc = "close" =>
     /\ <<th, thread[th].op, "Close">> \in Program
     /\ thread[th].call = "Close"
     /\ status[thread[th].op] = "CLOSED"

\* An operation that is not closed has its channel and a transaction id, so
\* finalize finds its entry; one that is created without a channel has none.
ChannelsOpen ==
  \A o \in Op : /\ HasChannel(o) /\ status[o] \notin {"NONE", "CLOSED"} => open[o]
                /\ status[o] # "NONE" => tid[o] # 0

EntriesReceive == \A t \in Tid, o \in Op : operations[t] = o => HasChannel(o)

ContextKept == ~tableNil /\ \A th \in Thread : thread[th].pc # "cleanOps"

Exact == TableExact /\ CallsOwned /\ ClosesOwned /\ ChannelsOpen /\ EntriesReceive /\ ContextKept

\* Goroutine th may make a call on o that is not Interrupt: it owns o.
Owns(th, o) == \E c \in Calls : <<th, o, c>> \in Program /\ c # "Interrupt"

LEMMA OneOwner ==
  ASSUME OwnerCloses, NEW th \in Thread, NEW u \in Thread, NEW o \in Op,
         Owns(th, o), Owns(u, o)
  PROVE  u = th
<1>1. PICK c \in Calls : <<th, o, c>> \in Program /\ c # "Interrupt"
  BY DEF Owns
<1>2. PICK d \in Calls : <<u, o, d>> \in Program /\ d # "Interrupt"
  BY DEF Owns
<1>3. QED
  BY <1>1, <1>2 DEF OwnerCloses

\* The goroutine inside a call or a Close of an operation owns it.
LEMMA InsideOwns ==
  ASSUME TypeOK, Exact, NEW th \in Thread, thread[th].pc \in InCall \cup {"close"}
  PROVE  thread[th].op \in Op /\ Owns(th, thread[th].op)
<1>1. thread[th].op \in Op
  BY DEF TypeOK, ActorsTypeOK, InCall
<1>2. thread[th].call \in Calls \/ thread[th].pc = "close"
  <2>1. CASE thread[th].pc \in InCall
    BY <2>1, ProgramAssumption DEF Exact, CallsOwned
  <2>2. QED
    BY <2>1
<1>3. "Close" \in Calls
  BY DEF Calls
<1>4. QED
  BY <1>1, <1>2, <1>3 DEF Exact, CallsOwned, ClosesOwned, Owns

\* A goroutine moved to another place of its call.
LEMMA Moved ==
  ASSUME TypeOK, NEW th \in Thread, NEW pc \in Pcs, thread' = At(th, pc)
  PROVE  /\ thread'[th].pc = pc
         /\ thread'[th].op = thread[th].op
         /\ thread'[th].call = thread[th].call
         /\ \A u \in Thread : u # th => thread'[u] = thread[u]
<1>1. thread[th] \in [pc : Pcs, op : Op \cup {NoOp}, call : Calls \cup {"none"}]
  BY DEF TypeOK, ActorsTypeOK
<1> DEFINE moved == [thread[th] EXCEPT !.pc = pc]
<1>2. moved.pc = pc /\ moved.op = thread[th].op /\ moved.call = thread[th].call
  BY <1>1
<1>3. thread' = [thread EXCEPT ![th] = moved]
  BY DEF At
<1> HIDE DEF moved
<1>4. QED
  BY <1>2, <1>3 DEF TypeOK, ActorsTypeOK

\* What holds of an operation o and of the goroutine th that owns it.
Local(th, o) ==
  /\ \A t \in Tid : operations[t] = o => tid[o] = t /\ status[o] \in Live /\ HasChannel(o)
  /\ HasChannel(o) /\ status[o] \in Live /\ thread[th].pc # "register" => operations[tid[o]] = o
  /\ HasChannel(o) /\ status[o] \notin {"NONE", "CLOSED"} => open[o]
  /\ status[o] # "NONE" /\ tid[o] # 0
  /\ thread[th].pc \notin {"interrupt", "cleanOps"}
  /\ thread[th].pc # "idle" => thread[th].op = o
  /\ thread[th].pc \in InCall =>
       /\ <<th, o, thread[th].call>> \in Program
       /\ thread[th].call # "Interrupt"
       /\ status[o] \in Live
       /\ thread[th].pc # "send" => HasChannel(o)
  /\ thread[th].pc = "close" =>
       <<th, o, "Close">> \in Program /\ thread[th].call = "Close" /\ status[o] = "CLOSED"

\* An owner that is in a call of o, or between calls.
LEMMA LocalNow ==
  ASSUME TypeOK, Exact, OwnerCloses, NEW th \in Thread, NEW o \in Op, Owns(th, o),
         status[o] # "NONE", thread[th].pc # "interrupt",
         thread[th].pc # "idle" => thread[th].op = o
  PROVE  Local(th, o)
<1>1. \A u \in Thread : thread[u].pc = "register" /\ thread[u].op = o => u = th
  BY InsideOwns, OneOwner DEF InCall
<1>2. thread[th].pc # "register" => ~Registering(o)
  BY <1>1 DEF Registering
<1>3. HasChannel(o) /\ status[o] \in Live /\ thread[th].pc # "register" => operations[tid[o]] = o
  BY <1>2 DEF Exact, TableExact
<1>4. \A t \in Tid : operations[t] = o => tid[o] = t /\ status[o] \in Live /\ HasChannel(o)
  BY DEF Exact, TableExact, EntriesReceive
<1>5. thread[th].pc \in InCall =>
       /\ <<th, o, thread[th].call>> \in Program
       /\ thread[th].call # "Interrupt"
       /\ status[o] \in Live
       /\ thread[th].pc # "send" => HasChannel(o)
  BY DEF Exact, CallsOwned, InCall
<1>6. thread[th].pc = "close" =>
       <<th, o, "Close">> \in Program /\ thread[th].call = "Close" /\ status[o] = "CLOSED"
  BY DEF Exact, ClosesOwned
<1>7. QED
  BY <1>3, <1>4, <1>5, <1>6 DEF Local, Exact, ChannelsOpen, ContextKept

\* A step of the owner of o that leaves the other operations and goroutines
\* alone, but for one whose Interrupt returns, keeps the table exact.
LEMMA OwnerStep ==
  ASSUME TypeOK, TypeOK', Exact, OwnerCloses, IdsFresh',
         NEW th \in Thread, NEW o \in Op, Owns(th, o),
         thread[th].pc # "idle" => thread[th].op = o,
         \A p \in Op : p # o => /\ status'[p] = status[p]
                                /\ open'[p] = open[p]
                                /\ tid'[p] = tid[p],
         \A u \in Thread : u # th => \/ thread'[u] = thread[u]
                                     \/ thread[u].pc = "interrupt" /\ thread'[u].pc = "idle",
         \A t \in Tid : \/ operations'[t] = operations[t]
                        \/ t = tid'[o] /\ operations'[t] \in {o, NoOp},
         UNCHANGED tableNil,
         Local(th, o)'
  PROVE  Exact'
<1>1. \A u \in Thread : u # th /\ thread'[u].pc \in InCall \cup {"close"}
         => thread'[u] = thread[u] /\ thread[u].op \in Op \ {o}
  BY InsideOwns, OneOwner DEF InCall
<1>2. CallsOwned'
  <2>1. SUFFICES ASSUME NEW u \in Thread, thread'[u].pc \in InCall
                 PROVE  /\ <<u, thread'[u].op, thread'[u].call>> \in Program
                        /\ thread'[u].call # "Interrupt"
                        /\ status'[thread'[u].op] \in Live
                        /\ thread'[u].pc # "send" => HasChannel(thread'[u].op)
    BY DEF CallsOwned, HasChannel
  <2>2. CASE u = th
    BY <2>1, <2>2 DEF Local, HasChannel, InCall
  <2>3. CASE u # th
    BY <2>1, <2>3, <1>1 DEF Exact, CallsOwned
  <2>4. QED
    BY <2>2, <2>3
<1>3. ClosesOwned'
  <2>1. SUFFICES ASSUME NEW u \in Thread, thread'[u].pc = "close"
                 PROVE  /\ <<u, thread'[u].op, "Close">> \in Program
                        /\ thread'[u].call = "Close"
                        /\ status'[thread'[u].op] = "CLOSED"
    BY DEF ClosesOwned
  <2>2. CASE u = th
    BY <2>1, <2>2 DEF Local
  <2>3. CASE u # th
    BY <2>1, <2>3, <1>1 DEF Exact, ClosesOwned
  <2>4. QED
    BY <2>2, <2>3
<1>4. ChannelsOpen'
  BY DEF Local, Exact, ChannelsOpen, HasChannel
<1>5. ContextKept'
  BY DEF Local, Exact, ContextKept
<1>6. \A p \in Op : p # o /\ status[p] # "NONE" => tid'[p] # tid'[o] /\ tid'[p] \in Tid
  BY DEF IdsFresh, Exact, ChannelsOpen, TypeOK, OpsTypeOK
<1>7. \A p \in Op : p # o /\ Registering(p) => Registering(p)'
  <2>1. SUFFICES ASSUME NEW p \in Op, p # o, NEW u \in Thread,
                        thread[u].pc = "register", thread[u].op = p
                 PROVE  thread'[u].pc = "register" /\ thread'[u].op = p
    BY DEF Registering
  <2>2. u # th
    BY <2>1
  <2>3. QED
    BY <2>1, <2>2
<1>8. \A p \in Op : HasChannel(p) /\ status'[p] \in Live /\ ~Registering(p)'
                      => operations'[tid'[p]] = p
  <2>1. SUFFICES ASSUME NEW p \in Op, HasChannel(p), status'[p] \in Live, ~Registering(p)'
                 PROVE  operations'[tid'[p]] = p
    OBVIOUS
  <2>2. CASE p = o
    <3>1. thread'[th].pc # "register"
      BY <2>1, <2>2 DEF Local, Registering
    <3>2. QED
      BY <2>1, <2>2, <3>1 DEF Local, HasChannel
  <2>3. CASE p # o
    <3>1. status[p] \in Live /\ status[p] # "NONE"
      BY <2>1, <2>3 DEF Live
    <3>2. operations[tid[p]] = p
      BY <2>1, <2>3, <3>1, <1>7 DEF Exact, TableExact
    <3>3. QED
      BY <2>3, <3>1, <3>2, <1>6
  <2>4. QED
    BY <2>2, <2>3
<1>9. \A t \in Tid, p \in Op : operations'[t] = p
         => tid'[p] = t /\ status'[p] \in Live /\ HasChannel(p)
  <2>1. SUFFICES ASSUME NEW t \in Tid, NEW p \in Op, operations'[t] = p
                 PROVE  tid'[p] = t /\ status'[p] \in Live /\ HasChannel(p)
    OBVIOUS
  <2>2. CASE p = o
    BY <2>1, <2>2 DEF Local, HasChannel
  <2>3. CASE p # o
    BY <2>1, <2>3, OpAssumption DEF Exact, TableExact, EntriesReceive
  <2>4. QED
    BY <2>2, <2>3
<1>10. TableExact' /\ EntriesReceive'
  BY <1>8, <1>9 DEF TableExact, EntriesReceive, HasChannel
<1>11. QED
  BY <1>2, <1>3, <1>4, <1>5, <1>10 DEF Exact

\* A step that changes no status, id, channel or entry, and moves no goroutine
\* but from and to a place where it waits for nothing or interrupts.
LEMMA QuietExact ==
  ASSUME Exact, UNCHANGED <<status, tid, open, operations, tableNil>>,
         \A u \in Thread : \/ thread'[u] = thread[u]
                           \/ /\ thread[u].pc \in {"idle", "interrupt"}
                              /\ thread'[u].pc \in {"idle", "interrupt"}
  PROVE  Exact'
<1>1. \A o \in Op : Registering(o)' <=> Registering(o)
  BY DEF Registering
<1>2. TableExact' /\ EntriesReceive'
  BY <1>1 DEF Exact, TableExact, EntriesReceive, HasChannel
<1>3. CallsOwned' /\ ClosesOwned'
  BY DEF Exact, CallsOwned, ClosesOwned, InCall, HasChannel
<1>4. ChannelsOpen' /\ ContextKept'
  BY DEF Exact, ChannelsOpen, ContextKept, HasChannel
<1>5. QED
  BY <1>2, <1>3, <1>4 DEF Exact

\* The owner ends the operation with finalize and returns from its call.
LEMMA Finishes ==
  ASSUME TypeOK, TypeOK', Exact, OwnerCloses, IdsFresh',
         NEW th \in Thread, NEW o \in Op, thread[th].op = o, thread[th].pc \in InCall,
         status' = FinalStatus(o),
         operations' = Finalized(o),
         thread'[th] = Idle,
         \A u \in Thread : u # th => \/ thread'[u] = thread[u]
                                     \/ thread[u].pc = "interrupt" /\ thread'[u].pc = "idle",
         UNCHANGED <<tid, open, tableNil>>
  PROVE  Exact'
<1>1. Owns(th, o)
  BY InsideOwns
<1>2. Local(th, o)
  <2>1. status[o] # "NONE" /\ thread[th].pc # "interrupt"
    BY DEF Exact, CallsOwned, Live, InCall
  <2>2. QED
    BY <1>1, <2>1, LocalNow
<1>3. \A p \in Op : p # o => status'[p] = status[p]
  BY <1>1 DEF FinalStatus, TypeOK, OpsTypeOK
<1>4. status'[o] = "FINAL"
  BY <1>1 DEF FinalStatus, TypeOK, OpsTypeOK
<1>5. \A t \in Tid : \/ operations'[t] = operations[t]
                     \/ t = tid[o] /\ operations'[t] = NoOp
  BY DEF Finalized, TypeOK, ContextTypeOK
<1>6. \A t \in Tid : operations'[t] # o
  <2>1. SUFFICES ASSUME NEW t \in Tid, operations'[t] = o PROVE FALSE
    OBVIOUS
  <2>2. operations[t] = o
    BY <2>1, <1>1, <1>5, OpAssumption
  <2>3. tid[o] = t /\ open[o]
    BY <2>2, <1>2 DEF Local, Live
  <2>4. QED
    BY <2>1, <2>3, <1>1, OpAssumption DEF Finalized, TypeOK, ContextTypeOK
<1>7. Local(th, o)'
  BY <1>2, <1>4, <1>6 DEF Local, Live, Idle, InCall, HasChannel
<1>8. QED
  BY <1>1, <1>3, <1>5, <1>7, OwnerStep

\* The owner goes on with its call, or returns, and the transaction of the
\* operation is still under way.
LEMMA GoesOn ==
  ASSUME TypeOK, TypeOK', Exact, OwnerCloses, IdsFresh',
         NEW th \in Thread, NEW o \in Op, thread[th].op = o,
         thread[th].pc \in InCall \ {"register"},
         status'[o] \in Live,
         \A p \in Op : p # o => status'[p] = status[p],
         \/ thread'[th] = Idle
         \/ /\ thread'[th].pc \in InCall \ {"register"}
            /\ thread'[th].pc # "send" => HasChannel(o)
            /\ thread'[th].op = o
            /\ thread'[th].call = thread[th].call,
         \A u \in Thread : u # th => \/ thread'[u] = thread[u]
                                     \/ thread[u].pc = "interrupt" /\ thread'[u].pc = "idle",
         UNCHANGED <<tid, open, operations, tableNil>>
  PROVE  Exact'
<1>1. Owns(th, o)
  BY InsideOwns
<1>2. Local(th, o) /\ status[o] \in Live
  <2>1. status[o] # "NONE" /\ thread[th].pc # "interrupt" /\ status[o] \in Live
    BY DEF Exact, CallsOwned, Live, InCall
  <2>2. QED
    BY <1>1, <2>1, LocalNow
<1>3. status'[o] \notin {"NONE", "CLOSED"} /\ status[o] \notin {"NONE", "CLOSED"}
  BY <1>2 DEF Live
<1>4. Local(th, o)'
  BY <1>2, <1>3 DEF Local, Idle, InCall, HasChannel
<1>5. QED
  BY <1>1, <1>4, OwnerStep

\* A call that took a message, or the nil of an Interrupt.
LEMMA ConcludeExact ==
  ASSUME TypeOK, TypeOK', Exact, OwnerCloses, IdsFresh',
         NEW th \in Thread, NEW m \in Message \cup {Nil}, thread[th].pc = "wait",
         Conclude(th, m),
         IF Discards(Pattern[thread[th].op], thread[th].call, m)
         THEN /\ thread'[th].pc = "await"
              /\ thread'[th].op = thread[th].op
              /\ thread'[th].call = thread[th].call
         ELSE thread'[th] = Idle,
         \A u \in Thread : u # th => \/ thread'[u] = thread[u]
                                     \/ thread[u].pc = "interrupt" /\ thread'[u].pc = "idle",
         UNCHANGED <<tid, open, tableNil>>
  PROVE  Exact'
<1>1. PICK o \in Op : thread[th].op = o
  BY InsideOwns DEF InCall
<1>2. status[o] \in Live /\ HasChannel(o)
  BY <1>1 DEF Exact, CallsOwned, InCall
<1>3. CASE Discards(Pattern[o], thread[th].call, m)
  <2>1. UNCHANGED <<status, operations>>
    BY <1>1, <1>3 DEF Conclude
  <2>2. QED
    BY <1>1, <1>2, <1>3, <2>1, GoesOn DEF InCall
<1>4. CASE ~Discards(Pattern[o], thread[th].call, m)
  <2>1. CASE Finalizes(Pattern[o], thread[th].call, m)
    <3>1. status' = FinalStatus(o) /\ operations' = Finalized(o)
      BY <1>1, <1>4, <2>1 DEF Conclude
    <3>2. QED
      BY <1>1, <1>4, <3>1, Finishes DEF InCall
  <2>2. CASE ~Finalizes(Pattern[o], thread[th].call, m)
    <3>1. /\ status' = [status EXCEPT ![o] = Advanced(Pattern[o], thread[th].call, m, @)]
          /\ operations' = operations
      BY <1>1, <1>4, <2>2 DEF Conclude
    <3>2. Advanced(Pattern[o], thread[th].call, m, status[o]) \in Live
      BY <1>2 DEF Advanced, Live
    <3>3. status'[o] \in Live /\ \A p \in Op : p # o => status'[p] = status[p]
      BY <3>1, <3>2 DEF TypeOK, OpsTypeOK
    <3>4. QED
      BY <1>1, <1>4, <3>1, <3>3, GoesOn DEF InCall
  <2>3. QED
    BY <2>1, <2>2
<1>5. QED
  BY <1>3, <1>4

\* A constructor: no goroutine and no entry knows the operation yet.
LEMMA NewExact ==
  ASSUME TypeOK, TypeOK', Exact, IdsFresh', NEW o \in Op, New(o)
  PROVE  Exact'
<1>1. status[o] = "NONE" /\ status'[o] = "CREATED" /\ open'[o] = HasChannel(o)
  BY DEF New, TypeOK, OpsTypeOK
<1>2. \A p \in Op : p # o => /\ status'[p] = status[p]
                             /\ open'[p] = open[p]
                             /\ tid'[p] = tid[p]
  BY DEF New, TypeOK, OpsTypeOK
<1>3. tid'[o] # 0 /\ UNCHANGED <<operations, tableNil, thread>>
  BY DEF New, NextTid, TypeOK, OpsTypeOK, ContextTypeOK
<1>4. \A t \in Tid : operations[t] # o
  BY <1>1 DEF Exact, TableExact, Live
<1>5. \A th \in Thread : thread[th].pc \in InCall \cup {"close"} => thread[th].op # o
  BY <1>1 DEF Exact, CallsOwned, ClosesOwned, Live
<1>6. \A p \in Op : Registering(p)' <=> Registering(p)
  BY <1>3 DEF Registering
<1>7. TableExact' /\ EntriesReceive'
  BY <1>1, <1>2, <1>3, <1>4, <1>6 DEF Exact, TableExact, EntriesReceive, HasChannel, Live
<1>8. CallsOwned' /\ ClosesOwned'
  BY <1>2, <1>3, <1>5, InsideOwns DEF Exact, CallsOwned, ClosesOwned, HasChannel
<1>9. ChannelsOpen' /\ ContextKept'
  BY <1>1, <1>2, <1>3 DEF Exact, ChannelsOpen, ContextKept, HasChannel
<1>10. QED
  BY <1>7, <1>8, <1>9 DEF Exact

\* A method that is entered.
LEMMA BeginExact ==
  ASSUME TypeOK, TypeOK', Exact, OwnerCloses, IdsFresh',
         NEW th \in Thread, NEW o \in Op, NEW c \in Calls, Begin(th, o, c)
  PROVE  Exact'
<1> DEFINE p == Pattern[o]
<1>1. /\ <<th, o, c>> \in Program
      /\ thread[th].pc = "idle"
      /\ c \in Methods(p)
      /\ status[o] \in GoodStatus(p, c)
      /\ UNCHANGED <<tid, open, operations, tableNil>>
  BY DEF Begin, MayCall, cctxVars
<1>2. p \in Patterns
  BY PatternAssumption
<1>3. c # "Interrupt" /\ Owns(th, o)
  BY <1>1 DEF Methods, Owns
<1>4. /\ thread'[th].pc = FirstPc(p, c)
      /\ thread'[th].op = o
      /\ thread'[th].call = c
      /\ \A u \in Thread : u # th => thread'[u] = thread[u]
  BY DEF Begin, TypeOK, ActorsTypeOK
<1>5. /\ status'[o] = BeginStatus(p, c, status[o])
      /\ \A q \in Op : q # o => status'[q] = status[q]
  BY DEF Begin, TypeOK, OpsTypeOK
<1>6. /\ status[o] # "CREATED" => status[o] \in Live
      /\ status[o] \notin {"NONE", "CLOSED"}
  BY <1>1 DEF GoodStatus, Live
<1>7. status[o] = "CREATED" <=> c = "Initiate"
  BY <1>1 DEF GoodStatus
<1>8. status'[o] \in Live
  BY <1>5, <1>6, <1>7 DEF BeginStatus, Live
<1>9. /\ FirstPc(p, c) \in {"register", "send", "await"}
      /\ FirstPc(p, c) # "send" => p # "Send"
      /\ FirstPc(p, c) # "register" /\ p # "Send" => c # "Initiate"
  BY <1>1, <1>2 DEF FirstPc, Methods
<1>10. Local(th, o)
  BY <1>1, <1>3, <1>6, LocalNow
<1>11. Local(th, o)'
  BY <1>1, <1>3, <1>4, <1>6, <1>7, <1>8, <1>9, <1>10 DEF Local, InCall, HasChannel, Live
<1>12. QED
  BY <1>1, <1>3, <1>4, <1>5, <1>11, OwnerStep

\* registerOp finds no entry of its fresh id and a table that is not nil.
LEMMA RegisterExact ==
  ASSUME TypeOK, TypeOK', Exact, OwnerCloses, IdsFresh, IdsFresh',
         NEW th \in Thread, RegisterOp(th)
  PROVE  Exact'
<1>1. PICK o \in Op : thread[th].op = o
  BY InsideOwns DEF RegisterOp, InCall
<1>2. thread[th].pc = "register" /\ Owns(th, o)
  BY <1>1, InsideOwns DEF RegisterOp, InCall
<1>3. operations[tid[o]] = NoOp /\ tid[o] \in Tid
  BY <1>1, <1>2 DEF IdsFresh, Ready, Registering, TypeOK, OpsTypeOK
<1>4. /\ operations' = [operations EXCEPT ![tid[o]] = o]
      /\ thread' = At(th, "send")
      /\ UNCHANGED <<status, tid, open, tableNil>>
  BY <1>1, <1>3 DEF RegisterOp, Exact, ContextKept
<1>5. /\ thread'[th].pc = "send"
      /\ thread'[th].op = o
      /\ thread'[th].call = thread[th].call
      /\ \A u \in Thread : u # th => thread'[u] = thread[u]
  BY <1>1, <1>4, Moved DEF Pcs
<1>6. /\ operations'[tid[o]] = o
      /\ \A t \in Tid : t # tid[o] => operations'[t] = operations[t]
  BY <1>3, <1>4 DEF TypeOK, ContextTypeOK
<1>7. Local(th, o) /\ status[o] \in Live
  <2>1. status[o] \in Live /\ status[o] # "NONE"
    BY <1>1, <1>2 DEF Exact, CallsOwned, InCall, Live
  <2>2. QED
    BY <1>1, <1>2, <2>1, LocalNow
<1>8. HasChannel(o)
  BY <1>1, <1>2 DEF Exact, CallsOwned, InCall
<1>9. Local(th, o)'
  BY <1>2, <1>4, <1>5, <1>6, <1>7, <1>8 DEF Local, InCall, HasChannel
<1>10. QED
  BY <1>1, <1>2, <1>4, <1>5, <1>6, <1>9, OwnerStep

\* The request leaves, and Send is over; or the call waits on its channel.
LEMMA SendingExact ==
  ASSUME TypeOK, TypeOK', Exact, OwnerCloses, IdsFresh',
         NEW th \in Thread, Transmit(th) \/ TransmitFails(th) \/ Await(th)
  PROVE  Exact'
<1>1. thread[th].pc \in InCall \ {"register"}
  BY DEF Transmit, TransmitFails, Await, InCall
<1>2. PICK o \in Op : thread[th].op = o
  BY <1>1, InsideOwns
<1>3. status[o] \in Live
  BY <1>1, <1>2 DEF Exact, CallsOwned
<1>4. CASE TransmitFails(th)
  <2>1. /\ status' = FinalStatus(o)
        /\ operations' = Finalized(o)
        /\ thread' = [thread EXCEPT ![th] = Idle]
        /\ UNCHANGED <<tid, open, tableNil>>
    BY <1>2, <1>4 DEF TransmitFails, Done
  <2>2. thread'[th] = Idle /\ \A u \in Thread : u # th => thread'[u] = thread[u]
    BY <2>1 DEF TypeOK, ActorsTypeOK
  <2>3. QED
    BY <1>1, <1>2, <2>1, <2>2, Finishes
<1>5. CASE Await(th)
  <2>1. open[o]
    BY <1>2, <1>3, <1>5 DEF Await, Exact, CallsOwned, InCall, ChannelsOpen, Live
  <2>2. thread' = At(th, "wait") /\ UNCHANGED <<status, tid, open, operations, tableNil>>
    BY <1>2, <1>5, <2>1 DEF Await, opVars, cctxVars
  <2>3. /\ thread'[th].pc = "wait" /\ thread'[th].op = o /\ thread'[th].call = thread[th].call
        /\ \A u \in Thread : u # th => thread'[u] = thread[u]
    BY <1>2, <2>2, Moved DEF Pcs
  <2>4. HasChannel(o)
    BY <1>2, <1>5 DEF Await, Exact, CallsOwned, InCall
  <2>5. QED
    BY <1>1, <1>2, <1>3, <2>2, <2>3, <2>4, GoesOn DEF InCall
<1>6. CASE Transmit(th) /\ Pattern[o] = "Send"
  <2>1. /\ status' = FinalStatus(o)
        /\ operations' = operations
        /\ thread' = [thread EXCEPT ![th] = Idle]
        /\ UNCHANGED <<tid, open, tableNil>>
    BY <1>2, <1>6 DEF Transmit, Done, Waits, cctxVars
  <2>2. thread'[th] = Idle /\ \A u \in Thread : u # th => thread'[u] = thread[u]
    BY <2>1 DEF TypeOK, ActorsTypeOK
  <2>3. operations = Finalized(o)
    <3>1. \A t \in Tid : operations[t] # o
      BY <1>6 DEF Exact, EntriesReceive, HasChannel
    <3>2. CASE open[o]
      <4>1. tid[o] \in Tid
        BY <1>3 DEF Exact, ChannelsOpen, Live, TypeOK, OpsTypeOK
      <4>2. operations[tid[o]] = NoOp
        <5>1. SUFFICES ASSUME operations[tid[o]] \in Op PROVE FALSE
          BY <4>1 DEF TypeOK, ContextTypeOK
        <5>2. tid[operations[tid[o]]] = tid[o]
          BY <4>1, <5>1 DEF Exact, TableExact
        <5>3. operations[tid[o]] = o
          BY <5>1, <5>2, <4>1, <2>1 DEF IdsFresh, Tid
        <5>4. QED
          BY <3>1, <4>1, <5>3
      <4>3. QED
        BY <3>2, <4>1, <4>2 DEF Finalized, TypeOK, ContextTypeOK
    <3>3. QED
      BY <3>2 DEF Finalized
  <2>4. QED
    BY <1>1, <1>2, <2>1, <2>2, <2>3, Finishes
<1>7. CASE Transmit(th) /\ Pattern[o] # "Send"
  <2>1. /\ UNCHANGED <<status, tid, open, operations, tableNil>>
        /\ thread' = At(th, "await") \/ thread' = [thread EXCEPT ![th] = Idle]
    BY <1>2, <1>7 DEF Transmit, Done, cctxVars
  <2>2. CASE thread' = At(th, "await")
    <3>1. /\ thread'[th].pc = "await" /\ thread'[th].op = o /\ thread'[th].call = thread[th].call
          /\ \A u \in Thread : u # th => thread'[u] = thread[u]
      BY <1>2, <2>2, Moved DEF Pcs
    <3>2. QED
      BY <1>1, <1>2, <1>3, <1>7, <2>1, <3>1, GoesOn DEF InCall, HasChannel
  <2>3. CASE thread' = [thread EXCEPT ![th] = Idle]
    <3>1. thread'[th] = Idle /\ \A u \in Thread : u # th => thread'[u] = thread[u]
      BY <2>3 DEF TypeOK, ActorsTypeOK
    <3>2. QED
      BY <1>1, <1>2, <1>3, <2>1, <3>1, GoesOn
  <2>4. QED
    BY <2>1, <2>2, <2>3
<1>8. QED
  BY <1>4, <1>5, <1>6, <1>7

\* Where a call that took message m leaves its goroutine.
LEMMA ConcludedAt ==
  ASSUME TypeOK, NEW th \in Thread, NEW m, thread' = Concluded(th, m)
  PROVE  /\ IF Discards(Pattern[thread[th].op], thread[th].call, m)
            THEN /\ thread'[th].pc = "await"
                 /\ thread'[th].op = thread[th].op
                 /\ thread'[th].call = thread[th].call
            ELSE thread'[th] = Idle
         /\ \A u \in Thread : u # th => thread'[u] = thread[u]
<1>1. CASE Discards(Pattern[thread[th].op], thread[th].call, m)
  BY <1>1, Moved DEF Concluded, Pcs
<1>2. CASE ~Discards(Pattern[thread[th].op], thread[th].call, m)
  BY <1>2 DEF Concluded, Done, TypeOK, ActorsTypeOK
<1>3. QED
  BY <1>1, <1>2

\* A call that waits takes a message, a nil, or the end of the channel, which
\* is open.
LEMMA ReceivingExact ==
  ASSUME TypeOK, TypeOK', Exact, OwnerCloses, IdsFresh', NEW th \in Thread,
         \/ ReceiveBuffered(th) \/ ReceiveFromHandler(th) \/ ReceiveClosed(th)
         \/ \E other \in Thread : ReceiveInterrupt(th, other)
  PROVE  Exact'
<1>1. thread[th].pc = "wait"
  BY DEF ReceiveBuffered, ReceiveFromHandler, ReceiveClosed, ReceiveInterrupt
<1>2. thread[th].op \in Op
  BY <1>1, InsideOwns DEF InCall
<1>3. CASE ReceiveBuffered(th)
  <2> DEFINE m == Head(chan[thread[th].op])
  <2>1. Conclude(th, m) /\ thread' = Concluded(th, m) /\ UNCHANGED <<tid, open, tableNil>>
    BY <1>3 DEF ReceiveBuffered
  <2>2. m \in Message \cup {Nil}
    <3>1. chan[thread[th].op] \in Seq(Message \cup {Nil}) /\ chan[thread[th].op] # <<>>
      BY <1>2, <1>3 DEF ReceiveBuffered, TypeOK, OpsTypeOK
    <3>2. QED
      BY <3>1
  <2> HIDE DEF m
  <2>3. QED
    BY <1>1, <2>1, <2>2, ConcludedAt, ConcludeExact
<1>4. CASE ReceiveFromHandler(th)
  <2>1. /\ Conclude(th, handler.msg)
        /\ thread' = Concluded(th, handler.msg)
        /\ UNCHANGED <<tid, open, tableNil>>
    BY <1>4 DEF ReceiveFromHandler
  <2>2. handler.msg \in Message \cup {Nil}
    BY <1>4 DEF ReceiveFromHandler, TypeOK, ActorsTypeOK
  <2>3. QED
    BY <1>1, <2>1, <2>2, ConcludedAt, ConcludeExact
<1>5. ASSUME NEW other \in Thread, ReceiveInterrupt(th, other) PROVE Exact'
  <2>1. /\ Conclude(th, Nil)
        /\ thread' = [thread EXCEPT ![th] = Idle, ![other] = Idle]
        /\ thread[other].pc = "interrupt"
        /\ UNCHANGED <<tid, open, tableNil>>
    BY <1>5 DEF ReceiveInterrupt
  <2>2. /\ thread'[th] = Idle
        /\ \A u \in Thread : u # th => \/ thread'[u] = thread[u]
                                       \/ thread[u].pc = "interrupt" /\ thread'[u].pc = "idle"
    BY <2>1 DEF TypeOK, ActorsTypeOK, Idle
  <2>3. ~Discards(Pattern[thread[th].op], thread[th].call, Nil)
    BY DEF Discards, Nil
  <2>4. QED
    BY <1>1, <2>1, <2>2, <2>3, ConcludeExact
<1>6. ~ReceiveClosed(th)
  BY <1>1, <1>2 DEF ReceiveClosed, Exact, CallsOwned, InCall, ChannelsOpen, Live
<1>7. QED
  BY <1>3, <1>4, <1>5, <1>6

\* Reset, between two calls of the owner, of an operation that has no entry.
LEMMA ResetExact ==
  ASSUME TypeOK, TypeOK', Exact, OwnerCloses, IdsFresh',
         NEW th \in Thread, NEW o \in Op, Reset(th, o)
  PROVE  Exact'
<1>1. /\ <<th, o, "Reset">> \in Program
      /\ thread[th].pc = "idle"
      /\ status[o] = "FINAL"
      /\ UNCHANGED <<thread, open, operations, tableNil>>
  BY DEF Reset, MayCall, Resettable
<1>2. Owns(th, o)
  BY <1>1 DEF Owns, Calls
<1>3. /\ status'[o] = "CREATED" /\ tid'[o] # 0
      /\ \A q \in Op : q # o => status'[q] = status[q] /\ tid'[q] = tid[q]
  BY DEF Reset, NextTid, TypeOK, OpsTypeOK, ContextTypeOK
<1>4. Local(th, o)
  BY <1>1, <1>2, LocalNow
<1>5. Local(th, o)'
  BY <1>1, <1>3, <1>4 DEF Local, Live, InCall, HasChannel
<1>6. QED
  BY <1>1, <1>2, <1>3, <1>5, OwnerStep

\* Close, between two calls of the owner: the entry goes, and with it the status.
LEMMA CloseExact ==
  ASSUME TypeOK, TypeOK', Exact, OwnerCloses, IdsFresh',
         NEW th \in Thread, NEW o \in Op, Close(th, o)
  PROVE  Exact'
<1>1. /\ <<th, o, "Close">> \in Program
      /\ thread[th].pc = "idle"
      /\ status[o] \notin {"NONE", "CLOSED"}
      /\ CloseOp(th, o, "Close")
      /\ UNCHANGED <<tid, open, tableNil>>
  BY DEF Close, MayCall
<1>2. Owns(th, o)
  BY <1>1 DEF Owns, Calls
<1>3. /\ status'[o] = "CLOSED"
      /\ \A q \in Op : q # o => status'[q] = status[q]
  BY <1>1 DEF CloseOp, TypeOK, OpsTypeOK
<1>4. Local(th, o) /\ tid[o] \in Tid
  BY <1>1, <1>2, LocalNow DEF Local, TypeOK, OpsTypeOK
<1>5. CASE open[o]
  <2>1. /\ operations' = [operations EXCEPT ![tid[o]] = NoOp]
        /\ thread' = [thread EXCEPT ![th] = [pc |-> "close", op |-> o, call |-> "Close"]]
    BY <1>1, <1>5 DEF CloseOp
  <2>2. /\ thread'[th] = [pc |-> "close", op |-> o, call |-> "Close"]
        /\ \A u \in Thread : u # th => thread'[u] = thread[u]
    BY <2>1 DEF TypeOK, ActorsTypeOK
  <2>3. /\ operations'[tid[o]] = NoOp
        /\ \A t \in Tid : t # tid[o] => operations'[t] = operations[t]
    BY <1>4, <2>1 DEF TypeOK, ContextTypeOK
  <2>4. \A t \in Tid : operations'[t] # o
    BY <1>4, <2>3, OpAssumption DEF Local
  <2>5. Local(th, o)'
    BY <1>1, <1>3, <1>4, <2>2, <2>4 DEF Local, Live, InCall, HasChannel
  <2>6. QED
    BY <1>1, <1>2, <1>3, <2>2, <2>3, <2>5, OwnerStep
<1>6. CASE ~open[o]
  <2>1. UNCHANGED <<operations, thread>>
    BY <1>1, <1>6 DEF CloseOp
  <2>2. ~HasChannel(o)
    BY <1>1, <1>4, <1>6 DEF Local
  <2>3. Local(th, o)'
    BY <1>1, <1>3, <1>4, <2>1, <2>2 DEF Local, Live, InCall, HasChannel
  <2>4. QED
    BY <1>1, <1>2, <1>3, <2>1, <2>3, OwnerStep
<1>7. QED
  BY <1>5, <1>6

\* The channel of a closed operation is closed.
LEMMA CloseChannelExact ==
  ASSUME TypeOK, TypeOK', Exact, OwnerCloses, IdsFresh',
         NEW th \in Thread, CloseChannel(th)
  PROVE  Exact'
<1>1. PICK o \in Op : thread[th].op = o
  BY InsideOwns DEF CloseChannel
<1>2. thread[th].pc = "close" /\ Owns(th, o)
  BY <1>1, InsideOwns DEF CloseChannel
<1>3. status[o] = "CLOSED" /\ thread[th].call = "Close"
  BY <1>1, <1>2 DEF Exact, ClosesOwned
<1>4. /\ open' = [open EXCEPT ![o] = FALSE]
      /\ thread' = [thread EXCEPT ![th] = Idle]
      /\ UNCHANGED <<status, tid, operations, tableNil>>
  BY <1>1, <1>3 DEF CloseChannel, Done, cctxVars
<1>5. /\ thread'[th] = Idle
      /\ \A u \in Thread : u # th => thread'[u] = thread[u]
      /\ \A q \in Op : q # o => open'[q] = open[q]
  BY <1>4 DEF TypeOK, ActorsTypeOK, OpsTypeOK
<1>6. Local(th, o)
  BY <1>1, <1>2, <1>3, LocalNow
<1>7. Local(th, o)'
  BY <1>3, <1>4, <1>5, <1>6 DEF Local, Live, Idle, InCall, HasChannel
<1>8. QED
  BY <1>1, <1>2, <1>4, <1>5, <1>7, OwnerStep

\* The calls that touch neither a status nor an entry.
LEMMA OthersExact ==
  ASSUME TypeOK, Exact, NEW th \in Thread,
         \/ \E o \in Op : CachedResponse(th, o) \/ GetPublishError(th, o) \/ Interrupt(th, o)
         \/ InterruptBuffered(th)
  PROVE  Exact'
<1>1. ASSUME NEW o \in Op, CachedResponse(th, o) \/ GetPublishError(th, o) PROVE Exact'
  BY <1>1, QuietExact DEF CachedResponse, GetPublishError, opVars, cctxVars
<1>2. ASSUME NEW o \in Op, Interrupt(th, o) PROVE Exact'
  <2>1. /\ UNCHANGED <<status, tid, open, operations, tableNil>>
        /\ thread' = [thread EXCEPT ![th] = [pc |-> "interrupt", op |-> o, call |-> "Interrupt"]]
        /\ thread[th].pc = "idle"
    BY <1>2 DEF Interrupt, MayCall, opVars, cctxVars
  <2>2. \A u \in Thread : \/ thread'[u] = thread[u]
                          \/ thread[u].pc = "idle" /\ thread'[u].pc = "interrupt"
    BY <2>1 DEF TypeOK, ActorsTypeOK
  <2>3. QED
    BY <2>1, <2>2, QuietExact
<1>3. CASE InterruptBuffered(th)
  <2>1. /\ UNCHANGED <<status, tid, open, operations, tableNil>>
        /\ thread' = [thread EXCEPT ![th] = Idle]
        /\ thread[th].pc = "interrupt"
    BY <1>3 DEF InterruptBuffered, Done, cctxVars
  <2>2. \A u \in Thread : \/ thread'[u] = thread[u]
                          \/ thread[u].pc = "interrupt" /\ thread'[u].pc = "idle"
    BY <2>1 DEF TypeOK, ActorsTypeOK, Idle
  <2>3. QED
    BY <2>1, <2>2, QuietExact
<1>4. QED
  BY <1>1, <1>2, <1>3

\* No application closes the context, so every step keeps the table exact.
LEMMA ApplicationExact ==
  ASSUME TypeOK, TypeOK', Exact, OwnerCloses, IdsFresh, IdsFresh',
         NEW th \in Thread, Application(th)
  PROVE  Exact'
<1>1. thread[th].pc # "cleanOps"
  BY DEF Exact, ContextKept
<1>2. ASSUME NEW c \in Calls PROVE ~CloseContext(th, c)
  BY DEF CloseContext, MayCall, OwnerCloses
<1>3. /\ \A t \in Tid : ~CleanOp(th, t)
      /\ ~CleanOpsEnds(th)
  BY <1>1 DEF CleanOp, CleanOpsEnds
<1>4. QED
  BY <1>2, <1>3, BeginExact, RegisterExact, SendingExact, ReceivingExact, ResetExact,
     CloseExact, CloseChannelExact, OthersExact DEF Application

LEMMA ExactStep ==
  ASSUME TypeOK, TypeOK', Exact, OwnerCloses, IdsFresh, IdsFresh', [Next]_vars
  PROVE  Exact'
<1>1. CASE UNCHANGED vars
  BY <1>1, QuietExact DEF vars, opVars, cctxVars
<1>2. CASE Handler
  BY <1>2, QuietExact DEF Handler, HandleMessage, OnMessage, Buffer, BufferError,
                          opVars, cctxVars
<1>3. CASE Remote
  BY <1>3, QuietExact DEF Remote, Reply, opVars, cctxVars
<1>4. QED
  BY <1>1, <1>2, <1>3, NewExact, ApplicationExact DEF Next

LEMMA ExactInit == Init => Exact
<1>1. SUFFICES ASSUME Init PROVE Exact
  OBVIOUS
<1>2. /\ \A o \in Op : status[o] = "NONE"
      /\ \A th \in Thread : thread[th].pc = "idle"
      /\ \A t \in Tid : operations[t] = NoOp
      /\ ~tableNil
  BY <1>1 DEF Init, Idle
<1>3. QED
  BY <1>2, OpAssumption DEF Exact, TableExact, CallsOwned, ClosesOwned, ChannelsOpen,
                            EntriesReceive, ContextKept, InCall, Live

\* When each operation is used, reset and closed by one goroutine (which others
\* may interrupt) and no context is closed, ClientContext.operations holds an
\* operation exactly while its current transaction is under way, whatever the
\* remote side sends and whichever transmissions fail.
THEOREM TableAlwaysExact ==
  ASSUME OwnerCloses
  PROVE  Spec => []TableExact
<1>1. SingleUser
  BY DEF OwnerCloses, SingleUser
<1>2. TypeOK /\ IdsFresh /\ Exact /\ [Next]_vars => TypeOK' /\ IdsFresh' /\ Exact'
  BY <1>1, IdsStep, ExactStep
<1>3. Exact => TableExact
  BY DEF Exact
<1>4. QED
  BY IdsInit, ExactInit, <1>2, <1>3, PTL DEF Spec

-----------------------------------------------------------------------------
(* Panics and calls that wait for ever.                                    *)

\* Nobody closes an operation or the context.
NobodyCloses == \A e \in Program : e[3] \notin {"Close", "CloseContext", "OnClose"}

\* The operation was created with a channel.
Made(o) == status[o] # "NONE" /\ HasChannel(o)

\* Where a goroutine has or is about to use the channel of its operation.
AtChannel == {"register", "await", "wait"}

OpenKept ==
  \A o \in Op : status[o] # "NONE" => /\ open[o] = HasChannel(o)
                                      /\ Pattern[o] = "Publisher" => errOpen[o]
EntriesMade == ~tableNil /\ \A t \in Tid : operations[t] # NoOp => Made(operations[t])
CallsMade ==
  /\ \A th \in Thread : thread[th].pc \in AtChannel => Made(thread[th].op)
  /\ \A th \in Thread : thread[th].pc = "send" => status[thread[th].op] # "NONE"
  /\ \A th \in Thread : thread[th].pc \notin {"close", "cleanOps", "stuck"}
HandlerMade == handler.at \in {"idle", "lookup", "send", "sendErr"}
               /\ (handler.at # "idle" => Made(handler.op))

\* Nothing is ever closed.
Intact == OpenKept /\ EntriesMade /\ CallsMade /\ HandlerMade /\ NoPanic

LEMMA IntactInit == Init => Intact
<1>1. SUFFICES ASSUME Init PROVE Intact
  OBVIOUS
<1>2. /\ \A o \in Op : status[o] = "NONE"
      /\ \A th \in Thread : thread[th].pc = "idle"
      /\ \A t \in Tid : operations[t] = NoOp
      /\ ~tableNil /\ ~panicked /\ handler.at = "idle"
  BY <1>1 DEF Init, Idle, Asleep
<1>3. QED
  BY <1>2 DEF Intact, OpenKept, EntriesMade, CallsMade, HandlerMade, NoPanic, AtChannel

\* A step that creates no operation, closes nothing and enters nothing in the table.
LEMMA IntactKept ==
  ASSUME TypeOK, Intact, UNCHANGED <<open, errOpen, tableNil, panicked>>,
         \A o \in Op : status'[o] = "NONE" <=> status[o] = "NONE",
         \A t \in Tid : operations'[t] \in {operations[t], NoOp},
         \A u \in Thread : \/ thread'[u] = thread[u]
                           \/ thread'[u].pc \in {"idle", "interrupt"}
                           \/ /\ thread'[u].pc \in AtChannel \cup {"send"}
                              /\ thread'[u].op \in Op /\ status[thread'[u].op] # "NONE"
                              /\ thread'[u].pc # "send" => HasChannel(thread'[u].op),
         \/ handler' = handler
         \/ handler'.at = "idle"
         \/ handler'.at \in {"lookup", "send", "sendErr"} /\ handler'.op \in Op /\ Made(handler'.op)
  PROVE  Intact'
<1>1. OpenKept'
  BY DEF Intact, OpenKept, HasChannel
<1>2. \A o \in Op : Made(o) => Made(o)'
  BY DEF Made, HasChannel
<1>3. EntriesMade'
  BY <1>2 DEF Intact, EntriesMade, TypeOK, ContextTypeOK
<1>4. CallsMade'
  <2>1. \A u \in Thread : thread[u].pc \in AtChannel \cup {"send"} => thread[u].op \in Op
    BY DEF AtChannel, TypeOK, ActorsTypeOK
  <2>2. ASSUME NEW u \in Thread
        PROVE  /\ thread'[u].pc \in AtChannel =>
                    status'[thread'[u].op] # "NONE" /\ HasChannel(thread'[u].op)
               /\ thread'[u].pc = "send" => status'[thread'[u].op] # "NONE"
               /\ thread'[u].pc \notin {"close", "cleanOps", "stuck"}
    <3>1. CASE thread'[u] = thread[u]
      BY <2>1, <3>1 DEF Intact, CallsMade, Made
    <3>2. CASE thread'[u].pc \in {"idle", "interrupt"}
      BY <3>2 DEF AtChannel
    <3>3. CASE /\ thread'[u].pc \in AtChannel \cup {"send"}
               /\ thread'[u].op \in Op /\ status[thread'[u].op] # "NONE"
               /\ thread'[u].pc # "send" => HasChannel(thread'[u].op)
      BY <3>3 DEF AtChannel
    <3>4. QED
      BY <3>1, <3>2, <3>3
  <2>3. QED
    BY <2>2 DEF CallsMade, Made, HasChannel, AtChannel
<1>5. HandlerMade'
  BY <1>2 DEF Intact, HandlerMade, TypeOK, ActorsTypeOK
<1>6. QED
  BY <1>1, <1>3, <1>4, <1>5 DEF Intact, NoPanic

\* The end of a call.
LEMMA ConcludeIntact ==
  ASSUME TypeOK, Intact, NEW th \in Thread, thread[th].pc = "wait",
         NEW m \in Message \cup {Nil}, Conclude(th, m)
  PROVE  /\ \A o \in Op : status'[o] = "NONE" <=> status[o] = "NONE"
         /\ \A t \in Tid : operations'[t] \in {operations[t], NoOp}
         /\ \A u \in Thread : u # th => Concluded(th, m)[u] = thread[u]
         /\ \/ Concluded(th, m)[th].pc = "idle"
            \/ Concluded(th, m)[th].pc = "await" /\ Concluded(th, m)[th].op = thread[th].op
         /\ status[thread[th].op] # "NONE" /\ HasChannel(thread[th].op) /\ thread[th].op \in Op
<1> DEFINE o == thread[th].op
           p == Pattern[o]
           c == thread[th].call
<1>1. o \in Op /\ status[o] # "NONE" /\ HasChannel(o)
  BY DEF TypeOK, ActorsTypeOK, Intact, CallsMade, AtChannel, Made
<1>2. \/ UNCHANGED <<status, operations>>
      \/ /\ status' = FinalStatus(o) \/ status' = [status EXCEPT ![o] = Advanced(p, c, m, @)]
         /\ operations' = Finalized(o) \/ operations' = operations
  BY DEF Conclude
<1>3. Advanced(p, c, m, status[o]) # "NONE"
  BY <1>1 DEF Advanced
<1>4. \A q \in Op : status'[q] = "NONE" <=> status[q] = "NONE"
  BY <1>1, <1>2, <1>3 DEF FinalStatus, TypeOK, OpsTypeOK
<1>5. \A t \in Tid : operations'[t] \in {operations[t], NoOp}
  BY <1>2 DEF Finalized, TypeOK, ContextTypeOK
<1>6. /\ \A u \in Thread : u # th => Concluded(th, m)[u] = thread[u]
      /\ \/ Concluded(th, m)[th].pc = "idle"
         \/ Concluded(th, m)[th].pc = "await" /\ Concluded(th, m)[th].op = thread[th].op
  BY DEF Concluded, At, Done, Idle, TypeOK, ActorsTypeOK
<1>7. QED
  BY <1>1, <1>4, <1>5, <1>6

\* A new operation has its channels.
LEMMA NewIntact ==
  ASSUME TypeOK, Intact, NEW o \in Op, New(o)
  PROVE  Intact'
<1>1. /\ status[o] = "NONE" /\ status'[o] = "CREATED"
      /\ \A p \in Op : p # o => status'[p] = status[p]
  BY DEF New, TypeOK, OpsTypeOK
<1>2. /\ open'[o] = HasChannel(o) /\ errOpen'[o] = (Pattern[o] = "Publisher")
      /\ \A p \in Op : p # o => open'[p] = open[p] /\ errOpen'[p] = errOpen[p]
  BY DEF New, TypeOK, OpsTypeOK
<1>3. OpenKept'
  BY <1>1, <1>2 DEF Intact, OpenKept, HasChannel
<1>4. \A p \in Op : status[p] # "NONE" => status'[p] # "NONE"
  BY <1>1
<1>5. EntriesMade'
  BY <1>4 DEF New, Intact, EntriesMade, Made, HasChannel, TypeOK, ContextTypeOK
<1>6. CallsMade'
  <2>1. \A u \in Thread : thread[u].pc \in AtChannel \cup {"send"} => thread[u].op \in Op
    BY DEF AtChannel, TypeOK, ActorsTypeOK
  <2>2. thread' = thread
    BY DEF New
  <2>3. QED
    BY <1>4, <2>1, <2>2 DEF Intact, CallsMade, Made, HasChannel, AtChannel
<1>7. HandlerMade'
  BY <1>4 DEF New, Intact, HandlerMade, Made, HasChannel, TypeOK, ActorsTypeOK
<1>8. QED
  BY <1>3, <1>5, <1>6, <1>7 DEF New, Intact, NoPanic

\* registerOp finds a table.
LEMMA RegisterIntact ==
  ASSUME TypeOK, Intact, NEW th \in Thread, RegisterOp(th)
  PROVE  Intact'
<1> DEFINE o == thread[th].op
<1>1. o \in Op /\ Made(o) /\ ~tableNil
  BY DEF RegisterOp, TypeOK, ActorsTypeOK, Intact, CallsMade, AtChannel, EntriesMade
<1>2. CASE operations[tid[o]] # NoOp
  <2>1. \A p \in Op : status'[p] = "NONE" <=> status[p] = "NONE"
    BY <1>1, <1>2 DEF RegisterOp, FinalStatus, Made, TypeOK, OpsTypeOK
  <2>2. \A t \in Tid : operations'[t] \in {operations[t], NoOp}
    BY <1>2 DEF RegisterOp, Finalized, TypeOK, ContextTypeOK
  <2>3. \A u \in Thread : thread'[u] = thread[u] \/ thread'[u].pc = "idle"
    BY <1>2 DEF RegisterOp, Done, Idle, TypeOK, ActorsTypeOK
  <2>4. UNCHANGED <<open, errOpen, tableNil, panicked, handler>>
    BY <1>2 DEF RegisterOp
  <2>5. QED
    BY <2>1, <2>2, <2>3, <2>4, IntactKept
<1>3. CASE operations[tid[o]] = NoOp
  <2>1. UNCHANGED <<status, open, errOpen, tableNil, handler>> /\ ~panicked'
    BY <1>1, <1>3 DEF RegisterOp
  <2>2. \A t \in Tid : operations'[t] \in {operations[t], o}
    BY <1>1, <1>3 DEF RegisterOp, TypeOK, ContextTypeOK
  <2>3. /\ \A u \in Thread : u # th => thread'[u] = thread[u]
        /\ thread'[th].pc = "send" /\ thread'[th].op = o
    <3>1. thread' = At(th, "send") /\ "send" \in Pcs
      BY <1>3 DEF RegisterOp, Pcs
    <3>2. QED
      BY <3>1, Moved
  <2>4. OpenKept' /\ HandlerMade'
    BY <2>1 DEF Intact, OpenKept, HandlerMade, Made, HasChannel
  <2>5. EntriesMade'
    BY <1>1, <2>1, <2>2 DEF Intact, EntriesMade, Made, HasChannel
  <2>6. CallsMade'
    BY <1>1, <2>1, <2>3 DEF Intact, CallsMade, Made, HasChannel, AtChannel
  <2>7. QED
    BY <2>1, <2>4, <2>5, <2>6 DEF Intact, NoPanic
<1>4. QED
  BY <1>2, <1>3

\* The parts of a call.
LEMMA CallIntact ==
  ASSUME TypeOK, Intact, NEW th \in Thread,
         \/ \E o \in Op, c \in Calls : Begin(th, o, c)
         \/ Transmit(th) \/ TransmitFails(th) \/ Await(th) \/ ReceiveClosed(th)
  PROVE  Intact'
<1>1. ASSUME NEW o \in Op, NEW c \in Calls, Begin(th, o, c) PROVE Intact'
  <2>1. status[o] # "NONE" /\ BeginStatus(Pattern[o], c, status[o]) # "NONE"
    BY <1>1 DEF Begin, GoodStatus, BeginStatus
  <2>2. \A p \in Op : status'[p] = "NONE" <=> status[p] = "NONE"
    BY <1>1, <2>1 DEF Begin, TypeOK, OpsTypeOK
  <2>3. FirstPc(Pattern[o], c) \in {"register", "send", "await"}
    BY DEF FirstPc
  <2>4. FirstPc(Pattern[o], c) # "send" => HasChannel(o)
    BY <1>1 DEF Begin, FirstPc, HasChannel, Methods
  <2>5. /\ \A u \in Thread : u # th => thread'[u] = thread[u]
        /\ thread'[th] = [pc |-> FirstPc(Pattern[o], c), op |-> o, call |-> c]
    BY <1>1 DEF Begin, TypeOK, ActorsTypeOK
  <2>6. UNCHANGED <<open, errOpen, tableNil, panicked, operations, handler>>
    BY <1>1 DEF Begin, cctxVars
  <2>7. QED
    BY <2>1, <2>2, <2>3, <2>4, <2>5, <2>6, IntactKept DEF AtChannel
<1> DEFINE o == thread[th].op
<1>2. ASSUME thread[th].pc \in AtChannel \cup {"send"}
      PROVE  o \in Op /\ status[o] # "NONE" /\ (thread[th].pc # "send" => HasChannel(o))
  BY <1>2 DEF AtChannel, TypeOK, ActorsTypeOK, Intact, CallsMade, Made
<1>3. ASSUME thread' = Done(th)
      PROVE  \A u \in Thread : thread'[u] = thread[u] \/ thread'[u].pc = "idle"
  BY <1>3 DEF Done, Idle, TypeOK, ActorsTypeOK
<1>4. ASSUME NEW pc \in Pcs, thread' = At(th, pc)
      PROVE  \A u \in Thread : \/ thread'[u] = thread[u]
                               \/ u = th /\ thread'[u].pc = pc /\ thread'[u].op = o
  BY <1>4, Moved
<1>5. ASSUME o \in Op, status[o] # "NONE", status' \in {status, FinalStatus(o)}
      PROVE  \A p \in Op : status'[p] = "NONE" <=> status[p] = "NONE"
  BY <1>5 DEF FinalStatus, TypeOK, OpsTypeOK
<1>6. ASSUME operations' \in {operations, Finalized(o)}
      PROVE  \A t \in Tid : operations'[t] \in {operations[t], NoOp}
  BY <1>6 DEF Finalized, TypeOK, ContextTypeOK
<1>7. CASE Transmit(th)
  <2>1. /\ thread[th].pc = "send" /\ status' \in {status, FinalStatus(o)}
        /\ UNCHANGED <<open, errOpen, tableNil, panicked, operations, handler>>
    BY <1>7 DEF Transmit, cctxVars
  <2>2. CASE Waits(Pattern[o], thread[th].call)
    <3>1. thread' = At(th, "await") /\ "await" \in Pcs /\ HasChannel(o)
      BY <1>7, <2>2 DEF Transmit, Waits, HasChannel, Pcs
    <3>2. \A u \in Thread : \/ thread'[u] = thread[u]
                            \/ u = th /\ thread'[u].pc = "await" /\ thread'[u].op = o
      BY <1>4, <3>1
    <3>3. QED
      BY <1>2, <1>5, <2>1, <3>1, <3>2, IntactKept DEF AtChannel
  <2>3. CASE ~Waits(Pattern[o], thread[th].call)
    <3>1. thread' = Done(th)
      BY <1>7, <2>3 DEF Transmit
    <3>2. QED
      BY <1>2, <1>3, <1>5, <2>1, <3>1, IntactKept
  <2>4. QED
    BY <2>2, <2>3
<1>8. CASE TransmitFails(th) \/ ReceiveClosed(th)
  <2>1. /\ thread[th].pc \in {"send", "wait"} /\ status' \in {status, FinalStatus(o)}
        /\ operations' \in {operations, Finalized(o)} /\ thread' = Done(th)
        /\ UNCHANGED <<open, errOpen, tableNil, panicked, handler>>
    BY <1>8 DEF TransmitFails, ReceiveClosed
  <2>2. QED
    BY <1>2, <1>3, <1>5, <1>6, <2>1, IntactKept DEF AtChannel
<1>9. CASE Await(th)
  <2>1. thread[th].pc = "await" /\ Made(o) /\ o \in Op
    BY <1>9, <1>2 DEF Await, AtChannel, Made
  <2>2. thread' = At(th, "wait") /\ "wait" \in Pcs
    BY <1>9, <2>1 DEF Await, Intact, OpenKept, Made, Pcs
  <2>3. UNCHANGED <<status, open, errOpen, tableNil, panicked, operations, handler>>
    BY <1>9 DEF Await, opVars, cctxVars
  <2>4. \A u \in Thread : \/ thread'[u] = thread[u]
                          \/ u = th /\ thread'[u].pc = "wait" /\ thread'[u].op = o
    BY <1>4, <2>2
  <2>5. QED
    BY <2>1, <2>3, <2>4, IntactKept DEF AtChannel, Made
<1>10. QED
  BY <1>1, <1>7, <1>8, <1>9

\* What a goroutine receives.
LEMMA ReceiveIntact ==
  ASSUME TypeOK, Intact, NEW th \in Thread,
         \/ ReceiveBuffered(th) \/ ReceiveFromHandler(th)
         \/ \E other \in Thread : ReceiveInterrupt(th, other)
  PROVE  Intact'
<1>1. thread[th].pc = "wait" /\ thread[th].op \in Op
  BY DEF ReceiveBuffered, ReceiveFromHandler, ReceiveInterrupt, TypeOK, ActorsTypeOK
<1>2. ASSUME NEW m \in Message \cup {Nil}, Conclude(th, m), thread' = Concluded(th, m),
             UNCHANGED <<open, errOpen, tableNil, panicked>>,
             handler' = handler \/ handler'.at = "idle"
      PROVE  Intact'
  <2>1. /\ \A o \in Op : status'[o] = "NONE" <=> status[o] = "NONE"
        /\ \A t \in Tid : operations'[t] \in {operations[t], NoOp}
        /\ \A u \in Thread : u # th => thread'[u] = thread[u]
        /\ thread'[th].pc = "idle"
           \/ (thread'[th].pc = "await" /\ thread'[th].op = thread[th].op)
        /\ status[thread[th].op] # "NONE" /\ HasChannel(thread[th].op) /\ thread[th].op \in Op
    BY <1>1, <1>2, ConcludeIntact
  <2>2. QED
    BY <1>2, <2>1, IntactKept DEF AtChannel
<1>3. CASE ReceiveBuffered(th)
  <2>1. chan[thread[th].op] \in Seq(Message \cup {Nil}) /\ chan[thread[th].op] # <<>>
    BY <1>1, <1>3 DEF ReceiveBuffered, TypeOK, OpsTypeOK
  <2>2. Head(chan[thread[th].op]) \in Message \cup {Nil}
    BY <2>1
  <2>3. QED
    BY <1>2, <1>3, <2>2 DEF ReceiveBuffered
<1>4. CASE ReceiveFromHandler(th)
  <2>1. handler.msg \in Message \cup {Nil} /\ handler'.at = "idle"
    BY <1>4 DEF ReceiveFromHandler, Asleep, TypeOK, ActorsTypeOK
  <2>2. QED
    BY <1>2, <1>4, <2>1 DEF ReceiveFromHandler
<1>5. ASSUME NEW other \in Thread, ReceiveInterrupt(th, other) PROVE Intact'
  <2>1. /\ \A o \in Op : status'[o] = "NONE" <=> status[o] = "NONE"
        /\ \A t \in Tid : operations'[t] \in {operations[t], NoOp}
    BY <1>1, <1>5, ConcludeIntact DEF ReceiveInterrupt
  <2>2. \A u \in Thread : thread'[u] = thread[u] \/ thread'[u].pc = "idle"
    BY <1>5 DEF ReceiveInterrupt, Idle, TypeOK, ActorsTypeOK
  <2>3. UNCHANGED <<open, errOpen, tableNil, panicked, handler>>
    BY <1>5 DEF ReceiveInterrupt
  <2>4. QED
    BY <2>1, <2>2, <2>3, IntactKept
<1>6. QED
  BY <1>3, <1>4, <1>5

\* The context's goroutine looks up entries, whose operations have their channels.
LEMMA HandlerIntact ==
  ASSUME TypeOK, Intact, Handler
  PROVE  Intact'
<1>1. UNCHANGED <<status, open, errOpen, operations, tableNil, panicked, thread>>
  BY DEF Handler, HandleMessage, OnMessage, Buffer, BufferError, opVars, cctxVars
<1>2. \/ handler'.at = "idle"
      \/ handler'.at \in {"lookup", "send", "sendErr"} /\ handler'.op \in Op /\ Made(handler'.op)
  <2>1. CASE HandleMessage
    <3>1. Head(inbox) \in Message
      BY <2>1 DEF HandleMessage, TypeOK, RemoteTypeOK
    <3> DEFINE t == Head(inbox).tid
    <3>2. t \in Tid
      BY <3>1 DEF Message
    <3>3. operations[t] # NoOp => operations[t] \in Op /\ Made(operations[t])
      BY <3>2 DEF Intact, EntriesMade, TypeOK, ContextTypeOK
    <3>4. QED
      BY <2>1, <3>3 DEF HandleMessage, Routed, Asleep
  <2>2. CASE OnMessage
    <3> DEFINE o == handler.op
    <3>1. o \in Op /\ Made(o)
      BY <2>2 DEF OnMessage, Intact, HandlerMade, TypeOK, ActorsTypeOK
    <3>2. open[o] /\ (Pattern[o] = "Publisher" => errOpen[o])
      BY <3>1 DEF Intact, OpenKept, Made
    <3> DEFINE toErr == Pattern[o] = "Publisher" /\ handler.msg.stage = "PUBLISH" /\ handler.msg.err
    <3>3. handler' = IF handler.msg.type # Pattern[o] THEN Asleep
                     ELSE [handler EXCEPT !.at = CASE toErr /\ errOpen[o] -> "sendErr"
                                                   [] ~toErr /\ open[o]   -> "send"
                                                   [] OTHER               -> "stuck"]
      BY <2>2 DEF OnMessage
    <3>4. handler \in [at : {"idle", "lookup", "send", "sendErr", "stuck"},
                       op : Op \cup {NoOp}, msg : Message \cup {Nil}]
      BY DEF TypeOK, ActorsTypeOK
    <3>5. CASE handler.msg.type # Pattern[o]
      BY <3>3, <3>5 DEF Asleep
    <3>6. CASE handler.msg.type = Pattern[o] /\ toErr
      BY <3>1, <3>2, <3>3, <3>4, <3>6
    <3>7. CASE handler.msg.type = Pattern[o] /\ ~toErr
      BY <3>1, <3>2, <3>3, <3>4, <3>7
    <3>8. QED
      BY <3>5, <3>6, <3>7
  <2>3. CASE Buffer \/ BufferError
    BY <2>3 DEF Buffer, BufferError, Asleep
  <2>4. QED
    BY <2>1, <2>2, <2>3 DEF Handler
<1>3. QED
  BY <1>1, <1>2, IntactKept

\* Every step of the application that closes nothing.
LEMMA ApplicationIntact ==
  ASSUME TypeOK, Intact, NobodyCloses, NEW th \in Thread, Application(th)
  PROVE  Intact'
<1>1. \A o \in Op : ~Close(th, o)
  BY DEF Close, MayCall, NobodyCloses
<1>2. /\ \A c \in Calls : ~CloseContext(th, c)
      /\ ~CloseChannel(th) /\ ~CleanOpsEnds(th) /\ \A t \in Tid : ~CleanOp(th, t)
  BY DEF CloseContext, MayCall, NobodyCloses, CloseChannel, CleanOp, CleanOpsEnds, Intact, CallsMade
<1>3. ASSUME NEW o \in Op, CachedResponse(th, o) \/ GetPublishError(th, o) PROVE Intact'
  <2>1. UNCHANGED <<status, open, errOpen, operations, tableNil, panicked, thread, handler>>
    BY <1>3 DEF CachedResponse, GetPublishError, opVars, cctxVars
  <2>2. QED
    BY <2>1, IntactKept
<1>4. ASSUME NEW o \in Op, Reset(th, o) PROVE Intact'
  <2>1. UNCHANGED <<open, errOpen, operations, tableNil, panicked, thread, handler>>
    BY <1>4 DEF Reset
  <2>2. \A p \in Op : status'[p] = "NONE" <=> status[p] = "NONE"
    BY <1>4 DEF Reset, Resettable, TypeOK, OpsTypeOK
  <2>3. QED
    BY <2>1, <2>2, IntactKept
<1>5. ASSUME NEW o \in Op, Interrupt(th, o) PROVE Intact'
  <2>1. UNCHANGED <<status, open, errOpen, operations, tableNil, panicked, handler>>
    BY <1>5 DEF Interrupt, opVars, cctxVars
  <2>2. \A u \in Thread : thread'[u] = thread[u] \/ thread'[u].pc = "interrupt"
    BY <1>5 DEF Interrupt, TypeOK, ActorsTypeOK
  <2>3. QED
    BY <2>1, <2>2, IntactKept
<1>6. CASE InterruptBuffered(th)
  <2>1. UNCHANGED <<status, open, errOpen, operations, tableNil, panicked, handler>>
    BY <1>6 DEF InterruptBuffered, cctxVars
  <2>2. \A u \in Thread : thread'[u] = thread[u] \/ thread'[u].pc = "idle"
    BY <1>6 DEF InterruptBuffered, Done, Idle, TypeOK, ActorsTypeOK
  <2>3. QED
    BY <2>1, <2>2, IntactKept
<1>7. QED
  BY <1>1, <1>2, <1>3, <1>4, <1>5, <1>6, RegisterIntact, CallIntact, ReceiveIntact
     DEF Application

LEMMA IntactStep ==
  ASSUME NobodyCloses, TypeOK, Intact, [Next]_vars
  PROVE  TypeOK' /\ Intact'
<1>1. CASE UNCHANGED vars
  <2>1. UNCHANGED <<status, open, errOpen, operations, tableNil, panicked, thread, handler>>
    BY <1>1 DEF vars, opVars, cctxVars
  <2>2. QED
    BY <2>1, IntactKept, TypeStep
<1>2. CASE Remote
  <2>1. UNCHANGED <<status, open, errOpen, operations, tableNil, panicked, thread, handler>>
    BY <1>2 DEF Remote, Reply, opVars, cctxVars
  <2>2. QED
    BY <2>1, IntactKept, TypeStep
<1>3. QED
  BY <1>1, <1>2, TypeStep, NewIntact, ApplicationIntact, HandlerIntact DEF Next

\* Close of an operation or of the ClientContext is all that can make a goroutine
\* panic: without it no send is on a closed channel and registerOp finds its map,
\* however many goroutines share an operation and whatever the remote side sends.
THEOREM OnlyClosePanics ==
  ASSUME NobodyCloses
  PROVE  Spec => []NoPanic
<1>1. TypeOK /\ Intact /\ [Next]_vars => TypeOK' /\ Intact'
  BY IntactStep
<1>2. Intact => NoPanic
  BY DEF Intact
<1>3. QED
  BY TypeInit, IntactInit, <1>1, <1>2, PTL DEF Spec

\* It is also all that can make one wait on a nil channel: without it every call of
\* a method and every onMessage finds the channel the constructor made.
THEOREM OnlyCloseBlocks ==
  ASSUME NobodyCloses
  PROVE  Spec => []NeverStuck
<1>1. TypeOK /\ Intact /\ [Next]_vars => TypeOK' /\ Intact'
  BY IntactStep
<1>2. Intact => NeverStuck
  BY DEF Intact, CallsMade, HandlerMade, NeverStuck
<1>3. QED
  BY TypeInit, IntactInit, <1>1, <1>2, PTL DEF Spec

-----------------------------------------------------------------------------
(* Answers: whose message a call returns, and of which stage.              *)

\* The remote side keeps to MAL, the goroutine that uses an operation also closes
\* it, nobody interrupts, the updates of a Progress operation are read one by one
\* with GetUpdate, and the DEREGISTER of a subscriber is not refused.
Undisturbed ==
  /\ OwnerCloses
  /\ Provider = "conforming"
  /\ \A e \in Program : e[3] # "Interrupt"
  /\ \A th \in Thread, o \in Op : Pattern[o] = "Progress" => <<th, o, "GetResponse">> \notin Program
  /\ SendErrors => \A th \in Thread, o \in Op :
                     Pattern[o] = "Subscriber" => <<th, o, "Deregister">> \notin Program

\* The first answer of a transaction, and the last: no message of the
\* transaction that concerns its calls comes before the one or after the other.
Opening(m) == m.stage = "ACK" \/ m.type = "Request"
Last(m) == \/ m.stage \in {"RESPONSE", "DEREGISTER_ACK"}
           \/ m.err /\ m.stage # "PUBLISH"
           \/ m.type = "Submit"
Follows(x, y) == x.tid = y.tid => ~Last(x) /\ ~Opening(y)

Elements(s) == {s[i] : i \in DOMAIN s}
Sorted(s) == \A i, j \in DOMAIN s : i < j => Follows(s[i], s[j])
AllFollow(A, B) == \A x \in A, y \in B : Follows(x, y)

\* What operation o may still read: in its channel, held for it by the context's
\* goroutine, and on its way.
Holding(o) ==
  IF handler.at \in {"lookup", "send"} /\ handler.op = o /\ handler.msg.stage # "PUBLISH"
  THEN {handler.msg} ELSE {}
Arrived(o) == Elements(chan[o]) \cup Holding(o)
Pending(o) == Arrived(o) \cup {m \in Elements(inbox) : m.tid = tid[o]}
Phase(o) == exchange[tid[o]].phase

\* A message of the transaction it names, which is over if it is the last.
Genuine(m) ==
  /\ m.tid \in Tid
  /\ \E r \in Protocol : m.type = r.type /\ m.stage = r.stage /\ m.err = r.err
  /\ exchange[m.tid].type = m.type
  /\ exchange[m.tid].phase \notin {"none", "requested"}
  /\ Last(m) => exchange[m.tid].phase = "done"

AllGenuine ==
  /\ \A m \in Elements(inbox) : Genuine(m)
  /\ \A o \in Op : \A m \in Elements(chan[o]) : Genuine(m) /\ m.stage # "PUBLISH"
  /\ handler.at # "idle" => Genuine(handler.msg)
  /\ handler.at = "send" => handler.msg.stage # "PUBLISH"

InLine ==
  /\ Sorted(inbox)
  /\ \A o \in Op : /\ Sorted(chan[o])
                   /\ AllFollow(Elements(chan[o]), Holding(o))
                   /\ AllFollow(Arrived(o), Elements(inbox))
                   /\ Capacity(o) = 0 => chan[o] = <<>>

\* What has arrived belongs to the transaction under way.
Current ==
  \A o \in Op : status[o] # "CLOSED" =>
    \A m \in Arrived(o) : m.tid = tid[o] /\ m.type = Pattern[o] /\ status[o] \in Live

\* The remote side knows nothing of an id that is not given away, and the
\* pattern of the others.
Known ==
  /\ \A t \in Tid : t > txcounter => exchange[t].phase = "none"
  /\ \A o \in Op : tid[o] # 0 /\ Phase(o) # "none" => exchange[tid[o]].type = Pattern[o]

\* Both sides of the transaction under way agree on where it is.
Begun == {"INITIATED", "REGISTER_INITIATED"}
AgreeOn(o) ==
  /\ status[o] = "CREATED" => Phase(o) = "none"
  /\ status[o] \in Begun =>
       \/ Phase(o) \in {"none", "requested"}
       \/ \E m \in Pending(o) : /\ Opening(m)
                                /\ status[o] = "INITIATED" \/ m.err \/ Phase(o) = "registered"
  /\ status[o] \in Live \ Begun => /\ Phase(o) \notin {"none", "requested"}
                                   /\ \A m \in Pending(o) : ~Opening(m)
  /\ status[o] = "REGISTERED" => Phase(o) \in {"registered", "published"}
Agree == \A o \in Op : status[o] \notin {"NONE", "CLOSED"} => AgreeOn(o)

\* A call is where its operation and the remote side are.
InStep(th) ==
  LET o == thread[th].op
      p == Pattern[o]
      c == thread[th].call IN
  /\ c \in Methods(p)
  /\ c = "Initiate" => /\ status[o] = BeginStatus(p, c, "CREATED")
                       /\ thread[th].pc \in {"register", "send"} <=> Phase(o) = "none"
  /\ c = "Deregister" => /\ status[o] = "DEREGISTER_INITIATED"
                         /\ thread[th].pc = "send" => Phase(o) \in {"registered", "published"}
  /\ c \in {"GetResponse", "GetUpdate"} => status[o] \in GoodStatus(p, c)
  /\ c \in {"GetNotify", "Publish"} => status[o] = "REGISTERED"
  /\ thread[th].pc = "register" => c = "Initiate"
  /\ thread[th].pc = "send" => c \in {"Initiate", "Publish", "Deregister"}
  /\ thread[th].pc \in {"await", "wait"} => c # "Publish"
  /\ ret[th].msg = Nil

\* A status that only a call under way leaves.
Transient == Begun \cup {"DEREGISTER_INITIATED"}
Serving(th, o) == thread[th].pc \in InCall /\ thread[th].op = o
CallsInStep ==
  /\ \A th \in Thread : /\ thread[th].pc \in InCall => InStep(th)
                        /\ thread[th].pc \notin {"interrupt", "stuck"}
  /\ \A o \in Op : /\ status[o] \in Transient => \E th \in Thread : Serving(th, o)
                   /\ status[o] # "REREGISTER_INITIATED"
  /\ endpoint

Answered == AllGenuine /\ InLine /\ Current /\ Known /\ Agree /\ CallsInStep /\ NoBadReturn

\* A sequence that grows, or shrinks.
LEMMA SortedMoves ==
  ASSUME NEW S, NEW s \in Seq(S)
  PROVE  /\ \A m \in S : /\ Elements(Append(s, m)) = Elements(s) \cup {m}
                         /\ Sorted(s) /\ AllFollow(Elements(s), {m}) => Sorted(Append(s, m))
         /\ s # <<>> => /\ Head(s) \in Elements(s)
                        /\ Elements(s) = {Head(s)} \cup Elements(Tail(s))
                        /\ Sorted(s) => Sorted(Tail(s)) /\ AllFollow({Head(s)}, Elements(Tail(s)))
         /\ s = <<>> <=> Elements(s) = {}
         /\ Elements(s) \subseteq S
<1>1. ASSUME NEW m \in S
      PROVE  /\ Elements(Append(s, m)) = Elements(s) \cup {m}
             /\ Sorted(s) /\ AllFollow(Elements(s), {m}) => Sorted(Append(s, m))
  <2> DEFINE t == Append(s, m)
             l == Len(s)
  <2>1. l \in Nat /\ t[l + 1] = m /\ \A i \in 1 .. l : t[i] = s[i]
    OBVIOUS
  <2>2. DOMAIN s = 1 .. l /\ DOMAIN t = 1 .. l + 1
    OBVIOUS
  <2>3. /\ \A i \in 1 .. l + 1 : i \in 1 .. l \/ i = l + 1
        /\ \A i \in 1 .. l : i \in 1 .. l + 1
        /\ l + 1 \in 1 .. l + 1 /\ \A i \in 1 .. l + 1 : ~(l + 1 < i)
    BY <2>1
  <2> HIDE DEF t, l
  <2>4. Elements(t) = Elements(s) \cup {m}
    <3>1. ASSUME NEW x \in Elements(t) PROVE x \in Elements(s) \cup {m}
      BY <2>1, <2>2, <2>3 DEF Elements
    <3>2. ASSUME NEW x \in Elements(s) PROVE x \in Elements(t)
      BY <2>1, <2>2, <2>3 DEF Elements
    <3>3. m \in Elements(t)
      BY <2>1, <2>2, <2>3 DEF Elements
    <3>4. QED
      BY <3>1, <3>2, <3>3
  <2>5. ASSUME Sorted(s), AllFollow(Elements(s), {m}) PROVE Sorted(t)
    <3>1. ASSUME NEW i \in 1 .. l + 1, NEW j \in 1 .. l + 1, i < j PROVE Follows(t[i], t[j])
      <4>1. i \in 1 .. l /\ t[i] = s[i]
        BY <2>1, <2>3, <3>1
      <4>2. CASE j \in 1 .. l
        BY <2>1, <2>2, <2>5, <3>1, <4>1, <4>2 DEF Sorted
      <4>3. CASE j = l + 1
        <5>1. t[j] = m /\ s[i] \in Elements(s)
          BY <2>1, <2>2, <4>1, <4>3 DEF Elements
        <5>2. QED
          BY <2>5, <4>1, <5>1 DEF AllFollow
      <4>4. QED
        BY <2>3, <4>2, <4>3
    <3>2. QED
      BY <2>2, <3>1 DEF Sorted
  <2>6. QED
    BY <2>4, <2>5 DEF t
<1>2. ASSUME s # <<>>
      PROVE  /\ Head(s) \in Elements(s)
             /\ Elements(s) = {Head(s)} \cup Elements(Tail(s))
             /\ Sorted(s) => Sorted(Tail(s)) /\ AllFollow({Head(s)}, Elements(Tail(s)))
  <2> DEFINE t == Tail(s)
             l == Len(s)
  <2>1. l \in Nat \ {0} /\ Head(s) = s[1] /\ \A i \in 1 .. l - 1 : t[i] = s[i + 1]
    BY <1>2
  <2>2. DOMAIN s = 1 .. l /\ DOMAIN t = 1 .. l - 1
    BY <1>2
  <2>3. /\ \A i \in 1 .. l - 1 : i + 1 \in 1 .. l /\ 1 < i + 1
        /\ \A i \in 1 .. l : i = 1 \/ (i - 1 \in 1 .. l - 1 /\ i = (i - 1) + 1)
        /\ 1 \in 1 .. l /\ \A i, j \in 1 .. l - 1 : i < j => i + 1 < j + 1
    BY <2>1
  <2> HIDE DEF t, l
  <2>4. Head(s) \in Elements(s)
    BY <2>1, <2>2, <2>3 DEF Elements
  <2>5. Elements(s) = {Head(s)} \cup Elements(t)
    <3>1. ASSUME NEW x \in Elements(s) PROVE x = Head(s) \/ x \in Elements(t)
      <4>1. PICK i \in 1 .. l : x = s[i]
        BY <2>2 DEF Elements
      <4>2. CASE i = 1
        BY <4>1, <4>2, <2>1
      <4>3. CASE i - 1 \in 1 .. l - 1 /\ i = (i - 1) + 1
        <5>1. x = t[i - 1]
          BY <2>1, <4>1, <4>3
        <5>2. QED
          BY <2>2, <4>3, <5>1 DEF Elements
      <4>4. QED
        BY <2>3, <4>2, <4>3
    <3>2. ASSUME NEW x \in Elements(t) PROVE x \in Elements(s)
      BY <2>1, <2>2, <2>3 DEF Elements
    <3>3. QED
      BY <2>4, <3>1, <3>2
  <2>6. ASSUME Sorted(s) PROVE Sorted(t) /\ AllFollow({Head(s)}, Elements(t))
    <3>1. ASSUME NEW i \in 1 .. l - 1, NEW j \in 1 .. l - 1, i < j PROVE Follows(t[i], t[j])
      BY <2>1, <2>2, <2>3, <2>6, <3>1 DEF Sorted
    <3>2. ASSUME NEW y \in Elements(t) PROVE Follows(Head(s), y)
      <4>1. PICK i \in 1 .. l - 1 : y = t[i]
        BY <2>2 DEF Elements
      <4>2. y = s[i + 1] /\ i + 1 \in 1 .. l /\ 1 < i + 1
        BY <2>1, <2>3, <4>1
      <4>3. QED
        BY <2>1, <2>2, <2>3, <2>6, <4>2 DEF Sorted
    <3>3. QED
      BY <2>2, <3>1, <3>2 DEF Sorted, AllFollow
  <2>7. QED
    BY <2>4, <2>5, <2>6 DEF t
<1>3. s = <<>> <=> Elements(s) = {}
  <2>1. s = <<>> => DOMAIN s = {}
    OBVIOUS
  <2>2. QED
    BY <1>2, <2>1 DEF Elements
<1>4. Elements(s) \subseteq S
  BY DEF Elements
<1>5. QED
  BY <1>1, <1>2, <1>3, <1>4

LEMMA AnsweredInit == Init => Answered
<1> SUFFICES ASSUME Init PROVE Answered
  OBVIOUS
<1>1. /\ inbox = <<>> /\ (\A o \in Op : chan[o] = <<>> /\ status[o] = "NONE" /\ tid[o] = 0)
      /\ handler.at = "idle" /\ endpoint
      /\ \A th \in Thread : thread[th].pc = "idle" /\ ret[th].out = "none"
      /\ \A t \in Tid : exchange[t].phase = "none"
  BY DEF Init, Asleep, Idle, Unused
<1>2. DOMAIN <<>> = {}
  OBVIOUS
<1>3. Elements(inbox) = {} /\ Sorted(inbox)
      /\ \A o \in Op : Elements(chan[o]) = {} /\ Sorted(chan[o]) /\ Arrived(o) = {}
  BY <1>1, <1>2 DEF Elements, Sorted, Arrived, Holding
<1>4. AllGenuine /\ InLine /\ Current
  BY <1>1, <1>3 DEF AllGenuine, InLine, Current, AllFollow
<1>5. Known /\ Agree
  BY <1>1 DEF Known, Agree
<1>6. CallsInStep /\ NoBadReturn
  BY <1>1 DEF CallsInStep, NoBadReturn, InCall, Transient, Begun
<1>7. QED
  BY <1>4, <1>5, <1>6 DEF Answered

\* A step that moves no message but one that is no answer.
LEMMA InPlace ==
  ASSUME InLine, UNCHANGED <<inbox, chan>>,
         \/ UNCHANGED handler
         \/ handler.at \notin {"lookup", "send"} /\ handler'.at = "idle"
  PROVE  /\ InLine'
         /\ Elements(inbox)' = Elements(inbox) /\ \A o \in Op : Elements(chan[o])' = Elements(chan[o])
         /\ \A o \in Op : Arrived(o)' = Arrived(o) /\ (tid'[o] = tid[o] => Pending(o)' = Pending(o))
<1>1. \A o \in Op : Holding(o)' = Holding(o)
  BY DEF Holding
<1>2. Elements(inbox)' = Elements(inbox) /\ \A o \in Op : Elements(chan[o])' = Elements(chan[o])
  BY DEF Elements
<1>3. \A o \in Op : Arrived(o)' = Arrived(o)
  BY <1>1, <1>2 DEF Arrived
<1>4. \A o \in Op : tid'[o] = tid[o] => Pending(o)' = Pending(o)
  BY <1>2, <1>3 DEF Pending
<1>5. InLine'
  BY <1>1, <1>2, <1>3 DEF InLine, Sorted, AllFollow, Capacity
<1>6. QED
  BY <1>2, <1>3, <1>4, <1>5

\* Moreover it tells the remote side nothing.
LEMMA Still ==
  ASSUME AllGenuine, InLine, UNCHANGED <<inbox, chan, exchange>>,
         \/ UNCHANGED handler
         \/ handler.at \notin {"lookup", "send"} /\ handler'.at = "idle"
  PROVE  /\ AllGenuine' /\ InLine'
         /\ \A o \in Op : /\ Arrived(o)' = Arrived(o)
                          /\ tid'[o] = tid[o] => Pending(o)' = Pending(o) /\ Phase(o)' = Phase(o)
<1>1. \A m : Genuine(m)' <=> Genuine(m)
  BY DEF Genuine
<1>2. AllGenuine'
  BY <1>1, InPlace DEF AllGenuine
<1>3. QED
  BY <1>2, InPlace DEF Phase

\* A step of the owner of o, as the calls see it.
LEMMA OwnerCalls ==
  ASSUME TypeOK, Exact, OwnerCloses, CallsInStep,
         NEW th \in Thread, NEW o \in Op, Owns(th, o),
         thread[th].pc # "idle" => thread[th].op = o,
         \A p \in Op : p # o => status'[p] = status[p] /\ (tid[p] # 0 => Phase(p)' = Phase(p)),
         \A u \in Thread : u # th => thread'[u] = thread[u] /\ ret'[u] = ret[u],
         thread'[th].pc \in InCall => InStep(th)',
         thread'[th].pc \notin {"interrupt", "stuck"},
         status'[o] \in Transient => Serving(th, o)',
         status'[o] # "REREGISTER_INITIATED",
         endpoint'
  PROVE  CallsInStep'
<1>1. \A u \in Thread : u # th /\ thread[u].pc \in InCall => thread[u].op \in Op \ {o}
  BY InsideOwns, OneOwner DEF InCall
<1>2. ASSUME NEW u \in Thread, thread'[u].pc \in InCall PROVE InStep(u)'
  <2>1. CASE u = th
    BY <1>2, <2>1
  <2>2. CASE u # th
    <3>1. thread[u].pc \in InCall /\ thread[u].op \in Op \ {o} /\ thread'[u] = thread[u] /\ ret'[u] = ret[u] /\ InStep(u)
      BY <1>1, <1>2, <2>2 DEF CallsInStep
    <3>2. tid[thread[u].op] # 0
      BY <3>1 DEF Exact, CallsOwned, ChannelsOpen, Live
    <3>3. status'[thread[u].op] = status[thread[u].op] /\ Phase(thread[u].op)' = Phase(thread[u].op)
      BY <3>1, <3>2
    <3>4. QED
      BY <3>1, <3>3 DEF InStep
  <2>3. QED
    BY <2>1, <2>2
<1>3. ASSUME NEW p \in Op, p # o, status'[p] \in Transient PROVE \E u \in Thread : Serving(u, p)'
  <2>1. PICK u \in Thread : Serving(u, p)
    BY <1>3 DEF CallsInStep
  <2>2. u # th
    BY <1>3, <2>1 DEF Serving, InCall
  <2>3. Serving(u, p)'
    BY <2>1, <2>2 DEF Serving
  <2>4. QED
    BY <2>3
<1>4. \A u \in Thread : thread'[u].pc \notin {"interrupt", "stuck"}
  BY DEF CallsInStep
<1>5. \A p \in Op : status'[p] # "REREGISTER_INITIATED"
  BY DEF CallsInStep
<1>6. QED
  BY <1>2, <1>3, <1>4, <1>5 DEF CallsInStep

\* A step of the owner of o that moves no message.
LEMMA OwnerAnswers ==
  ASSUME TypeOK, TypeOK', Exact, OwnerCloses, Answered,
         NEW th \in Thread, NEW o \in Op, Owns(th, o),
         thread[th].pc # "idle" => thread[th].op = o,
         UNCHANGED <<inbox, chan, handler, exchange, tid, txcounter, endpoint>>,
         \A p \in Op : p # o => status'[p] = status[p],
         \A u \in Thread : u # th => thread'[u] = thread[u] /\ ret'[u] = ret[u],
         ret'[th].out # "bad",
         thread'[th].pc \in InCall => InStep(th)',
         thread'[th].pc \notin {"interrupt", "stuck"},
         status'[o] \in Transient => Serving(th, o)',
         status'[o] # "REREGISTER_INITIATED",
         status'[o] \notin {"NONE", "CLOSED"} => AgreeOn(o)',
         status'[o] = "CLOSED" \/ (status[o] # "CLOSED" /\ (status'[o] \in Live \/ Arrived(o) = {}))
  PROVE  Answered'
<1>1. /\ AllGenuine' /\ InLine'
      /\ \A p \in Op : Arrived(p)' = Arrived(p) /\ Pending(p)' = Pending(p) /\ Phase(p)' = Phase(p)
  BY Still DEF Answered
<1>2. Current'
  BY <1>1 DEF Answered, Current
<1>3. Known'
  BY <1>1 DEF Answered, Known
<1>4. \A p \in Op : p # o /\ AgreeOn(p) => AgreeOn(p)'
  BY <1>1 DEF AgreeOn
<1>5. Agree'
  BY <1>4 DEF Answered, Agree
<1>6. CallsInStep'
  BY <1>1, OwnerCalls DEF Answered, CallsInStep
<1>7. NoBadReturn'
  BY DEF Answered, NoBadReturn
<1>8. QED
  BY <1>1, <1>2, <1>3, <1>5, <1>6, <1>7 DEF Answered

\* A step that no call sees: what a goroutine between two calls reads, an error
\* that is buffered, a channel that is closed.
LEMMA UnseenAnswers ==
  ASSUME TypeOK, Answered, UNCHANGED <<inbox, chan, exchange, tid, txcounter, endpoint, status>>,
         \/ UNCHANGED handler
         \/ handler.at \notin {"lookup", "send"} /\ handler'.at = "idle",
         \A u \in Thread : \/ thread'[u] = thread[u] /\ ret'[u] = ret[u]
                           \/ /\ thread[u].pc \in {"idle", "close"} /\ thread'[u].pc \in {"idle", "close"}
                              /\ ret'[u].out # "bad"
  PROVE  Answered'
<1>1. /\ AllGenuine' /\ InLine'
      /\ \A p \in Op : Arrived(p)' = Arrived(p) /\ Pending(p)' = Pending(p) /\ Phase(p)' = Phase(p)
  BY Still DEF Answered
<1>2. Current' /\ Known'
  BY <1>1 DEF Answered, Current, Known
<1>3. Agree'
  BY <1>1 DEF Answered, Agree, AgreeOn
<1>4. \A u \in Thread : thread'[u].pc \in InCall \cup {"interrupt", "stuck"}
                          => thread'[u] = thread[u] /\ ret'[u] = ret[u]
  BY DEF InCall
<1>5. \A u \in Thread : thread'[u].pc \in InCall => InStep(u)'
  <2>1. SUFFICES ASSUME NEW u \in Thread, thread'[u].pc \in InCall PROVE InStep(u)'
    OBVIOUS
  <2>2. thread'[u] = thread[u] /\ ret'[u] = ret[u] /\ thread[u].op \in Op /\ InStep(u)
    BY <1>4, <2>1 DEF Answered, CallsInStep, TypeOK, ActorsTypeOK, InCall
  <2>3. QED
    BY <1>1, <2>2 DEF InStep
<1>6. \A u \in Thread, o \in Op : Serving(u, o) => Serving(u, o)'
  BY DEF Serving, InCall
<1>7. CallsInStep'
  BY <1>4, <1>5, <1>6 DEF Answered, CallsInStep
<1>8. NoBadReturn'
  BY DEF Answered, NoBadReturn
<1>9. QED
  BY <1>1, <1>2, <1>3, <1>7, <1>8 DEF Answered

\* A constructor or Reset: nothing has arrived, and the id is new to everybody.
LEMMA AllocatedAnswers ==
  ASSUME TypeOK, TypeOK', Answered, NEW o \in Op, status[o] \in {"NONE", "FINAL"},
         \A u \in Thread : thread[u].pc \in InCall => thread[u].op # o,
         txcounter < MaxTid, txcounter' = txcounter + 1,
         tid' = [tid EXCEPT ![o] = txcounter + 1],
         status' = [status EXCEPT ![o] = "CREATED"],
         UNCHANGED <<inbox, chan, handler, exchange, thread, endpoint>>,
         \A u \in Thread : \/ ret'[u] = ret[u]
                           \/ thread[u].pc = "idle" /\ ret'[u].out # "bad"
  PROVE  Answered'
<1>1. /\ status'[o] = "CREATED" /\ tid'[o] = txcounter + 1
      /\ \A p \in Op : p # o => status'[p] = status[p] /\ tid'[p] = tid[p]
  BY DEF TypeOK, OpsTypeOK
<1>2. txcounter + 1 \in Tid /\ txcounter + 1 > txcounter /\ \A t : t \in Tid /\ t > txcounter' => t > txcounter
  BY BoundAssumption DEF TypeOK, ContextTypeOK, Tid
<1>3. /\ AllGenuine' /\ InLine'
      /\ \A p \in Op : /\ Arrived(p)' = Arrived(p)
                       /\ p # o => Pending(p)' = Pending(p) /\ Phase(p)' = Phase(p)
  BY <1>1, Still DEF Answered
<1>4. Arrived(o) = {}
  BY DEF Answered, Current, Live
<1>5. Current'
  BY <1>1, <1>3, <1>4 DEF Answered, Current
<1>6. exchange'[tid'[o]].phase = "none"
  BY <1>1, <1>2 DEF Answered, Known
<1>7. Known'
  BY <1>1, <1>2, <1>3, <1>6 DEF Answered, Known, Phase
<1>8. AgreeOn(o)'
  BY <1>1, <1>6 DEF AgreeOn, Phase, Begun, Live
<1>9. \A p \in Op : p # o /\ AgreeOn(p) => AgreeOn(p)'
  BY <1>1, <1>3 DEF AgreeOn
<1>10. Agree'
  BY <1>1, <1>8, <1>9 DEF Answered, Agree
<1>11. \A u \in Thread : thread'[u].pc \in InCall => InStep(u)'
  <2>1. SUFFICES ASSUME NEW u \in Thread, thread'[u].pc \in InCall PROVE InStep(u)'
    OBVIOUS
  <2>2. /\ thread'[u] = thread[u] /\ ret'[u] = ret[u] /\ InStep(u)
        /\ thread[u].op \in Op \ {o}
    BY <2>1 DEF Answered, CallsInStep, TypeOK, ActorsTypeOK, InCall
  <2>3. status'[thread[u].op] = status[thread[u].op] /\ Phase(thread[u].op)' = Phase(thread[u].op)
    BY <1>1, <1>3, <2>2
  <2>4. QED
    BY <2>2, <2>3 DEF InStep
<1>12. \A p \in Op : /\ status'[p] \in Transient => \E u \in Thread : Serving(u, p)'
                     /\ status'[p] # "REREGISTER_INITIATED"
  <2>1. TAKE p \in Op
  <2>2. CASE p = o
    BY <1>1, <2>2 DEF Transient, Begun
  <2>3. CASE p # o
    BY <1>1, <2>3 DEF Answered, CallsInStep, Serving
  <2>4. QED
    BY <2>2, <2>3
<1>13. CallsInStep'
  BY <1>11, <1>12 DEF Answered, CallsInStep
<1>14. NoBadReturn'
  BY DEF Answered, NoBadReturn
<1>15. QED
  BY <1>3, <1>5, <1>7, <1>10, <1>13, <1>14 DEF Answered

LEMMA NewAnswers ==
  ASSUME TypeOK, TypeOK', Exact, Answered, NEW o \in Op, New(o)
  PROVE  Answered'
<1>1. /\ status[o] = "NONE" /\ txcounter < MaxTid /\ txcounter' = txcounter + 1
      /\ tid' = [tid EXCEPT ![o] = txcounter + 1] /\ status' = [status EXCEPT ![o] = "CREATED"]
      /\ UNCHANGED <<inbox, chan, handler, exchange, thread, endpoint, ret>>
  BY DEF New, NextTid
<1>2. \A u \in Thread : thread[u].pc \in InCall => thread[u].op # o
  BY <1>1 DEF Exact, CallsOwned, Live
<1>3. QED
  BY <1>1, <1>2, AllocatedAnswers

LEMMA ResetAnswers ==
  ASSUME TypeOK, TypeOK', Exact, Answered, NEW th \in Thread, NEW o \in Op, Reset(th, o)
  PROVE  Answered'
<1>1. /\ status[o] = "FINAL" /\ thread[th].pc = "idle" /\ txcounter < MaxTid /\ txcounter' = txcounter + 1
      /\ tid' = [tid EXCEPT ![o] = txcounter + 1] /\ status' = [status EXCEPT ![o] = "CREATED"]
      /\ UNCHANGED <<inbox, chan, handler, exchange, thread, endpoint>>
      /\ ret' = [ret EXCEPT ![th] = [out |-> "ok", msg |-> Nil]]
  BY DEF Reset, MayCall, Resettable, NextTid, Returned
<1>2. \A u \in Thread : thread[u].pc \in InCall => thread[u].op # o
  BY <1>1 DEF Exact, CallsOwned, Live
<1>3. ret'[th].out = "ok" /\ \A u \in Thread : u # th => ret'[u] = ret[u]
  BY <1>1 DEF TypeOK, ActorsTypeOK
<1>4. QED
  BY <1>1, <1>2, <1>3, AllocatedAnswers

\* A method is entered: its status is one that no other call leaves.
LEMMA BeginAnswers ==
  ASSUME TypeOK, TypeOK', Exact, OwnerCloses, Answered,
         NEW th \in Thread, NEW o \in Op, NEW c \in Calls, Begin(th, o, c)
  PROVE  Answered'
<1> DEFINE p == Pattern[o]
<1>0. p \in Patterns
  BY PatternAssumption
<1>1. /\ <<th, o, c>> \in Program /\ thread[th].pc = "idle" /\ c \in Methods(p)
      /\ status[o] \in GoodStatus(p, c)
      /\ UNCHANGED <<inbox, chan, handler, exchange, tid, txcounter, endpoint>>
  BY DEF Begin, MayCall, cctxVars
<1>2. /\ thread'[th].pc = FirstPc(p, c) /\ thread'[th].op = o /\ thread'[th].call = c
      /\ ret'[th].out = "pending" /\ ret'[th].msg = Nil
      /\ \A u \in Thread : u # th => thread'[u] = thread[u] /\ ret'[u] = ret[u]
  BY DEF Begin, Returned, TypeOK, ActorsTypeOK
<1>3. /\ status'[o] = BeginStatus(p, c, status[o])
      /\ \A q \in Op : q # o => status'[q] = status[q]
  BY DEF Begin, TypeOK, OpsTypeOK
<1>4. c # "Interrupt" /\ Owns(th, o)
  BY <1>1 DEF Methods, Owns
<1>5. status[o] \notin Transient /\ status[o] # "REREGISTER_INITIATED"
  <2>1. SUFFICES ASSUME status[o] \in Transient PROVE FALSE
    BY DEF Answered, CallsInStep
  <2>2. PICK u \in Thread : Serving(u, o)
    BY <2>1 DEF Answered, CallsInStep
  <2>3. u = th
    BY <1>4, <2>2, InsideOwns, OneOwner DEF Serving
  <2>4. QED
    BY <1>1, <2>2, <2>3 DEF Serving, InCall
<1>6. Phase(o)' = Phase(o) /\ Pending(o)' = Pending(o) /\ AgreeOn(o)
  BY <1>1, <1>5, Still DEF Answered, Agree, GoodStatus
<1>7. FirstPc(p, c) \in InCall /\ FirstPc(p, c) \notin {"interrupt", "stuck", "wait"}
  BY DEF FirstPc, InCall
<1> HIDE DEF p
<1>8. CASE c = "Initiate"
  <2>1. status[o] = "CREATED" /\ status'[o] = BeginStatus(p, c, "CREATED") /\ status'[o] \in Begun /\ Phase(o) = "none"
    BY <1>1, <1>3, <1>6, <1>8 DEF GoodStatus, BeginStatus, Begun, AgreeOn
  <2>2. FirstPc(p, c) \in {"register", "send"}
    BY <1>8 DEF FirstPc
  <2>3. InStep(th)'
    BY <1>1, <1>2, <1>6, <1>8, <2>1, <2>2 DEF InStep, p
  <2>4. AgreeOn(o)'
    BY <1>6, <2>1 DEF AgreeOn, Begun, Live
  <2>5. Arrived(o) = {} /\ status'[o] \in Live /\ status'[o] # "REREGISTER_INITIATED"
    BY <2>1 DEF Answered, Current, Live, Begun
  <2>6. Serving(th, o)'
    BY <1>2, <1>7 DEF Serving
  <2>7. QED
    BY <1>1, <1>2, <1>3, <1>4, <1>7, <2>1, <2>3, <2>4, <2>5, <2>6, OwnerAnswers
<1>9. CASE c = "Deregister"
  <2>1. status[o] = "REGISTERED" /\ status'[o] = "DEREGISTER_INITIATED" /\ Phase(o) \in {"registered", "published"}
    BY <1>1, <1>3, <1>6, <1>9 DEF GoodStatus, BeginStatus, AgreeOn
  <2>2. FirstPc(p, c) = "send"
    BY <1>9 DEF FirstPc
  <2>3. InStep(th)'
    BY <1>1, <1>2, <1>6, <1>9, <2>1, <2>2 DEF InStep, p
  <2>4. AgreeOn(o)'
    BY <1>6, <2>1 DEF AgreeOn, Begun, Live
  <2>5. Serving(th, o)' /\ status'[o] \in Live
    BY <1>2, <1>7, <2>1 DEF Serving, Live
  <2>6. QED
    BY <1>1, <1>2, <1>3, <1>4, <1>7, <2>1, <2>3, <2>4, <2>5, OwnerAnswers
<1>10. CASE c \notin {"Initiate", "Deregister"}
  <2>1. status'[o] = status[o] /\ status[o] \in Live \ Transient
    BY <1>1, <1>3, <1>5, <1>10 DEF GoodStatus, BeginStatus, Live, Transient, Begun, Methods
  <2>2. c \in {"GetNotify", "Publish"} => status[o] = "REGISTERED"
    BY <1>1, <1>5 DEF GoodStatus, Transient
  <2>3. /\ FirstPc(p, c) # "register" /\ (FirstPc(p, c) = "send" => c = "Publish")
        /\ FirstPc(p, c) = "await" => c # "Publish"
    BY <1>10 DEF FirstPc
  <2>4. InStep(th)'
    BY <1>1, <1>2, <1>6, <1>7, <1>10, <2>1, <2>2, <2>3 DEF InStep, p, InCall
  <2>5. AgreeOn(o)'
    BY <1>6, <2>1 DEF AgreeOn
  <2>6. Serving(th, o)' /\ status'[o] \notin {"NONE", "CLOSED", "REREGISTER_INITIATED"} /\ status[o] # "CLOSED"
    BY <1>2, <1>5, <1>7, <2>1 DEF Serving, Live
  <2>7. QED
    BY <1>1, <1>2, <1>3, <1>4, <1>7, <2>1, <2>4, <2>5, <2>6, OwnerAnswers
<1>11. QED
  BY <1>8, <1>9, <1>10

\* registerOp and the wait: the call goes on.
LEMMA GoingAnswers ==
  ASSUME TypeOK, TypeOK', Exact, IdsFresh, OwnerCloses, Answered,
         NEW th \in Thread, RegisterOp(th) \/ Await(th)
  PROVE  Answered'
<1>1. PICK o \in Op : thread[th].op = o /\ Owns(th, o)
  BY InsideOwns DEF RegisterOp, Await, InCall
<1>2. thread[th].pc \in {"register", "await"} /\ InStep(th) /\ Serving(th, o) /\ status[o] \in Live
  BY <1>1 DEF RegisterOp, Await, Answered, CallsInStep, InCall, Exact, CallsOwned, Serving
<1>3. PICK pc \in {"send", "wait"} :
        /\ thread' = At(th, pc)
        /\ thread[th].pc = "register" <=> pc = "send"
        /\ UNCHANGED <<inbox, chan, handler, exchange, tid, txcounter, endpoint, status, ret>>
  <2>1. CASE RegisterOp(th)
    <3>1. operations[tid[o]] = NoOp
      BY <1>1, <2>1 DEF IdsFresh, Ready, Registering, RegisterOp
    <3>2. QED
      BY <1>1, <2>1, <3>1 DEF RegisterOp
  <2>2. CASE Await(th)
    <3>1. open[o]
      BY <1>1, <1>2, <2>2 DEF Await, Exact, CallsOwned, InCall, ChannelsOpen, Live
    <3>2. QED
      BY <1>1, <2>2, <3>1 DEF Await, opVars, cctxVars
  <2>3. QED
    BY <2>1, <2>2
<1>4. /\ thread'[th].pc = pc /\ thread'[th].op = o /\ thread'[th].call = thread[th].call
      /\ \A u \in Thread : u # th => thread'[u] = thread[u]
  BY <1>1, <1>3, Moved DEF Pcs
<1>5. Phase(o)' = Phase(o) /\ Pending(o)' = Pending(o)
  BY <1>3, Still DEF Answered
<1>6. InStep(th)'
  BY <1>1, <1>2, <1>3, <1>4, <1>5 DEF InStep
<1>7. AgreeOn(o)'
  BY <1>2, <1>3, <1>5 DEF Answered, Agree, AgreeOn, Live
<1>8. Serving(th, o)' /\ pc \notin {"interrupt", "stuck"}
  BY <1>4, <1>3 DEF Serving, InCall
<1>9. status'[o] # "REREGISTER_INITIATED" /\ status[o] # "CLOSED" /\ ret'[th].out # "bad"
  BY <1>2, <1>3 DEF Answered, CallsInStep, Live, NoBadReturn
<1>10. QED
  BY <1>1, <1>2, <1>3, <1>4, <1>6, <1>7, <1>8, <1>9, OwnerAnswers DEF Serving, InCall

\* A request, a PUBLISH or a DEREGISTER that is refused ends the operation, for
\* which nothing has arrived.
LEMMA RefusedAnswers ==
  ASSUME TypeOK, TypeOK', Exact, Undisturbed, Answered,
         NEW th \in Thread, TransmitFails(th)
  PROVE  Answered'
<1>0. OwnerCloses
  BY DEF Undisturbed
<1>1. PICK o \in Op : thread[th].op = o /\ Owns(th, o)
  BY InsideOwns DEF TransmitFails, InCall
<1>2. /\ thread[th].pc = "send" /\ InStep(th) /\ Serving(th, o) /\ status[o] \in Live /\ SendErrors
      /\ <<th, o, thread[th].call>> \in Program
  BY <1>1 DEF TransmitFails, Answered, CallsInStep, InCall, Exact, CallsOwned, Serving
<1>3. /\ status' = FinalStatus(o) /\ thread' = Done(th) /\ ret' = Returned(th, "send", Nil)
      /\ UNCHANGED <<inbox, chan, handler, exchange, tid, txcounter, endpoint>>
  BY <1>1 DEF TransmitFails
<1>4. /\ thread'[th] = Idle /\ ret'[th].out = "send"
      /\ \A u \in Thread : u # th => thread'[u] = thread[u] /\ ret'[u] = ret[u]
      /\ status'[o] = "FINAL" /\ \A p \in Op : p # o => status'[p] = status[p]
  BY <1>3 DEF FinalStatus, Done, Returned, TypeOK, OpsTypeOK, ActorsTypeOK
<1>5. Arrived(o) = {}
  <2>1. SUFFICES ASSUME NEW m \in Arrived(o) PROVE FALSE
    OBVIOUS
  <2>2. m.tid = tid[o] /\ m.type = Pattern[o]
    BY <1>2, <2>1 DEF Answered, Current, Live
  <2>3. Genuine(m) /\ m.stage # "PUBLISH"
    BY <2>1 DEF Arrived, Holding, Answered, AllGenuine
  <2>4. Phase(o) \notin {"none", "requested"} /\ (Last(m) => Phase(o) = "done")
    BY <2>2, <2>3 DEF Genuine, Phase
  <2>5. thread[th].call \in {"Publish", "Deregister"}
    BY <1>1, <1>2, <2>4 DEF InStep
  <2>6. Pattern[o] = "Publisher"
    BY <1>1, <1>2, <2>5, PatternAssumption DEF InStep, Methods, Undisturbed
  <2>7. status[o] \in Live \ Begun /\ Phase(o) \in {"registered", "published"}
    BY <1>1, <1>2, <2>5 DEF InStep, Answered, Agree, AgreeOn, Live, Begun
  <2>8. ~Opening(m)
    BY <2>1, <2>7 DEF Answered, Agree, AgreeOn, Pending, Live
  <2>9. PICK r \in Protocol : m.type = r.type /\ m.stage = r.stage
    BY <2>3 DEF Genuine
  <2>10. m.stage \in {"ACK", "PUBLISH", "DEREGISTER_ACK"}
    BY <2>2, <2>6, <2>9 DEF Protocol, Step
  <2>11. QED
    BY <2>3, <2>4, <2>7, <2>8, <2>10 DEF Opening, Last
<1>6. QED
  BY <1>0, <1>1, <1>2, <1>3, <1>4, <1>5, OwnerAnswers DEF Idle, InCall, Transient, Begun, AgreeOn, Live, Serving

\* Close: nothing of the operation matters any more.
LEMMA CloseAnswers ==
  ASSUME TypeOK, TypeOK', Exact, OwnerCloses, Answered,
         NEW th \in Thread, NEW o \in Op, Close(th, o)
  PROVE  Answered'
<1>1. /\ <<th, o, "Close">> \in Program /\ thread[th].pc = "idle" /\ CloseOp(th, o, "Close")
      /\ UNCHANGED <<inbox, chan, handler, exchange, tid, txcounter, endpoint>>
  BY DEF Close, MayCall
<1>2. Owns(th, o)
  BY <1>1 DEF Owns, Calls
<1>3. status'[o] = "CLOSED" /\ \A p \in Op : p # o => status'[p] = status[p]
  BY <1>1 DEF CloseOp, TypeOK, OpsTypeOK
<1>4. /\ thread'[th].pc \in {"idle", "close"} /\ ret'[th].out # "bad"
      /\ \A u \in Thread : u # th => thread'[u] = thread[u] /\ ret'[u] = ret[u]
  BY <1>1 DEF CloseOp, Returned, TypeOK, ActorsTypeOK, Answered, NoBadReturn
<1>5. QED
  BY <1>1, <1>2, <1>3, <1>4, OwnerAnswers DEF InCall, Transient, Begun

\* The rest of Close, a response or an error that is read again.
LEMMA OthersAnswer ==
  ASSUME TypeOK, Exact, Undisturbed, Answered, NEW th \in Thread,
         \/ \E o \in Op : CachedResponse(th, o) \/ GetPublishError(th, o) \/ Interrupt(th, o)
         \/ InterruptBuffered(th) \/ CloseChannel(th)
  PROVE  Answered'
<1>1. ASSUME NEW o \in Op, CachedResponse(th, o) \/ GetPublishError(th, o) PROVE Answered'
  <2>1. \A u \in Thread : ret'[u] = ret[u] \/ (u = th /\ ret'[u].out # "bad")
    <3>1. CASE CachedResponse(th, o)
      BY <3>1 DEF CachedResponse, Returned, TypeOK, ActorsTypeOK
    <3>2. CASE GetPublishError(th, o)
      BY <3>2 DEF GetPublishError, Returned, TypeOK, ActorsTypeOK
    <3>3. QED
      BY <1>1, <3>1, <3>2
  <2>2. /\ UNCHANGED <<inbox, chan, exchange, tid, txcounter, endpoint, status, handler, thread>>
        /\ thread[th].pc = "idle"
    BY <1>1 DEF CachedResponse, GetPublishError, MayCall, opVars, cctxVars
  <2>3. QED
    BY <2>1, <2>2, UnseenAnswers
<1>2. \A o \in Op : ~Interrupt(th, o)
  BY DEF Undisturbed, Interrupt, MayCall
<1>3. ~InterruptBuffered(th)
  BY DEF InterruptBuffered, Answered, CallsInStep
<1>4. CASE CloseChannel(th)
  <2>1. thread[th].pc = "close" /\ thread[th].call = "Close"
    BY <1>4 DEF CloseChannel, Exact, ClosesOwned
  <2>2. /\ thread' = [thread EXCEPT ![th] = Idle]
        /\ UNCHANGED <<inbox, chan, exchange, tid, txcounter, endpoint, status, handler, ret>>
    BY <1>4, <2>1 DEF CloseChannel, Done, cctxVars
  <2>3. thread'[th].pc = "idle" /\ \A u \in Thread : u # th => thread'[u] = thread[u]
    BY <2>2 DEF TypeOK, ActorsTypeOK, Idle
  <2>4. ret'[th].out # "bad"
    BY <2>2 DEF Answered, NoBadReturn
  <2>5. QED
    BY <2>1, <2>2, <2>3, <2>4, UnseenAnswers
<1>5. QED
  BY <1>1, <1>2, <1>3, <1>4

LEMMA ExchangeOf ==
  ASSUME TypeOK, NEW t \in Tid
  PROVE  exchange[t] \in [type : Patterns, phase : Phases, count : 0 .. MaxReplies]
  BY DEF TypeOK, RemoteTypeOK

\* A request, a PUBLISH or a DEREGISTER reaches the remote side; the last message
\* of the transaction has not been sent before it.
LEMMA TransmitAnswers ==
  ASSUME TypeOK, TypeOK', Exact, IdsFresh, OwnerCloses, Answered,
         NEW th \in Thread, Transmit(th)
  PROVE  Answered'
<1>1. PICK o \in Op : thread[th].op = o /\ Owns(th, o)
  BY InsideOwns DEF Transmit, InCall
<1> DEFINE p == Pattern[o]
           c == thread[th].call
           t == tid[o]
<1>2. /\ thread[th].pc = "send" /\ InStep(th) /\ Serving(th, o) /\ status[o] \in Live
      /\ c \in {"Initiate", "Publish", "Deregister"} /\ c \in Methods(p)
  BY <1>1 DEF Transmit, Answered, CallsInStep, InStep, InCall, Exact, CallsOwned, Serving
<1>3. t \in Tid /\ t # 0 /\ \A q \in Op : q # o => tid[q] # t
  BY <1>2 DEF Exact, ChannelsOpen, Live, IdsFresh, TypeOK, OpsTypeOK
<1>4. /\ c = "Initiate" => exchange[t].phase = "none"
      /\ c # "Initiate" => exchange[t].phase \in {"registered", "published"} /\ status[o] \in Live \ Begun
      /\ c = "Publish" => status[o] = "REGISTERED"
      /\ c = "Deregister" => status[o] = "DEREGISTER_INITIATED"
      /\ status[o] \in Begun <=> c = "Initiate"
  BY <1>1, <1>2 DEF InStep, Answered, Agree, AgreeOn, Phase, Live, Begun, BeginStatus
<1>5. /\ exchange'[t].phase = CASE c = "Initiate" -> "requested" [] c = "Deregister" -> "deregistering" [] OTHER -> "published"
      /\ exchange'[t].type = IF c = "Initiate" THEN p ELSE exchange[t].type
      /\ \A u \in Tid : u # t => exchange'[u] = exchange[u]
  <2>1. exchange' = [exchange EXCEPT ![t] = Requested(o, c)]
    BY <1>1 DEF Transmit
  <2>2. exchange'[t] = Requested(o, c) /\ \A u \in Tid : u # t => exchange'[u] = exchange[u]
    BY <1>3, <2>1 DEF TypeOK, RemoteTypeOK
  <2>3. exchange[t] \in [type : Patterns, phase : Phases, count : 0 .. MaxReplies]
    BY <1>3, ExchangeOf
  <2>4. CASE c = "Initiate"
    BY <2>2, <2>3, <2>4 DEF Requested
  <2>5. CASE c = "Deregister"
    BY <2>2, <2>3, <2>5 DEF Requested
  <2>6. CASE c = "Publish" /\ exchange[t].phase = "registered"
    BY <2>2, <2>3, <2>6 DEF Requested
  <2>7. CASE c = "Publish" /\ exchange[t].phase # "registered"
    BY <1>4, <2>2, <2>3, <2>7 DEF Requested
  <2>8. QED
    BY <1>2, <2>4, <2>5, <2>6, <2>7
<1>6. UNCHANGED <<inbox, chan, handler, tid, txcounter, endpoint>>
  BY DEF Transmit, cctxVars
<1>7. /\ InLine'
      /\ \A q \in Op : Arrived(q)' = Arrived(q) /\ Pending(q)' = Pending(q)
      /\ \A q \in Op : Elements(chan[q])' = Elements(chan[q])
      /\ Elements(inbox)' = Elements(inbox)
  BY <1>6, InPlace DEF Answered
<1>8. \A m : Genuine(m) => Genuine(m)'
  <2>1. SUFFICES ASSUME NEW m, Genuine(m), m.tid = t PROVE Genuine(m)'
    BY <1>5 DEF Genuine
  <2>2. c # "Initiate" /\ ~Last(m) /\ exchange[t].type = m.type
    BY <1>4, <2>1 DEF Genuine
  <2>3. QED
    BY <1>2, <1>5, <2>1, <2>2 DEF Genuine
<1>9. AllGenuine'
  BY <1>6, <1>7, <1>8 DEF Answered, AllGenuine
<1>10. \A q \in Op : q # o /\ tid[q] # 0 => Phase(q)' = Phase(q)
  BY <1>3, <1>5, <1>6 DEF Phase, TypeOK, OpsTypeOK
<1>11. Phase(o)' = exchange'[t].phase /\ Phase(o) = exchange[t].phase
  BY <1>6 DEF Phase
<1>12. Known'
  <2>1. \A u \in Tid : u > txcounter => exchange'[u].phase = "none"
    <3>1. ~(t > txcounter)
      BY <1>3 DEF IdsFresh, TypeOK, ContextTypeOK, OpsTypeOK, Tid
    <3>2. QED
      BY <1>5, <3>1 DEF Answered, Known
  <2>2. ASSUME NEW q \in Op, tid[q] # 0, Phase(q)' # "none" PROVE exchange'[tid[q]].type = Pattern[q]
    <3>1. CASE q = o
      <4>1. CASE c = "Initiate"
        BY <1>5, <3>1, <4>1
      <4>2. CASE c # "Initiate"
        <5>1. Phase(o) # "none"
          BY <1>4, <4>2 DEF Phase
        <5>2. QED
          BY <1>3, <1>5, <3>1, <4>2, <5>1 DEF Answered, Known
      <4>3. QED
        BY <4>1, <4>2
    <3>2. CASE q # o
      BY <1>3, <1>5, <1>10, <2>2, <3>2, ZenonT(30) DEF Answered, Known, TypeOK, OpsTypeOK
    <3>3. QED
      BY <3>1, <3>2
  <2>3. QED
    BY <1>6, <2>1, <2>2 DEF Known
<1>13. \A q \in Op : q # o => status'[q] = status[q]
  BY <1>1 DEF Transmit, FinalStatus, TypeOK, OpsTypeOK
<1>14. \A q \in Op : q # o /\ status[q] \notin {"NONE", "CLOSED"} => AgreeOn(q)'
  BY <1>7, <1>10, <1>13 DEF Answered, Agree, AgreeOn, Exact, ChannelsOpen
<1>15. /\ p = "Send" => status'[o] = "FINAL"
       /\ p # "Send" => status'[o] = status[o]
       /\ \/ thread' = Done(th) /\ ret' = Returned(th, "ok", Nil) /\ ~Waits(p, c)
          \/ thread' = At(th, "await") /\ ret' = ret /\ Waits(p, c)
  BY <1>1 DEF Transmit, FinalStatus, TypeOK, OpsTypeOK
<1>16. /\ thread'[th].pc = IF Waits(p, c) THEN "await" ELSE "idle"
       /\ Waits(p, c) => thread'[th].op = o /\ thread'[th].call = c /\ ret'[th] = ret[th]
       /\ ret'[th].out # "bad"
       /\ \A u \in Thread : u # th => thread'[u] = thread[u] /\ ret'[u] = ret[u]
  <2>1. CASE thread' = Done(th) /\ ret' = Returned(th, "ok", Nil) /\ ~Waits(p, c)
    BY <2>1 DEF Done, Idle, Returned, TypeOK, ActorsTypeOK
  <2>2. CASE thread' = At(th, "await") /\ ret' = ret /\ Waits(p, c)
    <3>1. "await" \in Pcs
      BY DEF Pcs
    <3>2. /\ thread'[th].pc = "await" /\ thread'[th].op = o /\ thread'[th].call = c
          /\ \A u \in Thread : u # th => thread'[u] = thread[u]
      BY <1>1, <2>2, <3>1, Moved
    <3>3. ret'[th].out # "bad"
      BY <2>2 DEF Answered, NoBadReturn
    <3>4. QED
      BY <2>2, <3>2, <3>3
  <2>3. QED
    BY <1>15, <2>1, <2>2
<1>17. p = "Send" => c = "Initiate"
  BY <1>2 DEF Methods
<1>18. Waits(p, c) <=> p # "Send" /\ c # "Publish"
  BY DEF Waits
<1> HIDE DEF p, c, t
<1>19. AgreeOn(o)'
  <2>1. CASE p = "Send"
    BY <1>15, <2>1 DEF AgreeOn, Begun, Live
  <2>2. CASE p # "Send" /\ c = "Initiate"
    BY <1>4, <1>5, <1>11, <1>15, <2>2 DEF AgreeOn, Begun
  <2>3. CASE c # "Initiate"
    <3>1. status'[o] = status[o] /\ AgreeOn(o)
      BY <1>2, <1>15, <1>17, <2>3 DEF Answered, Agree, Live
    <3>2. exchange'[t].phase \in {"deregistering", "published"} /\ (status[o] = "REGISTERED" => exchange'[t].phase = "published")
      BY <1>2, <1>4, <1>5, <2>3
    <3>3. QED
      BY <1>4, <1>7, <1>11, <2>3, <3>1, <3>2 DEF AgreeOn, Begun, Live
  <2>4. QED
    BY <2>1, <2>2, <2>3
<1>20. Agree'
  BY <1>13, <1>14, <1>19 DEF Agree
<1>21. Current'
  <2>1. p = "Send" => Arrived(o) = {}
    <3>1. SUFFICES ASSUME p = "Send", NEW m \in Arrived(o) PROVE FALSE
      OBVIOUS
    <3>2. m.tid = t /\ Genuine(m)
      BY <1>2, <3>1 DEF Answered, Current, AllGenuine, Arrived, Holding, Live, t
    <3>3. QED
      BY <1>4, <1>17, <3>1, <3>2 DEF Genuine
  <2>2. QED
    BY <1>6, <1>7, <1>13, <1>15, <2>1 DEF Answered, Current, p
<1>22. CallsInStep'
  <2>1. ASSUME Waits(p, c) PROVE InStep(th)'
    <3>1. status'[o] = status[o] /\ thread'[th].pc = "await" /\ thread'[th].op = o
          /\ thread'[th].call = c /\ ret'[th] = ret[th] /\ c # "Publish"
      BY <1>15, <1>16, <1>18, <2>1
    <3>2. (c = "Initiate" => Phase(o)' = "requested") /\ c = thread[th].call /\ p = Pattern[o]
      BY <1>5, <1>11 DEF c, p
    <3>3. QED
      BY <1>1, <1>2, <3>1, <3>2 DEF InStep
  <2>2. Waits(p, c) => Serving(th, o)'
    BY <1>16 DEF Serving, InCall
  <2>3. status'[o] \in Transient => Waits(p, c)
    BY <1>2, <1>4, <1>15, <1>18 DEF Transient, Begun
  <2>4. thread'[th].pc \in {"await", "idle"} /\ (thread'[th].pc \in InCall => Waits(p, c))
    BY <1>16 DEF InCall
  <2>5. status'[o] # "REREGISTER_INITIATED" /\ endpoint' /\ CallsInStep
    BY <1>6, <1>15 DEF Answered, CallsInStep
  <2>6. QED
    BY <1>1, <1>10, <1>13, <1>16, <2>1, <2>2, <2>3, <2>4, <2>5, OwnerCalls
<1>23. NoBadReturn'
  BY <1>16 DEF Answered, NoBadReturn
<1>24. QED
  BY <1>7, <1>9, <1>12, <1>20, <1>21, <1>22, <1>23 DEF Answered

\* A step of the context's goroutine that keeps the messages in line and loses none
\* that a call waits for.
LEMMA HandlerAnswers ==
  ASSUME Answered, AllGenuine', InLine', Current',
         TypeOK, UNCHANGED <<status, tid, txcounter, endpoint, thread, ret, exchange>>,
         \A o \in Op : /\ Pending(o)' \subseteq Pending(o)
                       /\ \A m \in Pending(o) : Opening(m) /\ status[o] \in Begun => m \in Pending(o)'
  PROVE  Answered'
<1>1. \A o \in Op : Phase(o)' = Phase(o)
  BY DEF Phase
<1>2. Known'
  BY <1>1 DEF Answered, Known
<1>3. Agree'
  <2>1. SUFFICES ASSUME NEW o \in Op, AgreeOn(o) PROVE AgreeOn(o)'
    BY DEF Answered, Agree
  <2>2. QED
    BY <1>1, <2>1 DEF AgreeOn
<1>4. CallsInStep'
  <2>1. ASSUME NEW u \in Thread, thread[u].pc \in InCall PROVE InStep(u)'
    <3>1. InStep(u) /\ Phase(thread[u].op)' = Phase(thread[u].op)
      BY <1>1, <2>1 DEF Answered, CallsInStep, TypeOK, ActorsTypeOK, InCall
    <3>2. QED
      BY <3>1 DEF InStep
  <2>2. QED
    BY <2>1 DEF Answered, CallsInStep, Serving
<1>5. QED
  BY <1>2, <1>3, <1>4 DEF Answered, NoBadReturn

\* A message is taken: it goes to the operation of its transaction, if there is one.
LEMMA TakenAnswers ==
  ASSUME TypeOK, TypeOK', Exact, Answered, HandleMessage
  PROVE  Answered'
<1> DEFINE m == Head(inbox)
<1>1. /\ handler.at = "idle" /\ inbox # <<>> /\ inbox' = Tail(inbox) /\ handler' = Routed(m)
      /\ UNCHANGED <<status, tid, txcounter, endpoint, thread, ret, exchange, chan, open, operations>>
  BY DEF HandleMessage, opVars, cctxVars
<1>2. /\ m \in Message /\ Elements(inbox) = {m} \cup Elements(inbox)'
      /\ Sorted(inbox)' /\ AllFollow({m}, Elements(inbox)')
  <2>1. inbox \in Seq(Message) /\ Sorted(inbox)
    BY DEF TypeOK, RemoteTypeOK, Answered, InLine
  <2>2. /\ Head(inbox) \in Message /\ Elements(inbox) = {Head(inbox)} \cup Elements(Tail(inbox))
        /\ Sorted(Tail(inbox)) /\ AllFollow({Head(inbox)}, Elements(Tail(inbox)))
    BY <1>1, <2>1, SortedMoves
  <2>3. Elements(inbox)' = Elements(Tail(inbox)) /\ Sorted(inbox)' = Sorted(Tail(inbox))
    BY <1>1 DEF Elements, Sorted
  <2>4. QED
    BY <2>2, <2>3
<1> HIDE DEF m
<1>3. Genuine(m) /\ \A x : Genuine(x)' <=> Genuine(x)
  BY <1>1, <1>2 DEF Genuine, Answered, AllGenuine
<1>4. m.tid \in Tid
  BY <1>3 DEF Genuine
<1>5. \A o \in Op : /\ Holding(o) = {} /\ Elements(chan[o])' = Elements(chan[o])
                    /\ Holding(o)' \subseteq {m}
                    /\ Holding(o)' # {} => operations[m.tid] = o /\ endpoint
                    /\ operations[m.tid] = o /\ m.stage # "PUBLISH" => Holding(o)' = {m}
  BY <1>1, OpAssumption DEF Holding, Routed, Asleep, Elements, Answered, CallsInStep
<1>6. \A o \in Op : operations[m.tid] = o => tid[o] = m.tid /\ status[o] \in Live
  BY <1>4 DEF Exact, TableExact
<1>7. AllGenuine'
  <2>1. handler'.at \notin {"idle"} => handler'.msg = m /\ handler'.at = "lookup"
    BY <1>1 DEF Routed, Asleep
  <2>2. QED
    BY <1>2, <1>3, <1>5, <2>1 DEF Answered, AllGenuine
<1>8. InLine'
  <2>1. SUFFICES ASSUME NEW o \in Op
                 PROVE  /\ Sorted(chan[o])' /\ AllFollow(Elements(chan[o]), Holding(o))'
                        /\ AllFollow(Arrived(o), Elements(inbox))'
                        /\ Capacity(o) = 0 => chan'[o] = <<>>
    BY <1>2 DEF InLine, Capacity
  <2>2. Sorted(chan[o])' /\ (Capacity(o) = 0 => chan'[o] = <<>>)
    BY <1>1 DEF Answered, InLine, Sorted
  <2>3. \A x \in Elements(chan[o]), y \in Elements(inbox) : Follows(x, y)
    BY DEF Answered, InLine, AllFollow, Arrived
  <2>4. AllFollow(Elements(chan[o]), Holding(o))'
    BY <1>2, <1>5, <2>3 DEF AllFollow
  <2>5. AllFollow(Arrived(o), Elements(inbox))'
    BY <1>2, <1>5, <2>3 DEF AllFollow, Arrived
  <2>6. QED
    BY <2>2, <2>4, <2>5
<1>9. Current'
  <2>1. SUFFICES ASSUME NEW o \in Op, status[o] # "CLOSED", NEW x \in Arrived(o)'
                 PROVE  x.tid = tid[o] /\ x.type = Pattern[o] /\ status[o] \in Live
    BY <1>1 DEF Current
  <2>2. CASE x \in Elements(chan[o])
    BY <2>1, <2>2 DEF Answered, Current, Arrived
  <2>3. CASE x \in Holding(o)'
    <3>1. x = m /\ operations[m.tid] = o
      BY <1>5, <2>3
    <3>2. tid[o] = m.tid /\ status[o] \in Live /\ tid[o] # 0
      BY <1>6, <3>1 DEF Exact, ChannelsOpen, Live
    <3>3. exchange[m.tid].type = m.type /\ Phase(o) # "none"
      BY <1>3, <3>2 DEF Genuine, Phase
    <3>4. QED
      BY <3>1, <3>2, <3>3 DEF Answered, Known
  <2>4. QED
    BY <1>5, <2>1, <2>2, <2>3 DEF Arrived
<1>10. \A o \in Op : Pending(o)' \subseteq Pending(o)
  <2>1. TAKE o \in Op
  <2>2. Holding(o)' \subseteq {x \in Elements(inbox) : x.tid = tid[o]}
    BY <1>2, <1>5, <1>6
  <2>3. QED
    BY <1>1, <1>2, <1>5, <2>2 DEF Pending, Arrived
<1>11. ASSUME NEW o \in Op, NEW x \in Pending(o), Opening(x), status[o] \in Begun PROVE x \in Pending(o)'
  <2>1. CASE x \in Elements(chan[o]) \/ (x \in Elements(inbox)' /\ x.tid = tid[o])
    BY <1>1, <1>5, <2>1 DEF Pending, Arrived
  <2>2. CASE x = m /\ x.tid = tid[o]
    <3>1. status[o] \in Live /\ tid[o] # 0 /\ tid[o] \in Tid
      BY <1>4, <1>11, <2>2 DEF Exact, ChannelsOpen, Live, Begun
    <3>2. Phase(o) \notin {"none", "requested"} /\ m.type = Pattern[o]
      BY <1>3, <2>2, <3>1 DEF Genuine, Phase, Answered, Known
    <3>3. PICK r \in Protocol : m.type = r.type /\ m.stage = r.stage
      BY <1>3 DEF Genuine
    <3>4. m.type # "Send" /\ (m.stage = "PUBLISH" => m.type = "Publisher")
      BY <3>3 DEF Protocol, Step
    <3>5. HasChannel(o) /\ m.stage # "PUBLISH"
      BY <1>11, <2>2, <3>2, <3>4 DEF HasChannel, Opening
    <3>6. ~Registering(o)
      <4>1. ASSUME NEW u \in Thread, thread[u].pc = "register", thread[u].op = o PROVE FALSE
        BY <3>2, <4>1 DEF Answered, CallsInStep, InStep, InCall
      <4>2. QED
        BY <4>1 DEF Registering
    <3>7. operations[m.tid] = o
      BY <2>2, <3>1, <3>5, <3>6 DEF Exact, TableExact
    <3>8. QED
      BY <1>5, <2>2, <3>5, <3>7 DEF Pending, Arrived
  <2>3. QED
    BY <1>2, <1>5, <1>11, <2>1, <2>2 DEF Pending, Arrived
<1>12. QED
  BY <1>1, <1>7, <1>8, <1>9, <1>10, <1>11, HandlerAnswers

\* onMessage passes on the messages of the operation's pattern.
LEMMA PassedAnswers ==
  ASSUME TypeOK, TypeOK', Exact, Answered, OnMessage
  PROVE  Answered'
<1>1. PICK o \in Op : handler.op = o /\ handler.at = "lookup" /\ handler.msg \in Message /\ Genuine(handler.msg)
  BY DEF OnMessage, TypeOK, ActorsTypeOK, Answered, AllGenuine
<1> DEFINE m == handler.msg
           toErr == Pattern[o] = "Publisher" /\ m.stage = "PUBLISH" /\ m.err
<1>2. /\ UNCHANGED <<status, tid, txcounter, endpoint, thread, ret, exchange, chan, inbox, open>>
      /\ handler' = IF m.type # Pattern[o] THEN Asleep
                    ELSE [handler EXCEPT !.at = CASE toErr /\ errOpen[o] -> "sendErr"
                                                  [] ~toErr /\ open[o]   -> "send"
                                                  [] OTHER               -> "stuck"]
  BY <1>1 DEF OnMessage, opVars, cctxVars
<1>3. PICK r \in Protocol : m.type = r.type /\ m.stage = r.stage /\ m.err = r.err
  BY <1>1 DEF Genuine
<1>4. m.type # "Send" /\ (m.stage = "PUBLISH" => m.type = "Publisher" /\ m.err)
  BY <1>3 DEF Protocol, Step
<1> HIDE DEF m
<1>5. /\ handler'.at \in {"idle", "sendErr", "send", "stuck"}
      /\ handler'.at # "idle" => handler'.op = o /\ handler'.msg = m
      /\ handler'.at = "send" => m.stage # "PUBLISH"
      /\ m.type = Pattern[o] /\ m.stage # "PUBLISH" /\ open[o] => handler'.at = "send"
  <2>1. handler \in [at : {"idle", "lookup", "send", "sendErr", "stuck"}, op : Op \cup {NoOp}, msg : Message \cup {Nil}]
    BY DEF TypeOK, ActorsTypeOK
  <2>2. CASE m.type # Pattern[o]
    BY <1>2, <2>2 DEF Asleep
  <2>3. CASE m.type = Pattern[o]
    <3> DEFINE at == CASE toErr /\ errOpen[o] -> "sendErr"
                       [] ~toErr /\ open[o]   -> "send"
                       [] OTHER               -> "stuck"
    <3>1. handler' = [handler EXCEPT !.at = at]
      BY <1>2, <2>3
    <3>2. /\ at \in {"sendErr", "send", "stuck"}
          /\ at = "send" => ~toErr
          /\ m.stage # "PUBLISH" /\ open[o] => at = "send"
      OBVIOUS
    <3> HIDE DEF at, toErr
    <3>3. handler'.at = at /\ handler'.op = o /\ handler'.msg = m
      BY <1>1, <2>1, <3>1 DEF m
    <3>4. QED
      BY <1>4, <2>3, <3>2, <3>3 DEF toErr
  <2>4. QED
    BY <2>2, <2>3
<1> HIDE DEF toErr
<1>6. Elements(inbox)' = Elements(inbox) /\ \A q \in Op : Elements(chan[q])' = Elements(chan[q])
  BY <1>2 DEF Elements
<1>7. \A q \in Op : Holding(q)' \subseteq Holding(q)
  BY <1>1, <1>5 DEF Holding, m
<1>8. \A q \in Op : Arrived(q)' \subseteq Arrived(q) /\ Pending(q)' \subseteq Pending(q)
  BY <1>2, <1>6, <1>7 DEF Arrived, Pending
<1>9. AllGenuine'
  <2>1. \A x : Genuine(x)' <=> Genuine(x)
    BY <1>2 DEF Genuine
  <2>2. QED
    BY <1>1, <1>5, <1>6, <2>1 DEF Answered, AllGenuine, m
<1>10. InLine'
  BY <1>2, <1>6, <1>7, <1>8 DEF Answered, InLine, AllFollow, Sorted, Capacity
<1>11. Current'
  BY <1>2, <1>8 DEF Answered, Current
<1>12. ASSUME NEW q \in Op, NEW x \in Pending(q), Opening(x), status[q] \in Begun PROVE x \in Pending(q)'
  <2>1. CASE x \notin Holding(q)
    BY <1>2, <1>6, <1>12, <2>1 DEF Pending, Arrived
  <2>2. CASE x \in Holding(q)
    <3>1. q = o /\ x = m /\ m.stage # "PUBLISH"
      BY <1>1, <2>2 DEF Holding, m
    <3>2. m.type = Pattern[o]
      BY <1>12, <2>2, <3>1 DEF Answered, Current, Arrived, Begun
    <3>3. open[o]
      BY <1>4, <1>12, <3>1, <3>2 DEF Exact, ChannelsOpen, HasChannel, Begun
    <3>4. handler'.at = "send" /\ handler'.op = o /\ handler'.msg = m
      BY <1>5, <3>1, <3>2, <3>3
    <3>5. x \in Holding(q)'
      BY <3>1, <3>4 DEF Holding
    <3>6. QED
      BY <3>5 DEF Pending, Arrived
  <2>3. QED
    BY <2>1, <2>2
<1>13. QED
  BY <1>2, <1>8, <1>9, <1>10, <1>11, <1>12, HandlerAnswers

\* The message held goes to the end of its channel.
LEMMA BufferedAnswers ==
  ASSUME TypeOK, TypeOK', Exact, Answered, Buffer
  PROVE  Answered'
<1>1. PICK o \in Op : handler.op = o /\ handler.at = "send" /\ handler.msg \in Message
  BY DEF Buffer, TypeOK, ActorsTypeOK
<1> DEFINE m == handler.msg
<1>2. /\ UNCHANGED <<status, tid, txcounter, endpoint, thread, ret, exchange, inbox>>
      /\ chan' = [chan EXCEPT ![o] = Append(@, m)] /\ handler' = Asleep
      /\ Len(chan[o]) < Capacity(o)
  BY <1>1 DEF Buffer, cctxVars
<1>3. Genuine(m) /\ m.stage # "PUBLISH" /\ \A x : Genuine(x)' <=> Genuine(x)
  BY <1>1, <1>2 DEF Answered, AllGenuine, Genuine
<1>4. /\ Holding(o) = {m} /\ \A q \in Op : Holding(q)' = {} /\ (q # o => Holding(q) = {})
  BY <1>1, <1>2, <1>3 DEF Holding, Asleep
<1>5. chan'[o] = Append(chan[o], m) /\ (\A q \in Op : q # o => chan'[q] = chan[q]) /\ chan[o] \in Seq(Message \cup {Nil})
  BY <1>2 DEF TypeOK, OpsTypeOK
<1>6. /\ Elements(chan[o])' = Elements(chan[o]) \cup {m}
      /\ Sorted(chan[o])'
      /\ \A q \in Op : q # o => Elements(chan[q])' = Elements(chan[q]) /\ Sorted(chan[q])'
  <2>1. Sorted(chan[o]) /\ AllFollow(Elements(chan[o]), {m})
    BY <1>4 DEF Answered, InLine
  <2>2. Elements(Append(chan[o], m)) = Elements(chan[o]) \cup {m} /\ Sorted(Append(chan[o], m))
    <3>1. \A y \in Message \cup {Nil} : /\ Elements(Append(chan[o], y)) = Elements(chan[o]) \cup {y}
                                        /\ Sorted(chan[o]) /\ AllFollow(Elements(chan[o]), {y}) => Sorted(Append(chan[o], y))
      BY <1>5, SortedMoves
    <3>2. m \in Message
      BY <1>1 DEF m
    <3>3. QED
      BY <2>1, <3>1, <3>2
  <2>3. Elements(chan[o])' = Elements(Append(chan[o], m)) /\ Sorted(chan[o])' = Sorted(Append(chan[o], m))
    BY <1>5 DEF Elements, Sorted
  <2>4. \A q \in Op : q # o => Elements(chan[q])' = Elements(chan[q]) /\ Sorted(chan[q])'
    BY <1>5 DEF Elements, Sorted, Answered, InLine
  <2>5. QED
    BY <2>2, <2>3, <2>4
<1>7. Elements(inbox)' = Elements(inbox) /\ Sorted(inbox)' = Sorted(inbox)
  BY <1>2 DEF Elements, Sorted
<1> HIDE DEF m
<1>8. \A q \in Op : Arrived(q)' = Arrived(q) /\ Pending(q)' = Pending(q)
  <2>1. TAKE q \in Op
  <2>2. Arrived(q)' = Arrived(q)
    BY <1>4, <1>6 DEF Arrived
  <2>3. QED
    BY <1>2, <1>7, <2>2 DEF Pending
<1>9. AllGenuine'
  <2>1. handler'.at = "idle"
    BY <1>2 DEF Asleep
  <2>2. QED
    BY <1>3, <1>6, <1>7, <2>1 DEF Answered, AllGenuine
<1>10. InLine'
  <2>1. Capacity(o) # 0
    BY <1>2, <1>5
  <2>2. \A q \in Op : Capacity(q) = 0 => chan'[q] = <<>>
    BY <1>5, <2>1 DEF Answered, InLine
  <2>3. \A q \in Op : AllFollow(Elements(chan[q]), Holding(q))' /\ AllFollow(Arrived(q), Elements(inbox))'
    BY <1>4, <1>7, <1>8 DEF Answered, InLine, AllFollow
  <2>4. QED
    BY <1>6, <1>7, <2>2, <2>3 DEF Answered, InLine, Capacity
<1>11. Current'
  BY <1>2, <1>8 DEF Answered, Current
<1>12. QED
  BY <1>2, <1>8, <1>9, <1>10, <1>11, HandlerAnswers

\* One more message of a transaction follows all those before it.
LEMMA ReplyAnswers ==
  ASSUME TypeOK, TypeOK', Exact, IdsFresh, Undisturbed, Answered,
         NEW t \in Tid, Reply(t)
  PROVE  Answered'
<1> DEFINE x == exchange[t]
<1>1. PICK r \in Protocol \cup {Foreign}, e \in BOOLEAN :
        /\ r.type = x.type /\ r.phase = x.phase /\ r.err = e
        /\ inbox' = Append(inbox, [tid |-> t, type |-> r.type, stage |-> r.stage, err |-> e])
        /\ \E n : exchange' = [exchange EXCEPT ![t] = [type |-> x.type, phase |-> r.next, count |-> n]]
  BY DEF Reply, Undisturbed
<1> DEFINE m == [tid |-> t, type |-> r.type, stage |-> r.stage, err |-> e]
<1>2. x.phase # "none" /\ UNCHANGED <<status, tid, txcounter, endpoint, thread, ret, chan, handler>>
  BY DEF Reply, opVars, cctxVars
<1>3. r \in Protocol
  BY <1>1, <1>2 DEF Foreign, Step
<1>4. exchange'[t].type = x.type /\ exchange'[t].phase = r.next /\ \A u \in Tid : u # t => exchange'[u] = exchange[u]
  BY <1>1 DEF TypeOK, RemoteTypeOK
<1>5. m.tid = t /\ m.type = r.type /\ m.stage = r.stage /\ m.err = r.err /\ inbox' = Append(inbox, m)
  BY <1>1
<1>6. /\ r.phase # "done" /\ r.next \notin {"none", "requested"}
      /\ Last(r) => r.next = "done"
      /\ Opening(r) <=> r.phase = "requested"
      /\ r.phase = "requested" /\ r.type \in {"Subscriber", "Publisher"} => r.err \/ r.next = "registered"
      /\ r.phase = "registered" => r.next = "registered"
      /\ r.phase = "published" => r.next = "registered"
  BY <1>3 DEF Protocol, Step, Last, Opening
<1>7. (Last(m) <=> Last(r)) /\ (Opening(m) <=> Opening(r))
  BY <1>5 DEF Last, Opening
<1> HIDE DEF m
<1>8. Genuine(m)'
  BY <1>1, <1>3, <1>4, <1>5, <1>6, <1>7 DEF Genuine
<1>9. \A y : Genuine(y) => Genuine(y)' /\ Follows(y, m)
  <2>1. SUFFICES ASSUME NEW y, Genuine(y), y.tid = t PROVE Genuine(y)' /\ Follows(y, m)
    BY <1>4, <1>5 DEF Genuine, Follows
  <2>2. ~Last(y) /\ r.phase # "requested"
    BY <1>1, <1>6, <2>1 DEF Genuine
  <2>3. QED
    BY <1>4, <1>6, <1>7, <2>1, <2>2 DEF Genuine, Follows
<1>10. Elements(inbox)' = Elements(inbox) \cup {m} /\ Sorted(inbox)'
  <2>1. inbox \in Seq(Message) /\ inbox' \in Seq(Message)
    BY DEF TypeOK, RemoteTypeOK
  <2>2. m \in Message
    <3>1. r.type \in Patterns /\ r.stage \in Stages
      BY <1>3 DEF Protocol, Step, Patterns, Stages
    <3>2. QED
      BY <1>1, <3>1 DEF Message, m
  <2>3. Sorted(inbox) /\ AllFollow(Elements(inbox), {m})
    BY <1>9 DEF Answered, AllGenuine, InLine, AllFollow
  <2>4. Elements(Append(inbox, m)) = Elements(inbox) \cup {m} /\ Sorted(Append(inbox, m))
    <3>1. \A y \in Message : /\ Elements(Append(inbox, y)) = Elements(inbox) \cup {y}
                             /\ Sorted(inbox) /\ AllFollow(Elements(inbox), {y}) => Sorted(Append(inbox, y))
      BY <2>1, SortedMoves
    <3>2. QED
      BY <2>2, <2>3, <3>1
  <2>5. Elements(inbox)' = Elements(Append(inbox, m)) /\ Sorted(inbox)' = Sorted(Append(inbox, m))
    BY <1>5 DEF Elements, Sorted
  <2>6. QED
    BY <2>4, <2>5
<1>11. \A o \in Op : /\ Holding(o)' = Holding(o) /\ Elements(chan[o])' = Elements(chan[o]) /\ Sorted(chan[o])' = Sorted(chan[o])
                     /\ Arrived(o)' = Arrived(o)
  BY <1>2 DEF Holding, Elements, Sorted, Arrived
<1>12. \A o \in Op : Pending(o)' = Pending(o) \cup (IF tid[o] = t THEN {m} ELSE {})
  BY <1>2, <1>5, <1>10, <1>11 DEF Pending
<1>13. AllGenuine'
  BY <1>2, <1>8, <1>9, <1>10, <1>11 DEF Answered, AllGenuine
<1>14. InLine'
  <2>1. ASSUME NEW o \in Op, NEW y \in Arrived(o) PROVE Follows(y, m)
    BY <1>9, <2>1 DEF Answered, AllGenuine, Arrived, Holding
  <2>2. \A o \in Op : AllFollow(Arrived(o), Elements(inbox))'
    BY <1>10, <1>11, <2>1 DEF Answered, InLine, AllFollow
  <2>3. QED
    BY <1>2, <1>10, <1>11, <2>2 DEF Answered, InLine, AllFollow, Capacity
<1>15. Current'
  BY <1>2, <1>11 DEF Answered, Current
<1>16. \A o \in Op : tid[o] # 0 /\ tid[o] # t => Phase(o)' = Phase(o)
  BY <1>2, <1>4 DEF Phase, TypeOK, OpsTypeOK
<1>17. \A o \in Op : tid[o] = t => Phase(o) = r.phase /\ Phase(o)' = r.next
  BY <1>1, <1>2, <1>4 DEF Phase
<1>18. Known'
  <2>1. \A u \in Tid : u > txcounter => exchange'[u].phase = "none"
    BY <1>2, <1>4 DEF Answered, Known
  <2>2. ASSUME NEW o \in Op, tid[o] # 0, Phase(o)' # "none" PROVE exchange'[tid[o]].type = Pattern[o]
    <3>1. CASE tid[o] = t
      BY <1>2, <1>4, <2>2, <3>1 DEF Answered, Known, Phase
    <3>2. CASE tid[o] # t
      BY <1>4, <1>16, <2>2, <3>2 DEF Answered, Known, TypeOK, OpsTypeOK
    <3>3. QED
      BY <3>1, <3>2
  <2>3. QED
    BY <1>2, <2>1, <2>2 DEF Known
<1>19. ASSUME NEW o \in Op, status[o] \notin {"NONE", "CLOSED"} PROVE AgreeOn(o)'
  <2>1. AgreeOn(o) /\ tid[o] # 0
    BY <1>19 DEF Answered, Agree, Exact, ChannelsOpen
  <2>2. CASE tid[o] # t
    <3>1. Phase(o)' = Phase(o) /\ Pending(o)' = Pending(o) /\ status'[o] = status[o]
      BY <1>2, <1>12, <1>16, <2>1, <2>2
    <3>2. QED
      BY <2>1, <3>1 DEF AgreeOn
  <2>3. CASE tid[o] = t
    <3>1. /\ Phase(o) = r.phase /\ Phase(o)' = r.next /\ Pending(o)' = Pending(o) \cup {m} /\ status'[o] = status[o]
          /\ Pattern[o] = r.type
      BY <1>1, <1>2, <1>12, <1>17, <2>1, <2>3 DEF Answered, Known, Phase
    <3>2. status[o] # "CREATED"
      BY <1>1, <1>2, <2>1, <3>1 DEF AgreeOn
    <3>3. ASSUME status[o] \in Begun
          PROVE  \E y \in Pending(o)' : Opening(y) /\ (status[o] = "INITIATED" \/ y.err \/ r.next = "registered")
      <4>1. CASE r.phase = "requested"
        <5>1. status[o] = "REGISTER_INITIATED" => r.type \in {"Subscriber", "Publisher"}
          <6>1. SUFFICES ASSUME status[o] = "REGISTER_INITIATED" PROVE r.type \in {"Subscriber", "Publisher"}
            OBVIOUS
          <6>2. PICK u \in Thread : Serving(u, o)
            BY <6>1 DEF Answered, CallsInStep, Transient, Begun
          <6>3. InStep(u) /\ thread[u].op = o
            BY <6>2 DEF Answered, CallsInStep, Serving
          <6>4. thread[u].call = "Initiate"
            BY <6>1, <6>3, PatternAssumption DEF InStep, Methods, GoodStatus, Patterns
          <6>5. QED
            BY <3>1, <6>1, <6>3, <6>4 DEF InStep, BeginStatus
        <5>2. status[o] = "INITIATED" \/ m.err \/ r.next = "registered"
          BY <1>5, <1>6, <3>3, <4>1, <5>1 DEF Begun
        <5>3. QED
          BY <1>6, <1>7, <3>1, <4>1, <5>2
      <4>2. CASE r.phase # "requested"
        <5>1. PICK y \in Pending(o) : Opening(y) /\ (status[o] = "INITIATED" \/ y.err \/ r.phase = "registered")
          BY <1>1, <1>2, <2>1, <3>1, <3>3, <4>2 DEF AgreeOn
        <5>2. QED
          BY <1>6, <3>1, <5>1
      <4>3. QED
        BY <4>1, <4>2
    <3>4. ASSUME status[o] \in Live \ Begun PROVE \A y \in Pending(o)' : ~Opening(y)
      BY <1>6, <1>7, <2>1, <3>1, <3>4 DEF AgreeOn
    <3>5. status[o] = "REGISTERED" => r.next = "registered"
      BY <1>6, <2>1, <3>1 DEF AgreeOn
    <3>6. QED
      BY <1>6, <3>1, <3>2, <3>3, <3>4, <3>5 DEF AgreeOn
  <2>4. QED
    BY <2>2, <2>3
<1>20. Agree'
  BY <1>2, <1>19 DEF Agree
<1>21. ASSUME NEW u \in Thread, thread[u].pc \in InCall PROVE InStep(u)'
  <2>1. PICK o \in Op : thread[u].op = o
    BY <1>21 DEF TypeOK, ActorsTypeOK, InCall
  <2>2. InStep(u) /\ tid[o] # 0
    BY <1>21, <2>1 DEF Answered, CallsInStep, Exact, CallsOwned, ChannelsOpen, Live
  <2>3. /\ Phase(o)' = "none" <=> Phase(o) = "none"
        /\ Phase(o) \in {"registered", "published"} => Phase(o)' \in {"registered", "published"}
    BY <1>1, <1>2, <1>6, <1>16, <1>17, <2>2
  <2>4. QED
    BY <1>2, <2>1, <2>2, <2>3 DEF InStep
<1>22. CallsInStep'
  BY <1>2, <1>21 DEF Answered, CallsInStep, Serving
<1>23. QED
  BY <1>2, <1>13, <1>14, <1>15, <1>18, <1>20, <1>22 DEF Answered, NoBadReturn

\* What a call that waits may be given: a message of its transaction and of a stage
\* it expects, the last one if it ends the call's operation.
LEMMA Given ==
  ASSUME TypeOK, Exact, Undisturbed, Answered,
         NEW th \in Thread, NEW o \in Op, thread[th].op = o, thread[th].pc = "wait",
         NEW m \in Arrived(o), \A y \in Pending(o) : y = m \/ Follows(m, y),
         NEW p, NEW c, p = Pattern[o], c = thread[th].call
  PROVE  /\ m.tid = tid[o] /\ m # Nil
         /\ Discards(p, c, m) \/ Outcome(p, c, m) # "bad"
         /\ ~Discards(p, c, m) /\ Finalizes(p, c, m) => Last(m)
         /\ ~Discards(p, c, m) /\ ~Finalizes(p, c, m)
              => /\ Advanced(p, c, m, status[o]) \in Live \ Transient
                 /\ Advanced(p, c, m, status[o]) # "REREGISTER_INITIATED"
                 /\ Advanced(p, c, m, status[o]) = "REGISTERED" => Phase(o) \in {"registered", "published"}
<1>1. /\ InStep(th) /\ status[o] \in Live /\ HasChannel(o) /\ AgreeOn(o) /\ c # "Publish" /\ c \in Methods(p)
      /\ <<th, o, c>> \in Program
  BY DEF Answered, CallsInStep, Agree, InStep, InCall, Exact, CallsOwned, Live
<1>2. m.tid = tid[o] /\ m.type = p /\ Genuine(m) /\ m.stage # "PUBLISH" /\ status[o] # "REREGISTER_INITIATED"
  BY <1>1 DEF Answered, Current, AllGenuine, Arrived, Holding, Live, CallsInStep
<1>3. Phase(o) \notin {"none", "requested"} /\ (Last(m) => Phase(o) = "done")
  BY <1>2 DEF Genuine, Phase
<1>4. p \in Patterns \ {"Send"}
  BY <1>1, PatternAssumption DEF HasChannel
<1>5. PICK r \in Protocol : m.type = r.type /\ m.stage = r.stage /\ m.err = r.err
  BY <1>2 DEF Genuine
<1>6. /\ p = "Submit" => m.stage = "ACK"
      /\ p = "Request" => m.stage = "RESPONSE"
      /\ p = "Invoke" => m.stage \in {"ACK", "RESPONSE"}
      /\ p = "Progress" => m.stage \in {"ACK", "UPDATE", "RESPONSE"}
      /\ p = "Subscriber" => m.stage \in {"ACK", "NOTIFY", "DEREGISTER_ACK"}
      /\ p = "Publisher" => m.stage \in {"ACK", "DEREGISTER_ACK"}
  BY <1>2, <1>4, <1>5 DEF Protocol, Step, Patterns
<1>7. m # Nil /\ m.tid # 0
  BY <1>2 DEF Genuine, Nil, Tid
<1>8. status[o] \in Begun => /\ Opening(m)
                             /\ status[o] = "INITIATED" \/ m.err \/ Phase(o) = "registered"
  <2>1. SUFFICES ASSUME status[o] \in Begun
                 PROVE  Opening(m) /\ (status[o] = "INITIATED" \/ m.err \/ Phase(o) = "registered")
    OBVIOUS
  <2>2. PICK y \in Pending(o) : Opening(y) /\ (status[o] = "INITIATED" \/ y.err \/ Phase(o) = "registered")
    BY <1>1, <1>3, <2>1 DEF AgreeOn
  <2>3. y.tid = m.tid
    BY <1>1, <1>2 DEF Pending, Answered, Current, Live
  <2>4. y = m
    BY <2>2, <2>3 DEF Follows
  <2>5. QED
    BY <2>2, <2>4
<1>9. status[o] \in Live \ Begun => ~Opening(m)
  BY <1>1 DEF AgreeOn, Pending
<1>10. CASE c = "Initiate"
  <2>1. status[o] \in Begun /\ (status[o] = "REGISTER_INITIATED" <=> p \in {"Subscriber", "Publisher"})
    BY <1>1, <1>10 DEF InStep, BeginStatus, Begun
  <2>2. Opening(m) /\ m.stage \in Expected(p, c)
    BY <1>2, <1>4, <1>6, <1>8, <1>10, <2>1 DEF Opening, Expected
  <2>3. Outcome(p, c, m) = (IF m.err THEN "error" ELSE "ok") /\ ~Discards(p, c, m)
    BY <1>7, <1>10, <2>2 DEF Outcome, Discards
  <2>4. Finalizes(p, c, m) <=> m.err \/ p \in {"Submit", "Request"}
    BY <1>10, <2>3 DEF Finalizes
  <2>5. Finalizes(p, c, m) => Last(m)
    BY <1>2, <1>6, <2>4 DEF Last
  <2>6. Advanced(p, c, m, status[o]) = IF p \in {"Invoke", "Progress"} THEN "ACKNOWLEDGED" ELSE "REGISTERED"
    BY <1>7, <1>10 DEF Advanced
  <2>7. ~Finalizes(p, c, m) /\ p \notin {"Invoke", "Progress"} => Phase(o) = "registered"
    BY <1>4, <1>8, <2>1, <2>4 DEF Patterns
  <2>8. QED
    BY <1>2, <1>7, <2>3, <2>5, <2>6, <2>7 DEF Live, Transient, Begun
<1>11. CASE c = "GetResponse"
  <2>1. p = "Invoke"
    BY <1>1, <1>11, <1>4 DEF Methods, Undisturbed, Patterns
  <2>2. status[o] \in Live \ Begun
    BY <1>1, <1>11 DEF InStep, GoodStatus, Live, Begun
  <2>3. m.stage = "RESPONSE"
    BY <1>6, <1>9, <2>1, <2>2 DEF Opening
  <2>4. Outcome(p, c, m) = (IF m.err THEN "error" ELSE "ok") /\ ~Discards(p, c, m)
    BY <1>7, <1>11, <2>3 DEF Outcome, Discards, Expected
  <2>5. Finalizes(p, c, m) /\ Last(m)
    BY <1>11, <2>3, <2>4 DEF Finalizes, Last
  <2>6. QED
    BY <1>2, <1>7, <2>4, <2>5
<1>12. CASE c = "GetUpdate"
  <2>1. p = "Progress" /\ status[o] \in Live \ Begun
    BY <1>1, <1>4, <1>12 DEF Methods, InStep, GoodStatus, Live, Begun, Patterns
  <2>2. m.stage \in {"UPDATE", "RESPONSE"}
    BY <1>6, <1>9, <2>1 DEF Opening
  <2>3. /\ Outcome(p, c, m) = IF m.stage = "RESPONSE" THEN "none" ELSE IF m.err THEN "error" ELSE "ok"
        /\ ~Discards(p, c, m)
    BY <1>7, <1>12, <2>2 DEF Outcome, Discards, Expected
  <2>4. Finalizes(p, c, m) <=> m.stage = "RESPONSE" \/ m.err
    BY <1>12, <2>2, <2>3 DEF Finalizes
  <2>5. Advanced(p, c, m, status[o]) = "PROGRESSING"
    BY <1>7, <1>12 DEF Advanced
  <2>6. QED
    BY <1>2, <1>7, <2>2, <2>3, <2>4, <2>5 DEF Last, Live, Transient, Begun
<1>13. CASE c = "GetNotify"
  <2>1. p = "Subscriber" /\ status[o] = "REGISTERED" /\ Phase(o) \in {"registered", "published"}
    BY <1>1, <1>4, <1>13 DEF Methods, InStep, AgreeOn, Patterns
  <2>2. m.stage = "NOTIFY" /\ ~m.err
    BY <1>3, <1>6, <1>9, <2>1 DEF Opening, Last, Live, Begun
  <2>3. Outcome(p, c, m) = "ok" /\ ~Discards(p, c, m)
    BY <1>7, <1>13, <2>2 DEF Outcome, Discards, Expected
  <2>4. ~Finalizes(p, c, m) /\ Advanced(p, c, m, status[o]) = status[o]
    BY <1>13, <2>3 DEF Finalizes, Advanced
  <2>5. QED
    BY <1>2, <1>7, <2>1, <2>3, <2>4 DEF Live, Transient, Begun
<1>14. CASE c = "Deregister"
  <2>1. p \in {"Subscriber", "Publisher"} /\ status[o] \in Live \ Begun
    BY <1>1, <1>4, <1>14 DEF Methods, InStep, Patterns, Live, Begun
  <2>2. m.stage = "DEREGISTER_ACK" \/ (p = "Subscriber" /\ m.stage = "NOTIFY")
    BY <1>6, <1>9, <2>1 DEF Opening
  <2>3. CASE m.stage = "DEREGISTER_ACK"
    <3>1. Outcome(p, c, m) = (IF m.err THEN "error" ELSE "ok") /\ Last(m)
      BY <1>7, <1>14, <2>3 DEF Outcome, Expected, Last
    <3>2. Finalizes(p, c, m)
      BY <1>14, <3>1 DEF Finalizes
    <3>3. QED
      BY <1>2, <1>7, <3>1, <3>2
  <2>4. CASE p = "Subscriber" /\ m.stage = "NOTIFY"
    BY <1>2, <1>7, <1>14, <2>4 DEF Discards
  <2>5. QED
    BY <2>2, <2>3, <2>4
<1>15. QED
  BY <1>1, <1>10, <1>11, <1>12, <1>13, <1>14 DEF Methods

\* A call takes the first message of its operation.
LEMMA TakesAnswer ==
  ASSUME TypeOK, TypeOK', Exact, Undisturbed, Answered, AllGenuine', InLine',
         UNCHANGED <<tid, txcounter, endpoint, exchange>>,
         NEW th \in Thread, NEW o \in Op, thread[th].op = o, thread[th].pc = "wait",
         NEW m \in Arrived(o), Conclude(th, m), thread' = Concluded(th, m),
         Arrived(o)' \subseteq Arrived(o), Pending(o) \subseteq {m} \cup Pending(o)', Pending(o)' \subseteq Pending(o),
         AllFollow({m}, Pending(o)'),
         \A q \in Op : q # o => Arrived(q)' = Arrived(q) /\ Pending(q)' = Pending(q)
  PROVE  Answered' /\ ret'[th].msg \in {m, Nil} /\ m.tid = tid[o]
<1> DEFINE p == Pattern[o]
           c == thread[th].call
<1>0. OwnerCloses /\ Owns(th, o) /\ HasChannel(o) /\ status[o] \in Live /\ CallsInStep /\ InStep(th) /\ AgreeOn(o)
      /\ Serving(th, o)
  BY InsideOwns DEF Undisturbed, InCall, Exact, CallsOwned, Answered, CallsInStep, Agree, Live, Serving
<1>1. /\ m.tid = tid[o]
      /\ Discards(p, c, m) \/ Outcome(p, c, m) # "bad"
      /\ ~Discards(p, c, m) /\ Finalizes(p, c, m) => Last(m)
      /\ ~Discards(p, c, m) /\ ~Finalizes(p, c, m)
           => /\ Advanced(p, c, m, status[o]) \in Live \ Transient
              /\ Advanced(p, c, m, status[o]) # "REREGISTER_INITIATED"
              /\ Advanced(p, c, m, status[o]) = "REGISTERED" => Phase(o) \in {"registered", "published"}
  <2>1. \A y \in Pending(o) : y = m \/ Follows(m, y)
    BY DEF AllFollow
  <2>2. QED
    BY <2>1, Given
<1>2. /\ IF Discards(p, c, m) THEN thread'[th].pc = "await" /\ thread'[th].op = o /\ thread'[th].call = c
                              ELSE thread'[th] = Idle
      /\ \A u \in Thread : u # th => thread'[u] = thread[u]
  BY ConcludedAt
<1>3. /\ Discards(p, c, m) => UNCHANGED <<status, ret>>
      /\ ~Discards(p, c, m) =>
           /\ status' = IF Finalizes(p, c, m) THEN FinalStatus(o)
                        ELSE [status EXCEPT ![o] = Advanced(p, c, m, @)]
           /\ ret' = Returned(th, Outcome(p, c, m), IF Outcome(p, c, m) \in {"ok", "error"} THEN m ELSE Nil)
  BY DEF Conclude
<1> HIDE DEF p, c
<1>4. /\ status'[o] = IF Discards(p, c, m) THEN status[o]
                      ELSE IF Finalizes(p, c, m) THEN "FINAL" ELSE Advanced(p, c, m, status[o])
      /\ \A q \in Op : q # o => status'[q] = status[q]
  BY <1>3 DEF FinalStatus, TypeOK, OpsTypeOK
<1>5. /\ ret'[th].out # "bad" /\ ret'[th].msg \in {m, Nil} /\ (Discards(p, c, m) => ret'[th] = ret[th])
      /\ \A u \in Thread : u # th => ret'[u] = ret[u]
  <2>1. CASE Discards(p, c, m)
    BY <1>0, <1>3, <2>1 DEF Answered, NoBadReturn, InStep
  <2>2. CASE ~Discards(p, c, m)
    BY <1>1, <1>3, <2>2 DEF Returned, TypeOK, ActorsTypeOK
  <2>3. QED
    BY <2>1, <2>2
<1>6. /\ \A q \in Op : Phase(q)' = Phase(q)
      /\ Phase(o) \notin {"none", "requested"}
  <2>1. Genuine(m)
    BY DEF Answered, AllGenuine, Arrived, Holding
  <2>2. QED
    BY <1>1, <2>1 DEF Phase, Genuine
<1>7. \A y \in Pending(o)' : ~Opening(y) /\ ~Last(m)
  <2>1. TAKE y \in Pending(o)'
  <2>2. y.tid = tid[o] /\ Follows(m, y)
    BY <1>0 DEF AllFollow, Pending, Answered, Current, Live
  <2>3. QED
    BY <1>1, <2>2 DEF Follows
<1>8. ~Discards(p, c, m) /\ Finalizes(p, c, m) => Arrived(o)' = {}
  BY <1>1, <1>7 DEF Pending
<1>9. Current'
  <2>1. SUFFICES ASSUME NEW q \in Op, status'[q] # "CLOSED", NEW x \in Arrived(q)'
                 PROVE  x.tid = tid[q] /\ x.type = Pattern[q] /\ status'[q] \in Live
    BY DEF Current
  <2>2. CASE q # o
    BY <1>4, <2>1, <2>2 DEF Answered, Current
  <2>3. CASE q = o
    <3>1. x.tid = tid[q] /\ x.type = Pattern[q]
      BY <1>0, <2>1, <2>3 DEF Answered, Current, Live
    <3>2. status'[q] \in Live
      BY <1>0, <1>1, <1>4, <1>8, <2>1, <2>3
    <3>3. QED
      BY <3>1, <3>2
  <2>4. QED
    BY <2>2, <2>3
<1>10. Known'
  BY <1>6 DEF Answered, Known
<1>11. AgreeOn(o)'
  <2>1. CASE Discards(p, c, m)
    <3>1. status[o] = "DEREGISTER_INITIATED"
      BY <1>0, <2>1 DEF Discards, InStep, c
    <3>2. QED
      BY <1>4, <1>6, <1>7, <2>1, <3>1 DEF AgreeOn, Live, Begun
  <2>2. CASE ~Discards(p, c, m) /\ Finalizes(p, c, m)
    BY <1>4, <2>2 DEF AgreeOn, Live, Begun
  <2>3. CASE ~Discards(p, c, m) /\ ~Finalizes(p, c, m)
    BY <1>1, <1>4, <1>6, <1>7, <2>3 DEF AgreeOn, Live, Begun, Transient
  <2>4. QED
    BY <2>1, <2>2, <2>3
<1>12. Agree'
  <2>1. ASSUME NEW q \in Op, q # o, AgreeOn(q) PROVE AgreeOn(q)'
    BY <1>4, <1>6, <2>1 DEF AgreeOn
  <2>2. QED
    BY <1>4, <1>11, <2>1 DEF Answered, Agree
<1>13. CallsInStep'
  <2>1. ASSUME Discards(p, c, m) PROVE InStep(th)'
    <3>1. /\ status'[o] = status[o] /\ thread'[th].pc = "await" /\ thread'[th].op = o
          /\ thread'[th].call = thread[th].call /\ ret'[th] = ret[th] /\ c = "Deregister" /\ Phase(o)' = Phase(o)
      BY <1>2, <1>4, <1>5, <1>6, <2>1 DEF Discards, c
    <3>2. thread[th].call = "Deregister"
      BY <3>1 DEF c
    <3>3. QED
      BY <1>0, <3>1, <3>2 DEF InStep
  <2>2. thread'[th].pc \in InCall => Discards(p, c, m)
    BY <1>2 DEF InCall, Idle
  <2>3. thread'[th].pc \notin {"interrupt", "stuck"}
    BY <1>2 DEF Idle
  <2>4. status'[o] \in Transient => Serving(th, o)'
    BY <1>1, <1>2, <1>4 DEF Serving, InCall, Transient, Begun
  <2>5. status'[o] # "REREGISTER_INITIATED" /\ endpoint'
    BY <1>0, <1>1, <1>4 DEF CallsInStep
  <2>6. QED
    BY <1>0, <1>2, <1>4, <1>5, <1>6, <2>1, <2>2, <2>3, <2>4, <2>5, OwnerCalls
<1>14. NoBadReturn'
  BY <1>5 DEF Answered, NoBadReturn
<1>15. QED
  BY <1>1, <1>5, <1>9, <1>10, <1>12, <1>13, <1>14 DEF Answered

LEMMA ReceiveAnswers ==
  ASSUME TypeOK, TypeOK', Exact, Undisturbed, Answered, NEW th \in Thread,
         \/ ReceiveBuffered(th) \/ ReceiveFromHandler(th) \/ ReceiveClosed(th)
         \/ \E other \in Thread : ReceiveInterrupt(th, other)
  PROVE  Answered' /\ (ret'[th].msg = Nil \/ ret'[th].msg.tid = tid[thread[th].op])
<1>1. thread[th].pc = "wait"
  BY DEF ReceiveBuffered, ReceiveFromHandler, ReceiveClosed, ReceiveInterrupt
<1>2. PICK o \in Op : thread[th].op = o
  BY <1>1, InsideOwns DEF InCall
<1>3. status[o] \in Live /\ HasChannel(o) /\ open[o]
  BY <1>1, <1>2 DEF Exact, CallsOwned, InCall, ChannelsOpen, Live
<1>4. ~ReceiveClosed(th) /\ \A other \in Thread : ~ReceiveInterrupt(th, other)
  BY <1>2, <1>3 DEF ReceiveClosed, ReceiveInterrupt, Answered, CallsInStep
<1>5. CASE ReceiveBuffered(th)
  <2> DEFINE m == Head(chan[o])
  <2>1. /\ chan[o] # <<>> /\ chan' = [chan EXCEPT ![o] = Tail(@)] /\ Conclude(th, m) /\ thread' = Concluded(th, m)
        /\ UNCHANGED <<tid, txcounter, endpoint, exchange, inbox, handler>>
    BY <1>2, <1>5 DEF ReceiveBuffered
  <2>2. /\ chan'[o] = Tail(chan[o]) /\ (\A q \in Op : q # o => chan'[q] = chan[q])
        /\ chan[o] \in Seq(Message \cup {Nil})
    BY <2>1 DEF TypeOK, OpsTypeOK
  <2>3. /\ m \in Elements(chan[o]) /\ Elements(chan[o]) = {m} \cup Elements(chan[o])'
        /\ Sorted(chan[o])' /\ AllFollow({m}, Elements(chan[o])')
    <3>1. Sorted(chan[o])
      BY DEF Answered, InLine
    <3>2. /\ m \in Elements(chan[o]) /\ Elements(chan[o]) = {m} \cup Elements(Tail(chan[o]))
          /\ Sorted(Tail(chan[o])) /\ AllFollow({m}, Elements(Tail(chan[o])))
      BY <2>1, <2>2, <3>1, SortedMoves
    <3>3. Elements(chan[o])' = Elements(Tail(chan[o])) /\ Sorted(chan[o])' = Sorted(Tail(chan[o]))
      BY <2>2 DEF Elements, Sorted
    <3>4. QED
      BY <3>2, <3>3
  <2> HIDE DEF m
  <2>4. /\ Elements(inbox)' = Elements(inbox) /\ Sorted(inbox)' = Sorted(inbox)
        /\ \A q \in Op : Holding(q)' = Holding(q)
        /\ \A q \in Op : q # o => Elements(chan[q])' = Elements(chan[q]) /\ Sorted(chan[q])' = Sorted(chan[q])
    BY <2>1, <2>2 DEF Elements, Sorted, Holding
  <2>5. /\ m \in Arrived(o) /\ Arrived(o)' \subseteq Arrived(o) /\ Pending(o)' \subseteq Pending(o)
        /\ Pending(o) \subseteq {m} \cup Pending(o)'
        /\ \A q \in Op : q # o => Arrived(q)' = Arrived(q) /\ Pending(q)' = Pending(q)
    BY <2>1, <2>3, <2>4 DEF Arrived, Pending
  <2>6. AllFollow({m}, Pending(o)')
    <3>1. AllFollow(Elements(chan[o]), Holding(o)) /\ AllFollow(Arrived(o), Elements(inbox))
      BY DEF Answered, InLine
    <3>2. ASSUME NEW y \in Pending(o)' PROVE Follows(m, y)
      <4>1. y \in Elements(chan[o])' \/ y \in Holding(o) \/ y \in Elements(inbox)
        BY <2>4, <3>2 DEF Pending, Arrived
      <4>2. QED
        BY <2>3, <2>5, <3>1, <4>1 DEF AllFollow
    <3>3. QED
      BY <3>2 DEF AllFollow
  <2>7. AllGenuine'
    <3>1. \A x : Genuine(x)' <=> Genuine(x)
      BY <2>1 DEF Genuine
    <3>2. \A q \in Op : Elements(chan[q])' \subseteq Elements(chan[q])
      BY <2>3, <2>4
    <3>3. QED
      BY <2>1, <2>4, <3>1, <3>2 DEF Answered, AllGenuine
  <2>8. InLine'
    <3>1. ASSUME NEW q \in Op
          PROVE  /\ Sorted(chan[q])' /\ (Capacity(q) = 0 => chan'[q] = <<>>)
                 /\ AllFollow(Elements(chan[q])', Holding(q)') /\ AllFollow(Arrived(q)', Elements(inbox)')
      <4>1. Elements(chan[q])' \subseteq Elements(chan[q]) /\ Arrived(q)' \subseteq Arrived(q) /\ Sorted(chan[q])'
        BY <2>3, <2>4, <2>5 DEF Answered, InLine
      <4>2. Capacity(q) = 0 => chan'[q] = <<>>
        BY <2>1, <2>2 DEF Answered, InLine
      <4>3. QED
        BY <2>4, <4>1, <4>2 DEF Answered, InLine, AllFollow
    <3>2. Sorted(inbox)'
      BY <2>4 DEF Answered, InLine
    <3>3. QED
      BY <3>1, <3>2 DEF InLine, Capacity
  <2>9. Answered' /\ ret'[th].msg \in {m, Nil} /\ m.tid = tid[o]
    BY <1>1, <1>2, <2>1, <2>5, <2>6, <2>7, <2>8, TakesAnswer
  <2>10. QED
    BY <1>2, <2>9
<1>6. CASE ReceiveFromHandler(th)
  <2> DEFINE m == handler.msg
  <2>1. /\ handler.at = "send" /\ handler.op = o /\ Capacity(o) = 0 /\ handler' = Asleep
        /\ Conclude(th, m) /\ thread' = Concluded(th, m)
        /\ UNCHANGED <<tid, txcounter, endpoint, exchange, inbox, chan>>
    BY <1>2, <1>6 DEF ReceiveFromHandler
  <2>2. Holding(o) = {m} /\ \A q \in Op : Holding(q)' = {} /\ (q # o => Holding(q) = {})
    BY <2>1 DEF Holding, Asleep, Answered, AllGenuine
  <2> HIDE DEF m
  <2>3. chan[o] = <<>> /\ Elements(chan[o]) = {}
    <3>1. chan[o] = <<>>
      BY <2>1 DEF Answered, InLine
    <3>2. QED
      BY <3>1 DEF Elements
  <2>4. /\ Elements(inbox)' = Elements(inbox) /\ Sorted(inbox)' = Sorted(inbox)
        /\ \A q \in Op : Elements(chan[q])' = Elements(chan[q]) /\ Sorted(chan[q])' = Sorted(chan[q])
    BY <2>1 DEF Elements, Sorted
  <2>5. /\ m \in Arrived(o) /\ Arrived(o)' \subseteq Arrived(o) /\ Pending(o)' \subseteq Pending(o)
        /\ Pending(o) \subseteq {m} \cup Pending(o)'
        /\ \A q \in Op : q # o => Arrived(q)' = Arrived(q) /\ Pending(q)' = Pending(q)
    BY <2>1, <2>2, <2>4 DEF Arrived, Pending
  <2>6. AllFollow({m}, Pending(o)')
    <3>1. AllFollow(Arrived(o), Elements(inbox)) /\ Pending(o)' \subseteq Elements(inbox)
      BY <2>2, <2>3, <2>4 DEF Answered, InLine, Pending, Arrived
    <3>2. QED
      BY <2>5, <3>1 DEF AllFollow
  <2>7. AllGenuine'
    <3>1. handler'.at = "idle" /\ \A x : Genuine(x)' <=> Genuine(x)
      BY <2>1 DEF Genuine, Asleep
    <3>2. QED
      BY <2>4, <3>1 DEF Answered, AllGenuine
  <2>8. InLine'
    <3>1. ASSUME NEW q \in Op
          PROVE  /\ Sorted(chan[q])' /\ (Capacity(q) = 0 => chan'[q] = <<>>)
                 /\ AllFollow(Elements(chan[q])', Holding(q)') /\ AllFollow(Arrived(q)', Elements(inbox)')
      <4>1. Sorted(chan[q])' /\ (Capacity(q) = 0 => chan'[q] = <<>>)
        BY <2>1, <2>4 DEF Answered, InLine
      <4>2. Arrived(q)' \subseteq Arrived(q)
        BY <2>5
      <4>3. QED
        BY <2>2, <2>4, <4>1, <4>2 DEF Answered, InLine, AllFollow
    <3>2. Sorted(inbox)'
      BY <2>4 DEF Answered, InLine
    <3>3. QED
      BY <3>1, <3>2 DEF InLine, Capacity
  <2>9. Answered' /\ ret'[th].msg \in {m, Nil} /\ m.tid = tid[o]
    BY <1>1, <1>2, <2>1, <2>5, <2>6, <2>7, <2>8, TakesAnswer DEF m
  <2>10. QED
    BY <1>2, <2>9
<1>7. QED
  BY <1>4, <1>5, <1>6

LEMMA AnsweredStep ==
  ASSUME TypeOK, TypeOK', Exact, IdsFresh, Undisturbed, Answered, [Next]_vars
  PROVE  Answered'
<1>0. OwnerCloses
  BY DEF Undisturbed
<1>1. CASE UNCHANGED vars
  BY <1>1, UnseenAnswers DEF vars, opVars, cctxVars
<1>2. ASSUME NEW o \in Op, New(o) PROVE Answered'
  BY <1>2, NewAnswers
<1>3. ASSUME NEW th \in Thread, Application(th) PROVE Answered'
  <2>1. thread[th].pc # "cleanOps"
    BY DEF Exact, ContextKept
  <2>2. ASSUME NEW c \in Calls PROVE ~CloseContext(th, c)
    BY <1>0 DEF CloseContext, MayCall, OwnerCloses
  <2>3. (\A t \in Tid : ~CleanOp(th, t)) /\ ~CleanOpsEnds(th)
    BY <2>1 DEF CleanOp, CleanOpsEnds
  <2>4. QED
    BY <1>0, <1>3, <2>2, <2>3, BeginAnswers, GoingAnswers, TransmitAnswers, RefusedAnswers, ReceiveAnswers,
       ResetAnswers, CloseAnswers, OthersAnswer DEF Application
<1>4. CASE Handler
  <2>1. CASE BufferError
    <3>1. /\ handler.at = "sendErr" /\ handler'.at = "idle"
          /\ UNCHANGED <<inbox, chan, exchange, tid, txcounter, endpoint, status, thread, ret>>
      BY <2>1 DEF BufferError, Asleep, cctxVars
    <3>2. QED
      BY <3>1, UnseenAnswers
  <2>2. QED
    BY <1>4, <2>1, TakenAnswers, PassedAnswers, BufferedAnswers DEF Handler
<1>5. CASE Remote
  BY <1>5, ReplyAnswers DEF Remote
<1>6. QED
  BY <1>1, <1>2, <1>3, <1>4, <1>5 DEF Next

\* Every step keeps the four parts of the invariant.
LEMMA AnsweredKept ==
  ASSUME Undisturbed
  PROVE  /\ Init => TypeOK /\ IdsFresh /\ Exact /\ Answered
         /\ TypeOK /\ IdsFresh /\ Exact /\ Answered /\ [Next]_vars
              => TypeOK' /\ IdsFresh' /\ Exact' /\ Answered'
<1>1. OwnerCloses /\ SingleUser
  BY DEF Undisturbed, OwnerCloses, SingleUser
<1>2. QED
  BY <1>1, IdsInit, ExactInit, AnsweredInit, IdsStep, ExactStep, AnsweredStep

\* A call that waits gets what it returns from a step of its own.
LEMMA WaitingReturns ==
  ASSUME TypeOK, TypeOK', Exact, Undisturbed, Answered, [Next]_vars,
         NEW th \in Thread, thread[th].pc = "wait", ret'[th].msg # Nil
  PROVE  ret'[th].msg.tid = tid[thread[th].op]
<1>1. ret[th].msg = Nil
  BY DEF Answered, CallsInStep, InStep, InCall
<1>2. ret' # ret
  BY <1>1
<1>3. PICK u \in Thread : Application(u)
  BY <1>2 DEF Next, New, Handler, HandleMessage, OnMessage, Buffer, BufferError, Remote, Reply, vars
<1>4. thread[u].pc # "cleanOps"
  BY DEF Exact, ContextKept
<1>5. ASSUME u # th PROVE FALSE
  <2>1. ASSUME NEW out, NEW m, ret' = Returned(u, out, m) PROVE FALSE
    BY <1>1, <1>5, <2>1 DEF Returned, TypeOK, ActorsTypeOK
  <2>2. \A o \in Op, c \in Calls : ~Begin(u, o, c)
    BY <2>1 DEF Begin
  <2>3. ~RegisterOp(u) /\ ~Transmit(u) /\ ~TransmitFails(u) /\ ~Await(u)
    BY <1>2, <2>1 DEF RegisterOp, Transmit, TransmitFails, Await
  <2>4. \A m : ~Conclude(u, m)
    BY <1>2, <2>1 DEF Conclude
  <2>5. /\ ~ReceiveBuffered(u) /\ ~ReceiveFromHandler(u) /\ ~ReceiveClosed(u)
        /\ \A other \in Thread : ~ReceiveInterrupt(u, other)
    BY <2>1, <2>4 DEF ReceiveBuffered, ReceiveFromHandler, ReceiveClosed, ReceiveInterrupt
  <2>6. \A o \in Op : /\ ~CachedResponse(u, o) /\ ~GetPublishError(u, o) /\ ~Reset(u, o) /\ ~Interrupt(u, o)
                     /\ ~Close(u, o)
    BY <1>2, <2>1 DEF CachedResponse, GetPublishError, Reset, Interrupt, Close, CloseOp
  <2>7. /\ ~InterruptBuffered(u) /\ ~CloseChannel(u) /\ \A c \in Calls : ~CloseContext(u, c)
        /\ (\A t \in Tid : ~CleanOp(u, t)) /\ ~CleanOpsEnds(u)
    BY <1>2, <1>4 DEF InterruptBuffered, CloseChannel, CloseContext, CleanOp, CleanOpsEnds
  <2>8. QED
    BY <1>3, <2>2, <2>3, <2>5, <2>6, <2>7 DEF Application
<1>6. \/ ReceiveBuffered(th) \/ ReceiveFromHandler(th) \/ ReceiveClosed(th)
      \/ \E other \in Thread : ReceiveInterrupt(th, other)
  BY <1>3, <1>5 DEF Application, Begin, RegisterOp, Transmit, TransmitFails, Await, CachedResponse,
                    GetPublishError, Reset, Interrupt, Close, InterruptBuffered, CloseChannel, CloseContext,
                    CleanOp, CleanOpsEnds, MayCall
<1>7. QED
  BY <1>6, ReceiveAnswers

\* A call that waits returns a message of the transaction it waits for, however
\* often its operation was reset and whatever was refused, when the remote side
\* keeps to MAL and nobody interrupts: when a transaction ends, none of its
\* messages is left in the channel or in the hands of the context's goroutine.
THEOREM RepliesOwn ==
  ASSUME Undisturbed
  PROVE  Spec => RepliesMatch
<1>1. /\ Init => TypeOK /\ IdsFresh /\ Exact /\ Answered
      /\ TypeOK /\ IdsFresh /\ Exact /\ Answered /\ [Next]_vars
           => TypeOK' /\ IdsFresh' /\ Exact' /\ Answered'
  BY AnsweredKept
<1>2. TypeOK /\ TypeOK' /\ Exact /\ Answered /\ [Next]_vars
        => [\A th \in Thread : thread[th].pc = "wait" /\ ret'[th].msg # Nil
              => ret'[th].msg.tid = tid[thread[th].op]]_vars
  BY WaitingReturns
<1>3. QED
  BY <1>1, <1>2, PTL DEF Spec, RepliesMatch

\* Nor does it meet a message of a stage it does not expect: "Bad return message"
\* is the answer only to interruptions, to GetResponse before the last update, and
\* to a remote side that does not keep to MAL.
THEOREM StagesExpected ==
  ASSUME Undisturbed
  PROVE  Spec => []NoBadReturn
<1>1. Answered => NoBadReturn
  BY DEF Answered
<1>2. QED
  BY <1>1, AnsweredKept, PTL DEF Spec


\* The goroutine that uses an operation closes it before its first call or after its
\* last answer, which for Submit and Request is whenever it can.
ClosesLate == \A th \in Thread, o \in Op : Close(th, o) => status[o] \in {"CREATED", "FINAL"}

\* What the context's goroutine holds for an operation finds the channel it needs,
\* and a channel is closed once.
Reached ==
  /\ handler.at # "stuck"
  /\ handler.at = "sendErr" => handler.msg.stage = "PUBLISH"
  /\ handler.at # "idle" => /\ status[handler.op] # "NONE"
                            /\ handler.msg.stage # "PUBLISH" => status[handler.op] # "CLOSED"
Unbroken ==
  /\ NoPanic
  /\ \A o \in Op : status[o] # "NONE" => errOpen[o] = (Pattern[o] = "Publisher")
  /\ \A th \in Thread : thread[th].pc = "close" => open[thread[th].op]
  /\ Reached

LEMMA UnbrokenInit == Init => Unbroken
<1> SUFFICES ASSUME Init PROVE Unbroken
  OBVIOUS
<1>1. /\ ~panicked /\ handler.at = "idle"
      /\ \A o \in Op : status[o] = "NONE"
      /\ \A th \in Thread : thread[th].pc = "idle"
  BY DEF Init, Asleep, Idle
<1>2. QED
  BY <1>1 DEF Unbroken, Reached, NoPanic

\* A step that neither creates nor closes an operation.
LEMMA UnbrokenKept ==
  ASSUME TypeOK, Unbroken, UNCHANGED <<errOpen, open, panicked>>,
         \A o \in Op : \/ status'[o] = status[o]
                       \/ status[o] # "NONE" /\ status'[o] \notin {"NONE", "CLOSED"},
         \A th \in Thread : thread'[th].pc = "close" => thread'[th] = thread[th],
         handler' = handler \/ Reached'
  PROVE  Unbroken'
<1>1. Reached'
  <2>1. handler.at # "idle" => handler.op \in Op
    BY DEF TypeOK, ActorsTypeOK
  <2>2. CASE handler' = handler
    BY <2>1, <2>2 DEF Unbroken, Reached
  <2>3. QED
    BY <2>2
<1>2. \A o \in Op : status'[o] # "NONE" => status[o] # "NONE"
  OBVIOUS
<1>3. QED
  BY <1>1, <1>2 DEF Unbroken, NoPanic

\* Where a call leaves its operation.
LEMMA ConcludeUnbroken ==
  ASSUME TypeOK, Exact, NEW th \in Thread, thread[th].pc = "wait", NEW m, Conclude(th, m)
  PROVE  \A o \in Op : \/ status'[o] = status[o]
                       \/ status[o] # "NONE" /\ status'[o] \notin {"NONE", "CLOSED"}
<1>1. PICK p \in Op : p = thread[th].op
  BY DEF TypeOK, ActorsTypeOK
<1>2. status[p] \in Live
  BY <1>1 DEF Exact, CallsOwned, InCall
<1>3. CASE Discards(Pattern[p], thread[th].call, m)
  <2>1. status' = status
    BY <1>1, <1>3 DEF Conclude
  <2>2. QED
    BY <2>1
<1>4. CASE ~Discards(Pattern[p], thread[th].call, m)
  <2>1. \/ status' = FinalStatus(p)
        \/ status' = [status EXCEPT ![p] = Advanced(Pattern[p], thread[th].call, m, @)]
    BY <1>1, <1>4 DEF Conclude
  <2>2. Advanced(Pattern[p], thread[th].call, m, status[p]) \in Live
    BY <1>2 DEF Advanced, Live
  <2>3. status'[p] \in Live \cup {"FINAL"} /\ \A o \in Op : o # p => status'[o] = status[o]
    BY <2>1, <2>2 DEF FinalStatus, TypeOK, OpsTypeOK
  <2>4. status[p] # "NONE" /\ status'[p] \notin {"NONE", "CLOSED"}
    BY <1>2, <2>3 DEF Live
  <2>5. QED
    BY <2>3, <2>4
<1>5. QED
  BY <1>3, <1>4

LEMMA NewUnbroken ==
  ASSUME TypeOK, Exact, Unbroken, NEW o \in Op, New(o)
  PROVE  Unbroken'
<1>1. /\ status[o] = "NONE" /\ status'[o] = "CREATED" /\ errOpen'[o] = (Pattern[o] = "Publisher")
      /\ \A p \in Op : p # o => status'[p] = status[p] /\ errOpen'[p] = errOpen[p] /\ open'[p] = open[p]
      /\ UNCHANGED <<handler, thread, panicked>>
  BY DEF New, TypeOK, OpsTypeOK
<1>2. handler.at # "idle" => handler.op \in Op /\ handler.op # o
  BY <1>1 DEF TypeOK, ActorsTypeOK, Unbroken, Reached
<1>3. \A th \in Thread : thread[th].pc = "close" => thread[th].op \in Op /\ thread[th].op # o
  BY <1>1 DEF TypeOK, ActorsTypeOK, Exact, ClosesOwned
<1>4. Reached'
  BY <1>1, <1>2 DEF Unbroken, Reached
<1>5. \A th \in Thread : thread'[th].pc = "close" => open'[thread'[th].op]
  BY <1>1, <1>3 DEF Unbroken
<1>6. QED
  BY <1>1, <1>4, <1>5 DEF Unbroken, NoPanic

\* registerOp finds its map, and the other steps of a call touch no channel.
LEMMA CallUnbroken ==
  ASSUME TypeOK, Exact, Answered, Unbroken, NEW th \in Thread,
         \/ \E o \in Op, c \in Calls : Begin(th, o, c)
         \/ \E o \in Op : CachedResponse(th, o) \/ GetPublishError(th, o) \/ Reset(th, o)
         \/ RegisterOp(th) \/ Transmit(th) \/ TransmitFails(th) \/ Await(th)
  PROVE  Unbroken'
<1>1. ASSUME NEW o \in Op, NEW c \in Calls, Begin(th, o, c) PROVE Unbroken'
  <2>1. /\ UNCHANGED <<errOpen, open, panicked, handler>>
        /\ status[o] \in GoodStatus(Pattern[o], c)
        /\ status' = [status EXCEPT ![o] = BeginStatus(Pattern[o], c, @)]
        /\ thread' = [thread EXCEPT ![th] = [pc |-> FirstPc(Pattern[o], c), op |-> o, call |-> c]]
    BY <1>1 DEF Begin
  <2>2. status[o] \notin {"NONE", "CLOSED"}
    BY <2>1 DEF GoodStatus
  <2>3. BeginStatus(Pattern[o], c, status[o]) \notin {"NONE", "CLOSED"}
    BY <2>2 DEF BeginStatus
  <2>4. \A p \in Op : \/ status'[p] = status[p]
                      \/ status[p] # "NONE" /\ status'[p] \notin {"NONE", "CLOSED"}
    BY <2>1, <2>2, <2>3 DEF TypeOK, OpsTypeOK
  <2>5. \A u \in Thread : thread'[u].pc = "close" => thread'[u] = thread[u]
    BY <2>1 DEF FirstPc, TypeOK, ActorsTypeOK
  <2>6. QED
    BY <2>1, <2>4, <2>5, UnbrokenKept
<1>2. ASSUME NEW o \in Op, CachedResponse(th, o) \/ GetPublishError(th, o) PROVE Unbroken'
  <2>1. UNCHANGED <<errOpen, open, panicked, handler, status, thread>>
    BY <1>2 DEF CachedResponse, GetPublishError, opVars, cctxVars
  <2>2. QED
    BY <2>1, UnbrokenKept
<1>3. ASSUME NEW o \in Op, Reset(th, o) PROVE Unbroken'
  <2>1. UNCHANGED <<errOpen, open, panicked, handler, thread>>
    BY <1>3 DEF Reset
  <2>2. \A p \in Op : \/ status'[p] = status[p]
                      \/ status[p] # "NONE" /\ status'[p] \notin {"NONE", "CLOSED"}
    BY <1>3 DEF Reset, Resettable, TypeOK, OpsTypeOK
  <2>3. QED
    BY <2>1, <2>2, UnbrokenKept
<1>4. CASE RegisterOp(th) \/ Transmit(th) \/ TransmitFails(th) \/ Await(th)
  <2>1. PICK o \in Op : o = thread[th].op
    BY <1>4 DEF RegisterOp, Transmit, TransmitFails, Await, TypeOK, ActorsTypeOK
  <2>2. status[o] \in Live /\ ~tableNil /\ thread[th].pc # "stuck"
    BY <1>4, <2>1 DEF RegisterOp, Transmit, TransmitFails, Await, Exact, CallsOwned, ContextKept, InCall
  <2>3. UNCHANGED <<errOpen, open, panicked, handler>>
    <3>3. panicked = FALSE /\ tableNil = FALSE
      BY <2>2 DEF Unbroken, NoPanic, TypeOK, ActorsTypeOK, ContextTypeOK
    <3>1. panicked' = panicked
      <4>1. CASE RegisterOp(th)
        <5>1. panicked' = panicked \/ panicked' = tableNil
          BY <4>1 DEF RegisterOp
        <5>2. QED
          BY <3>3, <5>1
      <4>2. QED
        BY <1>4, <4>1 DEF Transmit, TransmitFails, Await
    <3>2. QED
      BY <1>4, <3>1 DEF RegisterOp, Transmit, TransmitFails, Await, opVars
  <2>4. status' = status \/ status' = FinalStatus(o)
    BY <1>4, <2>1 DEF RegisterOp, Transmit, TransmitFails, Await, opVars
  <2>5. \A p \in Op : \/ status'[p] = status[p]
                      \/ status[p] # "NONE" /\ status'[p] \notin {"NONE", "CLOSED"}
    BY <2>2, <2>4 DEF FinalStatus, Live, TypeOK, OpsTypeOK
  <2>6. thread' = Done(th) \/ \E pc \in {"send", "await", "wait", "stuck"} : thread' = At(th, pc)
    BY <1>4 DEF RegisterOp, Transmit, TransmitFails, Await
  <2>7. \A u \in Thread : thread'[u].pc = "close" => thread'[u] = thread[u]
    BY <2>6 DEF Done, Idle, At, TypeOK, ActorsTypeOK
  <2>8. QED
    BY <2>3, <2>5, <2>7, UnbrokenKept
<1>5. QED
  BY <1>1, <1>2, <1>3, <1>4

LEMMA ReceiveUnbroken ==
  ASSUME TypeOK, Exact, Answered, Unbroken, NEW th \in Thread,
         \/ ReceiveBuffered(th) \/ ReceiveFromHandler(th) \/ ReceiveClosed(th)
         \/ \E other \in Thread : ReceiveInterrupt(th, other)
  PROVE  Unbroken'
<1>1. \A other \in Thread : ~ReceiveInterrupt(th, other)
  BY DEF ReceiveInterrupt, Answered, CallsInStep
<1>2. thread[th].pc = "wait" /\ thread[th] \in [pc : Pcs, op : Op \cup {NoOp}, call : Calls \cup {"none"}]
  BY <1>1 DEF ReceiveBuffered, ReceiveFromHandler, ReceiveClosed, TypeOK, ActorsTypeOK
<1>3. PICK o \in Op : o = thread[th].op
  BY <1>2 DEF TypeOK, ActorsTypeOK
<1>4. UNCHANGED <<errOpen, open, panicked>> /\ (handler' = handler \/ handler' = Asleep)
  BY <1>1 DEF ReceiveBuffered, ReceiveFromHandler, ReceiveClosed
<1>5. handler' = handler \/ Reached'
  BY <1>4 DEF Reached, Asleep
<1>6. \A p \in Op : \/ status'[p] = status[p]
                    \/ status[p] # "NONE" /\ status'[p] \notin {"NONE", "CLOSED"}
  <2>1. CASE ReceiveClosed(th)
    <3>1. status' = FinalStatus(o)
      BY <1>3, <2>1 DEF ReceiveClosed
    <3>2. status[o] \in Live
      BY <1>2, <1>3 DEF Exact, CallsOwned, InCall
    <3>3. QED
      BY <3>1, <3>2 DEF FinalStatus, Live, TypeOK, OpsTypeOK
  <2>2. CASE ReceiveBuffered(th)
    <3>1. PICK m : Conclude(th, m)
      BY <2>2 DEF ReceiveBuffered
    <3>2. QED
      BY <1>2, <3>1, ConcludeUnbroken
  <2>3. CASE ReceiveFromHandler(th)
    <3>1. Conclude(th, handler.msg)
      BY <2>3 DEF ReceiveFromHandler
    <3>2. QED
      BY <1>2, <3>1, ConcludeUnbroken
  <2>4. QED
    BY <1>1, <2>1, <2>2, <2>3
<1>7. \A u \in Thread : thread'[u].pc = "close" => thread'[u] = thread[u]
  <2>1. thread' = Done(th) \/ thread' = At(th, "await")
    BY <1>1 DEF ReceiveBuffered, ReceiveFromHandler, ReceiveClosed, Concluded
  <2>2. QED
    BY <2>1 DEF Done, Idle, At, TypeOK, ActorsTypeOK
<1>8. QED
  BY <1>4, <1>5, <1>6, <1>7, UnbrokenKept

\* A Close that comes late finds no answer for the operation in the hands of the
\* context's goroutine, so none blocked in a send, and leaves it a nil channel only
\* for operations that have none.
LEMMA CloseUnbroken ==
  ASSUME TypeOK, Exact, Answered, Unbroken, NEW th \in Thread, NEW o \in Op, Close(th, o),
         status[o] \in {"CREATED", "FINAL"}
  PROVE  Unbroken'
<1>1. /\ status' = [status EXCEPT ![o] = "CLOSED"] /\ CloseOp(th, o, "Close")
      /\ UNCHANGED <<open, handler>>
  BY DEF Close, CloseOp
<1>2. status'[o] = "CLOSED" /\ \A p \in Op : p # o => status'[p] = status[p]
  BY <1>1 DEF TypeOK, OpsTypeOK
<1>3. Reached'
  <2>1. handler.at # "idle" => handler.op \in Op
    BY DEF TypeOK, ActorsTypeOK
  <2>2. ASSUME handler.at # "idle", handler.msg.stage # "PUBLISH", handler.op = o PROVE FALSE
    <3>1. handler.at \in {"lookup", "send"}
      BY <2>2 DEF TypeOK, ActorsTypeOK, Unbroken, Reached
    <3>2. handler.msg \in Arrived(o)
      BY <2>2, <3>1 DEF Arrived, Holding
    <3>3. status[o] \in Live
      BY <3>2 DEF Answered, Current
    <3>4. QED
      BY <3>3 DEF Live
  <2>3. QED
    BY <1>1, <1>2, <2>1, <2>2 DEF Unbroken, Reached
<1>4. CASE open[o]
  <2>1. /\ thread' = [thread EXCEPT ![th] = [pc |-> "close", op |-> o, call |-> "Close"]]
        /\ UNCHANGED <<errOpen, panicked>>
    BY <1>1, <1>4 DEF CloseOp
  <2>2. \A u \in Thread : thread'[u].pc = "close" => open'[thread'[u].op]
    BY <1>1, <1>4, <2>1 DEF Unbroken, TypeOK, ActorsTypeOK
  <2>3. QED
    BY <1>2, <1>3, <2>1, <2>2 DEF Unbroken, NoPanic
<1>5. CASE ~open[o]
  <2>1. ~HasChannel(o) /\ status[o] # "NONE"
    BY <1>5 DEF Exact, ChannelsOpen
  <2>2. ~errOpen[o] /\ Pattern[o] # "Publisher"
    BY <2>1 DEF Unbroken, HasChannel, TypeOK, OpsTypeOK
  <2>3. errOpen' = [errOpen EXCEPT ![o] = FALSE] /\ panicked' = FALSE /\ thread' = thread
    BY <1>1, <1>5, <2>2 DEF CloseOp
  <2>4. \A p \in Op : errOpen'[p] = errOpen[p]
    BY <2>2, <2>3 DEF TypeOK, OpsTypeOK
  <2>5. QED
    BY <1>1, <1>2, <1>3, <2>1, <2>2, <2>3, <2>4 DEF Unbroken, NoPanic
<1>6. QED
  BY <1>4, <1>5

LEMMA CloseChannelUnbroken ==
  ASSUME TypeOK, Exact, OwnerCloses, Answered, Unbroken, NEW th \in Thread, CloseChannel(th)
  PROVE  Unbroken'
<1>1. PICK o \in Op : o = thread[th].op
  BY DEF CloseChannel, TypeOK, ActorsTypeOK
<1>2. thread[th].pc = "close" /\ status[o] = "CLOSED" /\ thread[th].call = "Close" /\ open[o]
  BY <1>1 DEF CloseChannel, Exact, ClosesOwned, Unbroken
<1>3. ~(handler.at = "send" /\ handler.op = o)
  BY <1>1, <1>2 DEF Unbroken, Reached, Answered, AllGenuine
<1>4. panicked' = FALSE
  BY <1>1, <1>2, <1>3 DEF CloseChannel, Answered, CallsInStep
<1>5. /\ open' = [open EXCEPT ![o] = FALSE] /\ thread' = [thread EXCEPT ![th] = Idle]
      /\ UNCHANGED <<status, errOpen, handler>>
  BY <1>1, <1>2 DEF CloseChannel, Done
<1>6. \A u \in Thread : thread[u].pc = "close" /\ u # th => thread[u].op \in Op \ {o}
  BY <1>1, <1>2, InsideOwns, OneOwner
<1>7. \A u \in Thread : thread'[u].pc = "close" => open'[thread'[u].op]
  BY <1>5, <1>6 DEF Idle, Unbroken, TypeOK, ActorsTypeOK, OpsTypeOK
<1>8. Reached'
  BY <1>5 DEF Unbroken, Reached
<1>9. QED
  BY <1>4, <1>5, <1>7, <1>8 DEF Unbroken, NoPanic

\* The context's goroutine looks up operations under way, which are not closed.
LEMMA HandlerUnbroken ==
  ASSUME TypeOK, Exact, Answered, Unbroken, Handler
  PROVE  Unbroken'
<1>1. UNCHANGED <<status, open, errOpen, panicked, thread>>
  BY DEF Handler, HandleMessage, OnMessage, Buffer, BufferError, opVars, cctxVars
<1>2. Reached'
  <2>1. CASE HandleMessage
    <3>1. PICK m \in Message : m = Head(inbox)
      BY <2>1 DEF HandleMessage, TypeOK, RemoteTypeOK
    <3>2. handler' = Routed(m)
      BY <2>1, <3>1 DEF HandleMessage
    <3>3. m.tid \in Tid
      BY <3>1 DEF Message
    <3>4. operations[m.tid] # NoOp => status[operations[m.tid]] \in Live
      BY <3>3 DEF Exact, TableExact, TypeOK, ContextTypeOK
    <3>5. QED
      BY <1>1, <3>2, <3>4 DEF Routed, Asleep, Reached, Live
  <2>2. CASE OnMessage
    <3>1. PICK o \in Op : o = handler.op
      BY <2>2 DEF OnMessage, TypeOK, ActorsTypeOK
    <3>2. PICK m \in Message : m = handler.msg
      BY <2>2 DEF OnMessage, TypeOK, ActorsTypeOK
    <3>3. Genuine(m) /\ status[o] # "NONE" /\ (m.stage # "PUBLISH" => status[o] # "CLOSED")
      BY <2>2, <3>1, <3>2 DEF OnMessage, Answered, AllGenuine, Unbroken, Reached
    <3>4. PICK r \in Protocol : m.type = r.type /\ m.stage = r.stage /\ m.err = r.err
      BY <3>3 DEF Genuine
    <3>5. m.type # "Send" /\ (m.stage = "PUBLISH" => m.type = "Publisher" /\ m.err)
      <4>1. r.type # "Send" /\ (r.stage = "PUBLISH" => r.type = "Publisher" /\ r.err = TRUE)
        BY DEF Protocol, Step
      <4>2. QED
        BY <3>4, <4>1
    <3> DEFINE toErr == Pattern[o] = "Publisher" /\ m.stage = "PUBLISH" /\ m.err
    <3>6. handler' = IF m.type # Pattern[o] THEN Asleep
                     ELSE [handler EXCEPT !.at = CASE toErr /\ errOpen[o] -> "sendErr"
                                                   [] ~toErr /\ open[o]   -> "send"
                                                   [] OTHER               -> "stuck"]
      BY <2>2, <3>1, <3>2 DEF OnMessage
    <3>7. handler \in [at : {"idle", "lookup", "send", "sendErr", "stuck"},
                       op : Op \cup {NoOp}, msg : Message \cup {Nil}]
      BY DEF TypeOK, ActorsTypeOK
    <3>8. CASE m.type # Pattern[o]
      BY <3>6, <3>8 DEF Asleep, Reached
    <3>9. CASE m.type = Pattern[o] /\ toErr
      <4>1. errOpen[o]
        BY <3>3, <3>9 DEF Unbroken
      <4>2. handler' = [handler EXCEPT !.at = "sendErr"]
        BY <3>6, <3>9, <4>1
      <4>3. handler'.at = "sendErr" /\ handler'.op = o /\ handler'.msg = m
        BY <3>1, <3>2, <3>7, <4>2
      <4>4. QED
        BY <1>1, <3>3, <3>9, <4>3 DEF Reached
    <3>10. CASE m.type = Pattern[o] /\ ~toErr
      <4>1. open[o]
        BY <3>3, <3>5, <3>10 DEF Exact, ChannelsOpen, HasChannel
      <4>2. handler' = [handler EXCEPT !.at = "send"]
        BY <3>6, <3>10, <4>1
      <4>3. handler'.at = "send" /\ handler'.op = o /\ handler'.msg = m
        BY <3>1, <3>2, <3>7, <4>2
      <4>4. QED
        BY <1>1, <3>3, <4>3 DEF Reached
    <3>11. QED
      BY <3>8, <3>9, <3>10
  <2>3. CASE Buffer \/ BufferError
    BY <2>3 DEF Buffer, BufferError, Asleep, Reached
  <2>4. QED
    BY <2>1, <2>2, <2>3 DEF Handler
<1>3. QED
  BY <1>1, <1>2, UnbrokenKept

LEMMA UnbrokenStep ==
  ASSUME TypeOK, Exact, Undisturbed, Answered, Unbroken, [Next]_vars, ClosesLate
  PROVE  Unbroken'
<1>0. OwnerCloses
  BY DEF Undisturbed
<1>1. CASE UNCHANGED vars
  BY <1>1, UnbrokenKept DEF vars, opVars, cctxVars
<1>2. ASSUME NEW o \in Op, New(o) PROVE Unbroken'
  BY <1>2, NewUnbroken
<1>3. ASSUME NEW th \in Thread, Application(th) PROVE Unbroken'
  <2>1. thread[th].pc \notin {"cleanOps", "interrupt"}
    BY DEF Exact, ContextKept, Answered, CallsInStep
  <2>2. \A c \in Calls : ~CloseContext(th, c)
    BY <1>0 DEF CloseContext, MayCall, OwnerCloses
  <2>3. \A o \in Op : ~Interrupt(th, o)
    BY DEF Undisturbed, Interrupt, MayCall
  <2>4. (\A t \in Tid : ~CleanOp(th, t)) /\ ~CleanOpsEnds(th) /\ ~InterruptBuffered(th)
    BY <2>1 DEF CleanOp, CleanOpsEnds, InterruptBuffered
  <2>5. ASSUME NEW o \in Op, Close(th, o) PROVE Unbroken'
    <3>1. status[o] \in {"CREATED", "FINAL"}
      BY <2>5 DEF ClosesLate
    <3>2. QED
      BY <2>5, <3>1, CloseUnbroken
  <2>6. QED
    BY <1>0, <1>3, <2>2, <2>3, <2>4, <2>5, CallUnbroken, ReceiveUnbroken, CloseChannelUnbroken DEF Application
<1>4. CASE Handler
  BY <1>4, HandlerUnbroken
<1>5. CASE Remote
  <2>1. UNCHANGED <<status, open, errOpen, panicked, thread, handler>>
    BY <1>5 DEF Remote, Reply, opVars
  <2>2. QED
    BY <2>1, UnbrokenKept
<1>6. QED
  BY <1>1, <1>2, <1>3, <1>4, <1>5 DEF Next

\* Nothing panics and nobody waits on a nil channel, although operations are closed,
\* if each is closed only before its first call or after its last answer: the
\* context's goroutine, which looks an operation up in one step and uses its channel
\* in another, never holds an answer for an operation that may be closed.
THEOREM LateClosesHarmless ==
  ASSUME Undisturbed
  PROVE  Spec /\ [][ClosesLate]_vars => [](NoPanic /\ NeverStuck)
<1>1. /\ Init => TypeOK /\ IdsFresh /\ Exact /\ Answered
      /\ TypeOK /\ IdsFresh /\ Exact /\ Answered /\ [Next]_vars
           => TypeOK' /\ IdsFresh' /\ Exact' /\ Answered'
  BY AnsweredKept
<1>2. TypeOK /\ Exact /\ Answered /\ Unbroken /\ [Next]_vars /\ [ClosesLate]_vars => Unbroken'
  <2>1. CASE ~UNCHANGED vars
    BY <2>1, UnbrokenStep
  <2>2. CASE UNCHANGED vars
    BY <2>2, UnbrokenKept DEF vars, opVars, cctxVars
  <2>3. QED
    BY <2>1, <2>2
<1>3. Answered /\ Unbroken => NoPanic /\ NeverStuck
  BY DEF Answered, CallsInStep, Unbroken, Reached, NeverStuck
<1>4. QED
  BY <1>1, <1>2, <1>3, UnbrokenInit, PTL DEF Spec
=============================================================================
