--------------------------- MODULE ArchiveService ---------------------------
(***************************************************************************)
(* The archive service of COM (com/archive/consumer.go and provider.go): a *)
(* consumer calls its six operations one after the other, and a provider   *)
(* serves each request with an implementation that answers through a       *)
(* helper.  The code is generated, one copy for each operation; here a     *)
(* record says what is particular to an operation, and one action does     *)
(* what the copies have in common.                                         *)
(*                                                                         *)
(* A body is the sequence of the types encoded in it.  The messages of the *)
(* provider keep their order; the goroutine of the consumer's Context      *)
(* takes them from "replies".                                              *)
(***************************************************************************)
EXTENDS Naturals, SequencesExt

CONSTANTS MaxUsed,      \* bound: calls of a behaviour
          MaxUpdates,   \* bound: updates of a Query
          BufferSize,   \* the channel of a progress operation: 10 in the code
          Faults,       \* what may fail
          MaxFaults,    \* bound: how many of these do
          Habits        \* what applications do that the service does not expect

ASSUME BoundAssumption ==
  /\ {MaxUsed, MaxUpdates, MaxFaults} \subseteq Nat /\ BufferSize \in Nat \ {0}
  /\ Faults \subseteq {"unencodable", "refused", "closed", "swallowed", "unsent", "lost"}
  /\ Habits \subseteq {"impatient", "late", "bare"}

VARIABLES op,         \* the operation that the consumer uses
          frame,      \* where the consumer is: at, in which method, with which message
          requests,   \* to the provider
          replies,    \* to the consumer
          held,       \* the message with which the consumer's Context waits for a reader
          buffer,     \* the channel of a progress operation
          provider,   \* the handler: at, the request, acked, what the implementation did
          given,      \* history: how the implementation answered each call
          got,        \* history: what each call gave to the consumer
          alive,      \* FALSE after a panic
          faults      \* history: what failed

consumer == <<op, frame, got>>
channels == <<held, buffer>>
vars == <<consumer, channels, requests, replies, provider, given, alive, faults>>

-----------------------------------------------------------------------------
(* What is particular to an operation. *)

Codes == {"INVALID", "DUPLICATE", "UNKNOWN", "OTHER"}

\* decodeError: the type of the extra information of an error.
Info(lists) == [c \in Codes |-> IF c \in lists THEN "UIntegerList" ELSE "String"]

Selection == <<"ObjectType", "IdentifierList", "LongList">>
Objects == <<"ObjectType", "IdentifierList", "ArchiveDetailsList", "Abstract">>

RetrieveOperation == [pattern |-> "INVOKE", in |-> Selection,
                      out |-> <<"ArchiveDetailsList", "Abstract">>, info |-> Info({"UNKNOWN"})]
QueryOperation == [pattern |-> "PROGRESS", in |-> <<"Boolean", "ObjectType", "ArchiveQueryList", "Abstract">>,
                   out |-> Objects, info |-> Info({"INVALID"})]
CountOperation == [pattern |-> "INVOKE", in |-> <<"ObjectType", "ArchiveQueryList", "Abstract">>,
                   out |-> <<"LongList">>, info |-> Info({"INVALID"})]
StoreOperation == [pattern |-> "REQUEST", in |-> <<"Boolean">> \o Objects,
                   out |-> <<"LongList">>, info |-> Info({"DUPLICATE", "INVALID"})]
UpdateOperation == [pattern |-> "SUBMIT", in |-> Objects, out |-> <<>>, info |-> Info({"UNKNOWN", "INVALID"})]
DeleteOperation == [pattern |-> "REQUEST", in |-> Selection, out |-> <<"LongList">>, info |-> Info({"UNKNOWN"})]

Operation == [Retrieve |-> RetrieveOperation, Query |-> QueryOperation, Count |-> CountOperation,
              Store |-> StoreOperation, Update |-> UpdateOperation, Delete |-> DeleteOperation]
Kinds == DOMAIN Operation

\* The types that the handlers decode.
RetrieveHandler == <<"ObjectType", "IdentifierList", "LongList">>
QueryHandler == <<"Boolean", "ObjectType", "ArchiveQueryList", "Abstract">>
CountHandler == <<"ObjectType", "ArchiveQueryList", "Abstract">>
StoreHandler == <<"Boolean", "ObjectType", "IdentifierList", "ArchiveDetailsList", "Abstract">>
UpdateHandler == <<"ObjectType", "IdentifierList", "ArchiveDetailsList", "Abstract">>
DeleteHandler == <<"ObjectType", "IdentifierList", "LongList">>

Handler == [Retrieve |-> RetrieveHandler, Query |-> QueryHandler, Count |-> CountHandler,
            Store |-> StoreHandler, Update |-> UpdateHandler, Delete |-> DeleteHandler]

\* The methods of a helper, named by the stages of their messages; what they
\* encode; and the stage of ReturnError's message, before and after "acked".
RetrieveHelper == [stages |-> <<"ack", "response">>, out |-> <<"ArchiveDetailsList", "Abstract">>,
                   early |-> "ack", late |-> "response"]
QueryHelper == [stages |-> <<"ack", "update", "response">>, early |-> "ack", late |-> "update",
                out |-> <<"ObjectType", "IdentifierList", "ArchiveDetailsList", "Abstract">>]
CountHelper == [stages |-> <<"ack", "response">>, out |-> <<"LongList">>, early |-> "ack", late |-> "response"]
StoreHelper == [stages |-> <<"response">>, out |-> <<"LongList">>, early |-> "response", late |-> "response"]
UpdateHelper == [stages |-> <<"ack">>, out |-> <<>>, early |-> "ack", late |-> "ack"]
DeleteHelper == [stages |-> <<"response">>, out |-> <<"LongList">>, early |-> "response", late |-> "response"]

Helper == [Retrieve |-> RetrieveHelper, Query |-> QueryHelper, Count |-> CountHelper,
           Store |-> StoreHelper, Update |-> UpdateHelper, Delete |-> DeleteHelper]

\* An error that is not a MalError, and the errors of an operation: a MalError
\* carries the information that the service defines for its code, or none.
End(how) == [how |-> how]
Error(code, info) == [how |-> "error", code |-> code, info |-> info]
Plain == Error("UNKNOWN", "String")
Errors(kind) ==
  {Plain} \cup {Error(c, Operation[kind].info[c]) : c \in Codes}
          \cup {Error(c, "nil") : c \in IF "bare" \in Habits THEN Codes ELSE {}}

NoMessage == [stage |-> "none"]
Bad == [stage |-> "bad"]   \* the operation returns an error and no message
Nothing == [updates |-> 0, end |-> End("none")]

Init ==
  /\ op = [n |-> 0] /\ frame = [at |-> "idle", method |-> "none", msg |-> NoMessage]
  /\ requests = <<>> /\ replies = <<>> /\ held = NoMessage /\ buffer = <<>>
  /\ provider = [at |-> "none"]
  /\ given = [n \in 1 .. MaxUsed |-> Nothing] /\ got = [n \in 1 .. MaxUsed |-> Nothing]
  /\ alive = TRUE /\ faults = {}

Fails(f) == f \in Faults \ faults /\ Cardinality(faults) < MaxFaults /\ faults' = faults \cup {f}

-----------------------------------------------------------------------------
(* The consumer. *)

At(where) == alive /\ frame.at = where
Go(at, method, msg) == frame' = [at |-> at, method |-> method, msg |-> msg]
Panic == alive' = FALSE /\ UNCHANGED consumer   \* resp.IsErrorMessage of no message

Ends(how) == got' = [got EXCEPT ![op.n].end = how] /\ Go("idle", "none", NoMessage)

NewOperation(kind) ==
  /\ At("idle") /\ op.n < MaxUsed
  /\ op' = [n |-> op.n + 1, kind |-> kind, status |-> "CREATED", response |-> NoMessage, registered |-> FALSE]
  /\ Go("call", "none", NoMessage) /\ buffer' = <<>>
  /\ UNCHANGED <<requests, replies, held, provider, given, got, alive, faults>>

\* Invoke, Progress, Request and Submit: the parameters are encoded, then sent.
Call ==
  /\ At("call")
  /\ op' = [op EXCEPT !.status = "INITIATED", !.registered = TRUE]
  /\ requests' = Append(requests, [n |-> op.n, kind |-> op.kind, body |-> Operation[op.kind].in])
  /\ Go("wait", "first", NoMessage)
  /\ UNCHANGED <<replies, channels, provider, given, got, alive, faults>>

CallFails ==
  /\ At("call")
  /\ \/ Fails("unencodable") /\ Ends(End("unencodable")) /\ UNCHANGED <<op, alive>>
     \/ Fails("refused") /\ Panic
  /\ UNCHANGED <<requests, replies, channels, provider, given>>

\* The application reads the updates to their end, then the response.
MayRead(method) ==
  \/ method = "GetUpdate" /\ op.kind = "Query" /\ op.response = NoMessage
  \/ method = "GetResponse" /\ (op.kind = "Query" => op.response # NoMessage \/ "impatient" \in Habits)

DecodeError(e) == IF e.info = Operation[op.kind].info[e.code] THEN e ELSE [e EXCEPT !.info = "unreadable"]

\* What a method returns for a message: its values, or the error of the message.
Result(m) ==
  CASE m.error -> DecodeError(m.body)
    [] ~m.error /\ m.body = Operation[op.kind].out -> End("values")
    [] OTHER -> End("undecodable")

Read(method) ==
  /\ At("read") /\ MayRead(method)
  /\ IF method = "GetResponse" /\ op.response # NoMessage
     THEN Ends(Result(op.response)) /\ UNCHANGED <<op, alive>>
     ELSE IF op.status \in {"ACKNOWLEDGED", "PROGRESSING"}
          THEN Go("wait", method, NoMessage) /\ UNCHANGED <<op, got, alive>>
          ELSE Panic
  /\ UNCHANGED <<requests, replies, channels, provider, given, faults>>

\* The message that the channel of the operation has.
Buffered == op.kind = "Query"
Available == IF Buffered THEN buffer # <<>> ELSE held # NoMessage /\ held.n = op.n
NextMessage == IF Buffered THEN Head(buffer) ELSE held
Take == IF Buffered THEN buffer' = Tail(buffer) /\ UNCHANGED held ELSE held' = NoMessage /\ UNCHANGED buffer

Expected ==
  CASE frame.method = "first" -> {Head(Helper[op.kind].stages)}
    [] frame.method = "GetUpdate" -> {"update", "response"}
    [] frame.method = "GetResponse" -> {"response"}

IsLast(m) == m.error \/ m.stage = "response" \/ op.kind = "Update"

Receive ==
  /\ At("wait") /\ Available /\ Take
  /\ LET m == NextMessage IN
       IF m.stage \notin Expected THEN Go("finalize", frame.method, Bad) /\ UNCHANGED <<op, got>>
       ELSE IF IsLast(m) THEN Go("finalize", frame.method, m) /\ UNCHANGED <<op, got>>
       ELSE /\ op' = [op EXCEPT !.status = IF m.stage = "ack" THEN "ACKNOWLEDGED" ELSE "PROGRESSING"]
            /\ Go("read", "none", NoMessage)
            /\ got' = IF m.stage = "update" THEN [got EXCEPT ![op.n].updates = @ + 1] ELSE got
  /\ UNCHANGED <<requests, replies, provider, given, alive, faults>>

\* deregisterOp, some time after the message was received.
Finalize ==
  LET m == frame.msg
      kept == frame.method = "GetUpdate" /\ m.stage = "response"
  IN  /\ At("finalize") /\ alive' = (m # Bad)
      /\ op' = [op EXCEPT !.status = "FINAL", !.registered = FALSE, !.response = IF kept THEN m ELSE @]
      /\ IF kept \/ m = Bad THEN Go("read", "none", NoMessage) /\ UNCHANGED got ELSE Ends(Result(m))
      /\ UNCHANGED <<requests, replies, channels, provider, given, faults>>

\* The ClientContext is closed while the consumer waits: "Operation ends".
Close ==
  /\ At("wait") /\ Fails("closed") /\ Panic
  /\ UNCHANGED <<requests, replies, channels, provider, given>>

-----------------------------------------------------------------------------
(* The goroutine of the consumer's Context. *)

HasRoom == Buffered /\ Len(buffer) < BufferSize

\* mutant: a message for which there is no room is dropped
DropWhenFull ==
  /\ alive /\ held = NoMessage /\ replies # <<>> /\ replies' = Tail(replies)
  /\ buffer' = IF op.n = Head(replies).n /\ op.registered /\ HasRoom THEN Append(buffer, Head(replies)) ELSE buffer
  /\ held' = IF op.n = Head(replies).n /\ op.registered /\ ~Buffered THEN Head(replies) ELSE held
  /\ UNCHANGED <<consumer, requests, provider, given, alive, faults>>

Deliver ==
  LET m == Head(replies)
      to == op.n = m.n /\ op.registered
  IN  /\ alive /\ held = NoMessage /\ replies # <<>> /\ replies' = Tail(replies)
      /\ buffer' = IF to /\ HasRoom THEN Append(buffer, m) ELSE buffer
      /\ held' = IF to /\ ~HasRoom THEN m ELSE held
      /\ UNCHANGED <<consumer, requests, provider, given, alive, faults>>

Unblock ==
  /\ alive /\ held # NoMessage /\ held.n = op.n /\ HasRoom
  /\ buffer' = Append(buffer, held) /\ held' = NoMessage
  /\ UNCHANGED <<consumer, requests, replies, provider, given, alive, faults>>

-----------------------------------------------------------------------------
(* The provider: its handler, and the implementation that it calls. *)

Serving(where) == alive /\ provider.at = where
Answer(stage, error, body) ==
  replies' = Append(replies, [n |-> provider.n, stage |-> stage, error |-> error, body |-> body])

Fail(e) ==
  /\ provider' = [provider EXCEPT !.at = "error", !.error = e]
  /\ given' = IF provider.done < Len(Helper[provider.kind].stages)
              THEN [given EXCEPT ![provider.n].end = e] ELSE given

Handle ==
  LET r == Head(requests)
      decoded == r.body = Handler[r.kind]
  IN  /\ Serving("none") /\ requests # <<>> /\ requests' = Tail(requests)
      /\ provider' = [at |-> IF decoded THEN "implementation" ELSE "error", n |-> r.n, kind |-> r.kind,
                      acked |-> FALSE, done |-> 0, error |-> Plain]
      /\ given' = IF decoded THEN given ELSE [given EXCEPT ![r.n].end = Plain]
      /\ UNCHANGED <<consumer, channels, replies, alive, faults>>

\* The implementation calls the methods in their order, and may skip or repeat Update.
Stages == Helper[provider.kind].stages
MayAnswer(i) ==
  /\ i \in DOMAIN Stages
  /\ \/ i = provider.done + 1
     \/ Stages[i] = "update" /\ provider.done = i /\ given[provider.n].updates < MaxUpdates
     \/ i = provider.done + 2 /\ Stages[i - 1] = "update"

\* A method that returned nil.
Answered(i) ==
  /\ given' = [given EXCEPT ![provider.n] =
                 [updates |-> @.updates + (IF Stages[i] = "update" THEN 1 ELSE 0),
                  end |-> IF i = Len(Stages) THEN End("values") ELSE @.end]]

Body(stage) == IF stage = "ack" THEN <<>> ELSE Helper[provider.kind].out

AnswerWith(i) ==
  /\ Serving("implementation") /\ MayAnswer(i)
  /\ Answer(Stages[i], FALSE, Body(Stages[i])) /\ Answered(i)
  /\ provider' = [provider EXCEPT !.done = i, !.acked = TRUE]
  /\ UNCHANGED <<consumer, channels, requests, alive, faults>>

\* What cannot be encoded is not sent, and the method returns nil; what cannot be
\* sent is an error of the method, which the implementation returns.
AnswerFails(i) ==
  /\ Serving("implementation") /\ MayAnswer(i)
  /\ \/ /\ Stages[i] # "ack" /\ Fails("swallowed") /\ Answered(i)
        /\ provider' = [provider EXCEPT !.done = i]
     \/ Fails("unsent") /\ Fail(Plain)
  /\ UNCHANGED <<consumer, channels, requests, replies, alive>>

Implementation ==
  /\ Serving("implementation")
  /\ \/ provider.done = Len(Stages) /\ provider' = [at |-> "none"] /\ UNCHANGED given
     \/ /\ provider.done < Len(Stages) \/ "late" \in Habits
        /\ \E e \in Errors(provider.kind) : Fail(e)
  /\ UNCHANGED <<consumer, channels, requests, replies, alive, faults>>

AlwaysEarly == Helper[provider.kind].early   \* mutant: "acked" is not tested
ErrorStage == IF provider.acked THEN Helper[provider.kind].late ELSE Helper[provider.kind].early

\* mutant: the handler returns its error without an answer
OnlyReturned ==
  /\ Serving("error") /\ provider' = [at |-> "none"]
  /\ UNCHANGED <<consumer, channels, requests, replies, given, alive, faults>>

\* Extra information that is a nil interface is a panic.
ReturnError ==
  /\ Serving("error") /\ provider' = [at |-> "none"]
  /\ alive' = (provider.error.info # "nil")
  /\ \/ Answer(ErrorStage, TRUE, provider.error) /\ UNCHANGED faults
     \/ Fails("lost") /\ UNCHANGED replies
  /\ UNCHANGED <<consumer, channels, requests, given>>

-----------------------------------------------------------------------------

Consume == Call \/ Receive \/ Finalize \/ \E method \in {"GetUpdate", "GetResponse"} : Read(method)
Serve == Handle \/ Implementation \/ ReturnError \/ \E i \in 1 .. 3 : AnswerWith(i)

Next ==
  \/ Consume \/ Serve \/ Deliver \/ Unblock
  \/ CallFails \/ Close
  \/ \E kind \in Kinds : NewOperation(kind)
  \/ \E i \in 1 .. 3 : AnswerFails(i)

\* The goroutines run, and so do the applications: the consumer reads its answers
\* and the implementation comes to an end.
Fairness == WF_vars(Consume) /\ WF_vars(Serve) /\ WF_vars(Deliver \/ Unblock)
Spec == Init /\ [][Next]_vars /\ Fairness

-----------------------------------------------------------------------------
(* Properties. *)

\* A call ends with values exactly when the implementation gave its last answer,
\* having read all its updates, and with the error that the implementation
\* returned otherwise; "swallowed" updates and unreadable information apart.
Truthful ==
  \A n \in 1 .. MaxUsed :
    LET g == got[n].end IN
    /\ g.how # "undecodable"
    /\ g.how = "values" => given[n].end.how = "values" /\ ("swallowed" \in faults \/ got[n].updates = given[n].updates)
    /\ g.how = "error" => given[n].end.how = "error" /\ given[n].end.code = g.code

\* With an application that reads the updates before the response, and an
\* implementation that answers once, resp.IsErrorMessage always has a message
\* unless the request was refused or the context closed under the call.
NoPanic == ~alive => faults \cap {"refused", "closed"} # {}

\* Then every call ends, even when an answer could not be sent and became an
\* error; unless the error was lost too, or an answer was swallowed.
CallsEnd ==
  \A n \in 1 .. MaxUsed :
    op.n = n ~> got[n].end # End("none") \/ ~alive \/ faults \cap {"swallowed", "lost"} # {}

\* The errors reach the consumer with their information.
ErrorsReadable == \A n \in 1 .. MaxUsed : got[n].end.how = "error" => got[n].end.info # "unreadable"

\* No error of an operation is a panic.
NeverPanics == alive

\* The consumer reads every update that the implementation gave.
UpdatesArrive == \A n \in 1 .. MaxUsed : got[n].end.how = "values" => got[n].updates = given[n].updates
=============================================================================
