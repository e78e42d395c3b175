----------------------------- MODULE StreamBridge -----------------------------
(***************************************************************************)
(* The way of one answer through the system: the provider, the executors   *)
(* that read it, Service.run's reaction to their errors, and the handlers  *)
(* that write it out - serveChat of the local gateway, and for a relayed   *)
(* request serveRelayChat of the community server in between.  Hop 1 is the *)
(* gateway; hop k reads the response of k + 1; the last response is the     *)
(* provider's.  What kind of request it is, and whom it reaches, is fixed   *)
(* when it arrives.                                                         *)
(*                                                                          *)
(* Which node or rule an attempt goes to is Proxy's subject; here a hop has *)
(* a number of attempts.  Relaying builds a new proxy for every request, so *)
(* a hop keeps nothing between two of them.                                 *)
(***************************************************************************)
EXTENDS Integers, Sequences

CONSTANTS
  Exchanges,  \* the kinds of requests of this instance
  MaxTries,   \* bound: attempts of a hop
  MaxChunks   \* bound: chunks of a response

Exchange == [
  relayed : BOOLEAN,        \* through the server, by a rule of mode relay
  streaming : BOOLEAN,      \* the caller asks for a stream
  translated : BOOLEAN,     \* the provider speaks another protocol
  providerMarks : BOOLEAN,  \* the provider ends its streams with [DONE]
  targetMarks : BOOLEAN]    \* the caller's protocol has an end marker

ASSUME StreamBridgeAssumption ==
  /\ Exchanges \subseteq Exchange
  /\ MaxTries \in Nat \ {0}
  /\ MaxChunks \in Nat

\* Statuses by what IsRetryable tells apart: 2xx; 408, 429 and 5xx; the rest.
Status == {"none", "ok", "retryable", "final"}

\* Errors by what becomes of them: retried; an upstream's 4xx, passed on; not
\* retried and answered as 502 (or 503); the caller is gone.
Error == {"retry", "refuse", "fatal", "canceled"}

\* A piece of a body: whose call of the provider it answers, and what it is.
Item == [call : Nat, kind : {"data", "done", "error"}]

VARIABLES
  exchange,  \* the request: never changes
  calls,     \* calls of the provider so far
  response,  \* response[k]: what hop k, or the provider, answers
  run        \* run[k]: Service.run and the executor of hop k

vars == <<exchange, calls, response, run>>

Hops == IF exchange.relayed THEN 2 ELSE 1
Hop == 1 .. Hops
Provider == Hops + 1

\* An HTTP response on its way; "broken" is a connection lost midway.
Response == [status : Status, body : Seq(Item),
             end : {"none", "open", "eof", "broken"}]
NoResponse == [status |-> "none", body |-> <<>>, end |-> "none"]
Requested == [NoResponse EXCEPT !.end = "open"]

Run == [pc : {"idle", "start", "try", "wait", "read", "done"},
        tries : Nat,
        taken : Nat,          \* items read of the response of hop k + 1
        sentChunk : BOOLEAN,
        sawDone : BOOLEAN,    \* sawOpenAIDone
        lastErr : Error \cup {"none"},
        result : Error \cup {"none", "ok"}]
IdleRun == [pc |-> "idle", tries |-> 0, taken |-> 0, sentChunk |-> FALSE,
            sawDone |-> FALSE, lastErr |-> "none", result |-> "none"]

\* The caller's request reaches the gateway.
Init ==
  /\ exchange \in Exchanges
  /\ calls = 0
  /\ response = [k \in 1 .. Provider |-> IF k = 1 THEN Requested ELSE NoResponse]
  /\ run = [k \in Hop |-> IF k = 1 THEN [IdleRun EXCEPT !.pc = "start"] ELSE IdleRun]

-------------------------------------------------------------------------------
(* The provider *)

MayAnswer == response[Provider].end = "open"

Respond(status) ==
  /\ MayAnswer /\ response[Provider].status = "none"
  /\ response' = [response EXCEPT ![Provider].status = status]
  /\ UNCHANGED <<exchange, calls, run>>

\* Only a stream with markers has a last "done", and nothing follows it.
Emit(kind) ==
  LET r == response[Provider] IN
  /\ MayAnswer /\ r.status # "none"
  /\ Len(r.body) < MaxChunks
  /\ kind = "done" => /\ exchange.streaming /\ exchange.providerMarks
                      /\ r.status = "ok"
  /\ \A i \in DOMAIN r.body : r.body[i].kind # "done"
  /\ response' = [response EXCEPT ![Provider].body =
                    Append(@, [call |-> calls, kind |-> kind])]
  /\ UNCHANGED <<exchange, calls, run>>

\* The response ends, or the connection is lost, perhaps before any answer.
EndBody(how) ==
  /\ MayAnswer
  /\ how = "eof" => response[Provider].status # "none"
  /\ response' = [response EXCEPT ![Provider].end = how]
  /\ UNCHANGED <<exchange, calls, run>>

-------------------------------------------------------------------------------
(* serveChat and serveRelayChat *)

ErrorBody == <<[call |-> 0, kind |-> "error"]>>

\* The request does not parse, or withAuth turns its token down.
Refuse(k) ==
  /\ run[k].pc = "start"
  /\ response' = [response EXCEPT ![k] =
       [status |-> "final", body |-> ErrorBody, end |-> "eof"]]
  /\ run' = [run EXCEPT ![k] = [@ EXCEPT !.pc = "done", !.result = "refuse"]]
  /\ UNCHANGED <<exchange, calls>>

\* PrepareStream writes 200 before anything is known.  It leaves with the
\* first chunk or at the end; to a reader that has nothing to read yet the
\* difference does not matter.
StatusAtStart == IF exchange.streaming THEN "ok" ELSE "none"

Serve(k) ==
  /\ run[k].pc = "start"
  /\ response' = [response EXCEPT ![k].status = StatusAtStart]
  /\ run' = [run EXCEPT ![k].pc = "try"]
  /\ UNCHANGED <<exchange, calls>>

\* Only an upstream's status is answered.
MappedStatus_Unmapped(error) == IF error = "refuse" THEN "final" ELSE "none"

\* writeMappedError: an upstream's status is passed on, the rest is 502 to 504.
MappedStatus(error) == IF error = "refuse" THEN "final" ELSE "retryable"

\* The error is the body, unless a chunk was written; the status only if it
\* was not written yet.
WithError(r, error) ==
  [r EXCEPT !.status = IF @ = "none" THEN MappedStatus(error) ELSE @,
            !.body = IF @ = <<>> THEN ErrorBody ELSE @]

\* The handler returns.  A caller that has left reads none of it.
Closed(r) == IF r.end = "open" THEN [r EXCEPT !.end = "eof"] ELSE r

-------------------------------------------------------------------------------
(* Service.run: an attempt, and what follows from its end *)

\* Every other hop's part in an attempt that was given up.
HangUp(k, f, nothing) == [j \in DOMAIN f |-> IF j > k THEN nothing ELSE f[j]]

\* run stops with an error, and the handler with response r.
StopWith(k, error, r) ==
  /\ response' = HangUp(k, [response EXCEPT ![k] = Closed(r)], NoResponse)
  /\ run' = HangUp(k, [run EXCEPT ![k] = [@ EXCEPT !.pc = "done",
                                                   !.result = error]], IdleRun)

\* Another attempt, unless the error forbids it or none is left.
MayTryAgain_Started(k, error) == error = "retry" /\ run[k].tries < MaxTries

\* IsRetryable, and StreamError.Started: not after the first chunk.
MayTryAgain(k, error) ==
  error = "retry" /\ run[k].tries < MaxTries /\ ~ run[k].sentChunk

AttemptFails(k, error) ==
  /\ IF MayTryAgain(k, error)
       THEN /\ run' = HangUp(k, [run EXCEPT ![k] =
                        [IdleRun EXCEPT !.pc = "try", !.tries = run[k].tries,
                                        !.lastErr = error]], IdleRun)
            /\ response' = HangUp(k, response, NoResponse)
       ELSE StopWith(k, error, WithError(response[k], error))
  /\ UNCHANGED <<exchange, calls>>

\* No route, no usable node, no snapshot: nothing is called.
NothingToCall(k) ==
  /\ run[k].pc = "try"
  /\ \E error \in IF run[k].tries = 0 THEN {"refuse", "fatal"}
                                      ELSE {run[k].lastErr} :
       StopWith(k, error, WithError(response[k], error))
  /\ UNCHANGED <<exchange, calls>>

\* sendProtocolRequest
Call(k) ==
  /\ run[k].pc = "try" /\ response[k].end = "open"
  /\ run[k].tries < MaxTries
  /\ run' = [j \in Hop |->
       CASE j = k -> [run[k] EXCEPT !.pc = "wait", !.tries = @ + 1]
         [] j = k + 1 -> [IdleRun EXCEPT !.pc = "start"]
         [] OTHER -> run[j]]
  /\ response' = [response EXCEPT ![k + 1] = Requested]
  /\ calls' = IF k = Hops THEN calls + 1 ELSE calls
  /\ UNCHANGED exchange

\* The client is made without group.Timeout.
CallFails_NoTimeout(k) ==
  /\ run[k].pc = "wait"
  /\ response[k + 1].end = "broken"
  /\ AttemptFails(k, "retry") \/ AttemptFails(k, "fatal")

\* The call, or group.Timeout, ends without a whole answer.  A timeout and a
\* reset connection are network errors, a truncated body is not.
CallFails(k) ==
  /\ run[k].pc = "wait"
  /\ \/ AttemptFails(k, "retry")
     \/ response[k + 1].end = "broken" /\ AttemptFails(k, "fatal")

\* The caller closes its connection: Context.Canceled, if nothing else first.
CallerLeaves ==
  /\ response[1].end = "open"
  /\ response' = [response EXCEPT ![1].end = "broken"]
  /\ UNCHANGED <<exchange, calls, run>>

Canceled(k) ==
  /\ run[k].pc \in {"try", "wait", "read"}
  /\ response[k].end = "broken"
  /\ StopWith(k, "canceled", WithError(response[k], "canceled"))
  /\ UNCHANGED <<exchange, calls>>

-------------------------------------------------------------------------------
(* executeProtocolChat and streamProtocolChat *)

\* A status that is not 2xx, with its whole body: UpstreamError.
Rejected(k) ==
  LET up == response[k + 1] IN
  /\ run[k].pc = "wait"
  /\ up.end = "eof" /\ up.status # "ok"
  /\ AttemptFails(k, IF up.status = "retryable" THEN "retry" ELSE "refuse")

\* The whole answer of a request without streaming.
TakeWhole(k) ==
  LET up == response[k + 1] IN
  /\ run[k].pc = "wait" /\ ~ exchange.streaming
  /\ up.end = "eof" /\ up.status = "ok"
  /\ response' = [response EXCEPT ![k] =
       Closed([@ EXCEPT !.status = "ok", !.body = up.body])]
  /\ run' = [run EXCEPT ![k] = [@ EXCEPT !.pc = "done", !.result = "ok"]]
  /\ UNCHANGED <<exchange, calls>>

StartReading(k) ==
  /\ run[k].pc = "wait" /\ exchange.streaming
  /\ response[k + 1].status = "ok"
  /\ run' = [run EXCEPT ![k].pc = "read"]
  /\ UNCHANGED <<exchange, calls, response>>

\* What yield is called with for an item: the item itself from a server of the
\* same protocol; translated, the marker of the caller's protocol if it has
\* one, and one chunk or none for any other event (the translator is external).
Translates(k) == exchange.translated /\ k = Hops
Outputs(k, item) ==
  IF ~ Translates(k) THEN {<<item>>}
  ELSE IF item.kind = "done"
    THEN {IF exchange.targetMarks THEN <<item>> ELSE <<>>}
    ELSE {<<>>, <<item>>}

\* proxyRawStream and translateStreamResponse: one turn of their loops.  The
\* write may fail once the caller has left; the handler then adds nothing.
TakeChunk(k) ==
  LET me == run[k]
      item == response[k + 1].body[me.taken + 1]
  IN /\ me.pc = "read"
     /\ me.taken < Len(response[k + 1].body)
     /\ \E out \in Outputs(k, item) :
          \/ /\ out # <<>> /\ response[k].end = "broken"
             /\ StopWith(k, "fatal", response[k])
          \/ /\ response' = [response EXCEPT ![k].body = @ \o out]
             /\ run' = [run EXCEPT ![k] = [me EXCEPT
                  !.taken = @ + 1,
                  !.sentChunk = @ \/ out # <<>>,
                  !.sawDone = @ \/ item.kind = "done"]]
     /\ UNCHANGED <<exchange, calls>>

\* The marker is added to every stream.
Finale_Always(k) ==
  IF Translates(k) /\ exchange.targetMarks
    THEN <<[call |-> calls, kind |-> "done"]>> ELSE <<>>

\* FinalizeStream: the end marker, if the provider sent none.
Finale(k) ==
  IF Translates(k) /\ exchange.targetMarks /\ ~ run[k].sawDone
    THEN <<[call |-> calls, kind |-> "done"]>> ELSE <<>>

\* A lost connection is taken for the end.
EndOfStream_AnyEnd(k) ==
  LET me == run[k] IN
  /\ me.pc = "read"
  /\ me.taken = Len(response[k + 1].body)
  /\ response[k + 1].end # "open"
  /\ response' = [response EXCEPT ![k] =
       Closed([@ EXCEPT !.body = response[k].body \o Finale(k)])]
  /\ run' = [run EXCEPT ![k] = [me EXCEPT !.pc = "done", !.result = "ok"]]
  /\ UNCHANGED <<exchange, calls>>

\* The response ended; all of it was read.
EndOfStream(k) ==
  LET me == run[k] IN
  /\ me.pc = "read"
  /\ me.taken = Len(response[k + 1].body)
  /\ response[k + 1].end = "eof"
  /\ response' = [response EXCEPT ![k] =
       Closed([@ EXCEPT !.body = response[k].body \o Finale(k)])]
  /\ run' = [run EXCEPT ![k] = [me EXCEPT !.pc = "done", !.result = "ok"]]
  /\ UNCHANGED <<exchange, calls>>

\* The translator rejects what the provider answered.
TranslationFails(k) ==
  LET me == run[k]
      up == response[k + 1]
  IN /\ Translates(k)
     /\ \/ me.pc = "wait" /\ ~ exchange.streaming
           /\ up.end = "eof" /\ up.status = "ok"
        \/ me.pc = "read" /\ (me.taken < Len(up.body) \/ up.end = "eof")
     /\ AttemptFails(k, "fatal")

\* Reading fails: the timeout may strike at any time, chunks that arrived are
\* read before the loss of the connection shows.
ReadFails(k) ==
  LET up == response[k + 1] IN
  /\ run[k].pc = "read"
  /\ \/ AttemptFails(k, "retry")
     \/ /\ up.end = "broken" /\ run[k].taken = Len(up.body)
        /\ AttemptFails(k, "fatal")

-------------------------------------------------------------------------------
Proceed(k) ==
  \/ Refuse(k) \/ Serve(k) \/ Call(k) \/ NothingToCall(k)
  \/ CallFails(k) \/ Rejected(k) \/ TakeWhole(k)
  \/ StartReading(k) \/ TakeChunk(k) \/ EndOfStream(k) \/ ReadFails(k)
  \/ TranslationFails(k)
  \/ Canceled(k)

Next ==
  \/ \E k \in Hop : Proceed(k)
  \/ \E status \in {"ok", "retryable", "final"} : Respond(status)
  \/ \E kind \in {"data", "done"} : Emit(kind)
  \/ \E how \in {"eof", "broken"} : EndBody(how)
  \/ CallerLeaves

Spec == Init /\ [][Next]_vars

\* Each hop is a goroutine whose calls are bounded by group.Timeout (CallFails
\* and ReadFails are its firing); the provider owes nothing.
FairSpec == Spec /\ \A k \in 1 .. 2 : WF_vars(k \in Hop /\ Proceed(k))

-------------------------------------------------------------------------------
(* Properties *)

TypeOK ==
  /\ exchange \in Exchanges
  /\ calls \in Nat
  /\ response \in [1 .. Provider -> Response]
  /\ \A k \in Hop : response[k].end = "eof" => response[k].status # "none"
  /\ run \in [Hop -> Run]

Kinds(body) == {body[i].kind : i \in DOMAIN body}

(***************************************************************************)
(* No splicing: whatever was retried at either hop, the body the caller    *)
(* reads comes from one call of one provider.                              *)
(***************************************************************************)
OneCallPerBody ==
  \A k \in Hop : \A i, j \in DOMAIN response[k].body :
    response[k].body[i].call = response[k].body[j].call

\* An error is never mixed into an answer: it is the whole body.
ErrorStandsAlone(body) == "error" \in Kinds(body) => Len(body) = 1

\* The end marker of the caller's protocol comes last, and once.
MarkedOnce(body) ==
  /\ body # <<>> /\ body[Len(body)].kind = "done"
  /\ \A i \in 1 .. Len(body) - 1 : body[i].kind # "done"

(***************************************************************************)
(* What the caller reads is one thing: an error, or an answer, and a stream *)
(* that a hop finished without error ends with one end marker, whether the  *)
(* provider marked the end or the executor had to, if the hops behind it    *)
(* finished without error too.                                              *)
(***************************************************************************)
BodiesWellFormed ==
  LET markedStream == exchange.streaming /\ exchange.translated
                        /\ exchange.targetMarks
  IN \A k \in Hop :
       /\ ErrorStandsAlone(response[k].body)
       /\ markedStream /\ (\A j \in k .. Hops : run[j].result = "ok")
            => MarkedOnce(response[k].body)

(***************************************************************************)
(* What a hop takes for a success is one: the hop or provider it read from *)
(* answered 2xx to the end, and the caller has all of it, so that other    *)
(* failures are retried, failed over and counted by passive health.  Only  *)
(* a relayed stream carries its failure behind the status 200.             *)
(***************************************************************************)
SuccessIsGenuine ==
  \A k \in Hop :
    run[k].result = "ok" =>
      /\ response[k + 1].status = "ok" /\ response[k + 1].end = "eof"
      /\ k < Hops /\ ~ exchange.streaming => run[k + 1].result = "ok"
      /\ ~ Translates(k) => response[k].body = response[k + 1].body

\* The caller of a request whose provider falls silent still gets an answer.
CallerIsAnswered == <>(response[1].end # "open")
===============================================================================
