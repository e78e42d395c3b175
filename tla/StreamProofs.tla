------------------------------ MODULE StreamProofs ------------------------------
(* What the caller of StreamBridge reads, proved for every set of kinds of     *)
(* requests, number of attempts and length of a response.                      *)
EXTENDS StreamBridge, SequenceTheorems, TLAPS

\* Every piece answers call c, and none is an error.
Plain(c, b) == \A i \in DOMAIN b : b[i].call = c /\ b[i].kind # "error"

\* A body that is one thing: at most one piece, or pieces of an answer to call c.
OneThing(c, b) == Len(b) <= 1 \/ Plain(c, b)

Unmarked(b) == \A i \in DOMAIN b : b[i].kind # "done"

(***************************************************************************)
(* A hop and its own response: nothing is written before the first chunk,  *)
(* or, without streaming, before the end.                                  *)
(***************************************************************************)
Own(s, r) ==
  /\ r.end = "eof" => r.status # "none"
  /\ s.pc \in {"idle", "start"} => r.status = "none" /\ s.tries = 0
  /\ s.pc = "try" /\ s.tries # 0 => s.lastErr # "none"
  /\ s.pc \in {"idle", "start", "try", "wait"} =>
       r.body = <<>> /\ s.taken = 0 /\ ~ s.sentChunk /\ ~ s.sawDone
  /\ s.pc = "read" => (s.sentChunk <=> r.body # <<>>)
  /\ s.pc # "done" => s.result = "none" /\ r.end # "eof"
  /\ s.pc = "done" => r.end # "open"
  /\ exchange.streaming /\ s.pc \in {"try", "wait", "read"} => r.status = "ok"
  /\ ~ exchange.streaming =>
       /\ s.pc # "done" => r.status = "none"
       /\ s.pc = "done" /\ r.status = "ok" => s.result = "ok"

(***************************************************************************)
(* A hop and the response up that it reads: passed on as it is, the pieces *)
(* read; translated, pieces of the same call, with an end marker once the  *)
(* provider's was seen.                                                    *)
(***************************************************************************)
Reads(k, s, r, up) ==
  s.pc = "read" =>
    /\ exchange.streaming /\ up.status = "ok"
    /\ s.taken <= Len(up.body)
    /\ ~ Translates(k) => /\ Len(r.body) = s.taken
                          /\ \A i \in 1 .. s.taken : r.body[i] = up.body[i]
    /\ Translates(k) => Plain(calls, r.body)
    /\ Translates(k) /\ exchange.targetMarks =>
         IF s.sawDone
           THEN /\ MarkedOnce(r.body) /\ s.taken = Len(up.body)
                /\ up.body # <<>> /\ up.body[Len(up.body)].kind = "done"
           ELSE Unmarked(r.body)

Succeeded(k, s, r, up) ==
  s.result = "ok" =>
    /\ up.status = "ok" /\ up.end = "eof"
    /\ ~ Translates(k) => r.body = up.body
    /\ Translates(k) /\ exchange.streaming /\ exchange.targetMarks
         => MarkedOnce(r.body)

\* What a hop at p leaves for the place q of the hop behind it.
Linked(p, q) ==
  /\ p \in {"idle", "start", "try"} => q = "idle"
  /\ p = "done" => q \in {"idle", "done"}

\* Nothing follows the provider's marker.
ProviderOK(c, p) ==
  /\ Plain(c, p.body)
  /\ \A i \in DOMAIN p.body : p.body[i].kind = "done" => i = Len(p.body)

HopOK(k) ==
  /\ Own(run[k], response[k])
  /\ OneThing(calls, response[k].body)
  /\ Reads(k, run[k], response[k], response[k + 1])
  /\ Succeeded(k, run[k], response[k], response[k + 1])
  /\ k < Hops => /\ Linked(run[k].pc, run[k + 1].pc)
                 /\ run[k].result = "ok" /\ ~ exchange.streaming
                      => run[k + 1].result = "ok"

Types ==
  /\ exchange \in Exchanges
  /\ calls \in Nat
  /\ response \in [1 .. Provider -> Response]
  /\ run \in [Hop -> Run]

IInv ==
  /\ Types
  /\ \A k \in Hop : HopOK(k)
  /\ ProviderOK(calls, response[Provider])

-------------------------------------------------------------------------------
(* Frames: which hops a step can disturb *)

\* What the reader of response r relies on when it becomes r2.
Extends(r, r2) ==
  /\ r.status = "ok" => r2.status = "ok"
  /\ Len(r.body) <= Len(r2.body)
  /\ \A i \in 1 .. Len(r.body) : r2.body[i] = r.body[i]

LEMMA Shape ==
  ASSUME Types
  PROVE  /\ Hops \in {1, 2} /\ Hop = 1 .. Hops /\ Provider = Hops + 1
         /\ exchange \in Exchange
         /\ \A k \in Hop : /\ run[k] \in Run /\ response[k] \in Response
                           /\ response[k + 1] \in Response
                           /\ k < Hops => k + 1 \in Hop
                           /\ k \in 1 .. Provider /\ k + 1 \in 1 .. Provider
  <1>1. /\ Hops \in {1, 2} /\ Hop = 1 .. Hops /\ Provider = Hops + 1
        /\ exchange \in Exchange
    BY StreamBridgeAssumption DEF Types, Hops, Hop, Provider
  <1>2. \A k \in Hop : /\ k < Hops => k + 1 \in Hop
                       /\ k \in 1 .. Provider /\ k + 1 \in 1 .. Provider
    BY ONLY <1>1
  <1> QED
    BY <1>1, <1>2 DEF Types

LEMMA RunFields ==
  ASSUME NEW s \in Run
  PROVE  /\ s.pc \in {"idle", "start", "try", "wait", "read", "done"}
         /\ s.tries \in Nat /\ s.taken \in Nat
         /\ s.lastErr \in Error \cup {"none"} /\ s.result \in Error \cup {"none", "ok"}
  BY DEF Run

\* The hop before one that is under way waits for it or reads from it.
LEMMA ReaderWaits ==
  ASSUME IInv, NEW k \in Hop, NEW j \in Hop, j + 1 = k,
         run[k].pc \notin {"idle", "done"}
  PROVE  run[j].pc \in {"wait", "read"} /\ j < Hops /\ ~ Translates(j)
         /\ run[j].result = "none"
  <1>1. j < Hops /\ run[j] \in Run
    BY Shape DEF IInv
  <1>2. Linked(run[j].pc, run[k].pc) /\ Own(run[j], response[j])
    BY <1>1 DEF IInv, HopOK
  <1>3. run[j].pc \in {"wait", "read"}
    BY <1>1, <1>2, RunFields DEF Linked
  <1>4. run[j].result = "none"
    BY <1>2, <1>3 DEF Own
  <1>5. j # Hops
    BY <1>1, Shape DEF IInv
  <1> QED
    BY <1>1, <1>3, <1>4, <1>5 DEF Translates

LEMMA ReadsOn ==
  ASSUME NEW k, NEW s, NEW r, NEW up \in Response, NEW up2 \in Response,
         s \in Run, ~ Translates(k), Reads(k, s, r, up), Extends(up, up2)
  PROVE  Reads(k, s, r, up2)
  <1>1. /\ Len(up.body) \in Nat /\ Len(up2.body) \in Nat /\ s.taken \in Nat
    BY RunFields, LenProperties DEF Response
  <1> SUFFICES ASSUME s.pc = "read" PROVE Reads(k, s, r, up2)
    BY DEF Reads
  <1>2. /\ exchange.streaming /\ up.status = "ok" /\ s.taken <= Len(up.body)
        /\ Len(r.body) = s.taken /\ \A i \in 1 .. s.taken : r.body[i] = up.body[i]
    BY DEF Reads
  <1>3. /\ up2.status = "ok" /\ s.taken <= Len(up2.body)
    BY <1>1, <1>2 DEF Extends
  <1>4. \A i \in 1 .. s.taken : up2.body[i] = up.body[i]
    <2>1. \A i \in 1 .. s.taken : i \in 1 .. Len(up.body)
      BY ONLY <1>1, <1>2
    <2> QED
      BY <2>1 DEF Extends
  <1> QED
    BY <1>2, <1>3, <1>4 DEF Reads

\* HopOK of the next state, part by part.
LEMMA HopNext ==
  ASSUME UNCHANGED <<exchange, calls>>, NEW j, NEW s, NEW r, NEW up,
         run'[j] = s, response'[j] = r, response'[j + 1] = up,
         Own(s, r), OneThing(calls, r.body), Reads(j, s, r, up), Succeeded(j, s, r, up),
         j < Hops => /\ Linked(s.pc, run'[j + 1].pc)
                     /\ s.result = "ok" /\ ~ exchange.streaming
                          => run'[j + 1].result = "ok"
  PROVE  HopOK(j)'
  <1>1. Own(s, r)'
    BY DEF Own
  <1>2. OneThing(calls, r.body)'
    BY DEF OneThing, Plain
  <1>3. Translates(j)' = Translates(j) /\ Hops' = Hops
    BY DEF Translates, Hops
  <1>4. Reads(j, s, r, up)'
    BY <1>3 DEF Reads, Plain
  <1>5. Succeeded(j, s, r, up)'
    BY <1>3 DEF Succeeded
  <1>6. /\ Own(run[j], response[j])'
        /\ OneThing(calls, response[j].body)'
        /\ Reads(j, run[j], response[j], response[j + 1])'
        /\ Succeeded(j, run[j], response[j], response[j + 1])'
    BY ONLY <1>1, <1>2, <1>4, <1>5, run'[j] = s, response'[j] = r, response'[j + 1] = up
       DEF Own, OneThing, Reads, Succeeded
  <1> QED
    BY <1>3, <1>6 DEF HopOK, Linked

(***************************************************************************)
(* A step of hop k that changes its run and response and no other.         *)
(***************************************************************************)
LEMMA OwnStep ==
  ASSUME IInv, NEW k \in Hop, NEW s \in Run, NEW r \in Response,
         run' = [run EXCEPT ![k] = s], response' = [response EXCEPT ![k] = r],
         UNCHANGED <<exchange, calls>>,
         k # 1 => run[k].pc \notin {"idle", "done"},
         Own(s, r), OneThing(calls, r.body), Extends(response[k], r),
         Reads(k, s, r, response[k + 1]), Succeeded(k, s, r, response[k + 1]),
         k < Hops => /\ Linked(s.pc, run[k + 1].pc)
                     /\ s.result = "ok" /\ ~ exchange.streaming
                          => run[k + 1].result = "ok"
  PROVE  IInv'
  <1>1. /\ Hops \in {1, 2} /\ Hop = 1 .. Hops /\ Provider = Hops + 1
        /\ Hops' = Hops /\ Hop' = Hop /\ Provider' = Provider
        /\ run \in [Hop -> Run] /\ response \in [1 .. Provider -> Response]
    BY Shape DEF IInv, Types, Hops, Hop, Provider
  <1>2. /\ run'[k] = s /\ response'[k] = r
        /\ \A j \in Hop : j # k => run'[j] = run[j]
        /\ \A j \in 1 .. Provider : j # k => response'[j] = response[j]
    BY <1>1
  <1>3. Types'
    BY <1>1 DEF IInv, Types
  <1>4. ProviderOK(calls, response[Provider])'
    <2>1. response'[Provider] = response[Provider]
      BY <1>1, <1>2
    <2> QED
      BY <1>1, <2>1 DEF IInv, ProviderOK, Plain
  <1>5. ASSUME NEW j \in Hop PROVE HopOK(j)'
    <2>1. /\ j \in 1 .. Provider /\ j + 1 \in 1 .. Provider /\ j + 1 # j
          /\ j < Hops => j + 1 \in Hop
          /\ run[j] \in Run /\ response[j] \in Response
          /\ response[j + 1] \in Response
      BY Shape DEF IInv
    <2>2. CASE j = k
      <3>1. /\ response'[j + 1] = response[j + 1]
            /\ j < Hops => run'[j + 1] = run[j + 1]
        BY <1>2, <2>1, <2>2
      <3> QED
        BY <1>2, <2>2, <3>1, HopNext
    <2>3. CASE j + 1 = k
      <3>1. /\ run[j].pc \in {"wait", "read"} /\ run[j].result = "none"
            /\ j < Hops /\ ~ Translates(j)
        <4>1. k # 1
          BY <1>1, <2>3
        <4> QED
          BY <2>3, <4>1, ReaderWaits
      <3>2. /\ run'[j] = run[j] /\ response'[j] = response[j]
            /\ run'[j + 1] = s /\ response'[j + 1] = r
        BY <1>2, <2>1, <2>3
      <3>3. Reads(j, run[j], response[j], r)
        BY <2>1, <2>3, <3>1, ReadsOn DEF IInv, HopOK
      <3>4. Own(run[j], response[j]) /\ OneThing(calls, response[j].body)
        BY DEF IInv, HopOK
      <3>5. Linked(run[j].pc, s.pc) /\ Succeeded(j, run[j], response[j], r)
        BY <3>1 DEF Linked, Succeeded
      <3> QED
        BY <3>1, <3>2, <3>3, <3>4, <3>5, HopNext
    <2>4. CASE j # k /\ j + 1 # k
      <3>1. /\ run'[j] = run[j] /\ response'[j] = response[j]
            /\ response'[j + 1] = response[j + 1]
            /\ j < Hops => run'[j + 1] = run[j + 1]
        BY <1>2, <2>1, <2>4
      <3> QED
        BY <3>1, HopNext DEF IInv, HopOK
    <2> QED
      BY <2>2, <2>3, <2>4
  <1> QED
    BY <1>1, <1>3, <1>4, <1>5 DEF IInv

(***************************************************************************)
(* A step by which hop k gives up what it called: the hops behind it and   *)
(* the provider's answer are as before the call.                           *)
(***************************************************************************)
LEMMA GiveUpStep ==
  ASSUME IInv, NEW k \in Hop, NEW s \in Run, NEW r \in Response,
         run' = HangUp(k, [run EXCEPT ![k] = s], IdleRun),
         response' = HangUp(k, [response EXCEPT ![k] = r], NoResponse),
         UNCHANGED <<exchange, calls>>,
         run[k].pc \notin {"idle", "done"},
         s.pc \in {"try", "done"}, s.result # "ok",
         Own(s, r), OneThing(calls, r.body), Extends(response[k], r)
  PROVE  IInv'
  <1>1. /\ Hops \in {1, 2} /\ Hop = 1 .. Hops /\ Provider = Hops + 1
        /\ Hops' = Hops /\ Hop' = Hop /\ Provider' = Provider
        /\ run \in [Hop -> Run] /\ response \in [1 .. Provider -> Response]
    BY Shape DEF IInv, Types, Hops, Hop, Provider
  <1>2. /\ run' = [j \in Hop |-> IF j > k THEN IdleRun
                                ELSE IF j = k THEN s ELSE run[j]]
        /\ response' = [j \in 1 .. Provider |-> IF j > k THEN NoResponse
                                ELSE IF j = k THEN r ELSE response[j]]
    BY <1>1 DEF HangUp
  <1>6. /\ k \in Nat
        /\ \A j \in Hop : run'[j] = IF j > k THEN IdleRun
                                   ELSE IF j = k THEN s ELSE run[j]
        /\ \A j \in 1 .. Provider : response'[j] = IF j > k THEN NoResponse
                                   ELSE IF j = k THEN r ELSE response[j]
    BY ONLY <1>1, <1>2, k \in Hop
  <1>3. Types'
    <2>1. IdleRun \in Run /\ NoResponse \in Response
      BY DEF IdleRun, Run, NoResponse, Response, Status
    <2> QED
      BY <1>1, <1>2, <2>1 DEF IInv, Types
  <1>4. ProviderOK(calls, response[Provider])'
    <2>1. response'[Provider] = NoResponse
      BY ONLY <1>1, <1>6, k \in Hop
    <2> QED
      BY ONLY <1>1, <2>1 DEF ProviderOK, Plain, NoResponse
  <1>5. ASSUME NEW j \in Hop PROVE HopOK(j)'
    <2>1. /\ j \in 1 .. Provider /\ j + 1 \in 1 .. Provider
          /\ j < Hops => j + 1 \in Hop
          /\ run[j] \in Run /\ response[j] \in Response
          /\ response[j + 1] \in Response
      BY Shape DEF IInv
    <2>2. CASE j = k
      <3>1. /\ run'[j] = s /\ response'[j] = r
            /\ j < Hops => run'[j + 1] = IdleRun
        BY ONLY <1>1, <1>6, <2>1, <2>2
      <3>2. /\ Linked(s.pc, IdleRun.pc) /\ Reads(j, s, r, response'[j + 1])
            /\ Succeeded(j, s, r, response'[j + 1])
        BY DEF Linked, IdleRun, Reads, Succeeded
      <3> QED
        BY ONLY <3>1, <3>2, HopNext, UNCHANGED <<exchange, calls>>, s.result # "ok",
           Own(s, r), OneThing(calls, r.body)
    <2>3. CASE j + 1 = k
      <3>1. /\ run[j].pc \in {"wait", "read"} /\ run[j].result = "none"
            /\ j < Hops /\ ~ Translates(j)
        BY <2>3, ReaderWaits
      <3>2. /\ run'[j] = run[j] /\ response'[j] = response[j]
            /\ run'[j + 1] = s /\ response'[j + 1] = r
        BY ONLY <1>1, <1>6, <2>1, <2>3
      <3>3. Reads(j, run[j], response[j], r)
        BY <2>1, <2>3, <3>1, ReadsOn DEF IInv, HopOK
      <3>4. Own(run[j], response[j]) /\ OneThing(calls, response[j].body)
        BY DEF IInv, HopOK
      <3>5. Linked(run[j].pc, s.pc) /\ Succeeded(j, run[j], response[j], r)
        BY <3>1 DEF Linked, Succeeded
      <3> QED
        BY ONLY <3>1, <3>2, <3>3, <3>4, <3>5, HopNext, UNCHANGED <<exchange, calls>>
    <2>4. CASE j > k
      <3>1. /\ run'[j] = IdleRun /\ response'[j] = NoResponse
            /\ j < Hops => run'[j + 1] = IdleRun
        BY ONLY <1>1, <1>6, <2>1, <2>4, j \in Hop
      <3>2. /\ IdleRun.pc = "idle" /\ IdleRun.result = "none" /\ IdleRun.taken = 0
            /\ IdleRun.tries = 0 /\ IdleRun.sentChunk = FALSE
            /\ IdleRun.sawDone = FALSE
        BY DEF IdleRun
      <3>3. /\ NoResponse.status = "none" /\ NoResponse.body = <<>>
            /\ NoResponse.end = "none"
        BY DEF NoResponse
      <3>4. /\ Own(IdleRun, NoResponse) /\ OneThing(calls, NoResponse.body)
            /\ Reads(j, IdleRun, NoResponse, response'[j + 1])
            /\ Succeeded(j, IdleRun, NoResponse, response'[j + 1])
            /\ Linked(IdleRun.pc, IdleRun.pc)
        BY ONLY <3>2, <3>3 DEF Own, OneThing, Reads, Succeeded, Linked
      <3> QED
        BY ONLY <3>1, <3>2, <3>4, HopNext, UNCHANGED <<exchange, calls>>
    <2> QED
      BY <1>1, <2>1, <2>2, <2>3, <2>4
  <1> QED
    BY <1>1, <1>3, <1>4, <1>5 DEF IInv

(***************************************************************************)
(* A step of the provider.                                                 *)
(***************************************************************************)
LEMMA ProviderStep ==
  ASSUME IInv, NEW p \in Response,
         response' = [response EXCEPT ![Provider] = p],
         UNCHANGED <<exchange, calls, run>>,
         response[Provider].end = "open", ProviderOK(calls, p),
         Extends(response[Provider], p),
         Unmarked(response[Provider].body) \/ p.body = response[Provider].body
  PROVE  IInv'
  <1> DEFINE up == response[Provider]
  <1>1. /\ Hops \in {1, 2} /\ Hop = 1 .. Hops /\ Provider = Hops + 1
        /\ Hops' = Hops /\ Hop' = Hop /\ Provider' = Provider
        /\ run \in [Hop -> Run] /\ response \in [1 .. Provider -> Response]
    BY Shape DEF IInv, Types, Hops, Hop, Provider
  <1>2. /\ response'[Provider] = p /\ run' = run /\ up \in Response
        /\ \A j \in 1 .. Provider : j # Provider => response'[j] = response[j]
    BY <1>1
  <1>3. Types'
    BY <1>1 DEF IInv, Types
  <1>4. ProviderOK(calls, response[Provider])'
    BY <1>1, <1>2 DEF ProviderOK, Plain
  <1>5. ASSUME NEW j \in Hop PROVE HopOK(j)'
    <2>1. /\ j \in 1 .. Provider /\ j + 1 \in 1 .. Provider /\ j # Provider
          /\ run[j] \in Run /\ response'[j] = response[j] /\ HopOK(j)
      BY <1>1, <1>2, Shape DEF IInv
    <2>2. CASE j = Hops
      <3>1. response'[j + 1] = p /\ response[j + 1] = up
        BY <1>1, <1>2, <2>2
      <3>2. Succeeded(j, run[j], response[j], p)
        BY <2>1, <3>1 DEF HopOK, Succeeded
      <3>3. Reads(j, run[j], response[j], p)
        <4> SUFFICES ASSUME run[j].pc = "read" PROVE Reads(j, run[j], response[j], p)
          BY DEF Reads
        <4>1. /\ exchange.streaming /\ up.status = "ok" /\ run[j].taken <= Len(up.body)
              /\ Translates(j) => Plain(calls, response[j].body)
              /\ Translates(j) /\ exchange.targetMarks =>
                   IF run[j].sawDone
                     THEN /\ MarkedOnce(response[j].body)
                          /\ run[j].taken = Len(up.body)
                          /\ up.body # <<>> /\ up.body[Len(up.body)].kind = "done"
                     ELSE Unmarked(response[j].body)
          BY <2>1, <3>1 DEF HopOK, Reads
        <4>2. Len(up.body) \in Nat /\ DOMAIN up.body = 1 .. Len(up.body)
              /\ Len(p.body) \in Nat /\ run[j].taken \in Nat
          BY <1>2, <2>1, RunFields, LenProperties DEF Response
        <4>3. p.status = "ok" /\ run[j].taken <= Len(p.body)
          BY <4>1, <4>2 DEF Extends
        <4>4. CASE Translates(j)
          <5>1. run[j].sawDone /\ exchange.targetMarks => p.body = up.body
            <6>1. CASE up.body # <<>> /\ up.body[Len(up.body)].kind = "done"
              <7>1. Len(up.body) \in DOMAIN up.body
                BY <1>2, <4>2, <6>1 DEF Response
              <7> QED
                BY <6>1, <7>1 DEF Unmarked
            <6> QED
              BY <4>1, <4>4, <6>1
          <5> QED
            BY <4>1, <4>3, <4>4, <5>1 DEF Reads
        <4>5. CASE ~ Translates(j)
          BY <1>2, <2>1, <3>1, <4>5, ReadsOn DEF HopOK
        <4> QED
          BY <4>4, <4>5
      <3> QED
        BY <1>2, <2>1, <2>2, <3>1, <3>2, <3>3, HopNext DEF HopOK
    <2>3. CASE j # Hops
      <3>1. response'[j + 1] = response[j + 1]
        BY <1>1, <1>2, <2>1, <2>3
      <3> QED
        BY <1>2, <2>1, <3>1, HopNext DEF HopOK
    <2> QED
      BY <2>2, <2>3
  <1> QED
    BY <1>1, <1>3, <1>4, <1>5 DEF IInv

-------------------------------------------------------------------------------
(* The steps of a hop *)

LEMMA WithErrorGood ==
  ASSUME NEW r \in Response, NEW error \in Error, NEW c
  PROVE  LET e == WithError(r, error)
         IN /\ e \in Response /\ e.end = r.end /\ e.status # "none"
            /\ r.status = "none" => e.status # "ok"
            /\ OneThing(c, r.body) => OneThing(c, e.body)
            /\ Extends(r, e)
  <1> DEFINE e == WithError(r, error)
  <1>1. ErrorBody \in Seq(Item) /\ Len(ErrorBody) = 1
    BY DEF ErrorBody, Item
  <1>2. MappedStatus(error) \in Status \ {"none", "ok"}
    BY DEF MappedStatus, Status
  <1>3. /\ e.status = (IF r.status = "none" THEN MappedStatus(error) ELSE r.status)
        /\ e.body = (IF r.body = <<>> THEN ErrorBody ELSE r.body)
        /\ e.end = r.end
    BY DEF WithError, Response
  <1>4. e \in Response
    BY <1>1, <1>2 DEF WithError, Response
  <1> HIDE DEF e
  <1>5. Extends(r, e)
    <2>1. CASE r.body = <<>>
      BY <1>1, <1>3, <2>1 DEF Extends
    <2>2. CASE r.body # <<>>
      <3>1. e.body = r.body /\ Len(r.body) \in Nat
        BY <1>3, <2>2 DEF Response
      <3> QED
        BY <1>3, <3>1 DEF Extends
    <2> QED
      BY <2>1, <2>2
  <1>6. OneThing(c, r.body) => OneThing(c, e.body)
    <2>1. OneThing(c, ErrorBody)
      BY <1>1 DEF OneThing
    <2>2. e.body = r.body \/ e.body = ErrorBody
      BY <1>3
    <2> QED
      BY ONLY <2>1, <2>2
  <1> QED
    BY <1>2, <1>3, <1>4, <1>5, <1>6 DEF e

\* A hop under way: what is known of it and its response.
LEMMA UnderWay ==
  ASSUME IInv, NEW k \in Hop
  PROVE  /\ run[k] \in Run /\ response[k] \in Response /\ response[k + 1] \in Response
         /\ Own(run[k], response[k]) /\ OneThing(calls, response[k].body)
         /\ Reads(k, run[k], response[k], response[k + 1])
         /\ Succeeded(k, run[k], response[k], response[k + 1])
         /\ k < Hops => Linked(run[k].pc, run[k + 1].pc)
         /\ exchange \in Exchange
         /\ run \in [Hop -> Run] /\ response \in [1 .. Provider -> Response]
         /\ k \in 1 .. Provider /\ DOMAIN run = Hop
  BY Shape DEF IInv, HopOK, Types

LEMMA StopKeeps ==
  ASSUME IInv, NEW k \in Hop, run[k].pc \in {"try", "wait", "read"},
         NEW error \in Error, NEW r \in Response, StopWith(k, error, r),
         UNCHANGED <<exchange, calls>>, r.end = response[k].end,
         r.status # "none", response[k].status = "none" => r.status # "ok",
         OneThing(calls, r.body), Extends(response[k], r)
  PROVE  IInv'
  <1> DEFINE s == [run[k] EXCEPT !.pc = "done", !.result = error]
             q == Closed(r)
  <1>1. /\ run' = HangUp(k, [run EXCEPT ![k] = s], IdleRun)
        /\ response' = HangUp(k, [response EXCEPT ![k] = q], NoResponse)
    BY UnderWay DEF StopWith
  <1>2. s \in Run /\ s.pc = "done" /\ s.result = error /\ error # "ok"
    BY UnderWay DEF Run, Error
  <1>3. /\ q \in Response /\ q.status = r.status /\ q.body = r.body
        /\ q.end # "open"
    BY DEF Closed, Response
  <1>4. Own(run[k], response[k])
    BY UnderWay
  <1> HIDE DEF s, q
  <1>5. Own(s, q)
    BY <1>2, <1>3, <1>4 DEF Own
  <1>6. OneThing(calls, q.body) /\ Extends(response[k], q)
    BY <1>3 DEF Extends
  <1>7. run[k].pc \notin {"idle", "done"}
    OBVIOUS
  <1> QED
    BY <1>1, <1>2, <1>3, <1>5, <1>6, <1>7, GiveUpStep

LEMMA FailKeeps ==
  ASSUME IInv, NEW k \in Hop, run[k].pc \in {"wait", "read"},
         NEW error \in Error, AttemptFails(k, error)
  PROVE  IInv'
  <1>1. CASE MayTryAgain(k, error)
    <2> DEFINE s == [IdleRun EXCEPT !.pc = "try", !.tries = run[k].tries,
                                    !.lastErr = error]
               r == response[k]
    <2>1. /\ run' = HangUp(k, [run EXCEPT ![k] = s], IdleRun)
          /\ response' = HangUp(k, response, NoResponse)
          /\ UNCHANGED <<exchange, calls>>
      BY <1>1 DEF AttemptFails
    <2>2. [response EXCEPT ![k] = r] = response
      BY UnderWay
    <2>3. /\ s \in Run /\ s.pc = "try" /\ s.result = "none" /\ s.taken = 0
          /\ s.sentChunk = FALSE /\ s.sawDone = FALSE /\ s.lastErr # "none"
      BY UnderWay DEF IdleRun, Run, Error
    <2>4. r \in Response /\ Own(run[k], r) /\ OneThing(calls, r.body)
      BY UnderWay
    <2>5. r.body = <<>>
      BY <1>1, <2>4 DEF MayTryAgain, Own
    <2>6. Extends(r, r)
      BY <2>4 DEF Extends, Response
    <2> HIDE DEF s
    <2>7. Own(s, r)
      BY <2>3, <2>4, <2>5 DEF Own
    <2>8. run[k].pc \notin {"idle", "done"}
      OBVIOUS
    <2> QED
      BY <2>1, <2>2, <2>3, <2>4, <2>6, <2>7, <2>8, GiveUpStep
  <1>2. CASE ~ MayTryAgain(k, error)
    <2>1. /\ StopWith(k, error, WithError(response[k], error))
          /\ UNCHANGED <<exchange, calls>>
      BY <1>2 DEF AttemptFails
    <2>2. response[k] \in Response /\ OneThing(calls, response[k].body)
      BY UnderWay
    <2> QED
      BY <2>1, <2>2, WithErrorGood, StopKeeps
  <1> QED
    BY <1>1, <1>2

LEMMA RefuseKeeps ==
  ASSUME IInv, NEW k \in Hop, Refuse(k)
  PROVE  IInv'
  <1> DEFINE s == [run[k] EXCEPT !.pc = "done", !.result = "refuse"]
             r == [status |-> "final", body |-> ErrorBody, end |-> "eof"]
  <1>1. /\ run[k].pc = "start" /\ UNCHANGED <<exchange, calls>>
        /\ run' = [run EXCEPT ![k] = s] /\ response' = [response EXCEPT ![k] = r]
    BY DEF Refuse
  <1>2. s \in Run /\ s.pc = "done" /\ s.result = "refuse"
    BY UnderWay DEF Run, Error
  <1>3. /\ r \in Response /\ r.status = "final" /\ r.end = "eof" /\ Len(r.body) = 1
    BY DEF ErrorBody, Item, Response, Status
  <1>4. Own(run[k], response[k]) /\ (k < Hops => Linked(run[k].pc, run[k + 1].pc))
    BY UnderWay
  <1> HIDE DEF s, r
  <1>5. Own(s, r)
    BY <1>2, <1>3 DEF Own
  <1>6. OneThing(calls, r.body)
    BY <1>3 DEF OneThing
  <1>7. Extends(response[k], r)
    <2>1. response[k].status = "none" /\ response[k].body = <<>>
      BY <1>1, <1>4 DEF Own
    <2> QED
      BY <1>3, <2>1 DEF Extends
  <1>8. /\ Reads(k, s, r, response[k + 1]) /\ Succeeded(k, s, r, response[k + 1])
        /\ k < Hops => Linked(s.pc, run[k + 1].pc)
    BY <1>1, <1>2, <1>4 DEF Reads, Succeeded, Linked
  <1> QED
    BY <1>1, <1>2, <1>3, <1>5, <1>6, <1>7, <1>8, OwnStep

LEMMA ServeKeeps ==
  ASSUME IInv, NEW k \in Hop, Serve(k)
  PROVE  IInv'
  <1> DEFINE s == [run[k] EXCEPT !.pc = "try"]
             r == [response[k] EXCEPT !.status = StatusAtStart]
  <1>1. /\ run[k].pc = "start" /\ UNCHANGED <<exchange, calls>>
        /\ run' = [run EXCEPT ![k] = s] /\ response' = [response EXCEPT ![k] = r]
    BY UnderWay DEF Serve
  <1>2. /\ s \in Run /\ s.pc = "try" /\ s.result = run[k].result
        /\ s.taken = run[k].taken /\ s.sentChunk = run[k].sentChunk
        /\ s.sawDone = run[k].sawDone /\ s.tries = run[k].tries
    BY UnderWay DEF Run
  <1>3. /\ r \in Response /\ r.status = StatusAtStart /\ r.end = response[k].end
        /\ r.body = response[k].body
    BY UnderWay DEF StatusAtStart, Response, Status
  <1>4. /\ Own(run[k], response[k]) /\ (k < Hops => Linked(run[k].pc, run[k + 1].pc))
        /\ OneThing(calls, r.body)
    BY <1>3, UnderWay
  <1> HIDE DEF s, r
  <1>5. Own(s, r)
    BY <1>1, <1>2, <1>3, <1>4 DEF Own, StatusAtStart
  <1>6. Extends(response[k], r)
    <2>1. response[k].status = "none" /\ Len(response[k].body) \in Nat
      BY <1>1, <1>4, UnderWay DEF Own, Response
    <2> QED
      BY <1>3, <2>1 DEF Extends
  <1>7. /\ Reads(k, s, r, response[k + 1]) /\ Succeeded(k, s, r, response[k + 1])
        /\ k < Hops => Linked(s.pc, run[k + 1].pc)
    BY <1>1, <1>2, <1>4 DEF Reads, Succeeded, Linked, Own
  <1>8. s.result # "ok"
    BY <1>1, <1>2, <1>4 DEF Own
  <1> QED
    BY <1>1, <1>2, <1>3, <1>4, <1>5, <1>6, <1>7, <1>8, OwnStep

\* A call is a new one for the provider, so nobody may hold a piece of an older.
LEMMA CallKeeps ==
  ASSUME IInv, NEW k \in Hop, Call(k)
  PROVE  IInv'
  <1> DEFINE s == [run[k] EXCEPT !.pc = "wait", !.tries = @ + 1]
             fresh == [IdleRun EXCEPT !.pc = "start"]
  <1>1. /\ Hops \in {1, 2} /\ Hop = 1 .. Hops /\ Provider = Hops + 1
        /\ Hops' = Hops /\ Hop' = Hop /\ Provider' = Provider
        /\ run \in [Hop -> Run] /\ response \in [1 .. Provider -> Response]
        /\ exchange' = exchange
    BY Shape DEF IInv, Types, Call, Hops, Hop, Provider
  <1>2. /\ run[k].pc = "try"
        /\ run' = [j \in Hop |-> CASE j = k -> s [] j = k + 1 -> fresh
                                  [] OTHER -> run[j]]
        /\ response' = [response EXCEPT ![k + 1] = Requested]
        /\ calls' = IF k = Hops THEN calls + 1 ELSE calls
    BY DEF Call
  <1>3. /\ s \in Run /\ s.pc = "wait" /\ s.result = run[k].result
        /\ s.taken = run[k].taken /\ s.sentChunk = run[k].sentChunk
        /\ s.sawDone = run[k].sawDone
    <2>1. run[k] \in Run /\ run[k].tries + 1 \in Nat
      BY UnderWay, RunFields
    <2> QED
      BY ONLY <2>1 DEF Run, s
  <1>4. /\ fresh \in Run /\ fresh.pc = "start" /\ fresh.result = "none"
        /\ fresh.taken = 0 /\ fresh.sentChunk = FALSE /\ fresh.sawDone = FALSE
        /\ fresh.tries = 0
    BY DEF IdleRun, Run
  <1>5. /\ Requested \in Response /\ Requested.status = "none"
        /\ Requested.body = <<>> /\ Requested.end = "open"
    <2>1. Requested = [status |-> "none", body |-> <<>>, end |-> "open"]
      BY DEF Requested, NoResponse
    <2> QED
      BY ONLY <2>1 DEF Response, Status
  <1> HIDE DEF s, fresh
  <1>6. /\ run'[k] = s
        /\ k < Hops => run'[k + 1] = fresh
        /\ \A j \in Hop : j # k /\ j # k + 1 => run'[j] = run[j]
        /\ response'[k + 1] = Requested
        /\ \A j \in 1 .. Provider : j # k + 1 => response'[j] = response[j]
    BY ONLY <1>1, <1>2, k \in Hop
  <1>7. Types'
    <2>1. calls' \in Nat
      BY <1>2 DEF IInv, Types
    <2>2. run' \in [Hop -> Run]
      BY ONLY <1>1, <1>2, <1>3, <1>4
    <2>3. response' \in [1 .. Provider -> Response]
      BY ONLY <1>1, <1>2, <1>5
    <2> QED
      BY <1>1, <2>1, <2>2, <2>3 DEF IInv, Types
  <1>8. ProviderOK(calls, response[Provider])'
    <2>1. CASE k = Hops
      <3>1. response'[Provider] = Requested
        BY <1>1, <1>6, <2>1
      <3> QED
        BY <1>1, <1>5, <3>1 DEF ProviderOK, Plain
    <2>2. CASE k # Hops
      <3>1. response'[Provider] = response[Provider] /\ calls' = calls
        BY <1>1, <1>2, <1>6, <2>2
      <3> QED
        BY <1>1, <3>1 DEF IInv, ProviderOK, Plain
    <2> QED
      BY <2>1, <2>2
  <1>9. ASSUME NEW j \in Hop PROVE HopOK(j)'
    <2>1. CASE j = k
      <3>1. /\ run'[j] = s /\ response'[j] = response[j]
            /\ j < Hops => run'[j + 1] = fresh
        BY ONLY <1>1, <1>6, <2>1, k \in Hop
      <3>2. Own(run[j], response[j])
        BY UnderWay
      <3>3. /\ Own(s, response[j]) /\ s.result = "none" /\ s.pc = "wait"
            /\ response[j].body = <<>>
        BY <1>2, <1>3, <2>1, <3>2 DEF Own
      <3> QED
        BY ONLY <1>1, <3>1, <3>3 DEF HopOK, Own, OneThing, Reads, Succeeded, Linked
    <2>2. CASE j = k + 1
      <3>1. /\ run'[j] = fresh /\ response'[j] = Requested /\ ~ (j < Hops)
        BY ONLY <1>1, <1>6, <2>2, k \in Hop, j \in Hop
      <3> QED
        BY ONLY <1>1, <1>4, <1>5, <3>1 DEF HopOK, Own, OneThing, Reads, Succeeded
    <2>3. CASE j + 1 = k
      <3>1. /\ run'[j] = run[j] /\ response'[j] = response[j] /\ run'[j + 1] = s
            /\ response'[j + 1] = response[j + 1] /\ j < Hops
        BY ONLY <1>1, <1>6, <2>3, k \in Hop, j \in Hop
      <3>2. /\ run[j].pc \in {"wait", "read"} /\ run[j].result = "none"
            /\ ~ Translates(j)
        BY <1>2, <2>3, ReaderWaits
      <3>3. /\ Own(run[j], response[j]) /\ Reads(j, run[j], response[j], response[j + 1])
            /\ response[j + 1].body = <<>> /\ run[j].taken \in Nat
        BY <1>2, <2>3, UnderWay, RunFields DEF Own
      <3>4. Len(response[j].body) <= 1
        <4>1. CASE run[j].pc = "wait"
          BY <3>3, <4>1 DEF Own
        <4>2. CASE run[j].pc = "read"
          BY <3>2, <3>3, <4>2 DEF Reads
        <4> QED
          BY <3>2, <4>1, <4>2
      <3>5. ~ Translates(j)'
        BY <1>1, <3>2 DEF Translates
      <3> QED
        BY ONLY <1>1, <3>1, <3>2, <3>3, <3>4, <3>5
           DEF HopOK, Own, OneThing, Reads, Succeeded, Linked
    <2> QED
      BY <1>1, <2>1, <2>2, <2>3
  <1> QED
    BY <1>1, <1>7, <1>8, <1>9 DEF IInv

LEMMA FailuresKeep ==
  ASSUME IInv, NEW k \in Hop,
         CallFails(k) \/ Rejected(k) \/ ReadFails(k) \/ TranslationFails(k)
  PROVE  IInv'
  <1>1. PICK error \in {"retry", "refuse", "fatal"} :
          run[k].pc \in {"wait", "read"} /\ AttemptFails(k, error)
    BY DEF CallFails, Rejected, ReadFails, TranslationFails
  <1>2. error \in Error
    BY DEF Error
  <1> QED
    BY <1>1, <1>2, FailKeeps

LEMMA GivingUpKeeps ==
  ASSUME IInv, NEW k \in Hop, NothingToCall(k) \/ Canceled(k)
  PROVE  IInv'
  <1>1. run[k] \in Run /\ Own(run[k], response[k]) /\ OneThing(calls, response[k].body)
        /\ response[k] \in Response
    BY UnderWay
  <1>2. run[k].pc = "try" /\ run[k].tries # 0 => run[k].lastErr \in Error
    BY <1>1, RunFields DEF Own
  <1>3. PICK error \in Error :
          /\ run[k].pc \in {"try", "wait", "read"} /\ UNCHANGED <<exchange, calls>>
          /\ StopWith(k, error, WithError(response[k], error))
    BY <1>2 DEF NothingToCall, Canceled, Error
  <1> QED
    BY <1>1, <1>3, WithErrorGood, StopKeeps

\* What a hop reads is one thing, and it ends when the hop behind it has.
LEMMA Upstream ==
  ASSUME IInv, NEW k \in Hop
  PROVE  /\ OneThing(calls, response[k + 1].body)
         /\ k = Hops => ProviderOK(calls, response[k + 1])
         /\ response[k + 1].end = "eof" /\ k < Hops =>
              /\ run[k + 1].pc = "done"
              /\ ~ exchange.streaming /\ response[k + 1].status = "ok"
                   => run[k + 1].result = "ok"
  <1>1. /\ k = Hops => k + 1 = Provider
        /\ k < Hops => k + 1 \in Hop
        /\ k = Hops \/ k < Hops
    BY Shape DEF IInv
  <1>2. k = Hops => ProviderOK(calls, response[k + 1])
    BY <1>1 DEF IInv
  <1>3. k < Hops => Own(run[k + 1], response[k + 1]) /\ OneThing(calls, response[k + 1].body)
    BY <1>1 DEF IInv, HopOK
  <1>4. OneThing(calls, response[k + 1].body)
    BY <1>1, <1>2, <1>3 DEF OneThing, ProviderOK
  <1> QED
    BY <1>2, <1>3, <1>4 DEF Own

LEMMA TakeWholeKeeps ==
  ASSUME IInv, NEW k \in Hop, TakeWhole(k)
  PROVE  IInv'
  <1> DEFINE up == response[k + 1]
             s == [run[k] EXCEPT !.pc = "done", !.result = "ok"]
             w == [response[k] EXCEPT !.status = "ok", !.body = up.body]
             r == Closed(w)
  <1>1. /\ run[k].pc = "wait" /\ ~ exchange.streaming /\ up.end = "eof"
        /\ up.status = "ok" /\ UNCHANGED <<exchange, calls>>
        /\ run' = [run EXCEPT ![k] = s] /\ response' = [response EXCEPT ![k] = r]
    BY UnderWay DEF TakeWhole
  <1>2. /\ response[k] \in Response /\ up \in Response /\ run[k] \in Run
        /\ Own(run[k], response[k])
    BY UnderWay
  <1>3. s \in Run /\ s.pc = "done" /\ s.result = "ok"
    BY <1>2 DEF Run
  <1>4. w \in Response /\ w.status = "ok" /\ w.body = up.body
    BY <1>2 DEF Response, Status
  <1>5. r \in Response /\ r.status = "ok" /\ r.body = up.body /\ r.end # "open"
    BY <1>4 DEF Closed, Response
  <1> HIDE DEF s, w, r
  <1>6. Own(s, r)
    BY <1>3, <1>5 DEF Own
  <1>7. OneThing(calls, r.body)
    BY <1>5, Upstream
  <1>8. Extends(response[k], r)
    <2>1. response[k].body = <<>> /\ Len(up.body) \in Nat
      BY <1>1, <1>2 DEF Own, Response
    <2> QED
      BY <1>5, <2>1 DEF Extends
  <1>9. Reads(k, s, r, up) /\ Succeeded(k, s, r, up)
    BY <1>1, <1>3, <1>5 DEF Reads, Succeeded
  <1>10. k < Hops => /\ Linked(s.pc, run[k + 1].pc) /\ run[k + 1].result = "ok"
    BY <1>1, <1>3, Upstream DEF Linked
  <1>11. run[k].pc \notin {"idle", "done"}
    BY <1>1
  <1> QED
    BY <1>1, <1>3, <1>5, <1>6, <1>7, <1>8, <1>9, <1>10, <1>11, OwnStep

LEMMA StartReadingKeeps ==
  ASSUME IInv, NEW k \in Hop, StartReading(k)
  PROVE  IInv'
  <1> DEFINE s == [run[k] EXCEPT !.pc = "read"]
             r == response[k]
             up == response[k + 1]
  <1>1. /\ run[k].pc = "wait" /\ exchange.streaming /\ up.status = "ok"
        /\ UNCHANGED <<exchange, calls>> /\ run' = [run EXCEPT ![k] = s]
        /\ response' = [response EXCEPT ![k] = r]
    BY UnderWay DEF StartReading
  <1>2. /\ r \in Response /\ up \in Response /\ Own(run[k], r) /\ OneThing(calls, r.body)
    BY UnderWay
  <1>3. /\ s \in Run /\ s.pc = "read" /\ s.result = run[k].result
        /\ s.taken = run[k].taken /\ s.sentChunk = run[k].sentChunk
        /\ s.sawDone = run[k].sawDone
    BY UnderWay DEF Run
  <1>4. /\ r.body = <<>> /\ s.taken = 0 /\ ~ s.sentChunk /\ ~ s.sawDone
        /\ s.result = "none" /\ r.status = "ok" /\ r.end # "eof"
    BY <1>1, <1>2, <1>3 DEF Own
  <1>5. Len(up.body) \in Nat /\ Len(r.body) = 0 /\ DOMAIN r.body = {}
    BY <1>2, <1>4 DEF Response
  <1> HIDE DEF s, r, up
  <1>6. Own(s, r)
    BY <1>1, <1>3, <1>4 DEF Own
  <1>7. Reads(k, s, r, up)
    BY ONLY <1>1, <1>3, <1>4, <1>5 DEF Reads, Plain, Unmarked
  <1>8. Succeeded(k, s, r, up) /\ s.result # "ok"
    BY <1>4 DEF Succeeded
  <1>9. Extends(response[k], r)
    BY <1>5 DEF Extends, r
  <1>10. k < Hops => Linked(s.pc, run[k + 1].pc)
    BY <1>3 DEF Linked
  <1>11. run[k].pc \notin {"idle", "done"}
    BY <1>1
  <1> QED
    BY <1>1, <1>2, <1>3, <1>6, <1>7, <1>8, <1>9, <1>10, <1>11, OwnStep DEF r, up

\* One more piece.
LEMMA Added ==
  ASSUME NEW b \in Seq(Item), NEW x \in Item, NEW c \in Nat
  PROVE  LET d == b \o <<x>>
         IN /\ d \in Seq(Item) /\ Len(b) \in Nat /\ Len(d) = Len(b) + 1
            /\ d # <<>> /\ d[Len(b) + 1] = x
            /\ \A i \in 1 .. Len(b) : d[i] = b[i]
            /\ Plain(c, b) /\ x.call = c /\ x.kind # "error" => Plain(c, d)
            /\ Unmarked(b) => IF x.kind = "done" THEN MarkedOnce(d) ELSE Unmarked(d)
  <1> DEFINE d == b \o <<x>>
  <1>1. <<x>> \in Seq(Item) /\ Len(<<x>>) = 1 /\ <<x>>[1] = x
    OBVIOUS
  <1>2. /\ d \in Seq(Item) /\ Len(b) \in Nat /\ Len(d) = Len(b) + 1
        /\ DOMAIN b = 1 .. Len(b) /\ DOMAIN d = 1 .. Len(d)
    BY <1>1, ConcatProperties, LenProperties
  <1>3. \A i \in 1 .. Len(b) : d[i] = b[i]
    BY <1>1, ConcatProperties
  <1>4. d[Len(b) + 1] = x
    BY <1>1, <1>2, ConcatProperties
  <1>5. d # <<>>
    BY <1>2
  <1> HIDE DEF d
  <1>6. \A i \in DOMAIN d : i \in DOMAIN b \/ i = Len(b) + 1
    BY ONLY <1>2
  <1>7. Plain(c, b) /\ x.call = c /\ x.kind # "error" => Plain(c, d)
    BY ONLY <1>2, <1>3, <1>4, <1>6 DEF Plain
  <1>8. ASSUME Unmarked(b), x.kind = "done" PROVE MarkedOnce(d)
    <2>1. \A i \in 1 .. Len(d) - 1 : i \in 1 .. Len(b)
      BY ONLY <1>2
    <2> QED
      BY ONLY <1>2, <1>3, <1>4, <1>5, <1>8, <2>1 DEF Unmarked, MarkedOnce
  <1>9. ASSUME Unmarked(b), x.kind # "done" PROVE Unmarked(d)
    BY ONLY <1>2, <1>3, <1>4, <1>6, <1>9 DEF Unmarked
  <1> QED
    BY <1>2, <1>3, <1>4, <1>5, <1>7, <1>8, <1>9 DEF d

LEMMA TakeChunkKeeps ==
  ASSUME IInv, NEW k \in Hop, TakeChunk(k)
  PROVE  IInv'
  <1> DEFINE me == run[k]
             r == response[k]
             up == response[k + 1]
             n == me.taken + 1
             item == up.body[n]
  <1>1. /\ me.pc = "read" /\ me.taken < Len(up.body) /\ UNCHANGED <<exchange, calls>>
    BY DEF TakeChunk
  <1>2. /\ me \in Run /\ r \in Response /\ up \in Response /\ calls \in Nat
        /\ Own(me, r) /\ OneThing(calls, r.body) /\ Reads(k, me, r, up)
        /\ exchange \in Exchange
    BY UnderWay DEF IInv, Types
  <1>3. /\ me.taken \in Nat /\ n \in Nat /\ Len(up.body) \in Nat
        /\ n \in 1 .. Len(up.body) /\ DOMAIN up.body = 1 .. Len(up.body)
        /\ r.body \in Seq(Item) /\ up.body \in Seq(Item)
    BY <1>1, <1>2, RunFields DEF Response
  <1>4. item \in Item
    BY <1>3
  <1>5. PICK out \in Outputs(k, item) :
          \/ StopWith(k, "fatal", r)
          \/ /\ response' = [response EXCEPT ![k].body = @ \o out]
             /\ run' = [run EXCEPT ![k] = [me EXCEPT
                  !.taken = @ + 1,
                  !.sentChunk = @ \/ out # <<>>,
                  !.sawDone = @ \/ item.kind = "done"]]
    BY DEF TakeChunk
  <1>6. r.status = "ok" /\ r.end # "eof" /\ exchange.streaming /\ up.status = "ok"
    BY <1>1, <1>2 DEF Own, Reads
  <1>7. CASE StopWith(k, "fatal", r)
    <2>1. Extends(r, r)
      BY <1>3 DEF Extends
    <2> QED
      BY <1>1, <1>2, <1>6, <1>7, <2>1, StopKeeps DEF Error
  <1>8. CASE /\ response' = [response EXCEPT ![k].body = @ \o out]
             /\ run' = [run EXCEPT ![k] = [me EXCEPT
                  !.taken = @ + 1,
                  !.sentChunk = @ \/ out # <<>>,
                  !.sawDone = @ \/ item.kind = "done"]]
    <2> DEFINE sent == me.sentChunk \/ out # <<>>
               saw == me.sawDone \/ item.kind = "done"
               s == [me EXCEPT !.taken = n, !.sentChunk = sent, !.sawDone = saw]
               body == r.body \o out
               q == [r EXCEPT !.body = body]
    <2>1. run' = [run EXCEPT ![k] = s] /\ response' = [response EXCEPT ![k] = q]
      BY <1>8, UnderWay
    <2>2. out = <<item>> \/ (out = <<>> /\ Translates(k))
      BY <1>4 DEF Outputs
    <2>3. /\ body \in Seq(Item) /\ Len(r.body) \in Nat /\ Len(r.body) <= Len(body)
          /\ \A i \in 1 .. Len(r.body) : body[i] = r.body[i]
          /\ body # <<>> <=> (r.body # <<>> \/ out # <<>>)
      <3>1. CASE out = <<item>>
        <4>1. body = r.body \o <<item>>
          BY <3>1
        <4>2. /\ r.body \o <<item>> \in Seq(Item) /\ Len(r.body) \in Nat
              /\ Len(r.body \o <<item>>) = Len(r.body) + 1
              /\ \A i \in 1 .. Len(r.body) : (r.body \o <<item>>)[i] = r.body[i]
              /\ r.body \o <<item>> # <<>>
          BY ONLY <1>2, <1>3, <1>4, Added
        <4>3. out # <<>>
          BY <3>1
        <4>4. Len(r.body) <= Len(r.body) + 1
          BY ONLY <4>2
        <4> HIDE DEF body
        <4> QED
          BY ONLY <4>1, <4>2, <4>3, <4>4, Zenon
      <3>2. CASE out = <<>>
        <4>1. body = r.body
          BY <1>3, <3>2
        <4> QED
          BY <1>3, <3>2, <4>1
      <3> QED
        BY <2>2, <3>1, <3>2
    <2>4. /\ s \in Run /\ s.pc = "read" /\ s.result = me.result /\ s.taken = n
          /\ s.sentChunk = sent /\ s.sawDone = saw
      <3>1. sent \in BOOLEAN /\ saw \in BOOLEAN
        OBVIOUS
      <3> HIDE DEF sent, saw, n, me
      <3> QED
        BY <1>1, <1>2, <1>3, <3>1 DEF Run
    <2>5. /\ q \in Response /\ q.body = body /\ q.status = "ok" /\ q.end = r.end
      BY <1>2, <1>6, <2>3 DEF Response
    <2> HIDE DEF s, q
    <2>6. Own(s, q)
      <3>1. (me.sentChunk <=> r.body # <<>>) /\ me.result = "none"
        BY <1>1, <1>2 DEF Own
      <3>2. s.sentChunk <=> q.body # <<>>
        BY <2>3, <2>4, <2>5, <3>1
      <3> QED
        BY <1>6, <2>4, <2>5, <3>1, <3>2 DEF Own
    <2>7. Extends(r, q)
      BY <1>6, <2>3, <2>5 DEF Extends
    <2>8. OneThing(calls, body) /\ Reads(k, s, q, up)
      <3>1. CASE ~ Translates(k)
        <4>1. /\ Len(r.body) = me.taken
              /\ \A i \in 1 .. me.taken : r.body[i] = up.body[i]
          BY <1>1, <1>2, <3>1 DEF Reads
        <4>2. /\ Len(body) = n /\ body[n] = item
              /\ \A i \in 1 .. me.taken : body[i] = r.body[i]
          <5>1. body = r.body \o <<item>>
            BY <2>2, <3>1
          <5>2. /\ Len(r.body \o <<item>>) = Len(r.body) + 1
                /\ (r.body \o <<item>>)[Len(r.body) + 1] = item
            BY <1>2, <1>3, <1>4, Added
          <5> QED
            BY <2>3, <4>1, <5>1, <5>2
        <4>3. \A i \in 1 .. n : body[i] = up.body[i]
          <5>1. \A i \in 1 .. n : i \in 1 .. me.taken \/ i = n
            BY ONLY <1>3
          <5> QED
            BY <4>1, <4>2, <5>1
        <4>4. OneThing(calls, body)
          <5>1. CASE Len(up.body) <= 1
            BY <1>3, <4>2, <5>1 DEF OneThing
          <5>2. CASE Plain(calls, up.body)
            <6>1. DOMAIN body = 1 .. n /\ \A i \in 1 .. n : i \in DOMAIN up.body
              BY <1>3, <2>3, <4>2
            <6> QED
              BY <4>3, <5>2, <6>1 DEF OneThing, Plain
          <5> QED
            BY <5>1, <5>2, Upstream DEF OneThing
        <4>5. n <= Len(up.body)
          BY <1>3
        <4> QED
          BY <1>6, <2>4, <2>5, <3>1, <4>2, <4>3, <4>4, <4>5 DEF Reads
      <3>2. CASE Translates(k)
        <4>1. k = Hops /\ ProviderOK(calls, up)
          BY <3>2, Upstream DEF Translates
        <4>2. /\ item.call = calls /\ item.kind # "error"
              /\ item.kind = "done" => n = Len(up.body)
          BY <1>3, <4>1 DEF ProviderOK, Plain
        <4>3. Plain(calls, r.body)
          BY <1>1, <1>2, <3>2 DEF Reads
        <4>4. Plain(calls, body)
          <5>1. CASE out = <<item>>
            BY <1>2, <1>3, <1>4, <4>2, <4>3, <5>1, Added
          <5>2. CASE out = <<>>
            BY <1>3, <4>3, <5>2
          <5> QED
            BY <2>2, <5>1, <5>2
        <4>5. ASSUME exchange.targetMarks
              PROVE  IF saw
                       THEN /\ MarkedOnce(body) /\ n = Len(up.body)
                            /\ up.body # <<>> /\ up.body[Len(up.body)].kind = "done"
                       ELSE Unmarked(body)
          <5>1. ~ me.sawDone /\ Unmarked(r.body)
            BY <1>1, <1>2, <1>3, <3>2, <4>5 DEF Reads
          <5>2. CASE item.kind = "done"
            <6>1. out = <<item>>
              BY <3>2, <4>5, <5>2 DEF Outputs
            <6>2. MarkedOnce(body)
              BY <1>2, <1>3, <1>4, <5>1, <5>2, <6>1, Added
            <6> QED
              BY <1>3, <4>2, <5>2, <6>2
          <5>3. CASE item.kind # "done"
            <6>1. Unmarked(body)
              <7>1. CASE out = <<item>>
                BY <1>2, <1>3, <1>4, <5>1, <5>3, <7>1, Added
              <7>2. CASE out = <<>>
                BY <1>3, <5>1, <7>2
              <7> QED
                BY <2>2, <7>1, <7>2
            <6> QED
              BY <5>1, <5>3, <6>1
          <5> QED
            BY <5>2, <5>3
        <4>6. n <= Len(up.body)
          BY <1>3
        <4> QED
          BY <1>6, <2>4, <2>5, <3>2, <4>4, <4>5, <4>6 DEF Reads, OneThing
      <3> QED
        BY <3>1, <3>2
    <2>9. Succeeded(k, s, q, up) /\ s.result # "ok"
      BY <1>1, <1>2, <2>4 DEF Succeeded, Own
    <2>10. k < Hops => Linked(s.pc, run[k + 1].pc)
      BY <2>4 DEF Linked
    <2>11. run[k].pc \notin {"idle", "done"}
      BY <1>1
    <2> QED
      BY <1>1, <2>1, <2>4, <2>5, <2>6, <2>7, <2>8, <2>9, <2>10, <2>11, OwnStep
  <1> QED
    BY <1>5, <1>7, <1>8

LEMMA EndOfStreamKeeps ==
  ASSUME IInv, NEW k \in Hop, EndOfStream(k)
  PROVE  IInv'
  <1> DEFINE me == run[k]
             up == response[k + 1]
             body == response[k].body \o Finale(k)
             w == [response[k] EXCEPT !.body = body]
             r == Closed(w)
             s == [me EXCEPT !.pc = "done", !.result = "ok"]
             done == [call |-> calls, kind |-> "done"]
  <1>1. /\ me.pc = "read" /\ me.taken = Len(up.body) /\ up.end = "eof"
        /\ UNCHANGED <<exchange, calls>>
        /\ run' = [run EXCEPT ![k] = s] /\ response' = [response EXCEPT ![k] = r]
    <2>1. /\ me.pc = "read" /\ me.taken = Len(up.body) /\ up.end = "eof"
          /\ UNCHANGED <<exchange, calls>> /\ run' = [run EXCEPT ![k] = s]
      BY DEF EndOfStream
    <2>2. response' = [response EXCEPT ![k] = r]
      BY DEF EndOfStream
    <2> QED
      BY ONLY <2>1, <2>2
  <1>2. /\ me \in Run /\ response[k] \in Response /\ up \in Response /\ calls \in Nat
        /\ Own(me, response[k]) /\ OneThing(calls, response[k].body)
        /\ Reads(k, me, response[k], up)
    BY UnderWay DEF IInv, Types
  <1>3. /\ response[k].body \in Seq(Item) /\ up.body \in Seq(Item)
        /\ done \in Item /\ done.call = calls /\ done.kind = "done"
    BY <1>2 DEF Response, Item
  <1>4. exchange.streaming /\ response[k].status = "ok" /\ up.status = "ok"
    BY <1>1, <1>2 DEF Own, Reads
  <1>5. /\ Finale(k) = <<>> \/ (Finale(k) = <<done>> /\ Translates(k))
        /\ Translates(k) /\ exchange.targetMarks =>
             Finale(k) = IF me.sawDone THEN <<>> ELSE <<done>>
    BY DEF Finale
  <1>6. /\ body \in Seq(Item) /\ Len(response[k].body) \in Nat
        /\ Len(response[k].body) <= Len(body)
        /\ \A i \in 1 .. Len(response[k].body) : body[i] = response[k].body[i]
    <2>1. CASE Finale(k) = <<>>
      <3>1. body = response[k].body
        BY <1>3, <2>1
      <3> QED
        BY <1>3, <3>1
    <2>2. CASE Finale(k) = <<done>>
      BY <1>2, <1>3, <2>2, Added
    <2> QED
      BY <1>5, <2>1, <2>2
  <1>7. ASSUME ~ Translates(k) PROVE body = up.body
    <2>1. body = response[k].body
      BY <1>3, <1>5, <1>7
    <2>2. /\ Len(response[k].body) = Len(up.body)
          /\ \A i \in 1 .. Len(up.body) : response[k].body[i] = up.body[i]
      BY <1>1, <1>2, <1>7 DEF Reads
    <2> QED
      BY <1>3, <2>1, <2>2, SeqEqual
  <1>8. ASSUME Translates(k), exchange.targetMarks PROVE MarkedOnce(body)
    <2>1. CASE me.sawDone
      <3>1. body = response[k].body
        BY <1>3, <1>5, <1>8, <2>1
      <3> QED
        BY <1>1, <1>2, <1>8, <2>1, <3>1 DEF Reads
    <2>2. CASE ~ me.sawDone
      <3>1. body = response[k].body \o <<done>> /\ Unmarked(response[k].body)
        BY <1>1, <1>2, <1>5, <1>8, <2>2 DEF Reads
      <3>2. MarkedOnce(response[k].body \o <<done>>)
        BY <1>2, <1>3, <3>1, Added
      <3> QED
        BY <3>1, <3>2
    <2> QED
      BY <2>1, <2>2
  <1>9. OneThing(calls, body)
    <2>1. CASE Finale(k) = <<>>
      <3>1. body = response[k].body
        BY <1>3, <2>1
      <3> QED
        BY <1>2, <3>1
    <2>2. CASE Finale(k) = <<done>> /\ Translates(k)
      <3>1. Plain(calls, response[k].body)
        BY <1>1, <1>2, <2>2 DEF Reads
      <3>2. Plain(calls, response[k].body \o <<done>>)
        BY <1>2, <1>3, <3>1, Added
      <3> QED
        BY <2>2, <3>2 DEF OneThing
    <2> QED
      BY <1>5, <2>1, <2>2
  <1> HIDE DEF body
  <1>10. s \in Run /\ s.pc = "done" /\ s.result = "ok"
    BY <1>2 DEF Run
  <1>11. w \in Response /\ w.status = "ok" /\ w.body = body
    BY <1>2, <1>4, <1>6 DEF Response
  <1>12. r \in Response /\ r.status = "ok" /\ r.body = body /\ r.end # "open"
    BY <1>11 DEF Closed, Response
  <1> HIDE DEF s, w, r
  <1>13. Own(s, r)
    BY <1>4, <1>10, <1>12 DEF Own
  <1>14. Extends(response[k], r)
    BY <1>6, <1>12 DEF Extends
  <1>15. Reads(k, s, r, up) /\ Succeeded(k, s, r, up)
    BY <1>1, <1>4, <1>7, <1>8, <1>10, <1>12 DEF Reads, Succeeded
  <1>16. k < Hops => Linked(s.pc, run[k + 1].pc)
    BY <1>1, <1>10, Upstream DEF Linked
  <1>17. run[k].pc \notin {"idle", "done"} /\ OneThing(calls, r.body)
    BY <1>1, <1>9, <1>12
  <1> QED
    BY <1>1, <1>4, <1>10, <1>12, <1>13, <1>14, <1>15, <1>16, <1>17, OwnStep

LEMMA ProceedKeeps ==
  ASSUME IInv, NEW k \in Hop, Proceed(k)
  PROVE  IInv'
  BY RefuseKeeps, ServeKeeps, CallKeeps, GivingUpKeeps, FailuresKeep, TakeWholeKeeps,
     StartReadingKeeps, TakeChunkKeeps, EndOfStreamKeeps DEF Proceed

-------------------------------------------------------------------------------
(* The provider and the caller *)

LEMMA RespondKeeps ==
  ASSUME IInv, NEW status \in {"ok", "retryable", "final"}, Respond(status)
  PROVE  IInv'
  <1> DEFINE up == response[Provider]
             p == [up EXCEPT !.status = status]
  <1>1. /\ up \in Response /\ ProviderOK(calls, up)
        /\ response \in [1 .. Provider -> Response] /\ Provider \in 1 .. Provider
    BY Shape DEF IInv, Types
  <1>2. /\ up.end = "open" /\ up.status = "none" /\ UNCHANGED <<exchange, calls, run>>
        /\ response' = [response EXCEPT ![Provider] = p]
    BY <1>1 DEF Respond, MayAnswer
  <1>3. p \in Response /\ p.body = up.body /\ p.status = status
    BY <1>1 DEF Response, Status
  <1>4. ProviderOK(calls, p) /\ Extends(up, p)
    <2>1. Len(up.body) \in Nat
      BY <1>1 DEF Response
    <2> QED
      BY <1>1, <1>2, <1>3, <2>1 DEF ProviderOK, Extends
  <1> HIDE DEF p
  <1> QED
    BY <1>2, <1>3, <1>4, ProviderStep

LEMMA EmitKeeps ==
  ASSUME IInv, NEW kind \in {"data", "done"}, Emit(kind)
  PROVE  IInv'
  <1> DEFINE up == response[Provider]
             x == [call |-> calls, kind |-> kind]
             body == Append(up.body, x)
             p == [up EXCEPT !.body = body]
  <1>1. /\ up \in Response /\ ProviderOK(calls, up) /\ calls \in Nat
        /\ response \in [1 .. Provider -> Response] /\ Provider \in 1 .. Provider
    BY Shape DEF IInv, Types
  <1>2. /\ up.end = "open" /\ Unmarked(up.body) /\ UNCHANGED <<exchange, calls, run>>
        /\ response' = [response EXCEPT ![Provider] = p]
    BY <1>1 DEF Emit, MayAnswer, Unmarked
  <1>3. /\ x \in Item /\ x.call = calls /\ x.kind = kind /\ up.body \in Seq(Item)
    BY <1>1 DEF Item, Response
  <1>4. /\ body \in Seq(Item) /\ Len(up.body) \in Nat /\ Len(body) = Len(up.body) + 1
        /\ DOMAIN up.body = 1 .. Len(up.body) /\ DOMAIN body = 1 .. Len(up.body) + 1
        /\ \A i \in 1 .. Len(up.body) : body[i] = up.body[i]
        /\ body[Len(up.body) + 1] = x
    BY <1>3, AppendProperties, LenProperties
  <1>5. p \in Response /\ p.body = body /\ p.status = up.status
    BY <1>1, <1>4 DEF Response
  <1> HIDE DEF p, body, x
  <1>6. \A i \in DOMAIN body : i \in DOMAIN up.body \/ i = Len(up.body) + 1
    BY ONLY <1>4
  <1>7. ProviderOK(calls, p)
    <2>1. /\ \A i \in DOMAIN up.body : /\ up.body[i].call = calls
                                        /\ up.body[i].kind # "error"
                                        /\ up.body[i].kind # "done"
      BY <1>1, <1>2 DEF ProviderOK, Plain, Unmarked
    <2>2. x.kind # "error"
      BY <1>3
    <2>3. \A i \in DOMAIN body : /\ body[i].call = calls /\ body[i].kind # "error"
                                 /\ body[i].kind = "done" => i = Len(body)
      BY ONLY <1>3, <1>4, <1>6, <2>1, <2>2
    <2> QED
      BY ONLY <1>5, <2>3 DEF ProviderOK, Plain
  <1>8. Extends(up, p)
    BY <1>4, <1>5 DEF Extends
  <1> QED
    BY <1>2, <1>5, <1>7, <1>8, ProviderStep

LEMMA EndBodyKeeps ==
  ASSUME IInv, NEW how \in {"eof", "broken"}, EndBody(how)
  PROVE  IInv'
  <1> DEFINE up == response[Provider]
             p == [up EXCEPT !.end = how]
  <1>1. /\ up \in Response /\ ProviderOK(calls, up)
        /\ response \in [1 .. Provider -> Response] /\ Provider \in 1 .. Provider
    BY Shape DEF IInv, Types
  <1>2. /\ up.end = "open" /\ UNCHANGED <<exchange, calls, run>>
        /\ response' = [response EXCEPT ![Provider] = p]
    BY <1>1 DEF EndBody, MayAnswer
  <1>3. p \in Response /\ p.body = up.body /\ p.status = up.status
    BY <1>1 DEF Response
  <1>4. ProviderOK(calls, p) /\ Extends(up, p)
    <2>1. Len(up.body) \in Nat
      BY <1>1 DEF Response
    <2> QED
      BY <1>1, <1>3, <2>1 DEF ProviderOK, Extends
  <1> HIDE DEF p
  <1> QED
    BY <1>2, <1>3, <1>4, ProviderStep

LEMMA CallerLeavesKeeps ==
  ASSUME IInv, CallerLeaves
  PROVE  IInv'
  <1>1. PICK k \in Hop : k = 1
    BY Shape DEF IInv
  <1> DEFINE s == run[k]
             r == [response[k] EXCEPT !.end = "broken"]
  <1>2. /\ s \in Run /\ response[k] \in Response /\ response[k + 1] \in Response
        /\ Own(s, response[k]) /\ OneThing(calls, response[k].body)
        /\ Reads(k, s, response[k], response[k + 1])
        /\ k < Hops => Linked(s.pc, run[k + 1].pc)
        /\ run \in [Hop -> Run] /\ response \in [1 .. Provider -> Response]
    BY UnderWay
  <1>3. /\ response[k].end = "open" /\ UNCHANGED <<exchange, calls>>
        /\ run' = [run EXCEPT ![k] = s] /\ response' = [response EXCEPT ![k] = r]
    BY <1>1, <1>2 DEF CallerLeaves
  <1>4. /\ r \in Response /\ r.body = response[k].body /\ r.status = response[k].status
        /\ r.end = "broken"
    BY <1>2 DEF Response
  <1> HIDE DEF s, r
  <1>5. Own(s, r) /\ s.result = "none"
    BY <1>2, <1>3, <1>4 DEF Own
  <1>6. Reads(k, s, r, response[k + 1]) /\ Succeeded(k, s, r, response[k + 1])
    BY <1>2, <1>4, <1>5 DEF Reads, Succeeded
  <1>7. Extends(response[k], r) /\ OneThing(calls, r.body)
    <2>1. Len(response[k].body) \in Nat
      BY <1>2 DEF Response
    <2> QED
      BY <1>2, <1>4, <2>1 DEF Extends
  <1>8. s.result # "ok"
    BY <1>5
  <1> QED
    BY <1>1, <1>2, <1>3, <1>4, <1>5, <1>6, <1>7, <1>8, OwnStep

-------------------------------------------------------------------------------
(* The theorems *)

LEMMA InitGood == Init => IInv
  <1> SUFFICES ASSUME Init PROVE IInv
    OBVIOUS
  <1> DEFINE started == [IdleRun EXCEPT !.pc = "start"]
  <1>1. /\ Hops \in {1, 2} /\ Hop = 1 .. Hops /\ Provider = Hops + 1
        /\ exchange \in Exchanges /\ calls = 0
    BY StreamBridgeAssumption DEF Init, Hops, Hop, Provider
  <1>2. /\ IdleRun \in Run /\ IdleRun.pc = "idle" /\ IdleRun.result = "none"
        /\ IdleRun.taken = 0 /\ IdleRun.tries = 0
        /\ IdleRun.sentChunk = FALSE /\ IdleRun.sawDone = FALSE
    BY DEF IdleRun, Run
  <1>3. /\ started \in Run /\ started.pc = "start" /\ started.result = "none"
        /\ started.taken = 0 /\ started.tries = 0
        /\ started.sentChunk = FALSE /\ started.sawDone = FALSE
    BY DEF IdleRun, Run
  <1>4. /\ NoResponse \in Response /\ NoResponse.status = "none"
        /\ NoResponse.body = <<>> /\ NoResponse.end = "none"
    BY DEF NoResponse, Response, Status
  <1>5. /\ Requested \in Response /\ Requested.status = "none"
        /\ Requested.body = <<>> /\ Requested.end = "open"
    <2>1. Requested = [status |-> "none", body |-> <<>>, end |-> "open"]
      BY DEF Requested, NoResponse
    <2> QED
      BY ONLY <2>1 DEF Response, Status
  <1>6. /\ response = [k \in 1 .. Provider |-> IF k = 1 THEN Requested ELSE NoResponse]
        /\ run = [k \in Hop |-> IF k = 1 THEN started ELSE IdleRun]
    BY DEF Init
  <1> HIDE DEF started
  <1>7. Types
    BY ONLY <1>1, <1>2, <1>3, <1>4, <1>5, <1>6 DEF Types
  <1>8. ProviderOK(calls, response[Provider])
    <2>1. response[Provider] = NoResponse
      BY ONLY <1>1, <1>6
    <2> QED
      BY ONLY <1>4, <2>1 DEF ProviderOK, Plain
  <1>9. ASSUME NEW k \in Hop PROVE HopOK(k)
    <2>1. /\ run[k] \in {started, IdleRun} /\ response[k] \in {Requested, NoResponse}
          /\ run[k] = started <=> k = 1
          /\ response[k] = Requested <=> k = 1
          /\ k < Hops => run[k + 1] = IdleRun
      BY ONLY <1>1, <1>2, <1>3, <1>4, <1>5, <1>6, k \in Hop
    <2> QED
      BY ONLY <1>2, <1>3, <1>4, <1>5, <2>1
         DEF HopOK, Own, OneThing, Reads, Succeeded, Linked
  <1> QED
    BY <1>7, <1>8, <1>9 DEF IInv

LEMMA NextGood == IInv /\ [Next]_vars => IInv'
  <1> SUFFICES ASSUME IInv, [Next]_vars PROVE IInv'
    OBVIOUS
  <1>1. CASE UNCHANGED vars
    <2>1. ASSUME NEW j \in Hop PROVE HopOK(j)'
      BY <1>1, HopNext DEF vars, IInv, HopOK
    <2>2. Hop' = Hop /\ Provider' = Provider
      BY <1>1 DEF vars, Hop, Hops, Provider
    <2>3. Types' /\ ProviderOK(calls, response[Provider])'
      BY <1>1, <2>2 DEF vars, IInv, Types, ProviderOK, Plain
    <2> QED
      BY <2>1, <2>2, <2>3 DEF IInv
  <1>2. CASE Next
    BY <1>2, ProceedKeeps, RespondKeeps, EmitKeeps, EndBodyKeeps, CallerLeavesKeeps
       DEF Next
  <1> QED
    BY <1>1, <1>2

LEMMA Holds == Spec => []IInv
  BY InitGood, NextGood, PTL DEF Spec

(***************************************************************************)
(* Types of both hops, the provider's calls and the responses.             *)
(***************************************************************************)
THEOREM TypeCorrect == Spec => []TypeOK
  <1>1. IInv => TypeOK
    BY DEF IInv, Types, HopOK, Own, TypeOK
  <1> QED
    BY <1>1, Holds, PTL

(***************************************************************************)
(* No splicing: the pieces of a body come from one call, whatever failed   *)
(* and was tried again at either hop.                                      *)
(***************************************************************************)
THEOREM NeverSpliced == Spec => []OneCallPerBody
  <1>1. IInv => OneCallPerBody
    <2> SUFFICES ASSUME IInv, NEW k \in Hop,
                        NEW i \in DOMAIN response[k].body,
                        NEW j \in DOMAIN response[k].body
                 PROVE  response[k].body[i].call = response[k].body[j].call
      BY DEF OneCallPerBody
    <2>1. OneThing(calls, response[k].body) /\ response[k] \in Response
      BY UnderWay
    <2>2. CASE Plain(calls, response[k].body)
      BY <2>2 DEF Plain
    <2>3. CASE Len(response[k].body) <= 1
      <3>1. /\ Len(response[k].body) \in Nat
            /\ DOMAIN response[k].body = 1 .. Len(response[k].body)
        BY <2>1, LenProperties DEF Response
      <3>2. i = j
        BY <2>3, <3>1
      <3> QED
        BY <3>2
    <2> QED
      BY <2>1, <2>2, <2>3 DEF OneThing
  <1> QED
    BY <1>1, Holds, PTL

(***************************************************************************)
(* Successes are genuine: what a hop took for one was answered 2xx to the  *)
(* end, and passed on whole.                                               *)
(***************************************************************************)
THEOREM SuccessesGenuine == Spec => []SuccessIsGenuine
  <1>1. IInv => SuccessIsGenuine
    BY DEF IInv, HopOK, Succeeded, SuccessIsGenuine
  <1> QED
    BY <1>1, Holds, PTL

(***************************************************************************)
(* What the caller reads is an error or an answer, and a translated stream *)
(* that was finished ends with one end marker, through either hop.         *)
(***************************************************************************)
THEOREM WellFormed == Spec => []BodiesWellFormed
  <1>1. IInv => BodiesWellFormed
    <2> SUFFICES ASSUME IInv PROVE BodiesWellFormed
      OBVIOUS
    <2>1. ASSUME NEW k \in Hop PROVE ErrorStandsAlone(response[k].body)
      <3> DEFINE b == response[k].body
      <3>1. OneThing(calls, b) /\ b \in Seq(Item)
        BY UnderWay DEF Response
      <3> HIDE DEF b
      <3>2. Len(b) \in Nat /\ DOMAIN b = 1 .. Len(b)
        BY <3>1, LenProperties
      <3> SUFFICES ASSUME NEW i \in DOMAIN b, b[i].kind = "error" PROVE Len(b) = 1
        BY DEF ErrorStandsAlone, Kinds, b
      <3>3. Len(b) <= 1
        BY <3>1 DEF OneThing, Plain
      <3> QED
        BY <3>2, <3>3
    <2>2. ASSUME NEW k \in Hop, exchange.streaming, exchange.translated,
                 exchange.targetMarks, \A j \in k .. Hops : run[j].result = "ok"
          PROVE  MarkedOnce(response[k].body)
      <3>1. Hops \in {1, 2} /\ Hop = 1 .. Hops
        BY Shape DEF IInv
      <3>2. run[k].result = "ok" /\ run[Hops].result = "ok" /\ Hops \in Hop
        BY <2>2, <3>1
      <3>3. Translates(Hops)
        BY <2>2 DEF Translates
      <3>4. MarkedOnce(response[Hops].body)
        BY <2>2, <3>2, <3>3, UnderWay DEF Succeeded
      <3>5. CASE k # Hops
        <4>1. ~ Translates(k) /\ k + 1 = Hops
          BY <3>1, <3>5 DEF Translates
        <4>2. response[k].body = response[k + 1].body
          BY <3>2, <4>1, UnderWay DEF Succeeded
        <4> QED
          BY <3>4, <4>1, <4>2
      <3> QED
        BY <3>4, <3>5
    <2> QED
      BY <2>1, <2>2 DEF BodiesWellFormed
  <1> QED
    BY <1>1, Holds, PTL
===============================================================================
