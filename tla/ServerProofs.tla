------------------------------- MODULE ServerProofs -------------------------------
(***************************************************************************)
(* Proofs about ServerRuntime, for any settings, clock resolution, handlers *)
(* and number of launches.                                                  *)
(***************************************************************************)
EXTENDS ServerRuntime, TLAPS

Early == {"down", "opening", "building", "starting"}

\* Nothing is served before Start, nothing is told to stop before the shutdown,
\* the store is open in between, and only accepted settings are run.
Launched ==
  /\ main \in Early => serve = "none"
  /\ serve = "none" => \A h \in Handler : work[h] = "idle"
  /\ main \in Early \cup {"waiting", "looking"} => told = {}
  /\ main \notin {"down", "opening", "leaving"} => store = "open"
  /\ main # "down" => Accepted(settings)

\* What the shutdown has waited for, unless its time was up, is over for good,
\* because a server that was told to stop takes no request any more.
Waited ==
  /\ main = "stopping http" => told \subseteq {"http"}
  /\ main = "stopping grpc" =>
       "http" \in told /\ (late \/ \A h \in Handler : work[h] # "http")
  /\ main \in {"closing", "leaving"} =>
       \/ late \/ told = {}
       \/ told = {"http", "grpc"} /\ \A h \in Handler : work[h] \notin told

\* What a login made of the settings and the time it had.
Minted ==
  \A token \in tokens :
    /\ token.issued <= now
    /\ token.expires = Expiry(token.issued + token.ttl)

IInv == TypeOK /\ Launched /\ Waited /\ Minted

-------------------------------------------------------------------------------
(* Time *)

\* The expiry is a whole second, and less than a second before the end of the
\* lifetime (Session.ExpiresAt).
LEMMA ExpiryBounds ==
  ASSUME NEW t \in Nat
  PROVE  /\ Expiry(t) \in Nat
         /\ Expiry(t) <= t
         /\ t - (Second - 1) <= Expiry(t)
<1>1. Second \in Nat \ {0}  BY AuthAssumption
<1>2. t % Second \in 0 .. Second - 1  BY <1>1
<1>3. t % Second <= t  BY <1>1
<1> QED  BY <1>1, <1>2, <1>3 DEF Expiry

-------------------------------------------------------------------------------
(* The invariant *)

LEMMA InitIInv ==
  ASSUME Init
  PROVE  IInv
<1>1. TypeOK  BY RuntimeAssumption DEF Init, TypeOK, Place, Protocol
<1>2. Launched /\ Waited /\ Minted
  BY DEF Init, Launched, Early, Waited, Minted
<1> QED  BY <1>1, <1>2 DEF IInv

\* Types
LEMMA TypeOKStep ==
  ASSUME TypeOK, Launched, [Next]_vars
  PROVE  TypeOK'
<1> USE DEF TypeOK, Place, Protocol
<1>1. CASE Launch  BY <1>1, RuntimeAssumption DEF Launch
<1>2. CASE OpenStore  BY <1>2 DEF OpenStore, Exit
<1>3. CASE Build  BY <1>3 DEF Build, Exit
<1>4. CASE Start  BY <1>4 DEF Start, Exit
<1>5. CASE ServeFails  BY <1>5 DEF ServeFails
<1>6. CASE ServeReturned  BY <1>6 DEF ServeReturned
<1>7. CASE Login
  <2> DEFINE token == NewToken(settings, now)
  <2>1. Accepted(settings)  BY <1>7 DEF Login, Takes, Launched, Early
  <2>2. settings \in Settings /\ now \in Nat  OBVIOUS
  <2>3. settings.secret \in Secret /\ settings.ttl \in Nat /\ now + settings.ttl \in Nat
    BY ONLY <2>1, <2>2 DEF Accepted, Settings
  <2>4. token \in Token  BY ONLY <2>2, <2>3, ExpiryBounds DEF NewToken, Token
  <2> QED  BY <1>7, <2>4 DEF Login, process
<1>8. ASSUME NEW h \in Handler, NEW protocol \in Protocol, NEW token \in tokens,
            Admit(h, protocol, token)
     PROVE  TypeOK'
  BY <1>8 DEF Admit
<1>9. ASSUME NEW h \in Handler,
            Finish(h)
     PROVE  TypeOK'
  BY <1>9 DEF Finish
<1>10. CASE Signal  BY <1>10 DEF Signal
<1>11. CASE TimeIsUp  BY <1>11 DEF TimeIsUp
<1>12. CASE Look  BY <1>12 DEF Look
<1>13. CASE StopHTTP  BY <1>13 DEF StopHTTP
<1>14. CASE HTTPStopped  BY <1>14 DEF HTTPStopped
<1>15. CASE StopGRPC  BY <1>15 DEF StopGRPC
<1>16. CASE GRPCStopped  BY <1>16 DEF GRPCStopped
<1>17. CASE CloseStore  BY <1>17 DEF CloseStore
<1>18. CASE Leave  BY <1>18 DEF Leave, Exit
<1>19. CASE Crash  BY <1>19 DEF Crash, Exit
<1>20. CASE Tick
  <2>1. now \in Nat /\ now' = now + 1  BY <1>20 DEF Tick
  <2>2. now' \in Nat  BY ONLY <2>1
  <2> QED  BY <1>20, <2>2 DEF Tick, process
<1>21. CASE UNCHANGED vars  BY <1>21 DEF vars, process
<1> QED
  BY <1>1, <1>2, <1>3, <1>4, <1>5, <1>6, <1>7, <1>8, <1>9, <1>10, <1>11, <1>12,
     <1>13, <1>14, <1>15, <1>16, <1>17, <1>18, <1>19, <1>20, <1>21
  DEF Next, ShuttingDown

\* Before the shutdown
LEMMA LaunchedStep ==
  ASSUME TypeOK, Launched, [Next]_vars
  PROVE  Launched'
<1> USE DEF TypeOK, Launched, Early, Place, Protocol
<1>1. CASE Launch  BY <1>1 DEF Launch
<1>2. CASE OpenStore  BY <1>2 DEF OpenStore, Exit
<1>3. CASE Build  BY <1>3 DEF Build, Exit
<1>4. CASE Start  BY <1>4 DEF Start, Exit
<1>5. CASE ServeFails  BY <1>5 DEF ServeFails
<1>6. CASE ServeReturned  BY <1>6 DEF ServeReturned
<1>7. CASE Login  BY <1>7 DEF Login, process
<1>8. ASSUME NEW h \in Handler, NEW protocol \in Protocol, NEW token \in tokens,
            Admit(h, protocol, token)
     PROVE  Launched'
  BY <1>8 DEF Admit, Takes
<1>9. ASSUME NEW h \in Handler,
            Finish(h)
     PROVE  Launched'
  BY <1>9 DEF Finish
<1>10. CASE Signal  BY <1>10 DEF Signal
<1>11. CASE TimeIsUp  BY <1>11 DEF TimeIsUp
<1>12. CASE Look  BY <1>12 DEF Look
<1>13. CASE StopHTTP  BY <1>13 DEF StopHTTP
<1>14. CASE HTTPStopped  BY <1>14 DEF HTTPStopped
<1>15. CASE StopGRPC  BY <1>15 DEF StopGRPC
<1>16. CASE GRPCStopped  BY <1>16 DEF GRPCStopped
<1>17. CASE CloseStore  BY <1>17 DEF CloseStore
<1>18. CASE Leave  BY <1>18 DEF Leave, Exit
<1>19. CASE Crash  BY <1>19 DEF Crash, Exit
<1>20. CASE Tick  BY <1>20 DEF Tick, process
<1>21. CASE UNCHANGED vars  BY <1>21 DEF vars, process
<1> QED
  BY <1>1, <1>2, <1>3, <1>4, <1>5, <1>6, <1>7, <1>8, <1>9, <1>10, <1>11, <1>12,
     <1>13, <1>14, <1>15, <1>16, <1>17, <1>18, <1>19, <1>20, <1>21
  DEF Next, ShuttingDown

\* The shutdown
LEMMA WaitedStep ==
  ASSUME TypeOK, Launched, Waited, [Next]_vars
  PROVE  Waited'
<1> USE DEF TypeOK, Launched, Early, Waited, Place, Protocol
<1>1. CASE Launch  BY <1>1 DEF Launch
<1>2. CASE OpenStore  BY <1>2 DEF OpenStore, Exit
<1>3. CASE Build  BY <1>3 DEF Build, Exit
<1>4. CASE Start  BY <1>4 DEF Start, Exit
<1>5. CASE ServeFails  BY <1>5 DEF ServeFails
<1>6. CASE ServeReturned  BY <1>6 DEF ServeReturned
<1>7. CASE Login  BY <1>7 DEF Login, process
<1>8. ASSUME NEW h \in Handler, NEW protocol \in Protocol, NEW token \in tokens,
            Admit(h, protocol, token)
     PROVE  Waited'
  BY <1>8 DEF Admit, Takes
<1>9. ASSUME NEW h \in Handler,
            Finish(h)
     PROVE  Waited'
  BY <1>9 DEF Finish
<1>10. CASE Signal  BY <1>10 DEF Signal
<1>11. CASE TimeIsUp  BY <1>11 DEF TimeIsUp
<1>12. CASE Look  BY <1>12 DEF Look
<1>13. CASE StopHTTP  BY <1>13 DEF StopHTTP
<1>14. CASE HTTPStopped  BY <1>14 DEF HTTPStopped, Stopped
<1>15. CASE StopGRPC  BY <1>15 DEF StopGRPC
<1>16. CASE GRPCStopped  BY <1>16 DEF GRPCStopped, Stopped
<1>17. CASE CloseStore  BY <1>17 DEF CloseStore
<1>18. CASE Leave  BY <1>18 DEF Leave, Exit
<1>19. CASE Crash  BY <1>19 DEF Crash, Exit
<1>20. CASE Tick  BY <1>20 DEF Tick, process
<1>21. CASE UNCHANGED vars  BY <1>21 DEF vars, process
<1> QED
  BY <1>1, <1>2, <1>3, <1>4, <1>5, <1>6, <1>7, <1>8, <1>9, <1>10, <1>11, <1>12,
     <1>13, <1>14, <1>15, <1>16, <1>17, <1>18, <1>19, <1>20, <1>21
  DEF Next, ShuttingDown

\* Tokens
LEMMA MintedStep ==
  ASSUME TypeOK, Minted, [Next]_vars
  PROVE  Minted'
<1>1. CASE Login
  <2> DEFINE token == NewToken(settings, now)
  <2>1. now \in Nat  BY DEF TypeOK
  <2>2. token.issued = now /\ token.expires = Expiry(token.issued + token.ttl)
    BY DEF NewToken
  <2>3. token.issued <= now  BY ONLY <2>1, <2>2
  <2> QED  BY <1>1, <2>2, <2>3 DEF Login, Minted, process
<1>2. CASE Tick
  <2>1. now \in Nat /\ now' = now + 1  BY <1>2 DEF TypeOK, Tick
  <2>2. ASSUME NEW token \in tokens
        PROVE  token.issued <= now'
    <3>1. token.issued \in Nat  BY DEF TypeOK, Token
    <3>2. token.issued <= now  BY DEF Minted
    <3> QED  BY ONLY <2>1, <3>1, <3>2
  <2> QED  BY <1>2, <2>2 DEF Tick, Minted, process
<1>3. CASE UNCHANGED <<tokens, now>>  BY <1>3 DEF Minted
<1>4. [Next]_vars => Login \/ Tick \/ UNCHANGED <<tokens, now>>
  BY DEF Next, vars, Launch, OpenStore, Build, Start, ServeFails, ServeReturned,
    Admit, Finish, Signal, TimeIsUp, ShuttingDown, Look, StopHTTP, HTTPStopped,
    StopGRPC, GRPCStopped, CloseStore, Leave, Crash
<1> QED  BY <1>1, <1>2, <1>3, <1>4

THEOREM Inductive == Spec => []IInv
<1>1. Init => IInv  BY InitIInv
<1>2. IInv /\ [Next]_vars => IInv'
  BY TypeOKStep, LaunchedStep, WaitedStep, MintedStep DEF IInv
<1> QED  BY <1>1, <1>2, PTL DEF Spec

-------------------------------------------------------------------------------
(* Theorems *)

\* The variables of Runtime, of main and of the handlers keep their types,
\* whatever fails during a launch and whenever the process ends.
THEOREM TypeCorrect == Spec => []TypeOK
<1>1. IInv => TypeOK  BY DEF IInv
<1> QED  BY Inductive, <1>1, PTL

\* Shutdown closes the store after the handlers of both servers are done,
\* unless its time is up, for any number of handlers that start and end while
\* it waits for one server after the other.
THEOREM StoreIsLast == Spec => []StoreOutlivesHandlers
<1>1. IInv => StoreOutlivesHandlers
  <2> SUFFICES ASSUME TypeOK, Launched, Waited,
                      NEW h \in Handler, work[h] # "idle", store # "open"
               PROVE  late \/ told = {} \/ work[h] = "h2c"
    BY DEF IInv, StoreOutlivesHandlers
  <2>1. main = "leaving"  BY DEF Launched, Early
  <2>2. work[h] \in {"http", "grpc", "h2c"}  BY DEF TypeOK, Protocol
  <2> QED  BY <2>1, <2>2 DEF Waited
<1> QED  BY Inductive, <1>1, PTL

\* Tokens of auth.Service are good for their lifetime less the fraction of a
\* second that Unix() cuts off, whatever the settings of later launches.
THEOREM TokensLast == Spec => []TokensLastTheirTTL
<1>1. IInv => TokensLastTheirTTL
  <2> SUFFICES ASSUME TypeOK, Minted, NEW token \in tokens
               PROVE  LET age == now - token.issued IN
                      /\ Verified(token, settings, now) =>
                           age <= token.ttl /\ token.secret = settings.secret
                      /\ token.secret = settings.secret
                           /\ age <= token.ttl - (Second - 1) =>
                             Verified(token, settings, now)
    BY DEF IInv, TokensLastTheirTTL
  <2> DEFINE end == token.issued + token.ttl
  <2>1. now \in Nat /\ token.issued \in Nat /\ token.ttl \in Nat
    BY DEF TypeOK, Token
  <2>2. Second \in Nat  BY AuthAssumption
  <2>3. end \in Nat  BY ONLY <2>1
  <2>4. /\ Expiry(end) \in Nat
        /\ Expiry(end) <= end
        /\ end - (Second - 1) <= Expiry(end)
    BY ONLY <2>3, ExpiryBounds
  <2>5. token.expires = Expiry(end)  BY DEF Minted
  <2>6. now <= token.expires => now - token.issued <= token.ttl
    BY ONLY <2>1, <2>4, <2>5
  <2>7. now - token.issued <= token.ttl - (Second - 1) => now <= token.expires
    BY ONLY <2>1, <2>2, <2>4, <2>5
  <2> QED  BY <2>6, <2>7 DEF Verified
<1> QED  BY Inductive, <1>1, PTL
===============================================================================
