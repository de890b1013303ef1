------------------------- MODULE PreloadClientProofs -------------------------
(***************************************************************************)
(* Theorems about the safety of PreloadClient, for any number of calls,     *)
(* sessions and postures and any configured mode.                           *)
(***************************************************************************)
EXTENDS PreloadClient, TLAPS

\* c runs an exchange that has not settled
Exchanging(c) == InPhase(c, "exchange") \/ InPhase(c, "granted")

\* An exchange that was granted brings a session.
GrantsBringSessions ==
  \A c \in Call : InPhase(c, "granted") => calls[c].session # None

\* The promise that a call may join belongs to an exchange under way.
SharedExchangeIsLive == exchange # None => Exchanging(exchange)

\* the inductive invariant
IInv ==
  /\ TypeOK
  /\ AlwaysAuthenticated
  /\ NobodyAwaitsASettledExchange
  /\ GrantsBringSessions
  /\ SharedExchangeIsLive

\* what a call may become, v, when c moves by itself: nothing that awaits it
\* is left behind, and what it awaits itself is under way
FairMove(c, v) ==
  /\ Exchanging(c) => v # Idle /\ v.phase \in {"exchange", "granted"}
  /\ v # Idle =>
       /\ v.phase \in {"request", "granted"} => v.session # None
       /\ v.phase = "joined" => v.on \in Call \ {c} /\ Exchanging(v.on)
-----------------------------------------------------------------------------
(***************************************************************************)
(* The operators.                                                           *)
(***************************************************************************)

\* No record of a call is the idle one.
LEMMA ActiveIsNotIdle == Idle \notin ActiveCall
BY DEF Idle, ActiveCall

LEMMA RequiredTyped ==
  ASSUME NEW posture
  PROVE  required(posture) \in ProcessContainmentMode
BY ClientAssumption
   DEF required, resolveCapabilityContainmentMode, ProcessContainmentMode

LEMMA NewCallTyped ==
  ASSUME NEW route \in Route
  PROVE  newCall(route) \in ActiveCall
BY ClientAssumption DEF newCall, ActiveCall

LEMMA SentTyped ==
  ASSUME NEW call \in ActiveCall, NEW s \in Session \cup {None}
  PROVE  /\ sent(call, s) \in ActiveCall
         /\ sent(call, s).phase = "request"
         /\ sent(call, s).session = s
BY ClientAssumption DEF sent, ActiveCall

LEMMA JoiningTyped ==
  ASSUME NEW call \in ActiveCall, NEW d \in Call
  PROVE  /\ joining(call, d) \in ActiveCall
         /\ joining(call, d).phase = "joined"
         /\ joining(call, d).on = d
BY DEF joining, ActiveCall

LEMMA ExchangingTyped ==
  ASSUME NEW call \in ActiveCall
  PROVE  /\ exchanging(call) \in ActiveCall
         /\ exchanging(call).phase = "exchange"
BY ClientAssumption DEF exchanging, ActiveCall

LEMMA KnownTyped ==
  ASSUME TypeOK
  PROVE  Known \in [Session -> Posture \cup {"gone"}]
BY DEF Known, TypeOK

\* How a call that runs no exchange goes on: with a token, behind another
\* call's exchange or with its own.
LEMMA AuthIsFair ==
  ASSUME IInv, NEW c \in Call, NEW call \in ActiveCall, NEW lapsed \in BOOLEAN,
         ~ Exchanging(c)
  PROVE  LET auth == resolveSessionAuth(c, call, lapsed)
         IN  /\ auth.call \in ActiveCall
             /\ FairMove(c, auth.call)
             /\ \/ auth.exchange = exchange
                \/ auth.exchange = c /\ auth.call.phase = "exchange"
<1>1. token \in Session \cup {None} /\ exchange \in Call \cup {None}
  BY DEF IInv, TypeOK
<1>2. CASE token # None /\ ~ lapsed
  <2>1. resolveSessionAuth(c, call, lapsed) =
          [call |-> sent(call, token), exchange |-> exchange]
    BY <1>2 DEF resolveSessionAuth
  <2>2. FairMove(c, sent(call, token))
    BY <1>1, <1>2, SentTyped DEF FairMove
  <2> QED
    BY <1>1, <2>1, <2>2, SentTyped
<1>3. CASE ~ (token # None /\ ~ lapsed) /\ exchange # None
  <2>1. resolveSessionAuth(c, call, lapsed) =
          [call |-> joining(call, exchange), exchange |-> exchange]
    BY <1>3 DEF resolveSessionAuth
  <2>2. exchange \in Call \ {c} /\ Exchanging(exchange)
    BY <1>1, <1>3 DEF IInv, SharedExchangeIsLive
  <2>3. FairMove(c, joining(call, exchange))
    BY <2>2, JoiningTyped DEF FairMove
  <2> QED
    BY <2>1, <2>2, <2>3, JoiningTyped
<1>4. CASE ~ (token # None /\ ~ lapsed) /\ exchange = None
  <2>1. resolveSessionAuth(c, call, lapsed) =
          [call |-> exchanging(call), exchange |-> c]
    BY <1>4 DEF resolveSessionAuth
  <2>2. FairMove(c, exchanging(call))
    BY ExchangingTyped DEF FairMove
  <2> QED
    BY <2>1, <2>2, ExchangingTyped
<1> QED
  BY <1>2, <1>3, <1>4
-----------------------------------------------------------------------------
(***************************************************************************)
(* Steps that move one call, and steps that move all that await it.         *)
(***************************************************************************)

LEMMA OneCallMoves ==
  ASSUME IInv, TypeOK', NEW c \in Call, NEW v, FairMove(c, v),
         calls' = [calls EXCEPT ![c] = v],
         \/ exchange' = exchange
         \/ exchange' = None
         \/ exchange' = c /\ v # Idle /\ v.phase = "exchange"
  PROVE  IInv'
<1>1. calls'[c] = v /\ \A d \in Call \ {c} : calls'[d] = calls[d]
  BY DEF IInv, TypeOK
<1>2. \A d \in Call \ {c} : \A phase : InPhase(d, phase)' <=> InPhase(d, phase)
  BY <1>1 DEF InPhase, Active
<1>3. \A phase : InPhase(c, phase)' <=> v # Idle /\ v.phase = phase
  BY <1>1 DEF InPhase, Active
<1>4. \A d \in Call : Exchanging(d) => Exchanging(d)'
  BY <1>2, <1>3 DEF Exchanging, FairMove
<1>5. AlwaysAuthenticated'
  BY <1>1, <1>2, <1>3 DEF IInv, AlwaysAuthenticated, FairMove
<1>6. GrantsBringSessions'
  BY <1>1, <1>2, <1>3 DEF IInv, GrantsBringSessions, FairMove
<1>7. NobodyAwaitsASettledExchange'
  <2>1. \A d \in Call : InPhase(d, "joined")' =>
          calls'[d].on \in Call \ {d} /\ Exchanging(calls'[d].on)
    BY <1>1, <1>2, <1>3
       DEF IInv, NobodyAwaitsASettledExchange, FairMove, Exchanging
  <2> QED
    BY <1>4, <2>1 DEF NobodyAwaitsASettledExchange, Exchanging
<1>8. SharedExchangeIsLive'
  <2>1. exchange \in Call \cup {None}
    BY DEF IInv, TypeOK
  <2> QED
    BY <1>3, <1>4, <2>1 DEF IInv, SharedExchangeIsLive, Exchanging
<1> QED
  BY <1>5, <1>6, <1>7, <1>8 DEF IInv

\* The exchange of c settles: c and all that await it run no exchange and
\* await none, and the shared promise is cleared.
LEMMA ExchangeSettles ==
  ASSUME IInv, TypeOK', NEW c \in Call,
         exchange' = None,
         \A d \in Call :
           IF d = c \/ Awaits(d, c)
           THEN \/ calls'[d] = Idle
                \/ calls'[d].phase = "request" /\ calls'[d].session # None
           ELSE calls'[d] = calls[d]
  PROVE  IInv'
<1>1. \A d \in Call : d = c \/ Awaits(d, c) =>
        /\ ~ InPhase(d, "joined")' /\ ~ InPhase(d, "granted")'
        /\ InPhase(d, "request")' => calls'[d].session # None
  BY DEF InPhase, Active
<1>2. \A d \in Call : ~ (d = c \/ Awaits(d, c)) =>
        \A phase : InPhase(d, phase)' <=> InPhase(d, phase)
  BY DEF InPhase, Active
<1>3. AlwaysAuthenticated'
  BY <1>1, <1>2 DEF IInv, AlwaysAuthenticated
<1>4. GrantsBringSessions'
  BY <1>1, <1>2 DEF IInv, GrantsBringSessions
<1>5. NobodyAwaitsASettledExchange'
  <2> SUFFICES ASSUME NEW d \in Call, InPhase(d, "joined")'
               PROVE  \E e \in Call \ {d} : calls'[d].on = e /\ Exchanging(e)'
    BY DEF NobodyAwaitsASettledExchange, Exchanging
  <2>1. d # c /\ ~ Awaits(d, c) /\ InPhase(d, "joined") /\ calls'[d] = calls[d]
    BY <1>1, <1>2
  <2>2. PICK e \in Call \ {d} : calls[d].on = e /\ Exchanging(e)
    BY <2>1 DEF IInv, NobodyAwaitsASettledExchange, Exchanging
  <2>3. e # c /\ ~ Awaits(e, c)
    BY <2>1, <2>2 DEF Awaits, Exchanging, InPhase
  <2>4. Exchanging(e)'
    BY <1>2, <2>2, <2>3 DEF Exchanging
  <2> QED
    BY <2>1, <2>2, <2>4
<1>6. SharedExchangeIsLive'
  BY DEF SharedExchangeIsLive
<1> QED
  BY <1>3, <1>4, <1>5, <1>6 DEF IInv
-----------------------------------------------------------------------------
LEMMA InitHolds == Init => IInv
<1> SUFFICES ASSUME Init PROVE IInv
  OBVIOUS
<1>1. \A c \in Call : ~ Active(c)
  BY DEF Init, Active
<1>2. TypeOK
  BY ClientAssumption DEF Init, TypeOK
<1> QED
  BY <1>1, <1>2 DEF IInv, AlwaysAuthenticated, NobodyAwaitsASettledExchange,
     GrantsBringSessions, SharedExchangeIsLive, InPhase, Init

LEMMA StepHolds == IInv /\ [Next]_vars => IInv'
<1> SUFFICES ASSUME IInv, [Next]_vars PROVE IInv'
  OBVIOUS
<1> USE DEF client
<1>1. /\ token \in Session \cup {None} /\ expiring \in BOOLEAN
      /\ exchange \in Call \cup {None} /\ mode \in ProcessContainmentMode
      /\ calls \in [Call -> {Idle} \cup ActiveCall]
      /\ standing \in [Session -> Posture \cup {"gone"}]
      /\ Known \in [Session -> Posture \cup {"gone"}]
  BY KnownTyped DEF IInv, TypeOK
<1>2. \A c \in Call : Active(c) => calls[c] \in ActiveCall
  BY <1>1 DEF Active
<1>3. ASSUME NEW c \in Call, NEW route \in Route, Start(c, route)
      PROVE  IInv'
  <2> DEFINE auth == resolveSessionAuth(c, newCall(route), expiring)
  <2>1. ~ Exchanging(c)
    BY <1>3 DEF Start, Exchanging, InPhase, Active
  <2>2. /\ auth.call \in ActiveCall /\ FairMove(c, auth.call)
        /\ \/ auth.exchange = exchange
           \/ auth.exchange = c /\ auth.call.phase = "exchange"
    BY <1>1, <2>1, NewCallTyped, AuthIsFair
  <2>3. /\ calls' = [calls EXCEPT ![c] = auth.call]
        /\ exchange' = auth.exchange
        /\ UNCHANGED <<token, expiring, mode>> /\ standing' = Known
    BY <1>3 DEF Start
  <2> HIDE DEF auth
  <2>4. TypeOK'
    BY <1>1, <2>2, <2>3 DEF TypeOK
  <2> QED
    BY <2>2, <2>3, <2>4, OneCallMoves, ActiveIsNotIdle
<1>4. ASSUME NEW c \in Call, NEW s \in Session, NEW posture \in Posture,
             Bootstrap(c, s, posture)
      PROVE  IInv'
  <2> DEFINE v == [calls[c] EXCEPT !.phase = "granted", !.session = s,
                                   !.mode = required(posture)]
  <2>1. calls[c] \in ActiveCall
    BY <1>2, <1>4 DEF Bootstrap, InPhase
  <2>2. v \in ActiveCall /\ v.phase = "granted" /\ v.session = s
    BY <2>1, RequiredTyped DEF ActiveCall
  <2>3. calls' = [calls EXCEPT ![c] = v]
    BY <1>4 DEF Bootstrap
  <2> HIDE DEF v
  <2>4. FairMove(c, v)
    BY <2>2, ClientAssumption, ActiveIsNotIdle DEF FairMove
  <2>5. /\ UNCHANGED <<token, expiring, exchange, mode>>
        /\ standing' = [standing EXCEPT ![s] = posture]
    BY <1>4 DEF Bootstrap
  <2>6. TypeOK'
    BY <1>1, <2>2, <2>3, <2>5 DEF TypeOK
  <2> QED
    BY <2>3, <2>4, <2>5, <2>6, OneCallMoves
<1>5. ASSUME NEW c \in Call, ExchangeArrives(c)
      PROVE  IInv'
  <2>1. calls[c] \in ActiveCall /\ calls[c].session \in Session
    BY <1>2, <1>5 DEF ExchangeArrives, InPhase, ActiveCall, IInv,
                      GrantsBringSessions
  <2>2. calls[c].mode \in ProcessContainmentMode
    BY <2>1 DEF ActiveCall
  <2>3. \A d \in Call : d = c \/ Awaits(d, c) =>
          /\ calls[d] \in ActiveCall
          /\ sent(calls[d], calls[c].session) \in ActiveCall
          /\ sent(calls[d], calls[c].session).phase = "request"
          /\ sent(calls[d], calls[c].session).session = calls[c].session
    BY <1>2, <2>1, SentTyped DEF Awaits, InPhase
  <2>4. /\ calls' = resumed(c) /\ token' = calls[c].session
        /\ expiring' = FALSE /\ mode' = calls[c].mode
        /\ exchange' = None /\ standing' = Known
    BY <1>5 DEF ExchangeArrives
  <2>5. \A d \in Call :
          calls'[d] = IF d = c \/ Awaits(d, c)
                      THEN sent(calls[d], calls[c].session) ELSE calls[d]
    BY <2>4 DEF resumed
  <2>6. calls' \in [Call -> {Idle} \cup ActiveCall]
    BY <1>1, <2>3, <2>4 DEF resumed
  <2>7. TypeOK'
    BY <1>1, <2>1, <2>2, <2>4, <2>6 DEF TypeOK
  <2>8. \A d \in Call :
          IF d = c \/ Awaits(d, c)
          THEN \/ calls'[d] = Idle
               \/ calls'[d].phase = "request" /\ calls'[d].session # None
          ELSE calls'[d] = calls[d]
    BY <2>1, <2>3, <2>5, ClientAssumption
  <2> QED
    BY <2>4, <2>7, <2>8, ExchangeSettles
<1>6. ASSUME NEW c \in Call, ExchangeFails(c)
      PROVE  IInv'
  <2>1. /\ calls' = failed(c) /\ exchange' = None
        /\ UNCHANGED <<token, expiring, mode>> /\ standing' = Known
    BY <1>6 DEF ExchangeFails
  <2>2. \A d \in Call :
          calls'[d] = IF d = c \/ Awaits(d, c) THEN Idle ELSE calls[d]
    BY <2>1 DEF failed
  <2>3. TypeOK'
    BY <1>1, <2>1 DEF TypeOK, failed
  <2> QED
    BY <2>1, <2>2, <2>3, ExchangeSettles
<1>7. ASSUME NEW c \in Call, NEW posture \in Posture, NEW drifted \in BOOLEAN,
             Handle(c, posture, drifted)
      PROVE  IInv'
  <2> DEFINE v == [newCall(calls[c].route) EXCEPT
                     !.phase = "answered", !.drifted = drifted,
                     !.mode = IF calls[c].route = "heartbeat"
                              THEN required(posture) ELSE @]
  <2>1. newCall(calls[c].route) \in ActiveCall
    BY <1>2, <1>7, NewCallTyped DEF Handle, InPhase, ActiveCall
  <2>2. v \in ActiveCall /\ v.phase = "answered"
    BY <2>1, RequiredTyped DEF ActiveCall
  <2>3. calls' = [calls EXCEPT ![c] = v]
    BY <1>7 DEF Handle
  <2> HIDE DEF v
  <2>4. ~ Exchanging(c)
    BY <1>7 DEF Handle, Exchanging, InPhase
  <2>5. FairMove(c, v)
    BY <2>2, <2>4 DEF FairMove
  <2>6. UNCHANGED <<token, expiring, exchange, mode>>
    BY <1>7 DEF Handle
  <2>7. standing' \in [Session -> Posture \cup {"gone"}]
    BY <1>1, <1>7 DEF Handle
  <2>8. TypeOK'
    BY <1>1, <2>2, <2>3, <2>6, <2>7 DEF TypeOK
  <2> QED
    BY <2>3, <2>5, <2>6, <2>8, OneCallMoves
<1>8. ASSUME NEW c \in Call, Refuse(c)
      PROVE  IInv'
  <2> DEFINE v == [calls[c] EXCEPT !.phase = "refused"]
  <2>1. v \in ActiveCall /\ v.phase = "refused"
    BY <1>2, <1>8 DEF Refuse, InPhase, ActiveCall
  <2>2. calls' = [calls EXCEPT ![c] = v]
    BY <1>8 DEF Refuse
  <2> HIDE DEF v
  <2>3. ~ Exchanging(c)
    BY <1>8 DEF Refuse, Exchanging, InPhase
  <2>4. FairMove(c, v)
    BY <2>1, <2>3 DEF FairMove
  <2>5. UNCHANGED <<token, expiring, exchange, mode>> /\ standing' = Known
    BY <1>8 DEF Refuse
  <2>6. TypeOK'
    BY <1>1, <2>1, <2>2, <2>5 DEF TypeOK
  <2> QED
    BY <2>2, <2>4, <2>5, <2>6, OneCallMoves
<1>9. ASSUME NEW c \in Call, AnswerArrives(c)
      PROVE  IInv'
  <2>1. calls[c] \in ActiveCall /\ ~ Exchanging(c)
    BY <1>2, <1>9 DEF AnswerArrives, InPhase, Exchanging
  <2>2. applyContainmentUpdate(calls[c]) \in ProcessContainmentMode
    BY <1>1, <2>1 DEF applyContainmentUpdate, ActiveCall
  <2>3. /\ mode' = applyContainmentUpdate(calls[c]) /\ UNCHANGED token
        /\ expiring' \in BOOLEAN /\ standing' = Known
    BY <1>1, <1>9 DEF AnswerArrives
  <2>4. CASE calls[c].drifted
    <3> DEFINE auth == resolveSessionAuth(c, newCall("other"), FALSE)
    <3>1. /\ auth.call \in ActiveCall /\ FairMove(c, auth.call)
          /\ \/ auth.exchange = exchange
             \/ auth.exchange = c /\ auth.call.phase = "exchange"
      BY <2>1, NewCallTyped, AuthIsFair DEF Route
    <3>2. calls' = [calls EXCEPT ![c] = auth.call] /\ exchange' = auth.exchange
      BY <1>9, <2>4 DEF AnswerArrives
    <3> HIDE DEF auth
    <3>3. TypeOK'
      BY <1>1, <2>2, <2>3, <3>1, <3>2 DEF TypeOK
    <3> QED
      BY <3>1, <3>2, <3>3, OneCallMoves, ActiveIsNotIdle
  <2>5. CASE ~ calls[c].drifted
    <3>1. calls' = [calls EXCEPT ![c] = Idle] /\ exchange' = exchange
      BY <1>9, <2>5 DEF AnswerArrives
    <3>2. TypeOK'
      BY <1>1, <2>2, <2>3, <3>1 DEF TypeOK
    <3>3. FairMove(c, Idle)
      BY <2>1 DEF FairMove
    <3> QED
      BY <3>1, <3>2, <3>3, OneCallMoves
  <2> QED
    BY <2>4, <2>5
<1>10. ASSUME NEW c \in Call, RefusalArrives(c)
       PROVE  IInv'
  <2>1. calls[c] \in ActiveCall /\ ~ Exchanging(c)
    BY <1>2, <1>10 DEF RefusalArrives, InPhase, Exchanging
  <2>2. UNCHANGED mode /\ standing' = Known
    BY <1>10 DEF RefusalArrives
  <2>3. CASE calls[c].retried
    <3>1. /\ calls' = [calls EXCEPT ![c] = Idle]
          /\ UNCHANGED <<token, expiring, exchange>>
      BY <1>10, <2>3 DEF RefusalArrives
    <3>2. TypeOK'
      BY <1>1, <2>2, <3>1 DEF TypeOK
    <3>3. FairMove(c, Idle)
      BY <2>1 DEF FairMove
    <3> QED
      BY <3>1, <3>2, <3>3, OneCallMoves
  <2>4. CASE ~ calls[c].retried
    <3> DEFINE v == [exchanging(calls[c]) EXCEPT !.retried = TRUE]
    <3>1. v \in ActiveCall /\ v.phase = "exchange"
      BY <2>1, ExchangingTyped DEF ActiveCall
    <3>2. /\ calls' = [calls EXCEPT ![c] = v]
          /\ token' = None /\ expiring' = FALSE /\ exchange' = c
      BY <1>10, <2>4 DEF RefusalArrives
    <3> HIDE DEF v
    <3>3. TypeOK'
      BY <1>1, <2>2, <3>1, <3>2 DEF TypeOK
    <3>4. FairMove(c, v)
      BY <2>1, <3>1, ActiveIsNotIdle DEF FairMove
    <3> QED
      BY <3>1, <3>2, <3>3, <3>4, OneCallMoves, ActiveIsNotIdle
  <2> QED
    BY <2>3, <2>4
<1>11. ASSUME NEW c \in Call, RequestLost(c)
       PROVE  IInv'
  <2>1. ~ Exchanging(c)
    BY <1>11 DEF RequestLost, InPhase, Exchanging
  <2>2. /\ calls' = [calls EXCEPT ![c] = Idle]
        /\ UNCHANGED <<token, expiring, exchange, mode>> /\ standing' = Known
    BY <1>11 DEF RequestLost
  <2>3. TypeOK'
    BY <1>1, <2>2 DEF TypeOK
  <2>4. FairMove(c, Idle)
    BY <2>1 DEF FairMove
  <2> QED
    BY <2>2, <2>3, <2>4, OneCallMoves
<1>12. ASSUME UNCHANGED <<calls, exchange>>, TypeOK'
       PROVE  IInv'
  BY <1>12 DEF IInv, AlwaysAuthenticated, NobodyAwaitsASettledExchange,
     GrantsBringSessions, SharedExchangeIsLive, Exchanging, InPhase, Active
<1>13. ASSUME Lapse
       PROVE  IInv'
  BY <1>1, <1>12, <1>13 DEF Lapse, TypeOK
<1>14. ASSUME NEW s \in Session, Forget(s)
       PROVE  IInv'
  BY <1>1, <1>12, <1>14 DEF Forget, TypeOK
<1>15. CASE UNCHANGED vars
  BY <1>1, <1>12, <1>15 DEF vars, TypeOK
<1> QED
  BY <1>3, <1>4, <1>5, <1>6, <1>7, <1>8, <1>9, <1>10, <1>11, <1>13, <1>14, <1>15
     DEF Next, Proceeds, Bootstraps, Handles, Route
-----------------------------------------------------------------------------
(***************************************************************************)
(* Theorems.                                                                *)
(***************************************************************************)

\* The strengthening of the three properties below is inductive.
THEOREM ClientInvariance == Spec => []IInv
BY InitHolds, StepHolds, PTL DEF Spec

\* The client's state and its calls in progress are what they are declared as.
THEOREM ClientTypeCorrect == Spec => []TypeOK
<1>1. IInv => TypeOK
  BY DEF IInv
<1> QED
  BY <1>1, ClientInvariance, PTL

\* However many calls drop, renew and share the token, no request is sent
\* without one.
THEOREM RequestsAuthenticated == Spec => []AlwaysAuthenticated
<1>1. IInv => AlwaysAuthenticated
  BY DEF IInv
<1> QED
  BY <1>1, ClientInvariance, PTL

\* However many exchanges run at the same time, no call awaits one that has
\* ended: with three calls or more the shared promise may have been
\* overwritten by one of them and cleared by another.
THEOREM WaitersAreWoken == Spec => []NobodyAwaitsASettledExchange
<1>1. IInv => NobodyAwaitsASettledExchange
  BY DEF IInv
<1> QED
  BY <1>1, ClientInvariance, PTL
=============================================================================
