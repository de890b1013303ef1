---------------------------- MODULE PreloadClient ----------------------------
(***************************************************************************)
(* How a wrapped process holds on to its control session                    *)
(* (node-preload.ts).  Heartbeats, runtime events and the process's own     *)
(* reads and requests call the sidecar independently of each other and      *)
(* share one token, one expiry, one promise of a bootstrap exchange and one *)
(* containment mode.  A promise's continuations run to the end before the   *)
(* next response is looked at, so each arrival is one step.                 *)
(*                                                                          *)
(* The sidecar is what SidecarControl shows of it, to one process and for   *)
(* one capability: a session has a posture that may change at any time, and *)
(* a token that is forgotten is refused for ever.  A session that neither   *)
(* the process nor a request of its holds any longer is not told apart from *)
(* one that was never issued, so that its identity may be issued again.     *)
(***************************************************************************)
EXTENDS SidecarPosture, FiniteSets

CONSTANTS
  Call,           \* calls of the sidecar in progress at the same time
  Session,        \* control sessions
  Posture,        \* the postures a session may take
  ContainmentMode,\* the sidecar's configured mode
  None

ASSUME ClientAssumption ==
  /\ None \notin Session /\ None \notin Call
  /\ "sealed" \in Posture /\ Posture \subseteq SidecarSessionPosture
  /\ ContainmentMode \in ProcessContainmentMode

\* heartbeats; runtime events, and what the process reads and requests
Route == {"heartbeat", "other"}

Idle == [phase |-> "idle"]

ActiveCall ==
  [phase   : {"exchange", "granted", "joined", "request", "answered", "refused"},
   route   : Route,
   retried : BOOLEAN,                    \* ~ allowRetry
   session : Session \cup {None},        \* granted to it, or whose token it sent
   on      : Call \cup {None},           \* whose exchange it awaits
   mode    : ProcessContainmentMode,     \* in the response
   drifted : BOOLEAN]                    \* integrityStatus in the response

VARIABLES
  token,    \* sidecarToken, as the session it belongs to
  expiring, \* sidecarTokenExpiresAt is less than five seconds away
  exchange, \* bootstrapExchangePromise, as the call that started it
  mode,     \* containmentCapabilityModes, of one capability
  calls,    \* calls[c]: postJsonWithAuth on c
  standing  \* standing[s]: what the sidecar makes of s; "gone" if it has no s

client == <<token, expiring, exchange, mode>>
vars == <<token, expiring, exchange, mode, calls, standing>>

TypeOK ==
  /\ token \in Session \cup {None}
  /\ expiring \in BOOLEAN
  /\ exchange \in Call \cup {None}
  /\ mode \in ProcessContainmentMode
  /\ calls \in [Call -> {Idle} \cup ActiveCall]
  /\ standing \in [Session -> Posture \cup {"gone"}]

Init ==
  /\ token = None
  /\ expiring = FALSE
  /\ exchange = None
  /\ mode = ContainmentMode
  /\ calls = [c \in Call |-> Idle]
  /\ standing = [s \in Session |-> "gone"]
-----------------------------------------------------------------------------
Active(c) == calls[c] # Idle

InPhase(c, phase) == Active(c) /\ calls[c].phase = phase

\* the sessions the process can still tell apart
Held ==
  {token} \cup {calls[c].session : c \in {d \in Call : Active(d)}}

\* buildSessionContainmentEnvelope, for one capability
required(posture) == resolveCapabilityContainmentMode(ContainmentMode, posture, TRUE)

\* what is kept of the sidecar's state: the sessions held after the step
Known == [s \in Session |-> IF s \in Held' THEN standing[s] ELSE "gone"]

newCall(route) ==
  [phase |-> "request", route |-> route, retried |-> FALSE, session |-> None,
   on |-> None, mode |-> ContainmentMode, drifted |-> FALSE]

sent(call, t) ==
  [call EXCEPT !.phase = "request", !.session = t, !.on = None,
               !.mode = ContainmentMode]

joining(call, d) == [call EXCEPT !.phase = "joined", !.on = d]

exchanging(call) ==
  [call EXCEPT !.phase = "exchange", !.session = None, !.mode = ContainmentMode]

\* resolveSessionAuth: where a call goes on, and whose exchange is shared then
resolveSessionAuth(c, call, lapsed) ==
  IF token # None /\ ~ lapsed
  THEN [call |-> sent(call, token), exchange |-> exchange]
  ELSE IF exchange # None
  THEN [call |-> joining(call, exchange), exchange |-> exchange]
  ELSE [call |-> exchanging(call), exchange |-> c]

\* a heartbeat is due, an event is reported or a surface is asked for
Start(c, route) ==
  /\ calls[c] = Idle
  /\ LET auth == resolveSessionAuth(c, newCall(route), expiring)
     IN  /\ calls' = [calls EXCEPT ![c] = auth.call]
         /\ exchange' = auth.exchange
  /\ UNCHANGED <<token, expiring, mode>>
  /\ standing' = Known

\* the session is granted, under the posture it inherits
Bootstrap(c, s, posture) ==
  /\ InPhase(c, "exchange")
  /\ s = CHOOSE free \in Session \ Held : TRUE
  /\ standing' = [standing EXCEPT ![s] = posture]
  /\ calls' = [calls EXCEPT ![c] =
       [@ EXCEPT !.phase = "granted", !.session = s, !.mode = required(posture)]]
  /\ UNCHANGED client

Awaits(d, c) == InPhase(d, "joined") /\ calls[d].on = c

\* mutant: only the call that started the exchange goes on
resumed_Alone(c) == [calls EXCEPT ![c] = sent(@, calls[c].session)]

\* c's exchange has resolved: it goes on, and so do all that awaited it
resumed(c) ==
  [d \in Call |-> IF d = c \/ Awaits(d, c)
                  THEN sent(calls[d], calls[c].session) ELSE calls[d]]

\* The response of an exchange arrives.  The shared promise is cleared, even
\* if it is another exchange's by now.
ExchangeArrives(c) ==
  /\ InPhase(c, "granted")
  /\ calls' = resumed(c)
  /\ token' = calls[c].session
  /\ expiring' = FALSE
  /\ mode' = calls[c].mode
  /\ exchange' = None
  /\ standing' = Known

\* mutant: the waiters of a failed exchange are not told
failed_Silently(c) == [calls EXCEPT ![c] = Idle]

\* c's exchange is rejected, and with it all that awaited it
failed(c) ==
  [d \in Call |-> IF d = c \/ Awaits(d, c) THEN Idle ELSE calls[d]]

\* the sidecar is not reached, or answers with an error
ExchangeFails(c) ==
  /\ InPhase(c, "exchange") \/ InPhase(c, "granted")
  /\ calls' = failed(c)
  /\ exchange' = None
  /\ UNCHANGED <<token, expiring, mode>>
  /\ standing' = Known

HasToken(c) == calls[c].session # None /\ standing[calls[c].session] # "gone"

\* The sidecar handles a request of a live session, whose posture may change
\* with the evidence it brings or finds, and is sealed when a heartbeat drifts
\* from the attested process.  Only the response to a heartbeat says anything
\* about the session.
Handle(c, posture, drifted) ==
  /\ InPhase(c, "request")
  /\ HasToken(c)
  /\ UNCHANGED client
  /\ LET call == calls[c]
         beat == call.route = "heartbeat"
     IN  /\ drifted => beat /\ posture = "sealed"
         /\ calls' = [calls EXCEPT ![c] =
              [newCall(call.route) EXCEPT
                 !.phase = "answered",
                 !.drifted = drifted,
                 !.mode = IF beat THEN required(posture) ELSE @]]
         /\ standing' = [s \in Session |->
              IF s \notin Held' THEN "gone"
              ELSE IF s = call.session THEN posture ELSE standing[s]]

\* 401: the token is missing, expired or unknown
Refuse(c) ==
  /\ InPhase(c, "request")
  /\ ~ HasToken(c)
  /\ calls' = [calls EXCEPT ![c].phase = "refused"]
  /\ UNCHANGED client
  /\ standing' = Known

\* mutant: a heartbeat's containment update is not applied
applyContainmentUpdate_Dropped(call) == mode

\* only heartbeats bring an update
applyContainmentUpdate(call) ==
  IF call.route = "heartbeat" THEN call.mode ELSE mode

\* The response to a call arrives; a heartbeat's brings the new expiry, of
\* whatever token.  A heartbeat that learns of drift goes on to report it,
\* with the token the process holds by then.
AnswerArrives(c) ==
  /\ InPhase(c, "answered")
  /\ LET call == calls[c]
         auth == IF call.drifted
                 THEN resolveSessionAuth(c, newCall("other"), FALSE)
                 ELSE [call |-> Idle, exchange |-> exchange]
     IN  /\ calls' = [calls EXCEPT ![c] = auth.call]
         /\ exchange' = auth.exchange
         /\ expiring' = (expiring /\ call.route # "heartbeat")
         /\ mode' = applyContainmentUpdate(call)
  /\ UNCHANGED token
  /\ standing' = Known

\* mutant: the call authenticates again with the token it finds
RefusalArrives_TokenKept(c) ==
  /\ InPhase(c, "refused")
  /\ LET call == calls[c]
         again == [call EXCEPT !.retried = TRUE]
         auth == IF call.retried THEN [call |-> Idle, exchange |-> exchange]
                 ELSE resolveSessionAuth(c, again, expiring)
     IN  /\ calls' = [calls EXCEPT ![c] = auth.call]
         /\ exchange' = auth.exchange
  /\ UNCHANGED <<token, expiring, mode>>
  /\ standing' = Known

\* the first refusal drops the token, whosever it is by now, and forces an
\* exchange of its own; the second is thrown at the caller
RefusalArrives(c) ==
  /\ InPhase(c, "refused")
  /\ IF calls[c].retried
     THEN /\ calls' = [calls EXCEPT ![c] = Idle]
          /\ UNCHANGED <<token, expiring, exchange>>
     ELSE /\ calls' = [calls EXCEPT ![c] =
                         [exchanging(calls[c]) EXCEPT
                            !.retried = TRUE]]
          /\ token' = None
          /\ expiring' = FALSE
          /\ exchange' = c
  /\ UNCHANGED mode
  /\ standing' = Known

\* the connection fails before the response is in; the caller goes on without
RequestLost(c) ==
  /\ \E phase \in {"request", "answered", "refused"} : InPhase(c, phase)
  /\ calls' = [calls EXCEPT ![c] = Idle]
  /\ UNCHANGED client
  /\ standing' = Known

\* the expiry of the token the process holds comes close
Lapse ==
  /\ token # None
  /\ ~ expiring
  /\ expiring' = TRUE
  /\ UNCHANGED <<token, exchange, mode, calls, standing>>

\* the sidecar's session expires and is forgotten
Forget(s) ==
  /\ standing[s] # "gone"
  /\ standing' = [standing EXCEPT ![s] = "gone"]
  /\ UNCHANGED <<token, expiring, exchange, mode, calls>>
-----------------------------------------------------------------------------
Bootstraps(c) ==
  \E s \in Session, posture \in Posture : Bootstrap(c, s, posture)

Handles(c) ==
  \E posture \in Posture, drifted \in BOOLEAN : Handle(c, posture, drifted)

\* a call in progress goes on or fails
Proceeds(c) ==
  \/ Bootstraps(c)
  \/ Handles(c)
  \/ Refuse(c)
  \/ ExchangeArrives(c)
  \/ AnswerArrives(c)
  \/ RefusalArrives(c)
  \/ ExchangeFails(c)
  \/ RequestLost(c)

Next ==
  \/ \E c \in Call : Proceeds(c)
  \/ \E c \in Call, route \in {"heartbeat", "other"} : Start(c, route)
  \/ Lapse
  \/ \E s \in Session : Forget(s)

Spec == Init /\ [][Next]_vars

\* A request is answered or its connection fails: there is no timeout in the
\* client, so a sidecar that does neither holds up the call for ever.
Answering == \A c \in Call : WF_vars(Proceeds(c))

IsHeartbeat(c) == Active(c) /\ calls[c].route = "heartbeat"

\* The timer goes on, and exchanges and heartbeats that are tried again and
\* again are not lost every time.
Beating ==
  /\ SF_vars(\E c \in Call : Start(c, "heartbeat"))
  /\ SF_vars(\E c \in Call : Bootstraps(c))
  /\ SF_vars(\E c \in Call : ExchangeArrives(c))
  /\ SF_vars(\E c \in Call : IsHeartbeat(c) /\ (Handles(c) \/ Refuse(c)))
  /\ SF_vars(\E c \in Call : IsHeartbeat(c) /\ (AnswerArrives(c) \/ RefusalArrives(c)))

FairSpec == Spec /\ Answering /\ Beating
-----------------------------------------------------------------------------
(***************************************************************************)
(* What the process relies on.                                              *)
(***************************************************************************)

\* No request leaves without a token, whichever calls drop, renew or share
\* the token at the same time: a call that finds none waits until it has one
\* or throws.
AlwaysAuthenticated ==
  \A c \in Call : InPhase(c, "request") => calls[c].session # None

\* A call that joined an exchange awaits one that is still under way, even
\* after the shared promise was overwritten by a forced renewal or cleared by
\* the end of another exchange.
NobodyAwaitsASettledExchange ==
  \A c \in Call :
    InPhase(c, "joined") =>
      \E d \in Call \ {c} :
        /\ calls[c].on = d
        /\ InPhase(d, "exchange") \/ InPhase(d, "granted")

\* Every call settles: it is answered, or it throws and the process goes on
\* without the sidecar.
CallsSettle == \A c \in Call : Active(c) ~> ~ Active(c)

\* "failed renewals will recover on demand": again and again the process
\* holds a token that the sidecar takes, or is granted a new one, however many
\* exchanges fail and whichever calls they fail for.  It never stays for good
\* without a token, or with one that the sidecar has forgotten.
RenewalsRecover ==
  \/ []<>(token # None /\ standing[token] # "gone")
  \/ []<><<token' \notin {None, token}>>_token

\* the process holds a session that the sidecar wants strictly contained
ToBeContained ==
  /\ token # None
  /\ standing[token] # "gone"
  /\ required(standing[token]) = "strict"

\* "adaptive containment updates": a process whose session is to be strictly
\* contained learns of it from its heartbeats, whatever responses overtake
\* each other and however often the token is renewed meanwhile, unless the
\* need for it ends first.
ContainmentReachesProcess ==
  ToBeContained ~> (mode = "strict" \/ ~ ToBeContained)
=============================================================================
