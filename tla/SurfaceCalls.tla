------------------------------ MODULE SurfaceCalls ------------------------------
(***************************************************************************)
(* A call that a wrapped process makes, from the wrapper to the answer      *)
(* (node-preload.ts): fs.readFile, fetch, and http.request and get, whose   *)
(* requests are used before the sidecar has said what to make of them.      *)
(* Such a request is a proxy: it collects what its client does to it, and   *)
(* hands that on when, and if, a real request is attached.                  *)
(*                                                                          *)
(* PreloadClient models how the sidecar is asked, SurfaceResolution what it *)
(* answers; here its word just arrives, or never does because the exchange  *)
(* failed.  The client is the process's own code, and may go on in the      *)
(* middle of anything but a synchronous function.  What node's own requests *)
(* and the remote server do is external.  The client writes regardless of   *)
(* backpressure and does not write after it has ended the request; timers   *)
(* set with setTimeout change nothing else and are left out.                *)
(***************************************************************************)
EXTENDS Naturals, Sequences, FiniteSets

CONSTANTS
  Header,     \* names of headers
  ArgHeaders, \* those among the arguments of the request
  MaxActions  \* bound: the writes and ends of a client

ASSUME CallAssumption ==
  /\ ArgHeaders \subseteq Header
  /\ MaxActions \in Nat \ {0}

VARIABLES
  call,  \* which wrapper was called, and whether to reach the sidecar itself
  word,  \* the source of the sidecar's response, once it has one
  proxy, \* HttpRequestProxy, and the microtasks that are due
  real,  \* the call of the original function
  heard, \* what the client has been told
  wish,  \* history: what the client did to the request
  crashed\* by a rejection that nothing handles

vars == <<call, word, proxy, real, heard, wish, crashed>>

Requests == {"request", "get"}

Source == {"real", "synthetic", "blocked"}

PendingRequestAction == {"write", "end"} \X (1 .. MaxActions)

Calls ==
  {[wrapper |-> "readFile", own |-> FALSE]}
    \cup [wrapper : {"fetch"} \cup Requests, own : BOOLEAN]

TypeOK ==
  /\ call \in Calls
  /\ word \in SUBSET (Source \cup {"none"})
  /\ proxy \in [resolvedSynthetic : SUBSET {"synthetic", "blocked"},
                ended      : BOOLEAN,
                destroyed  : BOOLEAN,
                actions    : Seq(PendingRequestAction),  \* pendingActions
                headers    : SUBSET Header,              \* pendingHeaders
                autoEnd    : BOOLEAN,  \* the microtask of get is due
                emissions  : Nat]      \* responses that are due
  /\ real \in [phase   : {"none", "open", "answered", "closed"},
               actions : Seq(PendingRequestAction),
               headers : SUBSET Header]
  /\ heard \in [sidecar : Nat, real : 0 .. 1, errors : Nat]
  /\ wish \in [actions : Seq(PendingRequestAction), headers : SUBSET Header]
  /\ crashed \in BOOLEAN

IsRequest == call.wrapper \in Requests

\* realRequest, or the original function of a read or a fetch
Attached == real.phase # "none"

NoReal == [phase |-> "none", actions |-> << >>, headers |-> {}]

\* a call that is passed on as it is
PassedOn == [NoReal EXCEPT !.phase = "open", !.headers = ArgHeaders]

\* a call to the sidecar is passed on before anything else happens
Init ==
  /\ call \in Calls
  /\ word = {}
  /\ proxy = [resolvedSynthetic |-> {}, ended |-> call.wrapper = "get",
              destroyed |-> FALSE, actions |-> << >>, headers |-> {},
              autoEnd |-> call.wrapper = "get", emissions |-> 0]
  /\ real = IF call.own THEN PassedOn ELSE NoReal
  /\ heard = [sidecar |-> 0, real |-> 0, errors |-> 0]
  /\ wish = [actions |-> << >>, headers |-> ArgHeaders]
  /\ crashed = FALSE
-----------------------------------------------------------------------------
(***************************************************************************)
(* What the client does to a request.                                       *)
(***************************************************************************)

Ends(actions) == {i \in DOMAIN actions : actions[i][1] = "end"}

action(type) == <<type, Len(wish.actions) + 1>>

\* the client goes on with a request of its own
Client == ~ crashed /\ IsRequest

\* bound: there is room for the end that get brings itself
Room == Len(wish.actions) < (IF proxy.autoEnd THEN MaxActions - 1 ELSE MaxActions)

Performs(type) == wish' = [wish EXCEPT !.actions = Append(@, action(type))]

write ==
  /\ Client /\ Room
  /\ Performs("write")
  /\ Ends(wish.actions) = {} /\ ~ proxy.ended
  /\ IF Attached
     THEN /\ real' = [real EXCEPT !.actions = Append(@, action("write"))]
          /\ UNCHANGED proxy
     ELSE /\ proxy' = [proxy EXCEPT !.actions = Append(@, action("write"))]
          /\ UNCHANGED real
  /\ UNCHANGED <<call, word, heard, crashed>>

\* mutant: who ends the request after the sidecar's word gets no answer
emissionsOnEnd_None(p) == p.emissions

\* emitSyntheticHttpResponse, by end
emissionsOnEnd(p) ==
  IF p.resolvedSynthetic # {} THEN p.emissions + 1 ELSE p.emissions

\* the end of the request, whoever calls it; autoEnd says if its microtask
\* is still due afterwards
endRequest(autoEnd) ==
  /\ Performs("end")
  /\ IF Attached
     THEN /\ real' = [real EXCEPT !.actions = Append(@, action("end"))]
          /\ proxy' = [proxy EXCEPT !.ended = TRUE, !.autoEnd = autoEnd]
     ELSE /\ proxy' = [proxy EXCEPT !.ended = TRUE, !.autoEnd = autoEnd,
                                    !.actions = Append(@, action("end")),
                                    !.emissions = emissionsOnEnd(proxy)]
          /\ UNCHANGED real
  /\ UNCHANGED <<call, word, heard, crashed>>

end ==
  /\ Client /\ Room
  /\ endRequest(proxy.autoEnd)

\* node reports the end of a request that had no answer yet, as an error
\* that the proxy passes on
Dropped ==
  /\ real' = [real EXCEPT !.phase = "closed"]
  /\ heard' = IF real.phase = "open" THEN [heard EXCEPT !.errors = @ + 1] ELSE heard

\* a request that is not attached yet only notes it
abort ==
  /\ Client
  /\ real.phase \in {"open", "answered"}
  /\ Dropped
  /\ UNCHANGED <<call, word, proxy, wish, crashed>>

destroy(error) ==
  /\ Client
  /\ ~ proxy.destroyed
  /\ proxy' = [proxy EXCEPT !.destroyed = TRUE]
  /\ IF Attached
     THEN Dropped
     ELSE /\ heard' = IF error THEN [heard EXCEPT !.errors = @ + 1] ELSE heard
          /\ UNCHANGED real
  /\ UNCHANGED <<call, word, wish, crashed>>

\* a real request that has begun to send throws
HeadersOpen == Attached => real.phase = "open" /\ real.actions = << >>

\* added and removed are sets of one name or none
ChangesHeaders(added, removed) ==
  LET changed(headers) == (headers \cup added) \ removed IN
  /\ Client
  /\ HeadersOpen
  /\ wish' = [wish EXCEPT !.headers = changed(@)]
  /\ IF Attached
     THEN /\ real' = [real EXCEPT !.headers = changed(@)]
          /\ UNCHANGED proxy
     ELSE /\ proxy' = [proxy EXCEPT !.headers = changed(@)]
          /\ UNCHANGED real
  /\ UNCHANGED <<call, word, heard, crashed>>

setHeader(name) == ChangesHeaders({name}, {})

removeHeader(name) == ChangesHeaders({}, {name})
-----------------------------------------------------------------------------
(***************************************************************************)
(* Microtasks.  They run before any response is looked at.                  *)
(***************************************************************************)

TasksAreDue == proxy.autoEnd \/ proxy.emissions > 0

\* get ends its request itself
RunAutoEnd ==
  /\ ~ crashed
  /\ proxy.autoEnd
  /\ IF proxy.destroyed
     THEN /\ proxy' = [proxy EXCEPT !.autoEnd = FALSE]
          /\ UNCHANGED <<call, word, real, heard, wish, crashed>>
     ELSE endRequest(FALSE)

\* The response event of a request; the callback of a read; the promise of a
\* fetch, which gets a refusal as a response.
Emit ==
  /\ ~ crashed
  /\ proxy.emissions > 0
  /\ proxy' = [proxy EXCEPT !.emissions = @ - 1]
  /\ heard' = [heard EXCEPT !.sidecar = @ + 1]
  /\ UNCHANGED <<call, word, real, wish, crashed>>

Microtask == RunAutoEnd \/ Emit
-----------------------------------------------------------------------------
(***************************************************************************)
(* The sidecar's word.                                                      *)
(***************************************************************************)

\* mutant: any word is taken for an answer
Diverts_Any(source) == source # "none"

\* an answer that keeps the call from what it was meant for
Diverts(source) == source \in {"synthetic", "blocked"}

\* mutant: the first response does not wait for the end of the request
emissionsOnWord_Early(p) == p.emissions + 1

\* emitSyntheticHttpResponse, when the word arrives; reads and fetches are
\* answered at once
emissionsOnWord(p) ==
  IF ~ IsRequest \/ p.ended THEN p.emissions + 1 ELSE p.emissions

\* mutant: the writes and ends that were collected are not handed on
attached_NoActions(p) == [PassedOn EXCEPT !.headers = @ \cup p.headers]

\* attachRealRequest
attached(p) ==
  [PassedOn EXCEPT !.headers = @ \cup p.headers, !.actions = p.actions]

\* mutant: destroyed requests are attached
mayAttach_Destroyed(p) == ~ Attached

mayAttach(p) == ~ p.destroyed /\ ~ Attached

\* mutant: a diverted request is attached all the same
Resolve_FallsThrough(source) ==
  /\ proxy' = IF Diverts(source) /\ ~ proxy.destroyed
              THEN [proxy EXCEPT !.resolvedSynthetic = {source},
                                 !.emissions = emissionsOnWord(proxy)]
              ELSE proxy
  /\ real' = IF mayAttach(proxy) THEN attached(proxy) ELSE real

\* what is done about the word
Resolve(source) ==
  IF Diverts(source) /\ ~ proxy.destroyed
  THEN /\ proxy' = [proxy EXCEPT !.resolvedSynthetic = {source},
                                 !.emissions = emissionsOnWord(proxy)]
       /\ UNCHANGED real
  ELSE /\ real' = IF mayAttach(proxy) THEN attached(proxy) ELSE real
       /\ UNCHANGED proxy

\* the response of the sidecar arrives, or "none" will
Told(source) ==
  /\ ~ crashed /\ ~ TasksAreDue
  /\ word = {} /\ ~ call.own
  /\ word' = {source}
  /\ Resolve(source)
  /\ UNCHANGED <<call, heard, wish, crashed>>

\* node refuses the arguments or a header of the request, and nobody handles
\* the exception
ToldInVain(source) ==
  /\ ~ crashed /\ ~ TasksAreDue
  /\ word = {} /\ ~ call.own
  /\ IsRequest /\ ~ Diverts(source) /\ mayAttach(proxy)
  /\ word' = {source}
  /\ crashed' = TRUE
  /\ UNCHANGED <<call, proxy, real, heard, wish>>

Word == \E source \in Source \cup {"none"} : Told(source) \/ ToldInVain(source)
-----------------------------------------------------------------------------
(***************************************************************************)
(* The real thing (external).                                               *)
(***************************************************************************)

\* a server answers when it has got something, possibly not all, of a request
Responds ==
  /\ IsRequest => real.actions # << >>
  /\ real' = [real EXCEPT !.phase = "answered"]
  /\ heard' = [heard EXCEPT !.real = 1]

Fails ==
  /\ real' = [real EXCEPT !.phase = "closed"]
  /\ heard' = [heard EXCEPT !.errors = @ + 1]

Remote ==
  /\ ~ crashed /\ ~ TasksAreDue
  /\ real.phase = "open"
  /\ Responds \/ Fails
  /\ UNCHANGED <<call, word, proxy, wish, crashed>>

ClientStep ==
  \/ write \/ end \/ abort
  \/ \E error \in BOOLEAN : destroy(error)
  \/ \E name \in Header : setHeader(name) \/ removeHeader(name)

Next == ClientStep \/ Microtask \/ Word \/ Remote

\* Microtasks run; the sidecar answers, or the exchange with it fails; so does
\* the server of a request that has been sent to the end.
Fairness ==
  /\ WF_vars(Microtask)
  /\ WF_vars(Word)
  /\ WF_vars(Remote /\ (IsRequest => Ends(real.actions) # {}))

Spec == Init /\ [][Next]_vars /\ Fairness
-----------------------------------------------------------------------------
(***************************************************************************)
(* Properties.                                                              *)
(***************************************************************************)

\* The real request gets what the client did to the proxy, all of it and in
\* that order, however much of it came before the sidecar's word.  It has the
\* headers the client asked for, and no others, except that one of its
\* arguments may not be removed before it is attached.
RequestArrivesAsWritten ==
  Attached /\ IsRequest =>
    /\ real.actions = wish.actions
    /\ wish.headers \subseteq real.headers
    /\ real.headers \ wish.headers \subseteq ArgHeaders

\* The original function is called only for calls to the sidecar, or when the
\* sidecar has not diverted the call, which it can do only once it has spoken;
\* and what the client hears fits that.
WordIsKept ==
  /\ Attached => call.own \/ (\E source \in word : ~ Diverts(source))
  /\ heard.sidecar > 0 => \E source \in word : Diverts(source)

\* A request that was destroyed while it was waiting is never sent.
DestroyedIsNotSent == [][proxy.destroyed => (Attached <=> Attached')]_vars

\* A request hears of no more responses than it was ended, and a read or fetch
\* is answered once.
OneResponsePerEnd ==
  heard.sidecar + proxy.emissions <=
    IF IsRequest THEN Cardinality(Ends(wish.actions)) ELSE 1

\* Reads, fetches and requests that were ended are answered or fail, unless
\* the client destroys the request, or node refused its arguments.
EveryCallIsAnswered ==
  (IsRequest => proxy.ended) ~>
    \/ heard.sidecar > 0 \/ heard.real > 0 \/ heard.errors > 0
    \/ proxy.destroyed \/ crashed
=============================================================================
