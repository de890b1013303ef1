------------------------- MODULE SurfaceCallsProofs -------------------------
(***************************************************************************)
(* For any number of writes and ends and any headers: a request that is     *)
(* attached gets what its client did to the proxy, the sidecar's word is    *)
(* kept, and no more responses are emitted than the request was ended.      *)
(***************************************************************************)
EXTENDS SurfaceCalls, FiniteSetTheorems, SequenceTheorems, TLAPS

\* What has been collected, or handed on, is what the client did.
Forwarded ==
  IsRequest =>
    /\ Attached => RequestArrivesAsWritten
    /\ ~ Attached => /\ proxy.actions = wish.actions
                     /\ proxy.headers \subseteq wish.headers
                     /\ wish.headers \subseteq proxy.headers \cup ArgHeaders

\* Responses that are due, or will be when the request is ended, stem from a
\* word that diverts the call.
Diverted ==
  \/ proxy.resolvedSynthetic # {}
  \/ proxy.emissions > 0
  \/ heard.sidecar > 0
  => \E source \in word : Diverts(source)

\* A request that can still be answered has an end for it, or one to come
\* from get, for which there is room.
Ended ==
  /\ proxy.autoEnd => IsRequest /\ Len(wish.actions) < MaxActions
  /\ IsRequest /\ proxy.ended /\ ~ proxy.autoEnd /\ ~ proxy.destroyed =>
       Ends(wish.actions) # {}

IInv ==
  /\ TypeOK
  /\ Forwarded
  /\ WordIsKept
  /\ Diverted
  /\ Ended
  /\ OneResponsePerEnd
-----------------------------------------------------------------------------
(***************************************************************************)
(* Ends.                                                                    *)
(***************************************************************************)

LEMMA EndsFinite ==
  ASSUME NEW actions \in Seq(PendingRequestAction)
  PROVE  IsFiniteSet(Ends(actions)) /\ Cardinality(Ends(actions)) \in Nat
<1>1. Ends(actions) \in SUBSET (1 .. Len(actions)) /\ Len(actions) \in Nat
  BY LenProperties DEF Ends
<1>2. IsFiniteSet(1 .. Len(actions))
  BY <1>1, FS_Interval
<1>3. QED
  BY <1>1, <1>2, FS_Subset, FS_CardinalityType

\* An end counts once more, a write does not.
LEMMA EndsAppend ==
  ASSUME NEW actions \in Seq(PendingRequestAction),
         NEW a \in PendingRequestAction
  PROVE  /\ Append(actions, a) \in Seq(PendingRequestAction)
         /\ Len(Append(actions, a)) = Len(actions) + 1
         /\ a[1] # "end" => Ends(Append(actions, a)) = Ends(actions)
         /\ a[1] = "end" =>
              /\ Ends(Append(actions, a)) # {}
              /\ Cardinality(Ends(Append(actions, a)))
                   = Cardinality(Ends(actions)) + 1
<1> DEFINE n == Len(actions)
           more == Append(actions, a)
<1>1. /\ more \in Seq(PendingRequestAction)
      /\ Len(more) = n + 1
      /\ \A i \in 1 .. n : more[i] = actions[i]
      /\ more[n + 1] = a
  BY AppendProperties
<1>2. DOMAIN more = 1 .. n + 1 /\ DOMAIN actions = 1 .. n /\ n \in Nat
  BY <1>1, LenProperties
<1>3. n + 1 \notin Ends(actions)
  BY <1>2 DEF Ends
<1>4. a[1] # "end" => Ends(more) = Ends(actions)
  BY <1>1, <1>2 DEF Ends
<1>5. a[1] = "end" => Ends(more) = Ends(actions) \cup {n + 1}
  BY <1>1, <1>2 DEF Ends
<1>6. QED
  BY <1>1, <1>3, <1>4, <1>5, EndsFinite, FS_AddElement
-----------------------------------------------------------------------------
(***************************************************************************)
(* Steps.                                                                   *)
(***************************************************************************)

\* the next action of the client has a number of its own
LEMMA ActionFits ==
  ASSUME TypeOK, NEW type \in {"write", "end"}, Len(wish.actions) < MaxActions
  PROVE  /\ action(type) \in PendingRequestAction
         /\ action(type)[1] = type
         /\ wish.actions \in Seq(PendingRequestAction)
         /\ Len(wish.actions) \in Nat
BY CallAssumption, LenProperties DEF TypeOK, action, PendingRequestAction

LEMMA InitSound == Init => IInv
<1> SUFFICES ASSUME Init PROVE IInv
  OBVIOUS
<1>1. << >> \in Seq(PendingRequestAction) /\ Len(<< >>) = 0
  BY EmptySeq
<1> DEFINE isGet == call.wrapper = "get"
<1>a. /\ isGet \in BOOLEAN
      /\ isGet => IsRequest
  BY DEF IsRequest, Requests
<1>b. proxy = [resolvedSynthetic |-> {}, ended |-> isGet,
               destroyed |-> FALSE, actions |-> << >>, headers |-> {},
               autoEnd |-> isGet, emissions |-> 0]
  BY DEF Init
<1>2. TypeOK
  <2> HIDE DEF isGet
  <2>1. /\ proxy.resolvedSynthetic = {} /\ proxy.ended = isGet
        /\ proxy.destroyed = FALSE /\ proxy.actions = << >>
        /\ proxy.headers = {} /\ proxy.autoEnd = isGet /\ proxy.emissions = 0
    BY <1>b
  <2>2. proxy \in [resolvedSynthetic : SUBSET {"synthetic", "blocked"},
                   ended : BOOLEAN, destroyed : BOOLEAN,
                   actions : Seq(PendingRequestAction), headers : SUBSET Header,
                   autoEnd : BOOLEAN, emissions : Nat]
    BY <1>1, <1>a, <1>b
  <2>3. real \in [phase   : {"none", "open", "answered", "closed"},
                  actions : Seq(PendingRequestAction),
                  headers : SUBSET Header]
    BY <1>1, CallAssumption DEF Init, PassedOn, NoReal
  <2>4. wish \in [actions : Seq(PendingRequestAction), headers : SUBSET Header]
    BY <1>1, CallAssumption DEF Init
  <2>5. call \in Calls /\ word = {} /\ crashed = FALSE
    BY DEF Init
  <2>6. heard \in [sidecar : Nat, real : 0 .. 1, errors : Nat]
    BY DEF Init
  <2>7. QED
    BY <2>2, <2>3, <2>4, <2>5, <2>6 DEF TypeOK
<1>3. Forwarded
  BY DEF Init, Forwarded, RequestArrivesAsWritten, PassedOn, NoReal, Attached
<1>4. WordIsKept /\ Diverted
  BY DEF Init, WordIsKept, Diverted, Attached, PassedOn, NoReal
<1>5. Ended
  <2>1. wish.actions = << >>
    BY DEF Init
  <2>2. Len(wish.actions) < MaxActions
    BY <1>1, <2>1, CallAssumption
  <2> HIDE DEF isGet
  <2>3. proxy.ended = isGet /\ proxy.autoEnd = isGet
    BY <1>b
  <2>4. QED
    BY <1>a, <2>2, <2>3 DEF Ended
<1>6. OneResponsePerEnd
  <2>1. heard.sidecar = 0 /\ proxy.emissions = 0 /\ wish.actions = << >>
    BY DEF Init
  <2>2. Cardinality(Ends(wish.actions)) \in Nat
    BY <1>1, <2>1, EndsFinite
  <2>3. QED
    BY <2>1, <2>2 DEF OneResponsePerEnd
<1>7. QED
  BY <1>2, <1>3, <1>4, <1>5, <1>6 DEF IInv

LEMMA WriteStep == ASSUME IInv, write PROVE IInv'
<1> DEFINE a == action("write")
<1>1. /\ Len(wish.actions) < MaxActions
      /\ proxy.autoEnd => Len(wish.actions) + 1 < MaxActions
  BY CallAssumption, LenProperties DEF write, Room, IInv, TypeOK
<1>2. /\ a \in PendingRequestAction
      /\ a[1] = "write"
      /\ wish.actions \in Seq(PendingRequestAction)
  BY <1>1, ActionFits DEF IInv
<1>3. wish' = [wish EXCEPT !.actions = Append(@, a)]
  BY DEF write, Performs
<1>4. /\ wish'.actions = Append(wish.actions, a)
      /\ wish'.headers = wish.headers
  BY <1>3 DEF IInv, TypeOK
<1>5. /\ Ends(wish'.actions) = Ends(wish.actions)
      /\ Len(wish'.actions) = Len(wish.actions) + 1
      /\ wish'.actions \in Seq(PendingRequestAction)
  BY <1>2, <1>4, EndsAppend
<1>6. CASE Attached
  <2>1. /\ real' = [real EXCEPT !.actions = Append(@, a)]
        /\ UNCHANGED <<call, word, proxy, heard, crashed>>
    BY <1>6 DEF write
  <2>2. real.actions = wish.actions
    BY <1>6 DEF IInv, Forwarded, RequestArrivesAsWritten, write, Client
  <2>3. /\ real'.actions = Append(real.actions, a)
        /\ real'.headers = real.headers /\ real'.phase = real.phase
    BY <2>1 DEF IInv, TypeOK
  <2>4. TypeOK'
    BY <1>3, <1>4, <1>5, <2>1, <2>2, <2>3 DEF IInv, TypeOK
  <2>5. Forwarded' /\ WordIsKept' /\ Diverted'
    BY <1>4, <1>6, <2>1, <2>2, <2>3
       DEF IInv, Forwarded, RequestArrivesAsWritten, WordIsKept, Diverted,
           Attached, IsRequest, write, Client
  <2>6. Ended' /\ OneResponsePerEnd'
    BY <1>1, <1>5, <2>1 DEF IInv, Ended, OneResponsePerEnd, IsRequest
  <2>7. QED
    BY <2>4, <2>5, <2>6 DEF IInv
<1>7. CASE ~ Attached
  <2>1. /\ proxy' = [proxy EXCEPT !.actions = Append(@, a)]
        /\ UNCHANGED <<call, word, real, heard, crashed>>
    BY <1>7 DEF write
  <2>2. proxy.actions = wish.actions
    BY <1>7 DEF IInv, Forwarded, write, Client
  <2>3. /\ proxy'.actions = Append(proxy.actions, a)
        /\ proxy'.headers = proxy.headers
        /\ proxy'.autoEnd = proxy.autoEnd /\ proxy'.ended = proxy.ended
        /\ proxy'.destroyed = proxy.destroyed
        /\ proxy'.emissions = proxy.emissions
        /\ proxy'.resolvedSynthetic = proxy.resolvedSynthetic
    BY <2>1 DEF IInv, TypeOK
  <2>4. TypeOK'
    BY <1>3, <1>4, <1>5, <2>1, <2>2, <2>3 DEF IInv, TypeOK
  <2>5. Forwarded' /\ WordIsKept' /\ Diverted'
    BY <1>4, <1>7, <2>1, <2>2, <2>3
       DEF IInv, Forwarded, RequestArrivesAsWritten, WordIsKept, Diverted,
           Attached, IsRequest, write, Client
  <2>6. Ended' /\ OneResponsePerEnd'
    BY <1>1, <1>5, <2>1, <2>3 DEF IInv, Ended, OneResponsePerEnd, IsRequest
  <2>7. QED
    BY <2>4, <2>5, <2>6 DEF IInv
<1>8. QED
  BY <1>6, <1>7

\* the end of a request, by its client or by get
LEMMA EndStep ==
  ASSUME IInv, IsRequest, NEW autoEnd \in BOOLEAN, autoEnd => proxy.autoEnd,
         Len(wish.actions) < MaxActions,
         autoEnd => Len(wish.actions) + 1 < MaxActions,
         endRequest(autoEnd)
  PROVE  IInv'
<1> DEFINE a == action("end")
<1>1. /\ a \in PendingRequestAction
      /\ a[1] = "end"
      /\ wish.actions \in Seq(PendingRequestAction)
      /\ Len(wish.actions) \in Nat
  BY ActionFits DEF IInv
<1>2. wish' = [wish EXCEPT !.actions = Append(@, a)]
  BY DEF endRequest, Performs
<1>3. /\ wish'.actions = Append(wish.actions, a)
      /\ wish'.headers = wish.headers
  BY <1>2 DEF IInv, TypeOK
<1>4. /\ Ends(wish'.actions) # {}
      /\ Cardinality(Ends(wish'.actions)) = Cardinality(Ends(wish.actions)) + 1
      /\ Len(wish'.actions) = Len(wish.actions) + 1
      /\ wish'.actions \in Seq(PendingRequestAction)
  BY <1>1, <1>3, EndsAppend
<1>5. Cardinality(Ends(wish.actions)) \in Nat
  BY <1>1, EndsFinite
<1>6. CASE Attached
  <2>1. /\ real' = [real EXCEPT !.actions = Append(@, a)]
        /\ proxy' = [proxy EXCEPT !.ended = TRUE, !.autoEnd = autoEnd]
        /\ UNCHANGED <<call, word, heard, crashed>>
    BY <1>6 DEF endRequest
  <2>2. real.actions = wish.actions
    BY <1>6 DEF IInv, Forwarded, RequestArrivesAsWritten
  <2>3. /\ real'.actions = Append(real.actions, a)
        /\ real'.headers = real.headers /\ real'.phase = real.phase
    BY <2>1 DEF IInv, TypeOK
  <2>4. /\ proxy'.actions = proxy.actions /\ proxy'.headers = proxy.headers
        /\ proxy'.autoEnd = autoEnd /\ proxy'.destroyed = proxy.destroyed
        /\ proxy'.emissions = proxy.emissions
        /\ proxy'.resolvedSynthetic = proxy.resolvedSynthetic
    BY <2>1 DEF IInv, TypeOK
  <2>5. TypeOK'
    BY <1>2, <1>3, <1>4, <2>1, <2>2, <2>3 DEF IInv, TypeOK
  <2>6. Forwarded' /\ WordIsKept' /\ Diverted'
    BY <1>3, <1>6, <2>1, <2>2, <2>3, <2>4
       DEF IInv, Forwarded, RequestArrivesAsWritten, WordIsKept, Diverted,
           Attached, IsRequest
  <2>7. Ended'
    BY <1>4, <2>1, <2>4 DEF IInv, Ended, IsRequest
  <2>8. OneResponsePerEnd'
    BY <1>4, <1>5, <2>1, <2>4 DEF IInv, TypeOK, OneResponsePerEnd, IsRequest
  <2>9. QED
    BY <2>5, <2>6, <2>7, <2>8 DEF IInv
<1>7. CASE ~ Attached
  <2>1. /\ proxy' = [proxy EXCEPT !.ended = TRUE, !.autoEnd = autoEnd,
                                  !.actions = Append(@, a),
                                  !.emissions = emissionsOnEnd(proxy)]
        /\ UNCHANGED <<call, word, real, heard, crashed>>
    BY <1>7 DEF endRequest
  <2>2. proxy.actions = wish.actions
    BY <1>7 DEF IInv, Forwarded
  <2>3. /\ emissionsOnEnd(proxy) \in Nat
        /\ emissionsOnEnd(proxy) <= proxy.emissions + 1
        /\ emissionsOnEnd(proxy) > 0 =>
             proxy.resolvedSynthetic # {} \/ proxy.emissions > 0
    BY DEF IInv, TypeOK, emissionsOnEnd
  <2> DEFINE emissions == emissionsOnEnd(proxy)
  <2> HIDE DEF emissions
  <2>4. /\ proxy'.actions = Append(proxy.actions, a)
        /\ proxy'.headers = proxy.headers
        /\ proxy'.autoEnd = autoEnd /\ proxy'.destroyed = proxy.destroyed
        /\ proxy'.emissions = emissions
        /\ proxy'.resolvedSynthetic = proxy.resolvedSynthetic
    BY <2>1 DEF IInv, TypeOK, emissions
  <2>5. TypeOK'
    BY <1>2, <1>3, <1>4, <2>1, <2>2, <2>3 DEF IInv, TypeOK
  <2>6. Forwarded' /\ WordIsKept'
    BY <1>3, <1>7, <2>1, <2>2, <2>4
       DEF IInv, Forwarded, WordIsKept, Attached, IsRequest
  <2>7. Diverted'
    BY <2>1, <2>3, <2>4 DEF IInv, Diverted, emissions
  <2>8. Ended'
    BY <1>4, <2>1, <2>4 DEF IInv, Ended, IsRequest
  <2>9. OneResponsePerEnd'
    BY <1>4, <1>5, <2>1, <2>3, <2>4
       DEF IInv, TypeOK, OneResponsePerEnd, IsRequest, emissions
  <2>10. QED
    BY <2>5, <2>6, <2>7, <2>8, <2>9 DEF IInv
<1>8. QED
  BY <1>6, <1>7

\* Steps that change how far the real request has got, and what the client
\* has heard of it.
LEMMA RealStep ==
  ASSUME IInv, Attached, NEW phase \in {"open", "answered", "closed"},
         real' = [real EXCEPT !.phase = phase],
         heard' \in [sidecar : Nat, real : 0 .. 1, errors : Nat],
         heard'.sidecar = heard.sidecar,
         NEW destroyed \in BOOLEAN, proxy.destroyed => destroyed,
         proxy' = [proxy EXCEPT !.destroyed = destroyed],
         UNCHANGED <<call, word, wish, crashed>>
  PROVE  IInv'
<1>1. /\ real'.actions = real.actions /\ real'.headers = real.headers
      /\ real'.phase = phase
  BY DEF IInv, TypeOK
<1>2. /\ proxy'.actions = proxy.actions /\ proxy'.headers = proxy.headers
      /\ proxy'.autoEnd = proxy.autoEnd /\ proxy'.destroyed = destroyed
      /\ proxy'.emissions = proxy.emissions /\ proxy'.ended = proxy.ended
      /\ proxy'.resolvedSynthetic = proxy.resolvedSynthetic
  BY DEF IInv, TypeOK
<1>3. TypeOK'
  BY <1>1 DEF IInv, TypeOK
<1>4. Forwarded' /\ WordIsKept' /\ Diverted'
  BY <1>1, <1>2 DEF IInv, Forwarded, RequestArrivesAsWritten, WordIsKept,
                    Diverted, Attached, IsRequest
<1>5. Ended' /\ OneResponsePerEnd'
  BY <1>2 DEF IInv, Ended, OneResponsePerEnd, IsRequest
<1>6. QED
  BY <1>3, <1>4, <1>5 DEF IInv

LEMMA AbortStep == ASSUME IInv, abort PROVE IInv'
<1>1. Attached /\ UNCHANGED <<call, word, proxy, wish, crashed>>
  BY DEF abort, Attached
<1> DEFINE told == [heard EXCEPT !.errors = @ + 1]
<1>a. heard \in [sidecar : Nat, real : 0 .. 1, errors : Nat]
  BY DEF IInv, TypeOK
<1>b. told \in [sidecar : Nat, real : 0 .. 1, errors : Nat]
  BY <1>a
<1>c. told.sidecar = heard.sidecar
  BY <1>a
<1>d. heard' = told \/ heard' = heard
  BY DEF abort, Dropped
<1>2. /\ real' = [real EXCEPT !.phase = "closed"]
      /\ heard' \in [sidecar : Nat, real : 0 .. 1, errors : Nat]
      /\ heard'.sidecar = heard.sidecar
  <2> HIDE DEF told
  <2>1. QED
    BY <1>a, <1>b, <1>c, <1>d DEF abort, Dropped
<1>3. proxy' = [proxy EXCEPT !.destroyed = proxy.destroyed]
      /\ proxy.destroyed \in BOOLEAN
  BY <1>1 DEF IInv, TypeOK
<1>4. QED
  BY <1>1, <1>2, <1>3, RealStep

LEMMA DestroyStep ==
  ASSUME IInv, NEW error \in BOOLEAN, destroy(error) PROVE IInv'
<1>1. /\ proxy' = [proxy EXCEPT !.destroyed = TRUE]
      /\ UNCHANGED <<call, word, wish, crashed>>
  BY DEF destroy
<1>2. CASE Attached
  <2>1. /\ real' = [real EXCEPT !.phase = "closed"]
        /\ heard' \in [sidecar : Nat, real : 0 .. 1, errors : Nat]
        /\ heard'.sidecar = heard.sidecar
    BY <1>2 DEF destroy, Dropped, IInv, TypeOK
  <2>2. QED
    BY <1>1, <1>2, <2>1, RealStep
<1>3. CASE ~ Attached
  <2>1. /\ UNCHANGED real
        /\ heard' \in [sidecar : Nat, real : 0 .. 1, errors : Nat]
        /\ heard'.sidecar = heard.sidecar
    BY <1>3 DEF destroy, IInv, TypeOK
  <2>2. /\ proxy'.actions = proxy.actions /\ proxy'.headers = proxy.headers
        /\ proxy'.autoEnd = proxy.autoEnd /\ proxy'.destroyed = TRUE
        /\ proxy'.emissions = proxy.emissions
        /\ proxy'.resolvedSynthetic = proxy.resolvedSynthetic
    BY <1>1 DEF IInv, TypeOK
  <2>3. TypeOK'
    BY <1>1, <2>1 DEF IInv, TypeOK
  <2>4. Forwarded' /\ WordIsKept' /\ Diverted'
    BY <1>1, <1>3, <2>1, <2>2
       DEF IInv, Forwarded, WordIsKept, Diverted, Attached, IsRequest
  <2>5. Ended' /\ OneResponsePerEnd'
    BY <1>1, <2>1, <2>2 DEF IInv, Ended, OneResponsePerEnd, IsRequest
  <2>6. QED
    BY <2>3, <2>4, <2>5 DEF IInv
<1>4. QED
  BY <1>2, <1>3

LEMMA HeadersStep ==
  ASSUME IInv, NEW added \in SUBSET Header, NEW removed \in SUBSET Header,
         ChangesHeaders(added, removed)
  PROVE  IInv'
<1>1. /\ wish'.headers = (wish.headers \cup added) \ removed
      /\ wish'.actions = wish.actions
      /\ wish' \in [actions : Seq(PendingRequestAction), headers : SUBSET Header]
      /\ UNCHANGED <<call, word, heard, crashed>>
  BY DEF ChangesHeaders, IInv, TypeOK
<1>2. CASE Attached
  <2>1. /\ real'.headers = (real.headers \cup added) \ removed
        /\ real'.actions = real.actions /\ real'.phase = real.phase
        /\ real' = [real EXCEPT !.headers = (@ \cup added) \ removed]
        /\ UNCHANGED proxy
    BY <1>2 DEF ChangesHeaders, IInv, TypeOK
  <2>2. TypeOK'
    BY <1>1, <2>1 DEF IInv, TypeOK
  <2>3. Forwarded' /\ WordIsKept' /\ Diverted'
    BY <1>1, <1>2, <2>1
       DEF IInv, Forwarded, RequestArrivesAsWritten, WordIsKept, Diverted,
           Attached, IsRequest
  <2>4. Ended' /\ OneResponsePerEnd'
    BY <1>1, <2>1 DEF IInv, Ended, OneResponsePerEnd, IsRequest
  <2>5. QED
    BY <2>2, <2>3, <2>4 DEF IInv
<1>3. CASE ~ Attached
  <2>1. /\ proxy'.headers = (proxy.headers \cup added) \ removed
        /\ proxy'.actions = proxy.actions
        /\ proxy'.autoEnd = proxy.autoEnd /\ proxy'.destroyed = proxy.destroyed
        /\ proxy'.emissions = proxy.emissions /\ proxy'.ended = proxy.ended
        /\ proxy'.resolvedSynthetic = proxy.resolvedSynthetic
        /\ proxy' = [proxy EXCEPT !.headers = (@ \cup added) \ removed]
        /\ UNCHANGED real
    BY <1>3 DEF ChangesHeaders, IInv, TypeOK
  <2>2. TypeOK'
    BY <1>1, <2>1 DEF IInv, TypeOK
  <2>3. Forwarded' /\ WordIsKept' /\ Diverted'
    BY <1>1, <1>3, <2>1
       DEF IInv, Forwarded, WordIsKept, Diverted, Attached, IsRequest
  <2>4. Ended' /\ OneResponsePerEnd'
    BY <1>1, <2>1 DEF IInv, Ended, OneResponsePerEnd, IsRequest
  <2>5. QED
    BY <2>2, <2>3, <2>4 DEF IInv
<1>4. QED
  BY <1>2, <1>3

LEMMA RunAutoEndStep == ASSUME IInv, RunAutoEnd PROVE IInv'
<1>1. IsRequest /\ Len(wish.actions) < MaxActions
  BY DEF RunAutoEnd, IInv, Ended
<1>2. CASE ~ proxy.destroyed
  BY <1>1, <1>2, EndStep DEF RunAutoEnd
<1>3. CASE proxy.destroyed
  <2>1. /\ proxy' = [proxy EXCEPT !.autoEnd = FALSE]
        /\ UNCHANGED <<call, word, real, heard, wish, crashed>>
    BY <1>3 DEF RunAutoEnd
  <2>2. /\ proxy'.actions = proxy.actions /\ proxy'.headers = proxy.headers
        /\ proxy'.autoEnd = FALSE /\ proxy'.destroyed = proxy.destroyed
        /\ proxy'.emissions = proxy.emissions
        /\ proxy'.resolvedSynthetic = proxy.resolvedSynthetic
    BY <2>1 DEF IInv, TypeOK
  <2>3. TypeOK'
    BY <2>1 DEF IInv, TypeOK
  <2>4. Forwarded' /\ WordIsKept' /\ Diverted'
    BY <2>1, <2>2 DEF IInv, Forwarded, RequestArrivesAsWritten, WordIsKept,
                      Diverted, Attached, IsRequest
  <2>5. Ended' /\ OneResponsePerEnd'
    BY <1>3, <2>1, <2>2 DEF IInv, Ended, OneResponsePerEnd, IsRequest
  <2>6. QED
    BY <2>3, <2>4, <2>5 DEF IInv
<1>4. QED
  BY <1>2, <1>3

LEMMA EmitStep == ASSUME IInv, Emit PROVE IInv'
<1>1. /\ proxy.emissions > 0
      /\ proxy' = [proxy EXCEPT !.emissions = @ - 1]
      /\ heard' = [heard EXCEPT !.sidecar = @ + 1]
      /\ UNCHANGED <<call, word, real, wish, crashed>>
  BY DEF Emit
<1>2. /\ proxy'.actions = proxy.actions /\ proxy'.headers = proxy.headers
      /\ proxy'.autoEnd = proxy.autoEnd /\ proxy'.destroyed = proxy.destroyed
      /\ proxy'.emissions = proxy.emissions - 1
      /\ proxy'.ended = proxy.ended
      /\ heard'.sidecar = heard.sidecar + 1
      /\ proxy.emissions \in Nat /\ heard.sidecar \in Nat
  BY <1>1 DEF IInv, TypeOK
<1>3. proxy.emissions - 1 \in Nat
  BY <1>1, <1>2
<1>4. TypeOK'
  <2> DEFINE left == proxy.emissions - 1
  <2>1. /\ proxy' = [proxy EXCEPT !.emissions = left]
        /\ left \in Nat
    BY <1>1, <1>3
  <2> HIDE DEF left
  <2>2. heard' \in [sidecar : Nat, real : 0 .. 1, errors : Nat]
    BY <1>1 DEF IInv, TypeOK
  <2>3. QED
    BY <1>1, <2>1, <2>2 DEF IInv, TypeOK
<1>5. Forwarded' /\ WordIsKept' /\ Diverted'
  BY <1>1, <1>2 DEF IInv, Forwarded, RequestArrivesAsWritten, WordIsKept,
                    Diverted, Attached, IsRequest
<1>6. Ended' /\ OneResponsePerEnd'
  BY <1>1, <1>2 DEF IInv, Ended, OneResponsePerEnd, IsRequest
<1>7. QED
  BY <1>4, <1>5, <1>6 DEF IInv

\* what a request is attached with
LEMMA AttachedFits ==
  ASSUME TypeOK
  PROVE  /\ attached(proxy) \in [phase   : {"none", "open", "answered", "closed"},
                                 actions : Seq(PendingRequestAction),
                                 headers : SUBSET Header]
         /\ attached(proxy).phase = "open"
         /\ attached(proxy).actions = proxy.actions
         /\ attached(proxy).headers = ArgHeaders \cup proxy.headers
<1>1. << >> \in Seq(PendingRequestAction)
  BY EmptySeq
<1>2. QED
  BY <1>1, CallAssumption DEF TypeOK, attached, PassedOn, NoReal

LEMMA ToldStep ==
  ASSUME IInv, NEW source \in Source \cup {"none"}, Told(source)
  PROVE  IInv'
<1>1. /\ ~ proxy.autoEnd /\ word = {} /\ word' = {source} /\ ~ call.own
      /\ UNCHANGED <<call, heard, wish, crashed>>
  BY DEF Told, TasksAreDue
<1>2. ~ Attached
  BY <1>1 DEF IInv, WordIsKept
<1>a. proxy.emissions \in Nat /\ heard.sidecar \in Nat
  BY DEF IInv, TypeOK
<1>b. ~ (proxy.emissions > 0) /\ ~ (heard.sidecar > 0)
  BY <1>1 DEF IInv, Diverted
<1>3. /\ proxy.emissions \in Nat /\ heard.sidecar \in Nat
      /\ proxy.emissions = 0 /\ heard.sidecar = 0
  BY <1>a, <1>b
<1>4. CASE Diverts(source) /\ ~ proxy.destroyed
  <2>1. /\ proxy' = [proxy EXCEPT !.resolvedSynthetic = {source},
                                  !.emissions = emissionsOnWord(proxy)]
        /\ UNCHANGED real
    BY <1>1, <1>4 DEF Told, Resolve
  <2> DEFINE emissions == emissionsOnWord(proxy)
  <2>2. /\ emissions \in 0 .. 1
        /\ IsRequest /\ emissions > 0 => proxy.ended
    BY <1>3 DEF emissionsOnWord
  <2> HIDE DEF emissions
  <2>3. /\ proxy'.actions = proxy.actions /\ proxy'.headers = proxy.headers
        /\ proxy'.autoEnd = proxy.autoEnd /\ proxy'.destroyed = proxy.destroyed
        /\ proxy'.emissions = emissions /\ proxy'.ended = proxy.ended
        /\ proxy'.resolvedSynthetic = {source}
    BY <2>1 DEF IInv, TypeOK, emissions
  <2>4. TypeOK'
    <3>1. source \in {"synthetic", "blocked"}
      BY <1>4 DEF Diverts
    <3>a. /\ proxy' = [proxy EXCEPT !.resolvedSynthetic = {source},
                                    !.emissions = emissions]
          /\ emissions \in Nat
          /\ {source} \in SUBSET {"synthetic", "blocked"}
      BY <2>1, <2>2, <3>1 DEF emissions
    <3>b. proxy \in [resolvedSynthetic : SUBSET {"synthetic", "blocked"},
                     ended : BOOLEAN, destroyed : BOOLEAN,
                     actions : Seq(PendingRequestAction),
                     headers : SUBSET Header,
                     autoEnd : BOOLEAN, emissions : Nat]
      BY DEF IInv, TypeOK
    <3>2. proxy' \in [resolvedSynthetic : SUBSET {"synthetic", "blocked"},
                      ended : BOOLEAN, destroyed : BOOLEAN,
                      actions : Seq(PendingRequestAction),
                      headers : SUBSET Header,
                      autoEnd : BOOLEAN, emissions : Nat]
      BY <3>a, <3>b
    <3>3. QED
      BY <1>1, <2>1, <3>2 DEF IInv, TypeOK
  <2>5. Forwarded'
    BY <1>1, <1>2, <2>1, <2>3 DEF IInv, Forwarded, Attached, IsRequest
  <2>6. WordIsKept' /\ Diverted'
    BY <1>1, <1>2, <1>4, <2>1, <2>3 DEF WordIsKept, Diverted, Attached, Diverts
  <2>7. Ended'
    BY <1>1, <2>3 DEF IInv, Ended, IsRequest
  <2>8. OneResponsePerEnd'
    <3>1. /\ Cardinality(Ends(wish.actions)) \in Nat
          /\ IsFiniteSet(Ends(wish.actions))
      BY EndsFinite DEF IInv, TypeOK
    <3>2. IsRequest /\ proxy.ended => Cardinality(Ends(wish.actions)) >= 1
      BY <1>1, <1>4, <3>1, FS_EmptySet DEF IInv, Ended
    <3>3. QED
      BY <1>1, <1>3, <2>2, <2>3, <3>1, <3>2 DEF OneResponsePerEnd, IsRequest
  <2>9. QED
    BY <2>4, <2>5, <2>6, <2>7, <2>8 DEF IInv
<1>5. CASE ~ (Diverts(source) /\ ~ proxy.destroyed)
  <2>1. /\ UNCHANGED proxy
        /\ real' = IF mayAttach(proxy) THEN attached(proxy) ELSE real
    BY <1>1, <1>5 DEF Told, Resolve
  <2>2. TypeOK'
    BY <1>1, <2>1, AttachedFits DEF IInv, TypeOK
  <2>3. mayAttach(proxy) => ~ Diverts(source)
    BY <1>5 DEF mayAttach
  <2>4. Forwarded'
    BY <1>1, <1>2, <2>1, AttachedFits
       DEF IInv, Forwarded, RequestArrivesAsWritten, Attached, IsRequest
  <2>5. WordIsKept'
    BY <1>1, <1>2, <1>3, <2>1, <2>3 DEF WordIsKept, Attached
  <2>6. Diverted'
    BY <1>1, <1>3, <2>1 DEF IInv, Diverted
  <2>7. Ended' /\ OneResponsePerEnd'
    BY <1>1, <2>1 DEF IInv, Ended, OneResponsePerEnd, IsRequest
  <2>8. QED
    BY <2>2, <2>4, <2>5, <2>6, <2>7 DEF IInv
<1>6. QED
  BY <1>4, <1>5

LEMMA ToldInVainStep ==
  ASSUME IInv, NEW source \in Source \cup {"none"}, ToldInVain(source)
  PROVE  IInv'
<1>1. /\ word = {} /\ word' = {source} /\ crashed' = TRUE
      /\ UNCHANGED <<call, proxy, real, heard, wish>>
  BY DEF ToldInVain
<1>2. TypeOK'
  BY <1>1 DEF IInv, TypeOK
<1>3. Forwarded' /\ Ended' /\ OneResponsePerEnd'
  BY <1>1 DEF IInv, Forwarded, RequestArrivesAsWritten, Ended,
              OneResponsePerEnd, Attached, IsRequest
<1>4. WordIsKept' /\ Diverted'
  BY <1>1 DEF IInv, WordIsKept, Diverted, Attached
<1>5. QED
  BY <1>2, <1>3, <1>4 DEF IInv

LEMMA RemoteStep == ASSUME IInv, Remote PROVE IInv'
<1>1. /\ Attached
      /\ UNCHANGED <<call, word, proxy, wish, crashed>>
  BY DEF Remote, Attached
<1>2. \/ /\ real' = [real EXCEPT !.phase = "answered"]
         /\ heard' = [heard EXCEPT !.real = 1]
      \/ /\ real' = [real EXCEPT !.phase = "closed"]
         /\ heard' = [heard EXCEPT !.errors = @ + 1]
  BY DEF Remote, Responds, Fails
<1>3. /\ heard' \in [sidecar : Nat, real : 0 .. 1, errors : Nat]
      /\ heard'.sidecar = heard.sidecar
  BY <1>2 DEF IInv, TypeOK
<1>4. /\ proxy' = [proxy EXCEPT !.destroyed = proxy.destroyed]
      /\ proxy.destroyed \in BOOLEAN
  BY <1>1 DEF IInv, TypeOK
<1>5. QED
  BY <1>1, <1>2, <1>3, <1>4, RealStep

LEMMA StepSound == ASSUME IInv, [Next]_vars PROVE IInv'
<1>1. CASE write
  BY <1>1, WriteStep
<1>2. CASE end
  <2>1. proxy.autoEnd \in BOOLEAN /\ Len(wish.actions) \in Nat
    BY LenProperties DEF IInv, TypeOK
  <2>2. /\ Len(wish.actions) < MaxActions
        /\ proxy.autoEnd => Len(wish.actions) + 1 < MaxActions
    BY <1>2, <2>1, CallAssumption DEF end, Room
  <2>3. QED
    BY <1>2, <2>1, <2>2, EndStep DEF end, Client
<1>3. CASE abort
  BY <1>3, AbortStep
<1>4. ASSUME NEW error \in BOOLEAN, destroy(error) PROVE IInv'
  BY <1>4, DestroyStep
<1>5. ASSUME NEW name \in Header, setHeader(name) \/ removeHeader(name)
      PROVE  IInv'
  BY <1>5, HeadersStep DEF setHeader, removeHeader
<1>6. CASE Microtask
  BY <1>6, RunAutoEndStep, EmitStep DEF Microtask
<1>7. CASE Word
  BY <1>7, ToldStep, ToldInVainStep DEF Word
<1>8. CASE Remote
  BY <1>8, RemoteStep
<1>9. CASE UNCHANGED vars
  BY <1>9 DEF vars, IInv, TypeOK, Forwarded, RequestArrivesAsWritten,
              WordIsKept, Diverted, Ended, OneResponsePerEnd, Attached, IsRequest
<1>10. QED
  BY <1>1, <1>2, <1>3, <1>4, <1>5, <1>6, <1>7, <1>8, <1>9 DEF Next, ClientStep
-----------------------------------------------------------------------------
(***************************************************************************)
(* Theorems.                                                                *)
(***************************************************************************)

\* The inductive invariant: types, what has been collected or handed on, that
\* responses stem from a word that diverts the call, and that there is an end
\* for each of them.
THEOREM CallInvariance == Spec => []IInv
  BY InitSound, StepSound, PTL DEF Spec

\* Type correctness, for any number of writes and ends and any headers.
THEOREM CallTypeCorrect == Spec => []TypeOK
<1>1. IInv => TypeOK
  BY DEF IInv
<1>2. QED
  BY <1>1, CallInvariance, PTL

\* Whatever the client does before, while and after the sidecar's word
\* arrives, the real request gets all of it, in its order, and no more.
THEOREM RequestsArriveAsWritten == Spec => []RequestArrivesAsWritten
<1>1. IInv => RequestArrivesAsWritten
  BY DEF IInv, Forwarded, RequestArrivesAsWritten
<1>2. QED
  BY <1>1, CallInvariance, PTL

\* The original function is called only when the sidecar lets it, and only a
\* diverted call is answered in its place.
THEOREM TheWordIsKept == Spec => []WordIsKept
<1>1. IInv => WordIsKept
  BY DEF IInv
<1>2. QED
  BY <1>1, CallInvariance, PTL

\* No more responses are emitted, or due, than the request was ended.
THEOREM ResponsesHaveEnds == Spec => []OneResponsePerEnd
<1>1. IInv => OneResponsePerEnd
  BY DEF IInv
<1>2. QED
  BY <1>1, CallInvariance, PTL

\* No step attaches a request that has been destroyed, or takes back one that
\* is attached.
THEOREM DestroyedIsNeverSent == Spec => DestroyedIsNotSent
<1>1. ASSUME IInv, [Next]_vars, proxy.destroyed PROVE Attached <=> Attached'
  <2>1. real \in [phase   : {"none", "open", "answered", "closed"},
                  actions : Seq(PendingRequestAction), headers : SUBSET Header]
    BY <1>1 DEF IInv, TypeOK
  <2>2. \/ UNCHANGED real
        \/ Attached /\ \E a : real' = [real EXCEPT !.actions = Append(@, a)]
        \/ Attached /\ \E h : real' = [real EXCEPT !.headers = h]
        \/ /\ Attached
           /\ \E phase \in {"answered", "closed"} :
                real' = [real EXCEPT !.phase = phase]
    <3>1. CASE write \/ end \/ RunAutoEnd
      BY <3>1 DEF write, end, RunAutoEnd, endRequest
    <3>2. CASE abort \/ \E error \in BOOLEAN : destroy(error)
      BY <3>2 DEF abort, destroy, Dropped, Attached
    <3>3. CASE \E name \in Header : setHeader(name) \/ removeHeader(name)
      BY <3>3 DEF setHeader, removeHeader, ChangesHeaders
    <3>4. CASE Emit
      BY <3>4 DEF Emit
    <3>5. CASE Word
      BY <1>1, <3>5 DEF Word, Told, ToldInVain, Resolve, mayAttach
    <3>6. CASE Remote
      BY <3>6 DEF Remote, Responds, Fails, Attached
    <3>7. CASE UNCHANGED vars
      BY <3>7 DEF vars
    <3>8. QED
      BY <1>1, <3>1, <3>2, <3>3, <3>4, <3>5, <3>6, <3>7
         DEF Next, ClientStep, Microtask
  <2>3. QED
    BY <2>1, <2>2 DEF Attached
<1>2. QED
  BY <1>1, CallInvariance, PTL DEF Spec, DestroyedIsNotSent
=============================================================================
