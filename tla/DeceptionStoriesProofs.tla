----------------------- MODULE DeceptionStoriesProofs -----------------------
(***************************************************************************)
(* For any number of requests, actors and sessions: clients are served      *)
(* stories of their own, settled stories stay on disk whatever races; and   *)
(* as long as requests come one at a time, a session has one story, the     *)
(* trigger that is logged names it, and its tokens survive with it.         *)
(***************************************************************************)
EXTENDS DeceptionStories, SequenceTheorems, NaturalsInduction,
        WellFoundedInduction, TLAPS

Belongs(story, client) ==
  \/ story.session = client.session
  \/ story.actor = client.actor

Elements(list) == {list[i] : i \in DOMAIN list}

\* A call past the lookups of getOrBindStory has a story of its client, and
\* what it has not saved yet is what it goes on to save.
CallFits(call) ==
  /\ \/ call.phase \notin {"bySession", "byActor"}
     \/ call.lookup = "recordTrigger"
     => call.story \in Story /\ Belongs(call.story, call.client)
  /\ call.phase \in TokenPhase \cup {"list", "open", "write"} =>
       call.saved \in {0, 1}
  /\ call.phase \in TokenPhase => call.saved = 0
  /\ call.lookup # "recordTrigger" /\ call.phase \in {"bySession", "byActor"} =>
       call.saved = 0

\* A save of a story under way has read every settled story.
Keeps(call) ==
  call.phase \in {"open", "write"} /\ call.saved = 1 =>
    settled \subseteq Elements(call.list)

Answer == [client : Client, story : Story, logged : 0 .. MaxRequests]

IInv ==
  /\ TypeOK
  /\ \A c \in Conn : calls[c] \in Call => CallFits(calls[c]) /\ Keeps(calls[c])
  /\ served \subseteq Answer
  /\ ServedBelongs
  /\ SettledStoriesStay
-----------------------------------------------------------------------------
\* Of requests that come one at a time.

Alone ==
  \A c, d \in Conn : calls[c] # Idle /\ calls[d] # Idle => c = d

\* no two stories of a session, or of an actor
Distinct(list) ==
  \A s, t \in Elements(list) : Belongs(s, t) => s = t

NoneOfSession(list, client) ==
  \A s \in Elements(list) : s.session # client.session

NoneOf(list, client) ==
  \A s \in Elements(list) : ~ Belongs(s, client)

\* what was served is in the list
Holds(list) == \A s \in served : s.story \in Elements(list)

\* the story that the lookups of the call find
IsFound(call) ==
  LET list == file["stories"].list IN
  /\ call.story \in Elements(list)
  /\ \/ call.story.session = call.client.session
     \/ NoneOfSession(list, call.client)

\* A call knows what there is until it has saved what it found missing.
Sees(call) ==
  LET list == file["stories"].list
      binding == TokenPhase \cup {"list", "open", "write"} IN
  /\ call.phase = "byActor" => NoneOfSession(list, call.client)
  /\ call.phase \in binding =>
       call.story.session = call.client.session /\ call.story.actor = call.client.actor
  /\ call.phase \in binding /\ ~ (call.phase = "write" /\ call.saved = 1) =>
       /\ Readable("stories")
       /\ NoneOf(list, call.client)
       /\ call.phase = "open" /\ call.saved = 1 => call.list = list
  /\ call.phase = "write" =>
       file[Target(call)] = [state |-> "truncated", list |-> << >>]
  /\ call.phase = "write" /\ call.saved = 1 =>
       Distinct(call.list) /\ Holds(call.list) /\ NoneOf(call.list, call.client)
  /\ \/ call.phase \in {"use", "logged"}
     \/ call.phase \in {"bySession", "byActor"} /\ call.lookup = "recordTrigger"
     => Readable("stories") /\ IsFound(call)
  /\ call.phase = "logged" => call.logged = call.story.id

OneAtATime ==
  /\ Alone
  /\ \A c \in Conn : calls[c] \in Call => Sees(calls[c])
  /\ Readable("stories") =>
       Distinct(file["stories"].list) /\ Holds(file["stories"].list)
  /\ OneStoryUnlessOverlap

SInv == IInv /\ (~ overlap => OneAtATime)
-----------------------------------------------------------------------------
\* Of the tokens.

Saved ==
  /\ canaryFile.state \in {"absent", "whole"}
  /\ tokens # {} => canaryFile = Whole(tokens)

IdsOf(list) == Ids(Elements(list))

\* A call that has changed tokens is about to write them all; what it saves
\* has its tokens on disk.
Writes(call) ==
  /\ call.phase = "tokens-read" => tokens = {}
  /\ call.phase \in {"tokens-open", "tokens-write"} =>
       /\ tokens # {} /\ call.tokens = tokens
       /\ Ids(canaryFile.elements) \subseteq Ids(tokens)
       /\ IdsOf(file["stories"].list) \subseteq Ids(tokens)
       /\ call.phase = "tokens-write" => canaryFile = Truncated
       /\ call.phase = "tokens-open" =>
            /\ canaryFile.state \in {"absent", "whole"}
            /\ IdsOf(file["stories"].list) \subseteq Ids(canaryFile.elements)
       /\ call \in Call => call.story.id \in Ids(tokens)
  /\ call.phase \in {"tokens", "tokens-read"} /\ call \in Call =>
       call.story.id = call.id
  /\ call.phase \in {"list", "open", "write"} =>
       call.story.id \in Ids(canaryFile.elements)
  /\ call.phase \in {"open", "write"} /\ call.saved = 1 =>
       IdsOf(call.list) \subseteq Ids(canaryFile.elements)

TokensKept ==
  /\ \A c \in Conn : Writes(calls[c])
  /\ \/ \E c \in Conn : calls[c].phase \in {"tokens-open", "tokens-write"}
     \/ Saved /\ IdsOf(file["stories"].list) \subseteq Ids(canaryFile.elements)

CInv == SInv /\ (~ overlap /\ ~ unsaved => TokensKept)
-----------------------------------------------------------------------------
(***************************************************************************)
(* The kinds of calls, lists and lookups.                                   *)
(***************************************************************************)

LEMMA KindsDiffer ==
  ASSUME NEW call \in {Idle} \cup Call \cup Check
  PROVE  /\ call \in Call => "checked" \notin DOMAIN call /\ call # Idle
         /\ call \in Check => /\ "checked" \in DOMAIN call /\ call # Idle
                              /\ call \notin Call
         /\ call = Idle => call \notin Call /\ call \notin Check
         /\ call \notin Call => call.phase \in TokenPhase \cup {"idle"}
         /\ call \in Check => call.phase \in TokenPhase
         /\ call.phase = "idle" => call = Idle
<1>1. CASE call = Idle
  BY <1>1 DEF Idle, Call, Check, TokenPhase
<1>2. CASE call \in Call
  <2>1. DOMAIN call = {"phase", "lookup", "client", "id", "story", "saved",
                       "list", "logged", "tokens"}
    BY <1>2 DEF Call
  <2>2. call.phase # "idle"
    BY <1>2 DEF Call, TokenPhase
  <2>3. call \notin Check
    BY <2>1 DEF Check
  <2>4. QED
    BY <1>2, <2>1, <2>2, <2>3 DEF Idle
<1>3. CASE call \in Check
  <2>1. DOMAIN call = {"phase", "checked", "tokens"}
    BY <1>3 DEF Check
  <2>2. call.phase \in TokenPhase /\ call.phase # "idle"
    BY <1>3 DEF Check, TokenPhase
  <2>3. call \notin Call
    BY <2>1 DEF Call
  <2>4. QED
    BY <1>3, <2>1, <2>2, <2>3 DEF Idle
<1>4. QED
  BY <1>1, <1>2, <1>3

LEMMA NoStoryIsNone == NoStory \notin Story /\ \A s \in Story : s.id # 0
BY StoriesAssumption DEF NoStory, Story

\* Every nonempty set of indices has a least one.
LEMMA LeastIndex ==
  ASSUME NEW indices \in SUBSET Nat, indices # {}
  PROVE  \E i \in indices : \A j \in indices : i <= j
<1>1. IsWellFoundedOn(OpToRel(<, Nat), Nat)
  BY NatLessThanWellFounded
<1>2. PICK i \in indices : \A j \in indices : ~ (<<j, i>> \in OpToRel(<, Nat))
  BY <1>1, WFMin
<1>3. \A j \in indices : i <= j
  <2> SUFFICES ASSUME NEW j \in indices PROVE i <= j
    OBVIOUS
  <2>1. i \in Nat /\ j \in Nat
    OBVIOUS
  <2>2. ~ (<<j, i>> \in {p \in Nat \X Nat : p[1] < p[2]})
    BY <1>2, Zenon DEF OpToRel
  <2>3. ~ (j < i)
    <3>1. <<j, i>> \in Nat \X Nat
      BY <2>1
    <3>2. QED
      BY <2>2, <3>1
  <2>4. QED
    BY <2>1, <2>3
<1>4. QED
  BY <1>3

LEMMA FirstIsOfList ==
  ASSUME NEW list \in Seq(Story), NEW indices \in SUBSET DOMAIN list
  PROVE  /\ indices = {} => FirstOf(list, indices) = NoStory
         /\ indices # {} => \E i \in indices : FirstOf(list, indices) = list[i]
<1>1. indices \in SUBSET Nat
  BY LenProperties
<1>2. indices # {} => (CHOOSE i \in indices : \A j \in indices : i <= j) \in indices
  BY <1>1, LeastIndex
<1>3. QED
  BY <1>2 DEF FirstOf

\* What is found is in the list and of whom it was looked for.
LEMMA FoundBySession ==
  ASSUME NEW list \in Seq(Story), NEW client \in Client
  PROVE  LET found == getStoryBySession(list, client.session) IN
         /\ found \in Story \cup {NoStory}
         /\ found # NoStory => /\ found \in Elements(list) /\ found \in Story
                               /\ found.session = client.session
         /\ found = NoStory => NoneOfSession(list, client)
<1> DEFINE found == getStoryBySession(list, client.session)
           indices == {i \in DOMAIN list : list[i].session = client.session}
<1>1. \A i \in DOMAIN list : list[i] \in Story
  BY LenProperties, ElementOfSeq
<1>2. found = FirstOf(list, indices) /\ indices \in SUBSET DOMAIN list
  BY DEF getStoryBySession
<1>3. CASE indices = {}
  BY <1>2, <1>3, FirstIsOfList DEF NoneOfSession, Elements
<1>4. CASE indices # {}
  <2>1. PICK i \in indices : found = list[i]
    BY <1>2, <1>4, FirstIsOfList
  <2>2. found \in Story /\ found \in Elements(list) /\ found.session = client.session
    BY <1>1, <2>1 DEF Elements
  <2>3. QED
    BY <2>2, NoStoryIsNone
<1>5. QED
  BY <1>3, <1>4

LEMMA FoundByActor ==
  ASSUME NEW list \in Seq(Story), NEW client \in Client
  PROVE  LET found == getStoryByActor(list, client.actor) IN
         /\ found \in Story \cup {NoStory}
         /\ found # NoStory => /\ found \in Elements(list) /\ found \in Story
                               /\ found.actor = client.actor
         /\ found = NoStory =>
              \A s \in Elements(list) : s.actor # client.actor
<1> DEFINE found == getStoryByActor(list, client.actor)
           indices == {i \in DOMAIN list : list[i].actor = client.actor}
<1>1. \A i \in DOMAIN list : list[i] \in Story
  BY LenProperties, ElementOfSeq
<1>2. found = FirstOf(list, indices) /\ indices \in SUBSET DOMAIN list
  BY DEF getStoryByActor
<1>3. CASE indices = {}
  BY <1>2, <1>3, FirstIsOfList DEF Elements
<1>4. CASE indices # {}
  <2>1. PICK i \in indices : found = list[i]
    BY <1>2, <1>4, FirstIsOfList
  <2>2. found \in Story /\ found \in Elements(list) /\ found.actor = client.actor
    BY <1>1, <2>1 DEF Elements
  <2>3. QED
    BY <2>2, NoStoryIsNone
<1>5. QED
  BY <1>3, <1>4

\* upsert adds the story, and nothing else.
LEMMA UpsertAdds ==
  ASSUME NEW list \in Seq(Story), NEW story \in Story
  PROVE  /\ upsert(list, story) \in Seq(Story)
         /\ Elements(upsert(list, story)) = Elements(list) \cup {story}
<1> DEFINE n == Len(list)
           more == Append(list, story)
<1>1. /\ more \in Seq(Story) /\ Len(more) = n + 1
      /\ \A i \in 1 .. n : more[i] = list[i]
      /\ more[n + 1] = story
  BY AppendProperties
<1>2. DOMAIN more = 1 .. n + 1 /\ DOMAIN list = 1 .. n /\ n \in Nat
  BY <1>1, LenProperties
<1>3. Elements(more) \subseteq Elements(list) \cup {story}
  BY <1>1, <1>2 DEF Elements
<1>4. Elements(list) \subseteq Elements(more)
  BY <1>1, <1>2 DEF Elements
<1>5. story \in Elements(more)
  BY <1>1, <1>2 DEF Elements
<1>6. QED
  BY <1>1, <1>3, <1>4, <1>5 DEF upsert
-----------------------------------------------------------------------------
(***************************************************************************)
(* Fields of the calls that the actions leave.                              *)
(***************************************************************************)

LEMMA CallFields ==
  ASSUME NEW call \in Call
  PROVE  /\ call.phase \in {"bySession", "byActor", "list", "open", "write",
                            "use", "logged"} \cup TokenPhase
         /\ call.lookup \in Lookup /\ call.client \in Client
         /\ call.id \in 1 .. MaxRequests /\ call.story \in Story \cup {NoStory}
         /\ call.saved \in 0 .. 2 /\ call.list \in Seq(Story)
         /\ call.logged \in 0 .. MaxRequests /\ call.tokens \in SUBSET Token
BY DEF Call

\* a call whose phase changes, and nothing that a phase does not allow for
LEMMA PhaseChanges ==
  ASSUME NEW call \in Call,
         NEW p \in {"bySession", "byActor", "list", "open", "write", "use",
                    "logged"} \cup TokenPhase
  PROVE  LET new == [call EXCEPT !.phase = p] IN
         /\ new \in Call /\ new.phase = p
         /\ new.lookup = call.lookup /\ new.client = call.client
         /\ new.id = call.id /\ new.story = call.story
         /\ new.saved = call.saved /\ new.list = call.list
         /\ new.logged = call.logged /\ new.tokens = call.tokens
BY DEF Call

LEMMA BindingOfCall ==
  ASSUME NEW call \in Call
  PROVE  LET story == createBinding(call) IN
         /\ story \in Story /\ story.id = call.id
         /\ story.session = call.client.session
         /\ story.actor = call.client.actor
         /\ Belongs(story, call.client)
<1>1. call.id \in 1 .. MaxRequests /\ call.client \in Client
  BY CallFields
<1>2. call.client \in [actor : Actor, session : Session]
  BY <1>1, StoriesAssumption
<1>3. QED
  BY <1>1, <1>2 DEF createBinding, Story, Belongs

\* where the lookups lead
LEMMA AfterLookupFields ==
  ASSUME NEW call \in Call, NEW found \in Story \cup {NoStory}
  PROVE  LET after == AfterLookup(call, found) IN
         /\ after \in Call
         /\ after.client = call.client /\ after.id = call.id
         /\ after.saved = call.saved /\ after.list = call.list
         /\ after.tokens = call.tokens
         /\ call.lookup = "recordTrigger" =>
              /\ after.phase = "logged" /\ after.lookup = "recordTrigger"
              /\ after.story = call.story /\ after.logged = found.id
         /\ call.lookup # "recordTrigger" /\ found # NoStory =>
              /\ after.phase = "use" /\ after.story = found
              /\ after.lookup = call.lookup
         /\ call.lookup = "getOrBindStory" /\ found = NoStory =>
              /\ after.phase = "bySession" /\ after.lookup = "bindStory"
              /\ after.story = call.story
         /\ call.lookup = "bindStory" /\ found = NoStory =>
              /\ after.phase = "tokens" /\ after.lookup = "bindStory"
              /\ after.story = createBinding(call)
<1> DEFINE binding == createBinding(call)
<1>1. binding \in Story
  BY BindingOfCall
<1>2. found.id \in 0 .. MaxRequests
  BY StoriesAssumption DEF Story, NoStory
<1>3. call.lookup \in Lookup
  BY CallFields
<1> HIDE DEF binding
<1>4. CASE call.lookup = "recordTrigger"
  <2>1. AfterLookup(call, found)
          = [call EXCEPT !.phase = "logged", !.logged = found.id]
    BY <1>4 DEF AfterLookup
  <2>2. QED
    BY <1>2, <1>4, <2>1 DEF Call, Lookup
<1>5. CASE call.lookup # "recordTrigger" /\ found # NoStory
  <2>1. AfterLookup(call, found) = [call EXCEPT !.phase = "use", !.story = found]
    BY <1>5 DEF AfterLookup
  <2>2. QED
    BY <1>5, <2>1 DEF Call, Lookup
<1>6. CASE call.lookup = "getOrBindStory" /\ found = NoStory
  <2>1. AfterLookup(call, found)
          = [call EXCEPT !.phase = "bySession", !.lookup = "bindStory"]
    BY <1>6 DEF AfterLookup
  <2>2. QED
    BY <1>6, <2>1 DEF Call, Lookup
<1>7. CASE call.lookup = "bindStory" /\ found = NoStory
  <2>1. AfterLookup(call, found)
          = [call EXCEPT !.phase = "tokens", !.story = binding]
    BY <1>7 DEF AfterLookup, binding
  <2>2. QED
    BY <1>1, <1>7, <2>1 DEF Call, Lookup, TokenPhase, binding
<1>8. QED
  BY <1>3, <1>4, <1>5, <1>6, <1>7 DEF Lookup
-----------------------------------------------------------------------------
(***************************************************************************)
(* Tokens.                                                                  *)
(***************************************************************************)

LEMMA ContentFields ==
  ASSUME NEW content \in Content(Token)
  PROVE  /\ content.elements \in SUBSET Token
         /\ content.state \in {"absent", "truncated", "garbled", "whole"}
         /\ content.state = "whole" => content = Whole(content.elements)
         /\ content.state # "whole" => content.elements = {}
         /\ content.state = "absent" <=> content = Absent
BY DEF Content, Absent, Truncated, Garbled, Whole

LEMMA WholeIsContent ==
  ASSUME NEW set \in SUBSET Token
  PROVE  /\ Whole(set) \in Content(Token)
         /\ Whole(set).elements = set /\ Whole(set).state = "whole"
         /\ Absent \in Content(Token) /\ Truncated \in Content(Token)
         /\ Garbled \in Content(Token)
         /\ Truncated # Whole(set) /\ Truncated # Absent
         /\ Truncated.state = "truncated" /\ Truncated.elements = {}
         /\ Absent.elements = {} /\ Absent.state = "absent"
BY DEF Content, Absent, Truncated, Garbled, Whole

LEMMA LoadedTokens ==
  ASSUME NEW known \in SUBSET Token, NEW content \in Content(Token)
  PROVE  /\ loadFromDisk(known, content) \in SUBSET Token
         /\ known = {} => loadFromDisk(known, content) = content.elements
<1>1. content.elements \in SUBSET Token
  BY ContentFields
<1>2. QED
  BY <1>1 DEF loadFromDisk

LEMMA GeneratedTokens ==
  ASSUME NEW known \in SUBSET Token, NEW id \in 1 .. MaxRequests
  PROVE  /\ generated(known, id) \in SUBSET Token
         /\ generated(known, id) # {}
         /\ Ids(known) \subseteq Ids(generated(known, id))
         /\ id \in Ids(generated(known, id))
<1> DEFINE new == [id |-> id, triggered |-> FALSE]
<1>1. new \in Token /\ new.id = id
  BY DEF Token
<1>2. generated(known, id) = known \cup {new}
  BY DEF generated
<1> HIDE DEF new
<1>3. QED
  BY <1>1, <1>2 DEF Ids

\* marking changes no identity, and nothing when the token is not known
LEMMA MarkedTokens ==
  ASSUME NEW known \in SUBSET Token, NEW id
  PROVE  /\ marked(known, id) \in SUBSET Token
         /\ Ids(marked(known, id)) = Ids(known)
         /\ id \notin Ids(known) => marked(known, id) = known
         /\ known # {} => marked(known, id) # {}
<1> DEFINE new(token) == [token EXCEPT !.triggered = @ \/ token.id = id]
<1>1. ASSUME NEW token \in Token
      PROVE  /\ new(token) \in Token /\ new(token).id = token.id
             /\ token.id # id => new(token) = token
  <2>1. token = [id |-> token.id, triggered |-> token.triggered]
        /\ token.triggered \in BOOLEAN /\ token.id \in 1 .. MaxRequests
    BY DEF Token
  <2>2. new(token) = [id |-> token.id,
                      triggered |-> (token.triggered \/ token.id = id)]
    BY <2>1
  <2>3. token.id # id => (token.triggered \/ token.id = id) = token.triggered
    BY <2>1
  <2>4. QED
    BY <2>1, <2>2, <2>3 DEF Token
<1>2. marked(known, id) = {new(token) : token \in known}
  BY DEF marked
<1> HIDE DEF new
<1>3. \A token \in known : new(token) \in Token /\ new(token).id = token.id
  BY <1>1
<1>4. marked(known, id) \in SUBSET Token
  BY <1>2, <1>3
<1>5. Ids(marked(known, id)) = Ids(known)
  BY <1>2, <1>3 DEF Ids
<1>6. id \notin Ids(known) => marked(known, id) = known
  <2> SUFFICES ASSUME id \notin Ids(known) PROVE marked(known, id) = known
    OBVIOUS
  <2>1. \A token \in known : new(token) = token
    BY <1>1 DEF Ids
  <2>2. QED
    BY <1>2, <2>1
<1>7. QED
  BY <1>2, <1>4, <1>5, <1>6
-----------------------------------------------------------------------------
(***************************************************************************)
(* Steps of one request, whatever the others do.                            *)
(***************************************************************************)

LEMMA InitSound == Init => IInv
<1> SUFFICES ASSUME Init PROVE IInv
  OBVIOUS
<1>1. << >> \in Seq(Story)
  BY EmptySeq
<1>2. file \in [File -> StoryFile]
  BY <1>1 DEF Init, StoryFile
<1>3. calls \in [Conn -> {Idle} \cup Call \cup Check]
      /\ \A c \in Conn : calls[c] = Idle
  BY DEF Init
<1>4. \A c \in Conn : calls[c] \notin Call /\ calls[c].phase = "idle"
  BY <1>3, KindsDiffer DEF Idle
<1>5. CanaryTypeOK
  BY WholeIsContent DEF Init, CanaryInit, CanaryTypeOK
<1>6. requests \in 0 .. MaxRequests /\ overlap \in BOOLEAN
  <2>1. requests = 0 /\ overlap = FALSE /\ MaxRequests \in Nat
    BY StoriesAssumption DEF Init
  <2>2. requests \in 0 .. MaxRequests
    BY <2>1
  <2>3. QED
    BY <2>1, <2>2, Zenon
<1>7. TypeOK
  BY <1>2, <1>3, <1>4, <1>5, <1>6 DEF TypeOK
<1>8. served \subseteq Answer /\ ServedBelongs /\ SettledStoriesStay
  BY DEF Init, ServedBelongs, SettledStoriesStay
<1>9. QED
  BY <1>4, <1>7, <1>8 DEF IInv

\* a story is settled when no save is under way
LEMMA SettledGrows ==
  ASSUME History
  PROVE  /\ settled' \subseteq settled \cup StoredStories'
         /\ (\E c \in Conn : calls'[c].phase \in {"open", "write"}) =>
              settled' = settled
         /\ overlap' \in BOOLEAN
         /\ overlap => overlap'
BY DEF History, NoSaveUnderWay

\* what an action of one request must leave for the invariant to hold
StepFits(c) ==
  /\ calls' = [calls EXCEPT ![c] = calls'[c]]
  /\ calls'[c] \in {Idle} \cup Call \cup Check
  /\ calls'[c] \in Call =>
       /\ CallFits(calls'[c])
       /\ Keeps(calls'[c])
  /\ file' \in [File -> StoryFile]
  /\ Readable("stories")' => settled \subseteq StoredStories'
  /\ CanaryTypeOK'
  /\ requests' \in 0 .. MaxRequests
  /\ served' \subseteq Answer /\ ServedBelongs'

LEMMA StepFitsSound ==
  ASSUME IInv, History, NEW c \in Conn, StepFits(c)
  PROVE  IInv'
<1>1. /\ calls \in [Conn -> {Idle} \cup Call \cup Check]
      /\ \A d \in Conn : calls[d] \in Call => CallFits(calls[d]) /\ Keeps(calls[d])
      /\ settled \subseteq StoredStories \/ ~ Readable("stories")
  BY DEF IInv, TypeOK, SettledStoriesStay
<1>2. /\ \A d \in Conn : d # c => calls'[d] = calls[d]
      /\ calls' \in [Conn -> {Idle} \cup Call \cup Check]
  BY <1>1 DEF StepFits
<1>3. ASSUME NEW d \in Conn, calls'[d] \in Call
      PROVE  CallFits(calls'[d]) /\ Keeps(calls'[d])
  BY <1>1, <1>2, <1>3 DEF StepFits
<1>4. ASSUME NEW d \in Conn, calls'[d] \in Call
      PROVE  CallFits(calls'[d]) /\ Keeps(calls[d])'
  <2>1. calls'[d].phase \in {"open", "write"} => settled' = settled
    BY SettledGrows
  <2>2. QED
    BY <1>3, <1>4, <2>1 DEF Keeps
<1>5. SettledStoriesStay'
  BY SettledGrows DEF StepFits, SettledStoriesStay
<1>6. ASSUME NEW d \in Conn,
             calls'[d].phase \in {"list", "open", "write", "use", "logged"}
      PROVE  calls'[d].story \in Story
  <2>1. calls'[d] \in {Idle} \cup Call \cup Check
    BY <1>2
  <2>2. calls'[d] \in Call
    BY <1>6, <2>1, KindsDiffer DEF TokenPhase
  <2>3. CallFits(calls'[d])
    BY <1>4, <2>2
  <2>4. QED
    BY <1>6, <2>3 DEF CallFits
<1>7. TypeOK'
  BY <1>2, <1>6, SettledGrows DEF StepFits, TypeOK
<1>8. QED
  BY <1>4, <1>5, <1>7 DEF StepFits, IInv

\* the state before a step
LEMMA Before ==
  ASSUME IInv, NEW c \in Conn
  PROVE  /\ calls[c] \in {Idle} \cup Call \cup Check
         /\ calls[c] \in Call => CallFits(calls[c]) /\ Keeps(calls[c])
         /\ calls[c].phase \in {"bySession", "byActor", "list", "open",
                                "write", "use", "logged"} => calls[c] \in Call
         /\ calls[c].phase \in TokenPhase => calls[c] \in Call \cup Check
         /\ file \in [File -> StoryFile]
         /\ \A f \in File : /\ file[f].list \in Seq(Story)
                            /\ file[f].state \in {"whole", "truncated", "garbled"}
         /\ file["stories"].list \in Seq(Story)
         /\ Readable("stories") => settled \subseteq StoredStories
         /\ StoredStories = Elements(file["stories"].list)
         /\ tokens \in SUBSET Token /\ canaryFile \in Content(Token)
         /\ requests \in 0 .. MaxRequests
<1>1. calls[c] \in {Idle} \cup Call \cup Check
  BY DEF IInv, TypeOK
<1>2. /\ calls[c].phase \in {"bySession", "byActor", "list", "open",
                             "write", "use", "logged"} => calls[c] \in Call
      /\ calls[c].phase \in TokenPhase => calls[c] \in Call \cup Check
  BY <1>1, KindsDiffer DEF TokenPhase, Idle
<1>3. file \in [File -> StoryFile]
  BY DEF IInv, TypeOK
<1>4. \A f \in File : /\ file[f].list \in Seq(Story)
                      /\ file[f].state \in {"whole", "truncated", "garbled"}
  BY <1>3 DEF StoryFile
<1>5. "stories" \in File
  BY DEF File
<1>6. QED
  BY <1>1, <1>2, <1>3, <1>4, <1>5
     DEF IInv, TypeOK, CanaryTypeOK, SettledStoriesStay, StoredStories, Elements

\* of an action that leaves the files and what was served alone
LEMMA CallChanges ==
  ASSUME IInv, NEW c \in Conn, NEW new \in {Idle} \cup Call \cup Check,
         calls' = [calls EXCEPT ![c] = new],
         new \in Call => CallFits(new) /\ Keeps(new),
         file' = file, served' = served, CanaryTypeOK',
         requests' \in 0 .. MaxRequests
  PROVE  StepFits(c) /\ calls'[c] = new
<1>1. calls \in [Conn -> {Idle} \cup Call \cup Check]
  BY DEF IInv, TypeOK
<1>2. calls'[c] = new /\ calls' = [calls EXCEPT ![c] = calls'[c]]
  BY <1>1
<1>3. file \in [File -> StoryFile] /\ served \subseteq Answer /\ ServedBelongs
      /\ SettledStoriesStay
  BY DEF IInv, TypeOK
<1>4. ServedBelongs'
  BY <1>3 DEF ServedBelongs
<1>5. Readable("stories")' => settled \subseteq StoredStories'
  BY <1>3 DEF Readable, StoredStories, SettledStoriesStay
<1>6. QED
  BY <1>2, <1>3, <1>4, <1>5 DEF StepFits
-----------------------------------------------------------------------------
(***************************************************************************)
(* The actions of a request, one after the other.                           *)
(***************************************************************************)

LEMMA AcceptSound ==
  ASSUME IInv, NEW c \in Conn, NEW client \in Client, Accept(c, client)
  PROVE  StepFits(c)
<1> DEFINE new == [phase |-> "bySession", lookup |-> "getOrBindStory",
                   client |-> client, id |-> requests + 1, story |-> NoStory,
                   saved |-> 0, list |-> << >>, logged |-> 0, tokens |-> {}]
<1>1. requests \in 0 .. MaxRequests /\ MaxRequests \in Nat /\ MaxRaces \in 0 .. MaxRequests
  BY Before, StoriesAssumption
<1>2. requests < MaxRequests
  BY <1>1 DEF Accept, MayBegin
<1>3. requests + 1 \in 1 .. MaxRequests
  BY <1>1, <1>2
<1>4. << >> \in Seq(Story)
  BY EmptySeq
<1>5. new \in Call
  BY <1>1, <1>3, <1>4 DEF Call, Lookup
<1>6. CallFits(new) /\ Keeps(new)
  BY DEF CallFits, Keeps, TokenPhase
<1>7. CanaryTypeOK' /\ file' = file /\ served' = served
  BY DEF Accept, IInv, TypeOK, canaryVars, CanaryTypeOK
<1>8. calls' = [calls EXCEPT ![c] = new] /\ requests' \in 0 .. MaxRequests
  BY <1>1, <1>3 DEF Accept
<1> HIDE DEF new
<1>9. QED
  BY <1>5, <1>6, <1>7, <1>8, CallChanges

LEMMA LookUpSessionStep ==
  ASSUME IInv, NEW c \in Conn, LookUpSession(c)
  PROVE  /\ calls[c] \in Call /\ calls[c].phase = "bySession"
         /\ Readable("stories")
         /\ LET call == calls[c]
                found == getStoryBySession(file["stories"].list, call.client.session)
                new == calls'[c] IN
            /\ found # NoStory => new = AfterLookup(call, found)
            /\ found = NoStory => new = [call EXCEPT !.phase = "byActor"]
            /\ new \in Call /\ CallFits(new)
            /\ new.phase \in {"byActor", "logged", "use"}
         /\ StepFits(c)
<1> DEFINE call == calls[c]
           list == file["stories"].list
           found == getStoryBySession(list, call.client.session)
           new == IF found # NoStory THEN AfterLookup(call, found)
                  ELSE [call EXCEPT !.phase = "byActor"]
<1>1. /\ call \in Call /\ call.phase = "bySession" /\ Readable("stories")
      /\ CallFits(call) /\ list \in Seq(Story)
  BY Before DEF LookUpSession
<1>2. call.client \in Client /\ call.lookup \in Lookup
  BY <1>1, CallFields
<1>3. found \in Story \cup {NoStory}
      /\ (found # NoStory => found \in Story /\ found.session = call.client.session)
  BY <1>1, <1>2, FoundBySession
<1>4. /\ calls' = [calls EXCEPT ![c] = new] /\ file' = file /\ served' = served
      /\ CanaryTypeOK' /\ requests' \in 0 .. MaxRequests
  BY DEF LookUpSession, IInv, TypeOK, canaryVars, CanaryTypeOK
<1> HIDE DEF found
<1>5. /\ new \in Call /\ CallFits(new) /\ new.phase \in {"byActor", "logged", "use"}
      /\ Keeps(new)
  <2>1. CASE found = NoStory
    <3>1. new = [call EXCEPT !.phase = "byActor"]
      BY <2>1
    <3> HIDE DEF new
    <3>2. /\ new \in Call /\ new.phase = "byActor" /\ new.lookup = call.lookup
          /\ new.story = call.story /\ new.saved = call.saved
          /\ new.client = call.client
      BY <1>1, <3>1, PhaseChanges
    <3>3. QED
      BY <1>1, <3>2 DEF CallFits, Keeps, TokenPhase
  <2>2. CASE found # NoStory
    <3>1. new = AfterLookup(call, found)
      BY <2>2
    <3>2. /\ new \in Call /\ new.client = call.client
          /\ call.lookup = "recordTrigger" =>
               new.phase = "logged" /\ new.story = call.story
          /\ call.lookup # "recordTrigger" =>
               new.phase = "use" /\ new.story = found
      BY <1>1, <1>3, <2>2, <3>1, AfterLookupFields
    <3>3. found \in Story /\ Belongs(found, call.client)
      BY <1>3, <2>2 DEF Belongs
    <3> HIDE DEF new
    <3>4. QED
      BY <1>1, <3>2, <3>3 DEF CallFits, Keeps, TokenPhase
  <2>3. QED
    BY <2>1, <2>2
<1>6. new \in {Idle} \cup Call \cup Check
  BY <1>5
<1>7. StepFits(c) /\ calls'[c] = new
  <2> HIDE DEF new
  <2>1. QED
    BY <1>4, <1>5, <1>6, CallChanges
<1>8. QED
  BY <1>1, <1>5, <1>7 DEF found

LEMMA LookUpActorStep ==
  ASSUME IInv, NEW c \in Conn, LookUpActor(c)
  PROVE  /\ calls[c] \in Call /\ calls[c].phase = "byActor"
         /\ Readable("stories")
         /\ calls'[c] = AfterLookup(calls[c],
                          getStoryByActor(file["stories"].list,
                                          calls[c].client.actor))
         /\ calls'[c] \in Call /\ CallFits(calls'[c])
         /\ calls'[c].phase \in {"bySession", "logged", "use", "tokens"}
         /\ StepFits(c)
<1> DEFINE call == calls[c]
           list == file["stories"].list
           found == getStoryByActor(list, call.client.actor)
           new == AfterLookup(call, found)
<1>1. /\ call \in Call /\ call.phase = "byActor" /\ Readable("stories")
      /\ CallFits(call) /\ list \in Seq(Story)
  BY Before DEF LookUpActor
<1>2. call.client \in Client /\ call.lookup \in Lookup
  BY <1>1, CallFields
<1>3. found \in Story \cup {NoStory}
      /\ (found # NoStory => found \in Story /\ found.actor = call.client.actor)
  BY <1>1, <1>2, FoundByActor
<1>4. /\ calls' = [calls EXCEPT ![c] = new] /\ file' = file /\ served' = served
      /\ CanaryTypeOK' /\ requests' \in 0 .. MaxRequests
  BY DEF LookUpActor, IInv, TypeOK, canaryVars, CanaryTypeOK
<1> HIDE DEF found
<1>5. /\ new \in Call /\ new.client = call.client /\ new.saved = call.saved
      /\ call.lookup = "recordTrigger" =>
           new.phase = "logged" /\ new.story = call.story
      /\ call.lookup # "recordTrigger" /\ found # NoStory =>
           new.phase = "use" /\ new.story = found
      /\ call.lookup = "getOrBindStory" /\ found = NoStory =>
           new.phase = "bySession" /\ new.lookup = "bindStory"
      /\ call.lookup = "bindStory" /\ found = NoStory =>
           new.phase = "tokens" /\ new.story = createBinding(call)
  BY <1>1, <1>3, AfterLookupFields
<1>6. found # NoStory => found \in Story /\ Belongs(found, call.client)
  BY <1>3 DEF Belongs
<1>7. createBinding(call) \in Story /\ Belongs(createBinding(call), call.client)
  BY <1>1, BindingOfCall
<1> HIDE DEF new
<1>8. CallFits(new) /\ Keeps(new)
      /\ new.phase \in {"bySession", "logged", "use", "tokens"}
  BY <1>1, <1>2, <1>5, <1>6, <1>7 DEF CallFits, Keeps, TokenPhase, Lookup
<1>9. new \in {Idle} \cup Call \cup Check
  BY <1>5
<1>10. StepFits(c) /\ calls'[c] = new
  BY <1>4, <1>5, <1>8, <1>9, CallChanges
<1>11. QED
  BY <1>1, <1>5, <1>8, <1>10 DEF new, found

LEMMA BeginCheckSound ==
  ASSUME IInv, NEW c \in Conn, NEW id \in Recognised \cup {0}, BeginCheck(c, id)
  PROVE  StepFits(c)
<1> DEFINE new == [phase |-> "tokens", checked |-> id, tokens |-> {}]
<1>1. requests \in 0 .. MaxRequests /\ MaxRequests \in Nat /\ MaxRaces \in 0 .. MaxRequests
      /\ tokens \in SUBSET Token /\ canaryFile.elements \in SUBSET Token
  BY Before, ContentFields, StoriesAssumption
<1>2. requests < MaxRequests
  BY <1>1 DEF BeginCheck, MayBegin
<1>3. requests + 1 \in 0 .. MaxRequests
  BY <1>1, <1>2
<1>4. id \in 0 .. MaxRequests
  BY <1>1 DEF Recognised, Ids, Token
<1>5. new \in Check /\ new \notin Call
  <2>1. new \in Check
    BY <1>4 DEF Check, TokenPhase
  <2>2. QED
    BY <2>1, KindsDiffer
<1>6. CanaryTypeOK' /\ file' = file /\ served' = served
  BY DEF BeginCheck, IInv, TypeOK, canaryVars, CanaryTypeOK
<1>7. calls' = [calls EXCEPT ![c] = new] /\ requests' \in 0 .. MaxRequests
  BY <1>3 DEF BeginCheck
<1> HIDE DEF new
<1>8. QED
  BY <1>5, <1>6, <1>7, CallChanges

\* a call that is to write tokens, and one that has
LEMMA TokensOfCall ==
  ASSUME NEW call \in Call, NEW set \in SUBSET Token,
         NEW p \in {"list"} \cup TokenPhase
  PROVE  LET new == [call EXCEPT !.phase = p, !.tokens = set] IN
         /\ new \in Call /\ new.phase = p
         /\ new.lookup = call.lookup /\ new.client = call.client
         /\ new.id = call.id /\ new.story = call.story
         /\ new.saved = call.saved /\ new.list = call.list
         /\ new.tokens = set
BY DEF Call

LEMMA TokensOfCheck ==
  ASSUME NEW check \in Check, NEW set \in SUBSET Token, NEW p \in TokenPhase
  PROVE  LET new == [check EXCEPT !.phase = p, !.tokens = set]
             moved == [check EXCEPT !.phase = p] IN
         /\ new \in Check /\ new.phase = p /\ new.tokens = set
         /\ moved \in Check /\ moved.phase = p /\ moved.tokens = check.tokens
BY DEF Check

LEMMA CheckMoves ==
  \A check \in Check, p \in TokenPhase :
    LET moved == [check EXCEPT !.phase = p] IN
    moved \in Check /\ moved.phase = p /\ moved.tokens = check.tokens
BY DEF Check

LEMMA PhaseOfCall ==
  ASSUME NEW call \in Call, NEW p \in TokenPhase,
         call.phase \in TokenPhase, CallFits(call)
  PROVE  LET new == [call EXCEPT !.phase = p] IN
         /\ new \in Call /\ CallFits(new) /\ Keeps(new)
         /\ new.phase = p /\ new.story = call.story /\ new.id = call.id
         /\ new.client = call.client /\ new.saved = call.saved
         /\ new.tokens = call.tokens /\ new.list = call.list
<1> DEFINE new == [call EXCEPT !.phase = p]
<1>1. /\ new \in Call /\ new.phase = p /\ new.lookup = call.lookup
      /\ new.client = call.client /\ new.story = call.story /\ new.id = call.id
      /\ new.saved = call.saved /\ new.tokens = call.tokens /\ new.list = call.list
  BY PhaseChanges
<1> HIDE DEF new
<1>2. CallFits(new) /\ Keeps(new)
  BY <1>1 DEF CallFits, Keeps, TokenPhase
<1>3. QED
  BY <1>1, <1>2 DEF new

LEMMA ProceedStep ==
  ASSUME IInv, NEW c \in Conn, calls[c].phase \in TokenPhase,
         NEW known \in SUBSET Token, Proceed(c, known),
         UNCHANGED <<file, requests, served, canaryFile>>
  PROVE  /\ tokens' \in SUBSET Token
         /\ calls[c] \in Call =>
              /\ tokens' = generated(known, calls[c].id)
              /\ calls'[c] = [calls[c] EXCEPT !.phase = "tokens-open",
                                              !.tokens = tokens']
              /\ calls'[c] \in Call /\ CallFits(calls'[c])
         /\ calls[c] \in Check =>
              /\ tokens' = marked(known, calls[c].checked)
              /\ calls'[c] \notin Call
              /\ calls[c].checked \notin Ids(known) => calls'[c] = Idle
              /\ calls[c].checked \in Ids(known) =>
                   calls'[c] = [calls[c] EXCEPT !.phase = "tokens-open",
                                                !.tokens = tokens']
         /\ StepFits(c)
<1> DEFINE call == calls[c]
           new == [call EXCEPT !.phase = "tokens-open", !.tokens = tokens']
<1>1. /\ call \in Call \cup Check
      /\ call \in Call => CallFits(call) /\ "checked" \notin DOMAIN call
      /\ call \in Check => "checked" \in DOMAIN call /\ call \notin Call
  BY Before, KindsDiffer
<1>2. "tokens-open" \in TokenPhase
  BY DEF TokenPhase
<1>3. CASE call \in Call
  <2>1. /\ tokens' = generated(known, call.id)
        /\ calls' = [calls EXCEPT ![c] = new]
    BY <1>1, <1>3 DEF Proceed
  <2>2. tokens' \in SUBSET Token
    BY <1>3, <2>1, GeneratedTokens, CallFields
  <2>3. /\ new \in Call /\ new.phase = "tokens-open" /\ new.saved = call.saved
        /\ new.story = call.story /\ new.client = call.client
        /\ new.lookup = call.lookup
    <3>1. "tokens-open" \in {"list"} \cup TokenPhase
      BY <1>2
    <3>2. \A q \in Call, set \in SUBSET Token, p \in {"list"} \cup TokenPhase :
            LET n == [q EXCEPT !.phase = p, !.tokens = set] IN
            /\ n \in Call /\ n.phase = p /\ n.saved = q.saved
            /\ n.story = q.story /\ n.client = q.client /\ n.lookup = q.lookup
      BY TokensOfCall
    <3>3. QED
      <4> DEFINE set == tokens'
                 n == [call EXCEPT !.phase = "tokens-open", !.tokens = set]
      <4>1. set \in SUBSET Token /\ call \in Call
        BY <1>3, <2>2
      <4> HIDE DEF set, call
      <4>2. /\ n \in Call /\ n.phase = "tokens-open" /\ n.saved = call.saved
            /\ n.story = call.story /\ n.client = call.client
            /\ n.lookup = call.lookup
        BY <3>1, <3>2, <4>1, ZenonT(40)
      <4>3. QED
        BY <4>2 DEF set, call
  <2>4. CanaryTypeOK'
    BY <2>2 DEF IInv, TypeOK, CanaryTypeOK
  <2> HIDE DEF new
  <2>5. CallFits(new) /\ Keeps(new)
    BY <1>1, <1>3, <2>3 DEF CallFits, Keeps, TokenPhase
  <2>6. requests' \in 0 .. MaxRequests /\ file' = file /\ served' = served
    BY Before
  <2>7. new \in {Idle} \cup Call \cup Check
    BY <2>3
  <2>8. StepFits(c) /\ calls'[c] = new
    BY <2>1, <2>4, <2>5, <2>6, <2>7, CallChanges
  <2>9. QED
    BY <1>1, <1>3, <2>1, <2>2, <2>3, <2>5, <2>8 DEF new
<1>4. CASE call \in Check
  <2> DEFINE next == IF call.checked \notin Ids(known) THEN Idle ELSE new
  <2>1. /\ tokens' = marked(known, call.checked)
        /\ calls' = [calls EXCEPT ![c] = next]
    BY <1>1, <1>4 DEF Proceed
  <2>2. tokens' \in SUBSET Token
    BY <2>1, MarkedTokens
  <2>3. new \in Check
    BY <1>2, <1>4, <2>2, TokensOfCheck
  <2>4. CanaryTypeOK'
    BY <2>2 DEF IInv, TypeOK, CanaryTypeOK
  <2>5. next \in {Idle} \cup Call \cup Check /\ next \notin Call
    BY <2>3, KindsDiffer
  <2>6. requests' \in 0 .. MaxRequests /\ file' = file /\ served' = served
    BY Before
  <2>7. StepFits(c) /\ calls'[c] = next
    <3> HIDE DEF next
    <3>1. QED
      BY <2>1, <2>4, <2>5, <2>6, CallChanges
  <2>8. QED
    BY <1>1, <1>4, <2>1, <2>2, <2>5, <2>7
<1>5. QED
  BY <1>1, <1>3, <1>4

\* the tokens are read first
TurnsToFile(c) ==
  /\ MustLoad /\ tokens' = tokens
  /\ calls' = [calls EXCEPT ![c].phase = "tokens-read"]

LEMMA UseTokensStep ==
  ASSUME IInv, NEW c \in Conn, UseTokens(c)
  PROVE  /\ calls[c] \in Call \cup Check /\ calls[c].phase = "tokens"
         /\ UNCHANGED <<file, requests, served, canaryFile>>
         /\ \/ TurnsToFile(c)
            \/ ~ MustLoad /\ Proceed(c, tokens)
         /\ StepFits(c)
<1> DEFINE call == calls[c]
           new == [call EXCEPT !.phase = "tokens-read"]
<1>1. /\ call \in Call \cup Check /\ call.phase = "tokens"
      /\ call \in Call => CallFits(call)
      /\ call \in Check => call \notin Call
      /\ UNCHANGED <<file, requests, served, canaryFile>>
      /\ \/ TurnsToFile(c)
         \/ ~ MustLoad /\ Proceed(c, tokens)
  BY Before, KindsDiffer DEF UseTokens, TokenPhase, TurnsToFile
<1>2. call.phase \in TokenPhase /\ "tokens-read" \in TokenPhase
  BY <1>1 DEF TokenPhase
<1>3. CASE Proceed(c, tokens)
  BY <1>1, <1>2, <1>3, Before, ProceedStep
<1>4. CASE TurnsToFile(c)
  <2>1. CanaryTypeOK' /\ requests' \in 0 .. MaxRequests
        /\ file' = file /\ served' = served
    BY <1>1, <1>4, Before DEF TurnsToFile, CanaryTypeOK
  <2>2. /\ new \in {Idle} \cup Call \cup Check
        /\ new \in Call => CallFits(new) /\ Keeps(new)
    <3>1. CASE call \in Call
      BY <1>1, <1>2, <3>1, PhaseOfCall
    <3>2. CASE call \in Check
      <4>1. new \in Check
        BY <1>2, <3>2, TokensOfCheck
      <4>2. QED
        BY <4>1, KindsDiffer
    <3>3. QED
      BY <1>1, <3>1, <3>2
  <2>3. calls' = [calls EXCEPT ![c] = new]
    BY <1>4 DEF TurnsToFile
  <2> HIDE DEF new
  <2>4. QED
    BY <1>1, <2>1, <2>2, <2>3, CallChanges
<1>5. QED
  BY <1>1, <1>3, <1>4

LEMMA LoadTokensStep ==
  ASSUME IInv, NEW c \in Conn, LoadTokens(c)
  PROVE  /\ calls[c] \in Call \cup Check /\ calls[c].phase = "tokens-read"
         /\ UNCHANGED <<file, requests, served, canaryFile>>
         /\ loadFromDisk(tokens, canaryFile) \in SUBSET Token
         /\ Proceed(c, loadFromDisk(tokens, canaryFile))
         /\ StepFits(c)
<1>1. /\ calls[c].phase = "tokens-read" /\ calls[c].phase \in TokenPhase
      /\ UNCHANGED <<file, requests, served, canaryFile>>
      /\ Proceed(c, loadFromDisk(tokens, canaryFile))
  BY DEF LoadTokens, TokenPhase
<1>2. loadFromDisk(tokens, canaryFile) \in SUBSET Token
  BY Before, LoadedTokens
<1>3. StepFits(c)
  BY <1>1, <1>2, ProceedStep
<1>4. QED
  BY <1>1, <1>2, <1>3, Before

LEMMA OpenTokensStep ==
  ASSUME IInv, NEW c \in Conn, OpenTokens(c)
  PROVE  /\ calls[c] \in Call \cup Check /\ calls[c].phase = "tokens-open"
         /\ calls'[c] = [calls[c] EXCEPT !.phase = "tokens-write"]
         /\ calls'[c] \in Call \cup Check
         /\ calls[c] \in Call => calls'[c] \in Call /\ CallFits(calls'[c])
         /\ calls[c] \in Check => calls'[c] \notin Call
         /\ StepFits(c)
<1> DEFINE call == calls[c]
           new == [call EXCEPT !.phase = "tokens-write"]
<1>1. /\ call \in Call \cup Check /\ call.phase = "tokens-open"
      /\ call \in Call => CallFits(call)
      /\ call \in Check => call \notin Call
      /\ requests' \in 0 .. MaxRequests /\ file' = file /\ served' = served
  BY Before, KindsDiffer DEF OpenTokens, TokenPhase
<1>2. call.phase \in TokenPhase /\ "tokens-write" \in TokenPhase
  BY <1>1 DEF TokenPhase
<1>3. CanaryTypeOK'
  BY Before, WholeIsContent DEF OpenTokens, CanaryTypeOK
<1>4. /\ new \in Call \cup Check
      /\ new \in Call => CallFits(new) /\ Keeps(new)
      /\ call \in Call => new \in Call
      /\ call \in Check => new \notin Call
  <2>1. CASE call \in Call
    BY <1>1, <1>2, <2>1, PhaseOfCall
  <2>2. CASE call \in Check
    <3>1. new \in Check
      BY <1>2, <2>2, TokensOfCheck
    <3>2. QED
      BY <1>1, <2>2, <3>1, KindsDiffer
  <2>3. QED
    BY <1>1, <2>1, <2>2
<1>5. calls' = [calls EXCEPT ![c] = new]
  BY DEF OpenTokens
<1>6. StepFits(c) /\ calls'[c] = new
  <2>1. new \in {Idle} \cup Call \cup Check
    BY <1>4
  <2> HIDE DEF new
  <2>2. QED
    BY <1>1, <1>3, <1>4, <1>5, <2>1, CallChanges
<1>7. QED
  BY <1>1, <1>4, <1>6

\* the tokens are written, or given up
TokensDone(c) ==
  calls' = [calls EXCEPT ![c] = IF "checked" \in DOMAIN @ THEN Idle
                                ELSE [@ EXCEPT !.phase = "list", !.tokens = {}]]

LEMMA TokensDoneStep ==
  ASSUME IInv, NEW c \in Conn, TokensDone(c),
         calls[c].phase \in {"tokens-open", "tokens-write"},
         CanaryTypeOK', UNCHANGED <<file, requests, served>>
  PROVE  /\ calls[c] \in Call \cup Check
         /\ calls[c] \in Call =>
              /\ calls'[c] = [calls[c] EXCEPT !.phase = "list", !.tokens = {}]
              /\ calls'[c] \in Call /\ CallFits(calls'[c])
              /\ calls'[c].phase = "list" /\ calls'[c].saved = 0
              /\ calls'[c].story = calls[c].story
              /\ calls'[c].client = calls[c].client
         /\ calls[c] \in Check => calls'[c] = Idle
         /\ StepFits(c)
<1> DEFINE call == calls[c]
           more == [call EXCEPT !.phase = "list", !.tokens = {}]
           new == IF "checked" \in DOMAIN call THEN Idle ELSE more
<1>1. /\ call \in Call \cup Check /\ call.phase \in TokenPhase
      /\ call \in Call => CallFits(call) /\ "checked" \notin DOMAIN call
      /\ call \in Check => call \notin Call /\ "checked" \in DOMAIN call
      /\ requests' \in 0 .. MaxRequests
      /\ calls \in [Conn -> {Idle} \cup Call \cup Check]
  BY Before, KindsDiffer DEF TokenPhase, IInv, TypeOK
<1>2. calls' = [calls EXCEPT ![c] = new]
  BY <1>1 DEF TokensDone
<1>3. CASE call \in Call
  <2>1. "list" \in {"list"} \cup TokenPhase /\ {} \in SUBSET Token
    OBVIOUS
  <2>2. \A q \in Call, set \in SUBSET Token, p \in {"list"} \cup TokenPhase :
          LET n == [q EXCEPT !.phase = p, !.tokens = set] IN
          /\ n \in Call /\ n.phase = p /\ n.saved = q.saved
          /\ n.story = q.story /\ n.client = q.client /\ n.lookup = q.lookup
    BY TokensOfCall
  <2>3. /\ more \in Call /\ more.phase = "list" /\ more.saved = call.saved
        /\ more.story = call.story /\ more.client = call.client
        /\ more.lookup = call.lookup
    BY <1>3, <2>1, <2>2, ZenonT(40)
  <2>4. new = more
    BY <1>1, <1>3
  <2> HIDE DEF more, new
  <2>5. CallFits(more) /\ Keeps(more) /\ more.saved = 0
    BY <1>1, <1>3, <2>3 DEF CallFits, Keeps, TokenPhase
  <2>6. new \in {Idle} \cup Call \cup Check
    BY <2>3, <2>4
  <2>7. StepFits(c) /\ calls'[c] = new
    BY <1>1, <1>2, <2>4, <2>5, <2>6, CallChanges
  <2>8. QED
    BY <1>1, <1>3, <2>3, <2>4, <2>5, <2>7 DEF more
<1>4. CASE call \in Check
  <2>1. new = Idle
    BY <1>1, <1>4
  <2>2. Idle \in {Idle} \cup Call \cup Check /\ Idle \notin Call
    BY KindsDiffer
  <2> HIDE DEF new
  <2>3. StepFits(c) /\ calls'[c] = new
    BY <1>1, <1>2, <2>1, <2>2, CallChanges
  <2>4. QED
    BY <1>1, <1>4, <2>1, <2>3
<1>5. QED
  BY <1>1, <1>3, <1>4

LEMMA WriteTokensStep ==
  ASSUME IInv, NEW c \in Conn, WriteTokens(c)
  PROVE  /\ TokensDone(c) /\ CanaryTypeOK' /\ StepFits(c)
         /\ calls[c].tokens \in SUBSET Token
<1>1. calls[c] \in Call \cup Check
  BY Before DEF WriteTokens, TokenPhase
<1>2. calls[c].tokens \in SUBSET Token
  BY <1>1 DEF Call, Check
<1>3. CanaryTypeOK'
  BY <1>2, Before, WholeIsContent DEF WriteTokens, Written, CanaryTypeOK
<1>4. TokensDone(c) /\ calls[c].phase = "tokens-write"
      /\ UNCHANGED <<file, requests, served>>
  BY DEF WriteTokens, TokensDone
<1>5. StepFits(c)
  BY <1>3, <1>4, TokensDoneStep
<1>6. QED
  BY <1>2, <1>3, <1>4, <1>5

LEMMA FailToWriteTokensStep ==
  ASSUME IInv, NEW c \in Conn, FailToWriteTokens(c)
  PROVE  TokensDone(c) /\ CanaryTypeOK' /\ StepFits(c)
<1>1. /\ TokensDone(c) /\ calls[c].phase \in {"tokens-open", "tokens-write"}
      /\ UNCHANGED <<file, requests, served>> /\ CanaryTypeOK'
  BY DEF FailToWriteTokens, TokensDone, IInv, TypeOK, CanaryTypeOK, canaryVars
<1>2. QED
  BY <1>1, TokensDoneStep

\* which file a call saves next
LEMMA TargetOf ==
  ASSUME NEW call \in Call, call.saved \in {0, 1}
  PROVE  /\ Target(call) \in File
         /\ call.saved = 0 => Target(call) = "bindings"
         /\ call.saved = 1 => Target(call) = "stories"
BY DEF Target, SaveOrder, File

LEMMA ReadListStep ==
  ASSUME IInv, NEW c \in Conn, ReadList(c)
  PROVE  LET call == calls[c]
             new == calls'[c] IN
         /\ call \in Call /\ call.phase = "list" /\ call.saved \in {0, 1}
         /\ Readable(Target(call))
         /\ new \in Call /\ CallFits(new)
         /\ new.phase = "open" /\ new.list = file[Target(call)].list
         /\ new.saved = call.saved /\ new.story = call.story
         /\ new.client = call.client
         /\ StepFits(c)
<1> DEFINE call == calls[c]
           list == file[Target(call)].list
           new == [call EXCEPT !.phase = "open", !.list = list]
<1>1. /\ call \in Call /\ call.phase = "list" /\ CallFits(call)
      /\ Readable(Target(call))
      /\ Readable("stories") => settled \subseteq StoredStories
      /\ StoredStories = Elements(file["stories"].list)
  BY Before DEF ReadList
<1>2. call.saved \in {0, 1}
  BY <1>1 DEF CallFits
<1>3. list \in Seq(Story)
  BY <1>1, <1>2, TargetOf, Before
<1>4. calls \in [Conn -> {Idle} \cup Call \cup Check]
  BY DEF IInv, TypeOK
<1>5. calls' = [calls EXCEPT ![c] = new]
  BY <1>4 DEF ReadList
<1> HIDE DEF list
<1>6. /\ new \in Call /\ new.phase = "open" /\ new.list = list
      /\ new.saved = call.saved /\ new.story = call.story
      /\ new.client = call.client /\ new.lookup = call.lookup
  BY <1>1, <1>3 DEF Call
<1> HIDE DEF new
<1>7. CallFits(new)
  BY <1>1, <1>6 DEF CallFits, TokenPhase
<1>8. Keeps(new)
  <2> SUFFICES ASSUME new.saved = 1 PROVE settled \subseteq Elements(new.list)
    BY DEF Keeps
  <2>1. Target(call) = "stories"
    BY <1>1, <1>2, <1>6, TargetOf
  <2>2. QED
    BY <1>1, <1>6, <2>1 DEF list
<1>9. /\ CanaryTypeOK' /\ file' = file /\ served' = served
      /\ requests' \in 0 .. MaxRequests
  BY DEF ReadList, IInv, TypeOK, canaryVars, CanaryTypeOK
<1>10. new \in {Idle} \cup Call \cup Check
  BY <1>6
<1>11. StepFits(c) /\ calls'[c] = new
  BY <1>5, <1>7, <1>8, <1>9, <1>10, CallChanges
<1>12. QED
  BY <1>1, <1>2, <1>6, <1>7, <1>11 DEF list

LEMMA OpenFileStep ==
  ASSUME IInv, NEW c \in Conn, OpenFile(c)
  PROVE  LET call == calls[c]
             new == calls'[c] IN
         /\ call \in Call /\ call.phase = "open" /\ call.saved \in {0, 1}
         /\ new \in Call /\ CallFits(new)
         /\ new.phase = "write" /\ new.list = call.list
         /\ new.saved = call.saved /\ new.story = call.story
         /\ new.client = call.client
         /\ Target(call) \in File
         /\ file' = [file EXCEPT ![Target(call)] =
                       [state |-> "truncated", list |-> << >>]]
         /\ StepFits(c)
<1> DEFINE call == calls[c]
           new == [call EXCEPT !.phase = "write"]
           f == Target(call)
           empty == [state |-> "truncated", list |-> << >>]
<1>1. /\ call \in Call /\ call.phase = "open" /\ CallFits(call) /\ Keeps(call)
      /\ file \in [File -> StoryFile]
      /\ calls \in [Conn -> {Idle} \cup Call \cup Check]
      /\ Readable("stories") => settled \subseteq StoredStories
  BY Before DEF OpenFile, IInv, TypeOK
<1>2. call.saved \in {0, 1} /\ f \in File
  BY <1>1, TargetOf DEF CallFits
<1>3. /\ new \in Call /\ new.phase = "write" /\ new.list = call.list
      /\ new.saved = call.saved /\ new.story = call.story
      /\ new.client = call.client /\ new.lookup = call.lookup
  BY <1>1, PhaseChanges
<1>4. calls' = [calls EXCEPT ![c] = new] /\ file' = [file EXCEPT ![f] = empty]
  BY DEF OpenFile
<1> HIDE DEF new, f
<1>5. CallFits(new) /\ Keeps(new)
  BY <1>1, <1>3 DEF CallFits, Keeps, TokenPhase
<1>6. empty \in StoryFile /\ empty.state # "whole"
  BY EmptySeq DEF StoryFile
<1>7. file' \in [File -> StoryFile]
  BY <1>1, <1>4, <1>6
<1>8. Readable("stories")' => settled \subseteq StoredStories'
  <2> SUFFICES ASSUME file'["stories"].state = "whole"
               PROVE  settled \subseteq StoredStories'
    BY DEF Readable
  <2>1. "stories" \in File
    BY DEF File
  <2>2. f # "stories"
    BY <1>1, <1>2, <1>4, <1>6, <2>1
  <2>3. file'["stories"] = file["stories"]
    BY <1>1, <1>2, <1>4, <2>1, <2>2
  <2>4. QED
    BY <1>1, <2>3 DEF Readable, StoredStories
<1>9. /\ CanaryTypeOK' /\ served' \subseteq Answer /\ ServedBelongs'
      /\ requests' \in 0 .. MaxRequests
  BY DEF OpenFile, IInv, TypeOK, canaryVars, CanaryTypeOK, ServedBelongs
<1>10. new \in {Idle} \cup Call \cup Check
  BY <1>3
<1>11. calls'[c] = new
  BY <1>1, <1>4
<1>12. StepFits(c)
  BY <1>4, <1>5, <1>7, <1>8, <1>9, <1>10, <1>11 DEF StepFits
<1>13. QED
  BY <1>1, <1>2, <1>3, <1>4, <1>5, <1>11, <1>12 DEF f

\* what is written adds the story to what was read
LEMMA WriteFileStep ==
  ASSUME IInv, NEW c \in Conn, WriteFile(c)
  PROVE  LET call == calls[c]
             new == calls'[c]
             list == upsert(call.list, call.story) IN
         /\ call \in Call /\ call.phase = "write" /\ call.saved \in {0, 1}
         /\ call.story \in Story /\ call.list \in Seq(Story)
         /\ new \in Call /\ CallFits(new)
         /\ new.phase = IF call.saved = 1 THEN "use" ELSE "list"
         /\ new.saved = call.saved + 1 /\ new.story = call.story
         /\ new.client = call.client
         /\ Target(call) \in File
         /\ list \in Seq(Story)
         /\ Elements(list) = Elements(call.list) \cup {call.story}
         /\ file[Target(call)].state = "truncated" =>
              file' = [file EXCEPT ![Target(call)] =
                         [state |-> "whole", list |-> list]]
         /\ StepFits(c)
<1> DEFINE call == calls[c]
           f == Target(call)
           list == upsert(call.list, call.story)
           next == IF call.saved = 1 THEN "use" ELSE "list"
           new == [call EXCEPT !.phase = next, !.saved = call.saved + 1,
                               !.list = << >>]
           written == [state |-> "whole", list |-> list]
           garbled == [state |-> "garbled", list |-> << >>]
<1>1. /\ call \in Call /\ call.phase = "write" /\ CallFits(call) /\ Keeps(call)
      /\ file \in [File -> StoryFile]
      /\ calls \in [Conn -> {Idle} \cup Call \cup Check]
      /\ Readable("stories") => settled \subseteq StoredStories
  BY Before DEF WriteFile, IInv, TypeOK
<1>2. call.saved \in {0, 1} /\ f \in File /\ call.story \in Story
      /\ call.list \in Seq(Story) /\ Belongs(call.story, call.client)
  BY <1>1, TargetOf, CallFields DEF CallFits
<1>3. list \in Seq(Story) /\ Elements(list) = Elements(call.list) \cup {call.story}
  BY <1>2, UpsertAdds
<1>4. calls' = [calls EXCEPT ![c] = new]
  BY <1>1 DEF WriteFile
<1>5. \/ file' = [file EXCEPT ![f] = written]
      \/ file[f].state # "truncated" /\ file' = [file EXCEPT ![f] = garbled]
  BY DEF WriteFile
<1>6. /\ new \in Call /\ new.phase = next /\ new.list = << >>
      /\ new.saved = call.saved + 1 /\ new.story = call.story
      /\ new.client = call.client /\ new.lookup = call.lookup
  <2>1. /\ next \in {"use", "list"} /\ call.saved + 1 \in 0 .. 2
        /\ << >> \in Seq(Story)
    BY <1>2, EmptySeq
  <2> HIDE DEF next
  <2>2. QED
    BY <1>1, <2>1 DEF Call
<1>7. next = "list" => call.saved + 1 = 1
  BY <1>2
<1>8. next \in {"use", "list"}
  OBVIOUS
<1> HIDE DEF new, f, list
<1>9. CallFits(new) /\ Keeps(new)
  <2> HIDE DEF next
  <2>1. QED
    BY <1>2, <1>6, <1>7, <1>8 DEF CallFits, Keeps, TokenPhase
<1>10. written \in StoryFile /\ garbled \in StoryFile
       /\ written.list = list /\ garbled.state # "whole"
  BY <1>3, EmptySeq DEF StoryFile
<1>11. file' \in [File -> StoryFile] /\ file'[f] \in {written, garbled}
       /\ \A g \in File : g # f => file'[g] = file[g]
  <2> HIDE DEF written, garbled
  <2>1. QED
    BY <1>1, <1>2, <1>5, <1>10
<1>12. Readable("stories")' => settled \subseteq StoredStories'
  <2> SUFFICES ASSUME file'["stories"].state = "whole"
               PROVE  settled \subseteq StoredStories'
    BY DEF Readable
  <2>0. "stories" \in File
    BY DEF File
  <2>1. CASE f = "stories"
    <3>1. file'["stories"] = written
      BY <1>10, <1>11, <2>1
    <3>2. file'["stories"].list = list
      BY <1>10, <3>1
    <3>3. StoredStories' = Elements(list)
      BY <3>2 DEF StoredStories, Elements
    <3>4. call.saved = 1
      BY <1>1, <1>2, <2>1, TargetOf DEF f
    <3>5. settled \subseteq Elements(call.list)
      BY <1>1, <3>4 DEF Keeps
    <3>6. QED
      BY <1>3, <3>3, <3>5 DEF list
  <2>2. CASE f # "stories"
    <3>1. file'["stories"] = file["stories"]
      BY <1>11, <2>0, <2>2
    <3>2. QED
      BY <1>1, <3>1 DEF Readable, StoredStories
  <2>3. QED
    BY <2>1, <2>2
<1>13. /\ CanaryTypeOK' /\ served' \subseteq Answer /\ ServedBelongs'
       /\ requests' \in 0 .. MaxRequests
  BY DEF WriteFile, IInv, TypeOK, canaryVars, CanaryTypeOK, ServedBelongs
<1>14. calls'[c] = new /\ new \in {Idle} \cup Call \cup Check
  BY <1>1, <1>4, <1>6
<1>15. StepFits(c)
  BY <1>4, <1>9, <1>11, <1>12, <1>13, <1>14 DEF StepFits
<1>16. file[f].state = "truncated" => file' = [file EXCEPT ![f] = written]
  BY <1>5
<1>17. QED
  BY <1>1, <1>2, <1>3, <1>6, <1>9, <1>14, <1>15, <1>16 DEF f, list

LEMMA UseStoryStep ==
  ASSUME IInv, NEW c \in Conn, NEW matched \in BOOLEAN, UseStory(c, matched)
  PROVE  LET call == calls[c]
             new == calls'[c] IN
         /\ call \in Call /\ call.phase = "use"
         /\ UNCHANGED <<file, requests, served, canaryVars>>
         /\ matched => /\ new \in Call /\ CallFits(new)
                       /\ new.phase = "bySession" /\ new.lookup = "recordTrigger"
                       /\ new.story = call.story /\ new.client = call.client
         /\ ~ matched => new = Idle
         /\ StepFits(c)
<1> DEFINE call == calls[c]
           again == [call EXCEPT !.phase = "bySession", !.lookup = "recordTrigger"]
           new == IF matched THEN again ELSE Idle
<1>1. /\ call \in Call /\ call.phase = "use" /\ CallFits(call)
      /\ calls \in [Conn -> {Idle} \cup Call \cup Check]
  BY Before DEF UseStory, IInv, TypeOK
<1>2. calls' = [calls EXCEPT ![c] = new]
  BY <1>1 DEF UseStory
<1>3. /\ again \in Call /\ again.phase = "bySession"
      /\ again.lookup = "recordTrigger" /\ again.story = call.story
      /\ again.client = call.client
  BY <1>1 DEF Call, Lookup
<1> HIDE DEF again
<1>4. CallFits(again) /\ Keeps(again)
  BY <1>1, <1>3 DEF CallFits, Keeps, TokenPhase
<1>5. /\ CanaryTypeOK' /\ UNCHANGED <<file, requests, served, canaryVars>>
      /\ requests' \in 0 .. MaxRequests
  BY DEF UseStory, IInv, TypeOK, canaryVars, CanaryTypeOK
<1>6. new \in {Idle} \cup Call \cup Check /\ (new \in Call => new = again)
  BY <1>3, KindsDiffer
<1>7. StepFits(c) /\ calls'[c] = new
  <2> HIDE DEF new
  <2>1. QED
    BY <1>2, <1>4, <1>5, <1>6, CallChanges
<1>8. QED
  BY <1>1, <1>3, <1>4, <1>5, <1>7

LEMMA ServeStep ==
  ASSUME IInv, NEW c \in Conn, Serve(c)
  PROVE  /\ calls[c] \in Call /\ calls[c].phase = "logged"
         /\ calls'[c] = Idle
         /\ served' = served \cup {[client |-> calls[c].client,
                                    story |-> calls[c].story,
                                    logged |-> calls[c].logged]}
         /\ file' = file /\ UNCHANGED canaryVars
         /\ StepFits(c)
<1> DEFINE call == calls[c]
           answer == [client |-> call.client, story |-> call.story,
                      logged |-> call.logged]
<1>1. /\ call \in Call /\ call.phase = "logged" /\ CallFits(call)
      /\ calls \in [Conn -> {Idle} \cup Call \cup Check]
      /\ served \subseteq Answer /\ ServedBelongs
      /\ file \in [File -> StoryFile] /\ SettledStoriesStay
  BY Before DEF Serve, IInv, TypeOK
<1>2. call.story \in Story /\ Belongs(call.story, call.client)
  BY <1>1 DEF CallFits, TokenPhase
<1>3. answer \in Answer /\ Belongs(answer.story, answer.client)
  BY <1>1, <1>2, CallFields DEF Answer
<1>4. /\ served' = served \cup {answer} /\ file' = file
      /\ calls' = [calls EXCEPT ![c] = Idle] /\ UNCHANGED canaryVars
      /\ requests' = requests
  BY DEF Serve
<1> HIDE DEF answer
<1>5. served' \subseteq Answer /\ ServedBelongs'
  BY <1>1, <1>3, <1>4 DEF ServedBelongs, Belongs
<1>6. calls'[c] = Idle /\ calls'[c] \notin Call
  BY <1>1, <1>4, KindsDiffer
<1>7. Readable("stories")' => settled \subseteq StoredStories'
  BY <1>1, <1>4 DEF Readable, StoredStories, SettledStoriesStay
<1>8. CanaryTypeOK' /\ requests' \in 0 .. MaxRequests
  BY <1>4 DEF IInv, TypeOK, CanaryTypeOK, canaryVars
<1>9. StepFits(c)
  BY <1>1, <1>4, <1>5, <1>6, <1>7, <1>8 DEF StepFits
<1>10. QED
  BY <1>1, <1>4, <1>6, <1>9 DEF answer

LEMMA ThrowStep ==
  ASSUME IInv, NEW c \in Conn, Throw(c)
  PROVE  /\ calls[c].phase \in {"bySession", "byActor", "list"}
         /\ calls'[c] = Idle /\ UNCHANGED <<file, requests, served, canaryVars>>
         /\ StepFits(c)
<1>1. /\ calls[c].phase \in {"bySession", "byActor", "list"}
      /\ calls' = [calls EXCEPT ![c] = Idle]
      /\ UNCHANGED <<file, requests, served, canaryVars>>
  BY DEF Throw
<1>2. Idle \in {Idle} \cup Call \cup Check /\ Idle \notin Call
  BY KindsDiffer
<1>3. CanaryTypeOK' /\ requests' \in 0 .. MaxRequests
  BY <1>1 DEF IInv, TypeOK, CanaryTypeOK, canaryVars
<1>4. QED
  BY <1>1, <1>2, <1>3, CallChanges

LEMMA ResolveSound ==
  ASSUME IInv, NEW c \in Conn, Resolve(c)
  PROVE  StepFits(c)
<1>1. ASSUME NEW client \in Client, Accept(c, client) PROVE StepFits(c)
  BY <1>1, AcceptSound
<1>2. CASE LookUpSession(c)
  BY <1>2, LookUpSessionStep
<1>3. CASE LookUpActor(c)
  BY <1>3, LookUpActorStep
<1>4. ASSUME NEW id \in Recognised \cup {0}, BeginCheck(c, id) PROVE StepFits(c)
  BY <1>4, BeginCheckSound
<1>5. CASE UseTokens(c)
  BY <1>5, UseTokensStep
<1>6. CASE LoadTokens(c)
  BY <1>6, LoadTokensStep
<1>7. CASE OpenTokens(c)
  BY <1>7, OpenTokensStep
<1>8. CASE WriteTokens(c)
  BY <1>8, WriteTokensStep
<1>9. CASE FailToWriteTokens(c)
  BY <1>9, FailToWriteTokensStep
<1>10. CASE ReadList(c)
  BY <1>10, ReadListStep
<1>11. CASE OpenFile(c)
  BY <1>11, OpenFileStep
<1>12. CASE WriteFile(c)
  BY <1>12, WriteFileStep
<1>13. ASSUME NEW matched \in BOOLEAN, UseStory(c, matched) PROVE StepFits(c)
  BY <1>13, UseStoryStep
<1>14. CASE Serve(c)
  BY <1>14, ServeStep
<1>15. CASE Throw(c)
  BY <1>15, ThrowStep
<1>16. QED
  BY <1>1, <1>2, <1>3, <1>4, <1>5, <1>6, <1>7, <1>8, <1>9, <1>10, <1>11,
     <1>12, <1>13, <1>14, <1>15 DEF Resolve

LEMMA RestartSound ==
  ASSUME IInv, Restart, History
  PROVE  IInv' /\ \A c \in Conn : calls'[c] = Idle
<1>1. /\ calls' = [c \in Conn |-> Idle] /\ tokens' = {}
      /\ file' = file /\ requests' = requests /\ served' = served
      /\ canaryFile' = canaryFile
  BY DEF Restart
<1>2. \A c \in Conn : calls'[c] = Idle /\ calls'[c] \notin Call
                      /\ calls'[c].phase = "idle"
  BY <1>1, KindsDiffer DEF Idle
<1>3. TypeOK'
  BY <1>1, <1>2, SettledGrows DEF IInv, TypeOK, CanaryTypeOK
<1>4. SettledStoriesStay'
  <2>1. SettledStoriesStay
    BY DEF IInv
  <2>2. Readable("stories")' => settled \subseteq StoredStories'
    BY <1>1, <2>1 DEF SettledStoriesStay, Readable, StoredStories
  <2>3. QED
    BY <2>2, SettledGrows DEF SettledStoriesStay
<1>5. served' \subseteq Answer /\ ServedBelongs'
  BY <1>1 DEF IInv, ServedBelongs
<1>6. QED
  BY <1>2, <1>3, <1>4, <1>5 DEF IInv

LEMMA StutterSound ==
  ASSUME IInv, UNCHANGED vars
  PROVE  IInv'
BY DEF vars, canaryVars, IInv, TypeOK, CanaryTypeOK, ServedBelongs,
       SettledStoriesStay, StoredStories, Readable, Keeps

\* The invariant of all that happens, overlapping or not: types, whose the
\* stories are, and which stories every save under way has read.
THEOREM StoryInvariance == Spec => []IInv
<1>1. IInv /\ [Next]_vars => IInv'
  <2> SUFFICES ASSUME IInv, [Next]_vars PROVE IInv'
    OBVIOUS
  <2>1. CASE UNCHANGED vars
    BY <2>1, StutterSound
  <2>2. CASE Next
    <3>1. History
      BY <2>2 DEF Next
    <3>2. CASE Restart
      BY <3>1, <3>2, RestartSound
    <3>3. ASSUME NEW c \in Conn, Resolve(c) PROVE IInv'
      BY <3>1, <3>3, ResolveSound, StepFitsSound
    <3>4. QED
      BY <2>2, <3>2, <3>3 DEF Next
  <2>3. QED
    BY <2>1, <2>2
<1>2. QED
  BY <1>1, InitSound, PTL DEF Spec

\* Every variable keeps its type, and a request past its lookups has a story.
THEOREM StoryTypeCorrect == Spec => []TypeOK
<1>1. IInv => TypeOK
  BY DEF IInv
<1>2. QED
  BY <1>1, StoryInvariance, PTL

\* A client is only ever served a story of its session or of its actor,
\* whatever overlaps and whenever the process dies.
THEOREM ServedAreOwn == Spec => []ServedBelongs
<1>1. IInv => ServedBelongs
  BY DEF IInv
<1>2. QED
  BY <1>1, StoryInvariance, PTL

\* A story that was on disk when no save was under way is on disk whenever
\* the file can be read.
THEOREM SettledAreKept == Spec => []SettledStoriesStay
<1>1. IInv => SettledStoriesStay
  BY DEF IInv
<1>2. QED
  BY <1>1, StoryInvariance, PTL
-----------------------------------------------------------------------------
(***************************************************************************)
(* Requests that come one at a time: one story per session.                 *)
(***************************************************************************)

LEMMA MovesOneCall ==
  ASSUME IInv, NEW c \in Conn, Resolve(c)
  PROVE  calls[c] # Idle \/ calls'[c] # Idle
<1>1. calls \in [Conn -> {Idle} \cup Call \cup Check]
  BY DEF IInv, TypeOK
<1> SUFFICES ASSUME calls[c] = Idle PROVE calls'[c] # Idle
  OBVIOUS
<1>2. calls[c].phase = "idle"
  BY DEF Idle
<1>3. \/ \E client \in Client : Accept(c, client)
      \/ \E id \in Recognised \cup {0} : BeginCheck(c, id)
  BY <1>2 DEF Resolve, LookUpSession, LookUpActor, UseTokens, LoadTokens,
              OpenTokens, WriteTokens, FailToWriteTokens, ReadList, OpenFile,
              WriteFile, UseStory, Serve, Throw
<1>4. calls'[c].phase \in {"bySession", "tokens"}
  BY <1>1, <1>3 DEF Accept, BeginCheck
<1>5. QED
  BY <1>4 DEF Idle

\* while nothing has overlapped, the others are idle before a step and after
LEMMA OthersIdle ==
  ASSUME IInv, OneAtATime, History, ~ overlap', NEW c \in Conn, Resolve(c),
         StepFits(c)
  PROVE  /\ Alone'
         /\ \A d \in Conn \ {c} : calls[d] = Idle /\ calls'[d] = Idle
<1>1. Alone'
  BY DEF History, Alone
<1>2. \A d \in Conn \ {c} : calls'[d] = calls[d]
  BY DEF StepFits, IInv, TypeOK
<1>3. calls[c] # Idle \/ calls'[c] # Idle
  BY MovesOneCall
<1>4. QED
  BY <1>1, <1>2, <1>3 DEF OneAtATime, Alone

\* stories that are distinct give one story to whoever they belong to
LEMMA DistinctAnswers ==
  ASSUME NEW list, Distinct(list), NEW answers,
         \A s \in answers : /\ s.story \in Elements(list)
                            /\ Belongs(s.story, s.client)
  PROVE  \A s, t \in answers :
           /\ s.story.session = t.story.session => s.story = t.story
           /\ s.client = t.client =>
                \/ s.story = t.story
                \/ \E x \in {s, t} : Own(x) /\ x.story.actor # x.client.actor
<1> SUFFICES ASSUME NEW s \in answers, NEW t \in answers
             PROVE  /\ s.story.session = t.story.session => s.story = t.story
                    /\ s.client = t.client =>
                         \/ s.story = t.story
                         \/ \E x \in {s, t} :
                              Own(x) /\ x.story.actor # x.client.actor
  OBVIOUS
<1>1. s.story.session = t.story.session => s.story = t.story
  BY DEF Distinct, Belongs
<1>2. ASSUME s.client = t.client, s.story # t.story
      PROVE  \E x \in {s, t} : Own(x) /\ x.story.actor # x.client.actor
  <2>1. ~ Belongs(s.story, t.story)
    BY <1>2 DEF Distinct
  <2>2. Belongs(s.story, s.client) /\ Belongs(t.story, t.client)
    OBVIOUS
  <2>3. CASE s.story.session = s.client.session
    <3>1. t.story.actor = t.client.actor
      BY <1>2, <2>1, <2>2, <2>3 DEF Belongs
    <3>2. s.story.actor # s.client.actor
      BY <1>2, <2>1, <3>1 DEF Belongs
    <3>3. QED
      BY <2>3, <3>2 DEF Own
  <2>4. CASE s.story.actor = s.client.actor
    <3>1. t.story.session = t.client.session
      BY <1>2, <2>1, <2>2, <2>4 DEF Belongs
    <3>2. t.story.actor # t.client.actor
      BY <1>2, <2>1, <2>4 DEF Belongs
    <3>3. QED
      BY <3>1, <3>2 DEF Own
  <2>5. QED
    BY <2>2, <2>3, <2>4 DEF Belongs
<1>3. QED
  BY <1>1, <1>2

\* of a step that leaves the files and what was served alone
LEMMA QuietStep ==
  ASSUME IInv, OneAtATime, ~ overlap, History, ~ overlap', NEW c \in Conn,
         Resolve(c), StepFits(c), file' = file, served' = served,
         calls'[c] \in Call => Sees(calls'[c])
  PROVE  OneAtATime'
<1>1. Alone' /\ \A d \in Conn \ {c} : calls'[d] = Idle
  BY OthersIdle
<1>2. Readable("stories")' =>
        Distinct(file'["stories"].list) /\ Holds(file["stories"].list)'
  BY DEF OneAtATime, Readable, Holds
<1>3. OneStoryUnlessOverlap'
  BY DEF OneAtATime, OneStoryUnlessOverlap
<1>4. ASSUME NEW d \in Conn, calls'[d] \in Call PROVE Sees(calls[d])'
  <2>1. d = c
    BY <1>1, <1>4, KindsDiffer
  <2>2. Sees(calls'[c])
    BY <1>4, <2>1
  <2>3. QED
    BY <2>1, <2>2 DEF Sees, Readable, Holds, IsFound
<1>5. QED
  BY <1>1, <1>2, <1>3, <1>4 DEF OneAtATime

\* what a call sees before a step
LEMMA SeesNow ==
  ASSUME IInv, OneAtATime, NEW c \in Conn, calls[c] \in Call
  PROVE  Sees(calls[c]) /\ CallFits(calls[c])
BY DEF IInv, OneAtATime

LEMMA AcceptQuiet ==
  ASSUME NEW c \in Conn, NEW client \in Client, Accept(c, client), IInv,
         calls'[c] \in Call
  PROVE  Sees(calls'[c])
<1>1. calls \in [Conn -> {Idle} \cup Call \cup Check]
  BY DEF IInv, TypeOK
<1>2. calls'[c].phase = "bySession" /\ calls'[c].lookup = "getOrBindStory"
  BY <1>1 DEF Accept
<1>3. QED
  BY <1>2 DEF Sees, TokenPhase

LEMMA LookUpSessionQuiet ==
  ASSUME IInv, OneAtATime, NEW c \in Conn, LookUpSession(c)
  PROVE  Sees(calls'[c])
<1> DEFINE call == calls[c]
           new == calls'[c]
           list == file["stories"].list
           found == getStoryBySession(list, call.client.session)
<1>1. /\ call \in Call /\ call.phase = "bySession" /\ Readable("stories")
      /\ found # NoStory => new = AfterLookup(call, found)
      /\ found = NoStory => new = [call EXCEPT !.phase = "byActor"]
  BY LookUpSessionStep
<1>2. Sees(call) /\ CallFits(call) /\ list \in Seq(Story)
      /\ call.client \in Client /\ call.lookup \in Lookup
      /\ Distinct(list)
  BY <1>1, SeesNow, Before, CallFields DEF OneAtATime
<1>3. /\ found \in Story \cup {NoStory}
      /\ found # NoStory => /\ found \in Elements(list)
                            /\ found.session = call.client.session
      /\ found = NoStory => NoneOfSession(list, call.client)
  BY <1>2, FoundBySession
<1>4. call.lookup = "recordTrigger" => IsFound(call)
  BY <1>1, <1>2 DEF Sees
<1> HIDE DEF call, new, list, found
<1>5. CASE found = NoStory
  <2>1. new = [call EXCEPT !.phase = "byActor"]
    BY <1>1, <1>5
  <2>2. /\ new.phase = "byActor" /\ new.client = call.client
        /\ new.lookup = call.lookup /\ new.story = call.story
    BY <1>1, <2>1, PhaseChanges
  <2>3. NoneOfSession(list, new.client)
    BY <1>3, <1>5, <2>2
  <2>4. call.lookup = "recordTrigger" => IsFound(new)
    BY <1>4, <2>2 DEF IsFound
  <2>5. QED
    BY <1>1, <2>2, <2>3, <2>4 DEF Sees, TokenPhase, new, list
<1>6. CASE found # NoStory
  <2>1. new = AfterLookup(call, found)
    BY <1>1, <1>6
  <2>2. /\ new.client = call.client
        /\ call.lookup = "recordTrigger" =>
             new.phase = "logged" /\ new.story = call.story
             /\ new.logged = found.id
        /\ call.lookup # "recordTrigger" =>
             new.phase = "use" /\ new.story = found
    BY <1>1, <1>3, <1>6, <2>1, AfterLookupFields
  <2>3. IsFound(new) /\ (call.lookup = "recordTrigger" => found = call.story)
    <3>1. CASE call.lookup = "recordTrigger"
      <4>1. call.story \in Elements(list)
            /\ \/ call.story.session = call.client.session
               \/ NoneOfSession(list, call.client)
        BY <1>4, <3>1 DEF IsFound, list
      <4>2. call.story.session = call.client.session
        BY <1>3, <1>6, <4>1 DEF NoneOfSession
      <4>3. found = call.story
        BY <1>2, <1>3, <1>6, <4>1, <4>2 DEF Distinct, Belongs
      <4>4. QED
        BY <2>2, <3>1, <4>1, <4>3 DEF IsFound, list
    <3>2. CASE call.lookup # "recordTrigger"
      BY <1>3, <1>6, <2>2, <3>2 DEF IsFound, list
    <3>3. QED
      BY <3>1, <3>2
  <2>4. QED
    BY <1>1, <2>2, <2>3 DEF Sees, TokenPhase, new
<1>7. QED
  BY <1>5, <1>6 DEF new

LEMMA LookUpActorQuiet ==
  ASSUME IInv, OneAtATime, NEW c \in Conn, LookUpActor(c)
  PROVE  Sees(calls'[c])
<1> DEFINE call == calls[c]
           new == calls'[c]
           list == file["stories"].list
           found == getStoryByActor(list, call.client.actor)
<1>1. /\ call \in Call /\ call.phase = "byActor" /\ Readable("stories")
      /\ new = AfterLookup(call, found)
  BY LookUpActorStep
<1>2. Sees(call) /\ CallFits(call) /\ list \in Seq(Story)
      /\ call.client \in Client /\ call.lookup \in Lookup
      /\ Distinct(list)
  BY <1>1, SeesNow, Before, CallFields DEF OneAtATime
<1>3. /\ found \in Story \cup {NoStory}
      /\ found # NoStory => /\ found \in Elements(list)
                            /\ found.actor = call.client.actor
      /\ found = NoStory => \A s \in Elements(list) : s.actor # call.client.actor
  BY <1>2, FoundByActor
<1>4. NoneOfSession(list, call.client)
  BY <1>1, <1>2 DEF Sees
<1>5. call.lookup = "recordTrigger" =>
        call.story \in Elements(list) /\ call.story.actor = call.client.actor
  <2>1. call.lookup = "recordTrigger" =>
          call.story \in Elements(list) /\ Belongs(call.story, call.client)
    BY <1>1, <1>2 DEF Sees, IsFound, CallFits
  <2>2. QED
    BY <1>4, <2>1 DEF NoneOfSession, Belongs
<1> HIDE DEF call, new, list, found
<1>6. /\ new.client = call.client
      /\ call.lookup = "recordTrigger" =>
           new.phase = "logged" /\ new.story = call.story
           /\ new.logged = found.id
      /\ call.lookup # "recordTrigger" /\ found # NoStory =>
           new.phase = "use" /\ new.story = found
      /\ call.lookup = "getOrBindStory" /\ found = NoStory =>
           new.phase = "bySession" /\ new.lookup = "bindStory"
      /\ call.lookup = "bindStory" /\ found = NoStory =>
           new.phase = "tokens" /\ new.story = createBinding(call)
  BY <1>1, <1>3, AfterLookupFields
<1>7. CASE call.lookup = "recordTrigger"
  <2>1. found # NoStory
    BY <1>3, <1>5, <1>7
  <2>2. found = call.story
    BY <1>2, <1>3, <1>5, <1>7, <2>1 DEF Distinct, Belongs
  <2>3. IsFound(new)
    BY <1>4, <1>5, <1>6, <1>7 DEF IsFound, list
  <2>4. QED
    BY <1>1, <1>6, <1>7, <2>2, <2>3 DEF Sees, TokenPhase, new
<1>8. CASE call.lookup # "recordTrigger" /\ found # NoStory
  <2>1. IsFound(new)
    BY <1>3, <1>4, <1>6, <1>8 DEF IsFound, list
  <2>2. QED
    BY <1>1, <1>6, <1>8, <2>1 DEF Sees, TokenPhase, new
<1>9. CASE call.lookup = "getOrBindStory" /\ found = NoStory
  BY <1>6, <1>9 DEF Sees, TokenPhase, new
<1>10. CASE call.lookup = "bindStory" /\ found = NoStory
  <2>1. new.story.session = new.client.session /\ new.story.actor = new.client.actor
    BY <1>1, <1>6, <1>10, BindingOfCall
  <2>2. NoneOf(list, new.client)
    BY <1>3, <1>4, <1>6, <1>10 DEF NoneOf, NoneOfSession, Belongs
  <2>3. QED
    BY <1>1, <1>6, <1>10, <2>1, <2>2 DEF Sees, TokenPhase, new, list
<1>11. QED
  BY <1>2, <1>7, <1>8, <1>9, <1>10 DEF Lookup, new

\* a call that has found nothing, until it writes the story
LEMMA BindingSees ==
  ASSUME NEW call \in Call, NEW new \in Call, Sees(call),
         call.phase \in TokenPhase \cup {"list"},
         \/ new.phase \in TokenPhase \cup {"list"}
         \/ /\ new.phase = "open"
            /\ new.saved = 1 => new.list = file["stories"].list,
         new.story = call.story, new.client = call.client
  PROVE  Sees(new)
<1>1. /\ call.story.session = call.client.session
      /\ call.story.actor = call.client.actor
      /\ Readable("stories")
      /\ NoneOf(file["stories"].list, call.client)
  BY DEF Sees, TokenPhase
<1>2. QED
  BY <1>1 DEF Sees, TokenPhase

LEMMA ProceedQuiet ==
  ASSUME IInv, OneAtATime, NEW c \in Conn, calls[c].phase \in TokenPhase,
         NEW known \in SUBSET Token, Proceed(c, known),
         UNCHANGED <<file, requests, served, canaryFile>>, calls'[c] \in Call
  PROVE  Sees(calls'[c])
<1>1. calls[c] \in Call
  BY Before, ProceedStep
<1>2. /\ calls'[c] = [calls[c] EXCEPT !.phase = "tokens-open", !.tokens = tokens']
      /\ tokens' \in SUBSET Token
  BY <1>1, ProceedStep
<1>3. "tokens-open" \in {"list"} \cup TokenPhase
  BY DEF TokenPhase
<1>4. \A q \in Call, set \in SUBSET Token, p \in {"list"} \cup TokenPhase :
        LET n == [q EXCEPT !.phase = p, !.tokens = set] IN
        /\ n \in Call /\ n.phase = p /\ n.saved = q.saved
        /\ n.story = q.story /\ n.client = q.client /\ n.lookup = q.lookup
  BY TokensOfCall
<1> DEFINE call == calls[c]
           set == tokens'
           n == [call EXCEPT !.phase = "tokens-open", !.tokens = set]
<1>5. n.phase = "tokens-open" /\ n.story = call.story /\ n.client = call.client
  <2>1. set \in SUBSET Token /\ call \in Call
    BY <1>1, <1>2
  <2> HIDE DEF set, call
  <2>2. /\ n \in Call /\ n.phase = "tokens-open" /\ n.saved = call.saved
        /\ n.story = call.story /\ n.client = call.client
        /\ n.lookup = call.lookup
    BY <1>3, <1>4, <2>1, ZenonT(40)
  <2>3. QED
    BY <2>2
<1>6. /\ calls'[c].phase = "tokens-open" /\ calls'[c].story = calls[c].story
      /\ calls'[c].client = calls[c].client
  BY <1>2, <1>5
<1>7. Sees(calls[c])
  BY <1>1, SeesNow
<1>8. QED
  BY <1>1, <1>3, <1>6, <1>7, BindingSees

LEMMA UseTokensQuiet ==
  ASSUME IInv, OneAtATime, NEW c \in Conn, UseTokens(c), calls'[c] \in Call
  PROVE  Sees(calls'[c])
<1>1. /\ calls[c] \in Call \cup Check /\ calls[c].phase = "tokens"
      /\ UNCHANGED <<file, requests, served, canaryFile>>
      /\ calls[c].phase \in TokenPhase /\ "tokens-read" \in TokenPhase
      /\ calls \in [Conn -> {Idle} \cup Call \cup Check]
  BY UseTokensStep DEF TokenPhase, IInv, TypeOK
<1>2. CASE Proceed(c, tokens)
  BY <1>1, <1>2, Before, ProceedQuiet
<1>3. CASE TurnsToFile(c)
  <2>1. calls'[c] = [calls[c] EXCEPT !.phase = "tokens-read"]
    BY <1>1, <1>3 DEF TurnsToFile
  <2>2. calls[c] \in Call
    <3>1. calls[c] \in Check => calls'[c] \in Check
      BY <1>1, <2>1, CheckMoves
    <3>2. QED
      BY <1>1, <3>1, KindsDiffer
  <2>3. calls'[c].phase = "tokens-read" /\ calls'[c].story = calls[c].story
        /\ calls'[c].client = calls[c].client
    BY <1>1, <2>1, <2>2, PhaseChanges
  <2>4. Sees(calls[c])
    BY <2>2, SeesNow
  <2>5. QED
    BY <1>1, <2>2, <2>3, <2>4, BindingSees
<1>4. QED
  BY <1>2, <1>3, UseTokensStep

LEMMA LoadTokensQuiet ==
  ASSUME IInv, OneAtATime, NEW c \in Conn, LoadTokens(c), calls'[c] \in Call
  PROVE  Sees(calls'[c])
<1>1. calls[c].phase \in TokenPhase
  BY DEF LoadTokens, TokenPhase
<1>2. QED
  BY <1>1, LoadTokensStep, ProceedQuiet

LEMMA OpenTokensQuiet ==
  ASSUME IInv, OneAtATime, NEW c \in Conn, OpenTokens(c), calls'[c] \in Call
  PROVE  Sees(calls'[c])
<1>1. /\ calls[c] \in Call /\ calls[c].phase = "tokens-open"
      /\ calls'[c] = [calls[c] EXCEPT !.phase = "tokens-write"]
  BY OpenTokensStep
<1>2. calls[c].phase \in TokenPhase /\ "tokens-write" \in TokenPhase
  BY <1>1 DEF TokenPhase
<1>3. calls'[c].phase = "tokens-write" /\ calls'[c].story = calls[c].story
      /\ calls'[c].client = calls[c].client
  BY <1>1, <1>2, PhaseChanges
<1>4. Sees(calls[c])
  BY <1>1, SeesNow
<1>5. QED
  BY <1>1, <1>2, <1>3, <1>4, BindingSees

LEMMA TokensDoneQuiet ==
  ASSUME IInv, OneAtATime, NEW c \in Conn, TokensDone(c),
         calls[c].phase \in {"tokens-open", "tokens-write"},
         CanaryTypeOK', UNCHANGED <<file, requests, served>>, calls'[c] \in Call
  PROVE  Sees(calls'[c])
<1>1. calls[c] \in Call
  <2>1. calls[c] \in Call \cup Check /\ (calls[c] \in Check => calls'[c] = Idle)
    BY TokensDoneStep
  <2>2. QED
    BY <2>1, KindsDiffer
<1>2. /\ calls'[c].phase = "list" /\ calls'[c].story = calls[c].story
      /\ calls'[c].client = calls[c].client
  BY <1>1, TokensDoneStep
<1>3. Sees(calls[c]) /\ calls[c].phase \in TokenPhase
  BY <1>1, SeesNow DEF TokenPhase
<1>4. QED
  BY <1>1, <1>2, <1>3, BindingSees

LEMMA ReadListQuiet ==
  ASSUME IInv, OneAtATime, NEW c \in Conn, ReadList(c)
  PROVE  Sees(calls'[c])
<1> DEFINE call == calls[c]
           new == calls'[c]
<1>1. /\ call \in Call /\ call.phase = "list" /\ call.saved \in {0, 1}
      /\ new \in Call /\ new.phase = "open"
      /\ new.list = file[Target(call)].list
      /\ new.saved = call.saved /\ new.story = call.story
      /\ new.client = call.client
  BY ReadListStep
<1>2. new.saved = 1 => new.list = file["stories"].list
  BY <1>1, TargetOf
<1>3. Sees(call)
  BY <1>1, SeesNow
<1> HIDE DEF call, new
<1>4. Sees(new)
  BY <1>1, <1>2, <1>3, BindingSees
<1>5. QED
  BY <1>4 DEF new

LEMMA UseStoryQuiet ==
  ASSUME IInv, OneAtATime, NEW c \in Conn, NEW matched \in BOOLEAN,
         UseStory(c, matched), calls'[c] \in Call
  PROVE  Sees(calls'[c])
<1>1. /\ calls[c] \in Call /\ calls[c].phase = "use"
      /\ matched => /\ calls'[c].phase = "bySession"
                    /\ calls'[c].lookup = "recordTrigger"
                    /\ calls'[c].story = calls[c].story
                    /\ calls'[c].client = calls[c].client
      /\ ~ matched => calls'[c] = Idle
  BY UseStoryStep
<1>2. matched
  BY <1>1, KindsDiffer
<1>3. Sees(calls[c])
  BY <1>1, SeesNow
<1>4. Readable("stories") /\ IsFound(calls[c])
  BY <1>1, <1>3 DEF Sees
<1>5. IsFound(calls'[c])
  BY <1>1, <1>2, <1>4 DEF IsFound
<1>6. QED
  BY <1>1, <1>2, <1>4, <1>5 DEF Sees, TokenPhase

\* The list a call is to write back is all there is, before it truncates it.
LEMMA OpenFileAlone ==
  ASSUME IInv, OneAtATime, ~ overlap, History, ~ overlap', NEW c \in Conn,
         Resolve(c), StepFits(c), OpenFile(c)
  PROVE  OneAtATime'
<1> DEFINE call == calls[c]
           new == calls'[c]
           list == file["stories"].list
           empty == [state |-> "truncated", list |-> << >>]
<1>1. /\ call \in Call /\ call.phase = "open" /\ call.saved \in {0, 1}
      /\ new.phase = "write" /\ new.list = call.list
      /\ new.saved = call.saved /\ new.story = call.story
      /\ new.client = call.client
      /\ Target(call) \in File
      /\ file' = [file EXCEPT ![Target(call)] = empty]
  BY OpenFileStep
<1>2. Sees(call) /\ file \in [File -> StoryFile] /\ "stories" \in File
      /\ served' = served
  BY <1>1, SeesNow, Before DEF File, OpenFile
<1>3. /\ call.story.session = call.client.session
      /\ call.story.actor = call.client.actor
      /\ Readable("stories") /\ NoneOf(list, call.client)
      /\ call.saved = 1 => call.list = list
      /\ Distinct(list) /\ Holds(list)
  BY <1>1, <1>2 DEF Sees, OneAtATime
<1>4. Target(new) = Target(call)
  BY <1>1 DEF Target
<1>5. file'[Target(call)] = empty
  BY <1>1, <1>2
<1>6. Alone' /\ \A d \in Conn \ {c} : calls'[d] = Idle
  BY OthersIdle
<1>7. OneStoryUnlessOverlap'
  BY <1>2 DEF OneAtATime, OneStoryUnlessOverlap
<1>8. CASE call.saved = 1
  <2>1. Target(call) = "stories"
    BY <1>1, <1>8, TargetOf
  <2>2. ~ Readable("stories")'
    BY <1>5, <2>1 DEF Readable
  <2>3. /\ Distinct(new.list) /\ NoneOf(new.list, new.client)
        /\ \A s \in served' : s.story \in Elements(new.list)
    BY <1>1, <1>2, <1>3, <1>8 DEF Holds
  <2>4. Sees(calls[c])'
    BY <1>1, <1>3, <1>4, <1>5, <1>8, <2>3 DEF Sees, Holds, TokenPhase
  <2>5. QED
    BY <1>6, <1>7, <2>2, <2>4, KindsDiffer DEF OneAtATime
<1>9. CASE call.saved = 0
  <2>1. Target(call) = "bindings"
    BY <1>1, <1>9, TargetOf
  <2>2. file'["stories"] = file["stories"]
    BY <1>1, <1>2, <2>1
  <2>3. Readable("stories")' /\ NoneOf(file'["stories"].list, new.client)
    BY <1>1, <1>3, <2>2 DEF Readable
  <2>4. Sees(calls[c])'
    BY <1>1, <1>3, <1>4, <1>5, <1>9, <2>3 DEF Sees, TokenPhase
  <2>5. Distinct(file'["stories"].list) /\ Holds(file["stories"].list)'
    BY <1>2, <1>3, <2>2 DEF Holds
  <2>6. QED
    BY <1>6, <1>7, <2>4, <2>5, KindsDiffer DEF OneAtATime
<1>10. QED
  BY <1>1, <1>8, <1>9

\* What is written back is what there was and the story of a client that had
\* none.
LEMMA WriteFileAlone ==
  ASSUME IInv, OneAtATime, ~ overlap, History, ~ overlap', NEW c \in Conn,
         Resolve(c), StepFits(c), WriteFile(c)
  PROVE  OneAtATime'
<1> DEFINE call == calls[c]
           new == calls'[c]
           list == upsert(call.list, call.story)
           written == [state |-> "whole", list |-> list]
<1>1. /\ call \in Call /\ call.phase = "write" /\ call.saved \in {0, 1}
      /\ new.phase = IF call.saved = 1 THEN "use" ELSE "list"
      /\ new.saved = call.saved + 1 /\ new.story = call.story
      /\ new.client = call.client
      /\ Target(call) \in File
      /\ Elements(list) = Elements(call.list) \cup {call.story}
      /\ file[Target(call)].state = "truncated" =>
           file' = [file EXCEPT ![Target(call)] = written]
  BY WriteFileStep
<1>2. Sees(call) /\ file \in [File -> StoryFile] /\ "stories" \in File
      /\ served' = served
  BY <1>1, SeesNow, Before DEF File, WriteFile
<1>3. /\ call.story.session = call.client.session
      /\ call.story.actor = call.client.actor
      /\ file[Target(call)].state = "truncated"
      /\ call.saved = 1 => /\ Distinct(call.list) /\ Holds(call.list)
                           /\ NoneOf(call.list, call.client)
      /\ call.saved = 0 => /\ Readable("stories")
                           /\ NoneOf(file["stories"].list, call.client)
  BY <1>1, <1>2 DEF Sees
<1>4. file' = [file EXCEPT ![Target(call)] = written]
  BY <1>1, <1>3
<1>5. Alone' /\ \A d \in Conn \ {c} : calls'[d] = Idle
  BY OthersIdle
<1>6. OneStoryUnlessOverlap'
  BY <1>2 DEF OneAtATime, OneStoryUnlessOverlap
<1> HIDE DEF list
<1>7. CASE call.saved = 1
  <2>1. Target(call) = "stories"
    BY <1>1, <1>7, TargetOf
  <2>2. file'["stories"] = written
    BY <1>2, <1>4, <2>1
  <2>3. file'["stories"].list = list
    BY <2>2
  <2>4. Distinct(list)
    <3>1. \A s \in Elements(call.list) :
            ~ Belongs(s, call.story) /\ ~ Belongs(call.story, s)
      BY <1>3, <1>7 DEF NoneOf, Belongs
    <3>2. QED
      BY <1>1, <1>3, <1>7, <3>1 DEF Distinct
  <2>5. Holds(file["stories"].list)'
    BY <1>1, <1>2, <1>3, <1>7, <2>3 DEF Holds
  <2>6. IsFound(calls[c])'
    BY <1>1, <1>3, <2>3 DEF IsFound
  <2>7. Readable("stories")'
    BY <2>2 DEF Readable
  <2>8. Sees(calls[c])'
    BY <1>1, <1>7, <2>6, <2>7 DEF Sees, TokenPhase
  <2>9. QED
    BY <1>5, <1>6, <2>3, <2>4, <2>5, <2>8, KindsDiffer DEF OneAtATime
<1>8. CASE call.saved = 0
  <2>1. Target(call) = "bindings"
    BY <1>1, <1>8, TargetOf
  <2>2. file'["stories"] = file["stories"]
    BY <1>2, <1>4, <2>1
  <2>3. Readable("stories")' /\ NoneOf(file'["stories"].list, new.client)
    BY <1>1, <1>3, <1>8, <2>2 DEF Readable
  <2>4. Sees(calls[c])'
    BY <1>1, <1>3, <1>8, <2>3 DEF Sees, TokenPhase
  <2>5. Distinct(file'["stories"].list) /\ Holds(file["stories"].list)'
    BY <1>2, <1>3, <1>8, <2>2 DEF Holds, OneAtATime
  <2>6. QED
    BY <1>5, <1>6, <2>4, <2>5, KindsDiffer DEF OneAtATime
<1>9. QED
  BY <1>1, <1>7, <1>8

LEMMA ServeAlone ==
  ASSUME IInv, IInv', OneAtATime, ~ overlap, History, ~ overlap',
         NEW c \in Conn, Resolve(c), StepFits(c), Serve(c)
  PROVE  OneAtATime'
<1> DEFINE call == calls[c]
           list == file["stories"].list
           answer == [client |-> call.client, story |-> call.story,
                      logged |-> call.logged]
<1>1. /\ call \in Call /\ call.phase = "logged" /\ calls'[c] = Idle
      /\ served' = served \cup {answer} /\ file' = file
  BY ServeStep
<1>2. Sees(call) /\ Alone' /\ \A d \in Conn \ {c} : calls'[d] = Idle
  BY <1>1, SeesNow, OthersIdle
<1>3. /\ Readable("stories") /\ IsFound(call)
      /\ call.logged = call.story.id
      /\ Distinct(list) /\ Holds(list)
      /\ \A s \in served : s.logged = s.story.id
  BY <1>1, <1>2 DEF Sees, OneAtATime, OneStoryUnlessOverlap
<1>4. call.story \in Elements(list)
  BY <1>3 DEF IsFound
<1>5. answer.story = call.story /\ answer.logged = call.logged
  OBVIOUS
<1> HIDE DEF answer
<1>6. /\ \A s \in served' : s.story \in Elements(list)
      /\ \A s \in served' : s.logged = s.story.id
  BY <1>1, <1>3, <1>4, <1>5 DEF Holds
<1>7. Distinct(list)' /\ Holds(list)' /\ ServedBelongs'
  BY <1>1, <1>3, <1>6 DEF Holds, IInv
<1>8. OneStoryUnlessOverlap'
  <2>1. \A s \in served' : /\ s.story \in Elements(list)
                            /\ Belongs(s.story, s.client)
    BY <1>6, <1>7 DEF ServedBelongs, Belongs
  <2>2. \A s, t \in served' :
          /\ s.story.session = t.story.session => s.story = t.story
          /\ s.client = t.client =>
               \/ s.story = t.story
               \/ \E x \in {s, t} : Own(x) /\ x.story.actor # x.client.actor
    <3> DEFINE answers == served'
    <3>1. \A s \in answers : /\ s.story \in Elements(list)
                             /\ Belongs(s.story, s.client)
      BY <2>1
    <3>2. Distinct(list)
      BY <1>3
    <3> HIDE DEF answers, list
    <3>3. \A s, t \in answers :
            /\ s.story.session = t.story.session => s.story = t.story
            /\ s.client = t.client =>
                 \/ s.story = t.story
                 \/ \E x \in {s, t} : Own(x) /\ x.story.actor # x.client.actor
      BY <3>1, <3>2, DistinctAnswers
    <3>4. QED
      BY <3>3 DEF answers
  <2>3. QED
    BY <1>6, <2>2 DEF OneStoryUnlessOverlap, Own
<1>9. \A d \in Conn : calls'[d] \notin Call
  BY <1>1, <1>2, KindsDiffer
<1>10. QED
  BY <1>1, <1>2, <1>7, <1>8, <1>9 DEF OneAtATime

LEMMA ResolveAlone ==
  ASSUME IInv, IInv', OneAtATime, ~ overlap, History, ~ overlap',
         NEW c \in Conn, Resolve(c)
  PROVE  OneAtATime'
<1>0. StepFits(c)
  BY ResolveSound
<1>1. ASSUME file' = file, served' = served, calls'[c] \in Call => Sees(calls'[c])
      PROVE  OneAtATime'
  BY <1>0, <1>1, QuietStep
<1>2. ASSUME NEW client \in Client, Accept(c, client) PROVE OneAtATime'
  BY <1>1, <1>2, AcceptQuiet DEF Accept
<1>3. CASE LookUpSession(c)
  BY <1>1, <1>3, LookUpSessionQuiet DEF LookUpSession
<1>4. CASE LookUpActor(c)
  BY <1>1, <1>4, LookUpActorQuiet DEF LookUpActor
<1>5. ASSUME NEW id \in Recognised \cup {0}, BeginCheck(c, id)
      PROVE  OneAtATime'
  <2>1. calls'[c].phase = "tokens" /\ "checked" \in DOMAIN calls'[c]
    BY <1>5 DEF BeginCheck, IInv, TypeOK
  <2>2. calls'[c] \notin Call
    BY <1>0, <2>1, KindsDiffer DEF StepFits
  <2>3. QED
    BY <1>1, <1>5, <2>2 DEF BeginCheck
<1>6. CASE UseTokens(c)
  BY <1>1, <1>6, UseTokensQuiet DEF UseTokens
<1>7. CASE LoadTokens(c)
  BY <1>1, <1>7, LoadTokensQuiet DEF LoadTokens
<1>8. CASE OpenTokens(c)
  BY <1>1, <1>8, OpenTokensQuiet DEF OpenTokens
<1>9. CASE WriteTokens(c)
  <2>1. /\ TokensDone(c) /\ CanaryTypeOK'
        /\ calls[c].phase \in {"tokens-open", "tokens-write"}
        /\ UNCHANGED <<file, requests, served>>
    BY <1>9, WriteTokensStep DEF WriteTokens
  <2>2. QED
    BY <1>1, <2>1, TokensDoneQuiet
<1>10. CASE FailToWriteTokens(c)
  <2>1. /\ TokensDone(c) /\ CanaryTypeOK'
        /\ calls[c].phase \in {"tokens-open", "tokens-write"}
        /\ UNCHANGED <<file, requests, served>>
    BY <1>10, FailToWriteTokensStep DEF FailToWriteTokens
  <2>2. QED
    BY <1>1, <2>1, TokensDoneQuiet
<1>11. CASE ReadList(c)
  BY <1>1, <1>11, ReadListQuiet DEF ReadList
<1>12. CASE OpenFile(c)
  BY <1>0, <1>12, OpenFileAlone
<1>13. CASE WriteFile(c)
  BY <1>0, <1>13, WriteFileAlone
<1>14. ASSUME NEW matched \in BOOLEAN, UseStory(c, matched) PROVE OneAtATime'
  BY <1>1, <1>14, UseStoryQuiet DEF UseStory
<1>15. CASE Serve(c)
  BY <1>0, <1>15, ServeAlone
<1>16. CASE Throw(c)
  <2>1. calls'[c] \notin Call
    BY <1>16, ThrowStep, KindsDiffer
  <2>2. QED
    BY <1>1, <1>16, <2>1 DEF Throw
<1>17. QED
  BY <1>2, <1>3, <1>4, <1>5, <1>6, <1>7, <1>8, <1>9, <1>10, <1>11,
     <1>12, <1>13, <1>14, <1>15, <1>16 DEF Resolve

LEMMA RestartAlone ==
  ASSUME IInv, OneAtATime, ~ overlap, Restart, History
  PROVE  OneAtATime'
<1>1. /\ \A c \in Conn : calls'[c] = Idle /\ calls'[c] \notin Call
      /\ file' = file /\ served' = served
  BY RestartSound, KindsDiffer DEF Restart
<1>2. QED
  BY <1>1 DEF OneAtATime, Alone, Holds, Readable, OneStoryUnlessOverlap

LEMMA StutterAlone ==
  ASSUME OneAtATime, ~ overlap, UNCHANGED vars
  PROVE  OneAtATime'
BY DEF vars, OneAtATime, Alone, Sees, IsFound, Holds, Readable,
       OneStoryUnlessOverlap

\* The invariant that also covers requests that come one at a time.
THEOREM OneAtATimeInvariance == Spec => []SInv
<1>1. Init => SInv
  <2> SUFFICES ASSUME Init PROVE SInv
    OBVIOUS
  <2>1. IInv /\ \A c \in Conn : calls[c] = Idle /\ calls[c] \notin Call
    BY InitSound, KindsDiffer DEF Init
  <2>2. served = {} /\ file["stories"].list = << >>
    BY DEF Init, File
  <2>3. Elements(<< >>) = {}
    BY DEF Elements
  <2>4. OneAtATime
    BY <2>1, <2>2, <2>3
       DEF OneAtATime, Alone, Distinct, Holds, OneStoryUnlessOverlap
  <2>5. QED
    BY <2>1, <2>4 DEF SInv
<1>2. SInv /\ [Next]_vars => SInv'
  <2> SUFFICES ASSUME SInv, [Next]_vars PROVE SInv'
    OBVIOUS
  <2>1. CASE UNCHANGED vars
    BY <2>1, StutterSound, StutterAlone DEF SInv, vars
  <2>2. CASE Next
    <3>1. History /\ IInv
      BY <2>2 DEF Next, SInv
    <3>2. ~ overlap' => ~ overlap /\ OneAtATime
      BY <3>1, SettledGrows DEF SInv
    <3>3. CASE Restart
      BY <3>1, <3>2, <3>3, RestartSound, RestartAlone DEF SInv
    <3>4. ASSUME NEW c \in Conn, Resolve(c) PROVE SInv'
      <4>1. IInv'
        BY <3>1, <3>4, ResolveSound, StepFitsSound
      <4>2. QED
        BY <3>1, <3>2, <3>4, <4>1, ResolveAlone DEF SInv
    <3>5. QED
      BY <2>2, <3>3, <3>4 DEF Next
  <2>3. QED
    BY <2>1, <2>2
<1>3. QED
  BY <1>1, <1>2, PTL DEF Spec

\* As long as requests come one at a time, a session is bound no second
\* story, wherever the process dies; a client gets another story than before
\* only when another actor of its session was bound one; and the trigger that
\* is logged names the story that was served.
THEOREM OneStoryAtATime == Spec => []OneStoryUnlessOverlap
<1>1. SInv => OneStoryUnlessOverlap
  BY DEF SInv, OneAtATime, OneStoryUnlessOverlap
<1>2. QED
  BY <1>1, OneAtATimeInvariance, PTL
-----------------------------------------------------------------------------
(***************************************************************************)
(* What is known of tokens is on disk.                                      *)
(***************************************************************************)

\* while nothing has overlapped, nor a file stayed unwritten
Undisturbed ==
  /\ IInv /\ OneAtATime /\ ~ overlap' /\ ~ unsaved' /\ History
  /\ TokensKept

\* before a step of a request, unless it is writing tokens
LEMMA SavedNow ==
  ASSUME Undisturbed, NEW c \in Conn, Resolve(c)
  PROVE  /\ Writes(calls[c])
         /\ calls[c].phase \notin {"tokens-open", "tokens-write"} =>
              /\ Saved
              /\ IdsOf(file["stories"].list) \subseteq Ids(canaryFile.elements)
         /\ \A d \in Conn \ {c} : calls'[d] = Idle
<1>1. \A d \in Conn \ {c} : calls[d] = Idle /\ calls'[d] = Idle
  BY ResolveSound, OthersIdle DEF Undisturbed
<1>2. Idle.phase = "idle"
  BY DEF Idle
<1>3. QED
  BY <1>1, <1>2 DEF Undisturbed, TokensKept

\* it is enough to look at the request that has moved
LEMMA KeptAfter ==
  ASSUME Undisturbed, NEW c \in Conn, Resolve(c), Writes(calls[c])',
         \/ calls'[c].phase \in {"tokens-open", "tokens-write"}
         \/ /\ Saved'
            /\ IdsOf(file["stories"].list)' \subseteq Ids(canaryFile.elements)'
  PROVE  TokensKept'
<1>1. \A d \in Conn \ {c} : calls'[d] = Idle
  BY SavedNow
<1>2. Idle.phase = "idle"
  BY DEF Idle
<1>3. ASSUME NEW d \in Conn PROVE Writes(calls[d])'
  <2>1. CASE d = c
    BY <2>1
  <2>2. CASE d # c
    <3>1. calls'[d].phase = "idle"
      BY <1>1, <1>2, <2>2
    <3>2. QED
      BY <3>1 DEF Writes
  <2>3. QED
    BY <2>1, <2>2
<1>4. QED
  BY <1>3 DEF TokensKept

\* of a step that leaves the files and the tokens alone
LEMMA QuietKept ==
  ASSUME Undisturbed, NEW c \in Conn, Resolve(c),
         calls[c].phase \notin {"tokens-open", "tokens-write"},
         file' = file, UNCHANGED canaryVars, Writes(calls'[c])
  PROVE  TokensKept'
<1>1. /\ Saved
      /\ IdsOf(file["stories"].list) \subseteq Ids(canaryFile.elements)
  BY SavedNow
<1>2. tokens' = tokens /\ canaryFile' = canaryFile
  BY DEF canaryVars
<1>3. Saved' /\ IdsOf(file["stories"].list)' \subseteq Ids(canaryFile.elements)'
  BY <1>1, <1>2 DEF Saved
<1>4. Writes(calls[c])'
  BY <1>2 DEF Writes
<1>5. QED
  BY <1>3, <1>4, KeptAfter

\* a call that is neither about its tokens nor about to save
LEMMA NothingToWrite ==
  ASSUME NEW call, call.phase \in {"idle", "bySession", "byActor", "use", "logged"}
  PROVE  Writes(call)
BY DEF Writes

LEMMA LookUpsKept ==
  ASSUME Undisturbed, NEW c \in Conn, Resolve(c),
         \/ \E client \in Client : Accept(c, client)
         \/ LookUpSession(c)
         \/ LookUpActor(c)
         \/ \E id \in Recognised \cup {0} : BeginCheck(c, id)
         \/ \E matched \in BOOLEAN : UseStory(c, matched)
         \/ Serve(c)
         \/ Throw(c)
  PROVE  TokensKept'
<1>0. IInv /\ calls \in [Conn -> {Idle} \cup Call \cup Check]
      /\ Idle.phase = "idle"
  BY DEF Undisturbed, IInv, TypeOK, Idle
<1>1. file' = file /\ UNCHANGED canaryVars
  BY DEF Accept, LookUpSession, LookUpActor, BeginCheck, UseStory, Serve, Throw
<1>2. calls[c].phase \notin {"tokens-open", "tokens-write"}
  BY <1>0 DEF Accept, LookUpSession, LookUpActor, BeginCheck, UseStory, Serve, Throw
<1>3. ASSUME NEW client \in Client, Accept(c, client) PROVE Writes(calls'[c])
  <2>1. calls'[c].phase = "bySession"
    BY <1>0, <1>3 DEF Accept
  <2>2. QED
    BY <2>1, NothingToWrite
<1>4. ASSUME LookUpSession(c) PROVE Writes(calls'[c])
  <2>1. calls'[c].phase \in {"byActor", "logged", "use"}
    BY <1>0, <1>4, LookUpSessionStep
  <2>2. QED
    BY <2>1, NothingToWrite
<1>5. ASSUME LookUpActor(c) PROVE Writes(calls'[c])
  <2> DEFINE call == calls[c]
             found == getStoryByActor(file["stories"].list, call.client.actor)
             new == calls'[c]
  <2>1. /\ call \in Call /\ call.phase = "byActor"
        /\ new = AfterLookup(call, found)
        /\ new.phase \in {"bySession", "logged", "use", "tokens"}
        /\ call.client \in Client /\ call.lookup \in Lookup
        /\ file["stories"].list \in Seq(Story)
    BY <1>0, <1>5, LookUpActorStep, CallFields, Before
  <2>2. found \in Story \cup {NoStory}
    BY <2>1, FoundByActor
  <2> HIDE DEF call, found, new
  <2>3. /\ new.id = call.id
        /\ call.lookup = "recordTrigger" => new.phase = "logged"
        /\ call.lookup # "recordTrigger" /\ found # NoStory => new.phase = "use"
        /\ call.lookup = "getOrBindStory" /\ found = NoStory =>
             new.phase = "bySession"
        /\ call.lookup = "bindStory" /\ found = NoStory =>
             new.story = createBinding(call)
    BY <2>1, <2>2, AfterLookupFields
  <2>4. new.phase = "tokens" => new.story.id = new.id
    BY <2>1, <2>3, BindingOfCall DEF Lookup
  <2>5. Writes(new)
    BY <2>1, <2>4 DEF Writes
  <2>6. QED
    BY <2>5 DEF new
<1>6. ASSUME NEW id \in Recognised \cup {0}, BeginCheck(c, id)
      PROVE  Writes(calls'[c])
  <2>1. calls'[c].phase = "tokens" /\ "checked" \in DOMAIN calls'[c]
    BY <1>0, <1>6 DEF BeginCheck
  <2>2. StepFits(c)
    BY <1>0, <1>6, BeginCheckSound
  <2>3. calls'[c] \notin Call
    BY <2>1, <2>2, KindsDiffer DEF StepFits
  <2>4. QED
    BY <2>1, <2>3 DEF Writes
<1>7. ASSUME NEW matched \in BOOLEAN, UseStory(c, matched) PROVE Writes(calls'[c])
  <2>1. calls'[c].phase \in {"idle", "bySession"}
    BY <1>0, <1>7, UseStoryStep
  <2>2. QED
    BY <2>1, NothingToWrite
<1>8. ASSUME Serve(c) PROVE Writes(calls'[c])
  BY <1>0, <1>8, ServeStep, NothingToWrite
<1>9. ASSUME Throw(c) PROVE Writes(calls'[c])
  BY <1>0, <1>9, ThrowStep, NothingToWrite
<1>10. Writes(calls'[c])
  BY <1>3, <1>4, <1>5, <1>6, <1>7, <1>8, <1>9
<1>11. QED
  BY <1>1, <1>2, <1>10, QuietKept

LEMMA ReadListKept ==
  ASSUME Undisturbed, NEW c \in Conn, Resolve(c), ReadList(c)
  PROVE  TokensKept'
<1> DEFINE call == calls[c]
           new == calls'[c]
<1>1. /\ call \in Call /\ call.phase = "list" /\ call.saved \in {0, 1}
      /\ new.phase = "open" /\ new.list = file[Target(call)].list
      /\ new.saved = call.saved /\ new.story = call.story
  BY ReadListStep DEF Undisturbed
<1>2. new.saved = 1 => new.list = file["stories"].list
  BY <1>1, TargetOf
<1>3. /\ Writes(call)
      /\ IdsOf(file["stories"].list) \subseteq Ids(canaryFile.elements)
  BY <1>1, SavedNow
<1>4. call.story.id \in Ids(canaryFile.elements)
  BY <1>1, <1>3 DEF Writes
<1> HIDE DEF call, new
<1>5. Writes(new)
  BY <1>1, <1>2, <1>3, <1>4 DEF Writes
<1>6. file' = file /\ UNCHANGED canaryVars
  BY DEF ReadList
<1>7. QED
  BY <1>1, <1>5, <1>6, QuietKept DEF call, new

LEMMA ProceedKept ==
  ASSUME Undisturbed, NEW c \in Conn, Resolve(c),
         calls[c].phase \in {"tokens", "tokens-read"},
         Proceed(c, canaryFile.elements),
         UNCHANGED <<file, requests, served, canaryFile>>
  PROVE  TokensKept'
<1> DEFINE call == calls[c]
           known == canaryFile.elements
           set == tokens'
           new == calls'[c]
<1>1. /\ IInv /\ call \in Call \cup Check /\ canaryFile \in Content(Token)
      /\ call.phase \in TokenPhase
  BY Before DEF Undisturbed, TokenPhase
<1>2. known \in SUBSET Token
  BY <1>1, ContentFields
<1>3. /\ Saved /\ Writes(call)
      /\ IdsOf(file["stories"].list) \subseteq Ids(known)
      /\ canaryFile.state \in {"absent", "whole"}
  BY SavedNow DEF Saved
<1>4. canaryFile'.state = canaryFile.state /\ canaryFile'.elements = known
  OBVIOUS
<1>5. CASE call \in Call
  <2>1. /\ set = generated(known, call.id) /\ set \in SUBSET Token
        /\ new = [call EXCEPT !.phase = "tokens-open", !.tokens = set]
    BY <1>1, <1>2, <1>5, ProceedStep
  <2>2. /\ set # {} /\ Ids(known) \subseteq Ids(set) /\ call.id \in Ids(set)
    BY <1>2, <1>5, <2>1, CallFields, GeneratedTokens
  <2>3. call.story.id = call.id
    BY <1>3, <1>5 DEF Writes
  <2>4. "tokens-open" \in {"list"} \cup TokenPhase
    BY DEF TokenPhase
  <2>5. \A q \in Call, s \in SUBSET Token, p \in {"list"} \cup TokenPhase :
          LET n == [q EXCEPT !.phase = p, !.tokens = s] IN
          n \in Call /\ n.phase = p /\ n.tokens = s /\ n.story = q.story
    BY TokensOfCall
  <2>6. /\ new \in Call /\ new.phase = "tokens-open" /\ new.tokens = set
        /\ new.story = call.story
    <3> DEFINE n == [call EXCEPT !.phase = "tokens-open", !.tokens = set]
    <3>1. call \in Call /\ set \in SUBSET Token /\ new = n
      BY <1>5, <2>1
    <3> HIDE DEF new, call, set
    <3>2. n \in Call /\ n.phase = "tokens-open" /\ n.tokens = set
          /\ n.story = call.story
      BY <2>4, <2>5, <3>1
    <3> HIDE DEF n
    <3>3. QED
      BY <3>1, <3>2
  <2>7. Writes(calls[c])'
    BY <1>3, <2>2, <2>3, <2>6 DEF Writes
  <2>8. QED
    BY <2>6, <2>7, KeptAfter
<1>6. CASE call \in Check /\ call.checked \in Ids(known)
  <2>1. /\ set = marked(known, call.checked) /\ set \in SUBSET Token
        /\ new = [call EXCEPT !.phase = "tokens-open", !.tokens = set]
        /\ new \notin Call
    BY <1>1, <1>2, <1>6, ProceedStep
  <2>2. Ids(set) = Ids(known) /\ set # {}
    <3>1. known # {}
      BY <1>6 DEF Ids
    <3>2. QED
      BY <1>2, <2>1, <3>1, MarkedTokens
  <2>3. new.phase = "tokens-open" /\ new.tokens = set
    <3> DEFINE n == [call EXCEPT !.phase = "tokens-open", !.tokens = set]
    <3>1. /\ call \in Check /\ "tokens-open" \in TokenPhase
          /\ set \in SUBSET Token /\ new = n
      BY <1>6, <2>1 DEF TokenPhase
    <3> HIDE DEF new, call, set
    <3>2. n \in Check /\ n.phase = "tokens-open" /\ n.tokens = set
      BY <3>1 DEF Check
    <3> HIDE DEF n
    <3>3. QED
      BY <3>1, <3>2
  <2>4. Writes(calls[c])'
    BY <1>3, <2>1, <2>2, <2>3 DEF Writes
  <2>5. QED
    BY <2>3, <2>4, KeptAfter
<1>7. CASE call \in Check /\ call.checked \notin Ids(known)
  <2>1. set = marked(known, call.checked) /\ new = Idle
    BY <1>1, <1>2, <1>7, ProceedStep
  <2>2. set = known
    BY <1>2, <1>7, <2>1, MarkedTokens
  <2>3. set # {} => canaryFile = Whole(set)
    BY <1>1, <1>3, <2>2, ContentFields
  <2>4. Saved' /\ IdsOf(file["stories"].list)' \subseteq Ids(canaryFile.elements)'
    BY <1>3, <2>3 DEF Saved
  <2>5. Writes(calls[c])'
    <3>1. new.phase = "idle"
      BY <2>1 DEF Idle
    <3>2. QED
      BY <3>1 DEF Writes
  <2>6. QED
    BY <2>4, <2>5, KeptAfter
<1>8. QED
  BY <1>1, <1>5, <1>6, <1>7

LEMMA UseTokensKept ==
  ASSUME Undisturbed, NEW c \in Conn, Resolve(c), UseTokens(c)
  PROVE  TokensKept'
<1> DEFINE call == calls[c]
           new == calls'[c]
<1>1. /\ IInv /\ call \in Call \cup Check /\ call.phase = "tokens"
      /\ canaryFile \in Content(Token) /\ tokens \in SUBSET Token
      /\ calls \in [Conn -> {Idle} \cup Call \cup Check]
      /\ UNCHANGED <<file, requests, served, canaryFile>>
  BY Before, UseTokensStep DEF Undisturbed, IInv, TypeOK
<1>2. /\ Saved /\ Writes(call)
      /\ IdsOf(file["stories"].list) \subseteq Ids(canaryFile.elements)
  BY <1>1, SavedNow
<1>3. CASE ~ MustLoad /\ Proceed(c, tokens)
  <2>1. tokens = canaryFile.elements
    <3>1. CASE tokens # {}
      <4>1. canaryFile = Whole(tokens)
        BY <1>2, <3>1 DEF Saved
      <4>2. QED
        BY <1>1, <4>1, WholeIsContent
    <3>2. CASE tokens = {}
      <4>1. canaryFile = Absent
        BY <1>3, <3>2 DEF MustLoad
      <4>2. QED
        BY <3>2, <4>1 DEF Absent
    <3>3. QED
      BY <3>1, <3>2
  <2>2. QED
    BY <1>1, <1>3, <2>1, ProceedKept
<1>4. CASE TurnsToFile(c)
  <2>1. /\ new = [call EXCEPT !.phase = "tokens-read"]
        /\ tokens = {} /\ tokens' = tokens
    BY <1>1, <1>4 DEF TurnsToFile, MustLoad
  <2>2. new.phase = "tokens-read"
        /\ (new \in Call => new.story.id = new.id)
    <3>1. "tokens-read" \in TokenPhase
      BY DEF TokenPhase
    <3>2. CASE call \in Call
      <4>1. new.story = call.story /\ new.id = call.id /\ new.phase = "tokens-read"
        BY <2>1, <3>1, <3>2, PhaseChanges
      <4>2. call.story.id = call.id
        BY <1>1, <1>2, <3>2 DEF Writes
      <4>3. QED
        BY <4>1, <4>2
    <3>3. CASE call \in Check
      <4>1. new \in Check /\ new.phase = "tokens-read"
        BY <2>1, <3>1, <3>3, CheckMoves
      <4>2. QED
        BY <4>1, KindsDiffer
    <3>4. QED
      BY <1>1, <3>2, <3>3
  <2>3. Writes(calls[c])'
    BY <2>1, <2>2 DEF Writes
  <2>4. Saved' /\ IdsOf(file["stories"].list)' \subseteq Ids(canaryFile.elements)'
    BY <1>1, <1>2, <2>1 DEF Saved
  <2>5. QED
    BY <2>3, <2>4, KeptAfter
<1>5. QED
  BY <1>1, <1>3, <1>4, UseTokensStep

LEMMA LoadTokensKept ==
  ASSUME Undisturbed, NEW c \in Conn, Resolve(c), LoadTokens(c)
  PROVE  TokensKept'
<1>1. /\ calls[c].phase = "tokens-read"
      /\ UNCHANGED <<file, requests, served, canaryFile>>
      /\ Proceed(c, loadFromDisk(tokens, canaryFile))
      /\ canaryFile \in Content(Token) /\ tokens \in SUBSET Token
  BY LoadTokensStep, Before DEF Undisturbed
<1>2. Writes(calls[c])
  BY SavedNow
<1>3. tokens = {}
  BY <1>1, <1>2 DEF Writes
<1>4. loadFromDisk(tokens, canaryFile) = canaryFile.elements
  BY <1>1, <1>3, LoadedTokens
<1>5. QED
  BY <1>1, <1>4, ProceedKept

LEMMA OpenTokensKept ==
  ASSUME Undisturbed, NEW c \in Conn, Resolve(c), OpenTokens(c)
  PROVE  TokensKept'
<1> DEFINE call == calls[c]
           new == calls'[c]
<1>1. /\ call \in Call \cup Check /\ call.phase = "tokens-open"
      /\ new = [call EXCEPT !.phase = "tokens-write"]
      /\ call \in Check => new \notin Call
      /\ canaryFile' = Truncated /\ file' = file /\ tokens' = tokens
  BY OpenTokensStep DEF Undisturbed, OpenTokens
<1>2. Writes(call)
  BY SavedNow
<1>3. /\ tokens # {} /\ call.tokens = tokens
      /\ IdsOf(file["stories"].list) \subseteq Ids(tokens)
      /\ call \in Call => call.story.id \in Ids(tokens)
  BY <1>1, <1>2 DEF Writes
<1>4. "tokens-write" \in TokenPhase
  BY DEF TokenPhase
<1>5. /\ new.phase = "tokens-write" /\ new.tokens = call.tokens
      /\ new \in Call => call \in Call /\ new.story = call.story
  <2>1. CASE call \in Call
    BY <1>1, <1>4, <2>1, PhaseChanges
  <2>2. CASE call \in Check
    BY <1>1, <1>4, <2>2, CheckMoves
  <2>3. QED
    BY <1>1, <2>1, <2>2
<1>6. Ids(canaryFile.elements)' = {}
  BY <1>1, WholeIsContent DEF Ids
<1>7. Writes(calls[c])'
  BY <1>1, <1>3, <1>5, <1>6 DEF Writes
<1>8. QED
  BY <1>5, <1>7, KeptAfter

LEMMA WriteTokensKept ==
  ASSUME Undisturbed, NEW c \in Conn, Resolve(c), WriteTokens(c)
  PROVE  TokensKept'
<1> DEFINE call == calls[c]
           new == calls'[c]
<1>1. /\ IInv /\ TokensDone(c) /\ CanaryTypeOK' /\ call.phase = "tokens-write"
      /\ file' = file /\ requests' = requests /\ served' = served
      /\ tokens' = tokens /\ canaryFile' \in Written(canaryFile, call.tokens)
  BY WriteTokensStep DEF WriteTokens, Undisturbed
<1>2. Writes(call)
  BY SavedNow
<1>3. /\ call.tokens = tokens /\ canaryFile = Truncated
      /\ IdsOf(file["stories"].list) \subseteq Ids(tokens)
      /\ call \in Call => call.story.id \in Ids(tokens)
  BY <1>1, <1>2 DEF Writes
<1>4. canaryFile' = Whole(tokens)
  BY <1>1, <1>3 DEF Written
<1>5. tokens \in SUBSET Token
  BY <1>1, Before
<1>6. canaryFile'.elements = tokens /\ canaryFile'.state = "whole"
  BY <1>4, <1>5, WholeIsContent
<1>7. Saved' /\ IdsOf(file["stories"].list)' \subseteq Ids(canaryFile.elements)'
  BY <1>1, <1>3, <1>4, <1>6 DEF Saved
<1>8. /\ call \in Call \cup Check
      /\ call \in Call => /\ new.phase = "list" /\ new.story = call.story
                          /\ new \in Call
      /\ call \in Check => new.phase = "idle"
  <2>1. call.phase \in {"tokens-open", "tokens-write"}
        /\ UNCHANGED <<file, requests, served>>
    BY <1>1
  <2>2. /\ call \in Call \cup Check
        /\ call \in Call => /\ new.phase = "list" /\ new.story = call.story
                            /\ new \in Call
        /\ call \in Check => new = Idle
    BY <1>1, <2>1, TokensDoneStep
  <2>3. QED
    BY <2>2 DEF Idle
<1>9. Writes(calls[c])'
  BY <1>3, <1>6, <1>8 DEF Writes
<1>10. QED
  BY <1>7, <1>9, KeptAfter

\* a file that is not written is recorded
LEMMA FailToWriteTokensKept ==
  ASSUME Undisturbed, NEW c \in Conn, Resolve(c), FailToWriteTokens(c)
  PROVE  FALSE
<1>1. /\ IInv /\ TokensDone(c) /\ CanaryTypeOK'
      /\ calls[c].phase \in {"tokens-open", "tokens-write"}
      /\ UNCHANGED <<file, requests, served>>
      /\ tokens' = tokens /\ canaryFile' = canaryFile
  BY FailToWriteTokensStep DEF FailToWriteTokens, Undisturbed, canaryVars
<1>2. Writes(calls[c])
  BY SavedNow
<1>3. tokens' # {}
  BY <1>1, <1>2 DEF Writes
<1>4. calls'[c].phase \in {"list", "idle"}
  <2>1. /\ calls[c] \in Call \cup Check
        /\ calls[c] \in Call => calls'[c].phase = "list"
        /\ calls[c] \in Check => calls'[c] = Idle
    BY <1>1, TokensDoneStep
  <2>2. QED
    BY <2>1 DEF Idle
<1>5. calls'[c] # calls[c]
  BY <1>1, <1>4
<1>6. unsaved'
  BY <1>1, <1>3, <1>5 DEF Undisturbed, History
<1>7. QED
  BY <1>6 DEF Undisturbed

LEMMA OpenFileKept ==
  ASSUME Undisturbed, NEW c \in Conn, Resolve(c), OpenFile(c)
  PROVE  TokensKept'
<1> DEFINE call == calls[c]
           new == calls'[c]
           empty == [state |-> "truncated", list |-> << >>]
<1>1. /\ IInv /\ call \in Call /\ call.phase = "open"
      /\ new.phase = "write" /\ new.list = call.list
      /\ new.saved = call.saved /\ new.story = call.story
      /\ file' = [file EXCEPT ![Target(call)] = empty]
      /\ file \in [File -> StoryFile] /\ "stories" \in File
      /\ tokens' = tokens /\ canaryFile' = canaryFile
  BY OpenFileStep, Before DEF Undisturbed, OpenFile, canaryVars, File
<1>2. /\ Saved /\ Writes(call)
      /\ IdsOf(file["stories"].list) \subseteq Ids(canaryFile.elements)
  BY <1>1, SavedNow
<1>3. \/ file'["stories"] = file["stories"]
      \/ file'["stories"] = empty
  <2> HIDE DEF empty
  <2>1. QED
    BY <1>1
<1>4. IdsOf(<< >>) = {}
  BY DEF IdsOf, Ids, Elements
<1>5. Saved' /\ IdsOf(file["stories"].list)' \subseteq Ids(canaryFile.elements)'
  BY <1>1, <1>2, <1>3, <1>4 DEF Saved
<1>6. Writes(calls[c])'
  BY <1>1, <1>2 DEF Writes
<1>7. QED
  BY <1>5, <1>6, KeptAfter

LEMMA WriteFileKept ==
  ASSUME Undisturbed, NEW c \in Conn, Resolve(c), WriteFile(c)
  PROVE  TokensKept'
<1> DEFINE call == calls[c]
           new == calls'[c]
           list == upsert(call.list, call.story)
           written == [state |-> "whole", list |-> list]
<1>1. /\ IInv /\ call \in Call /\ call.phase = "write" /\ call.saved \in {0, 1}
      /\ new.phase \in {"use", "list"} /\ new.story = call.story
      /\ Target(call) \in File
      /\ Elements(list) = Elements(call.list) \cup {call.story}
      /\ file[Target(call)].state = "truncated" =>
           file' = [file EXCEPT ![Target(call)] = written]
      /\ file \in [File -> StoryFile] /\ "stories" \in File
      /\ tokens' = tokens /\ canaryFile' = canaryFile
  BY WriteFileStep, Before DEF Undisturbed, WriteFile, canaryVars, File
<1>2. /\ Saved /\ Writes(call)
      /\ IdsOf(file["stories"].list) \subseteq Ids(canaryFile.elements)
  BY <1>1, SavedNow
<1>3. /\ call.story.id \in Ids(canaryFile.elements)
      /\ call.saved = 1 => IdsOf(call.list) \subseteq Ids(canaryFile.elements)
  BY <1>1, <1>2 DEF Writes
<1>4. file' = [file EXCEPT ![Target(call)] = written]
  BY <1>1, SeesNow DEF Undisturbed, Sees
<1>5. written.list = list
  OBVIOUS
<1> HIDE DEF list
<1>6. IdsOf(list) = IdsOf(call.list) \cup {call.story.id}
  BY <1>1 DEF IdsOf, Ids
<1> HIDE DEF written
<1>7. IdsOf(file["stories"].list)' \subseteq Ids(canaryFile.elements)
  <2>1. CASE call.saved = 1
    <3>1. file'["stories"] = written
      BY <1>1, <1>4, <2>1, TargetOf
    <3>2. file'["stories"].list = list
      BY <1>5, <3>1
    <3>3. QED
      BY <1>3, <1>6, <2>1, <3>2 DEF IdsOf
  <2>2. CASE call.saved = 0
    <3>1. Target(call) = "bindings"
      BY <1>1, <2>2, TargetOf
    <3>2. file'["stories"] = file["stories"]
      BY <1>1, <1>4, <3>1
    <3>3. QED
      BY <1>2, <3>2 DEF IdsOf
  <2>3. QED
    BY <1>1, <2>1, <2>2
<1>8. Saved' /\ IdsOf(file["stories"].list)' \subseteq Ids(canaryFile.elements)'
  BY <1>1, <1>2, <1>7 DEF Saved
<1>9. Writes(calls[c])'
  BY <1>1, <1>3 DEF Writes
<1>10. QED
  BY <1>8, <1>9, KeptAfter

LEMMA ResolveKept ==
  ASSUME Undisturbed, NEW c \in Conn, Resolve(c)
  PROVE  TokensKept'
<1>1. CASE \/ \E client \in Client : Accept(c, client)
           \/ LookUpSession(c)
           \/ LookUpActor(c)
           \/ \E id \in Recognised \cup {0} : BeginCheck(c, id)
           \/ \E matched \in BOOLEAN : UseStory(c, matched)
           \/ Serve(c)
           \/ Throw(c)
  BY <1>1, LookUpsKept
<1>2. CASE UseTokens(c)
  BY <1>2, UseTokensKept
<1>3. CASE LoadTokens(c)
  BY <1>3, LoadTokensKept
<1>4. CASE OpenTokens(c)
  BY <1>4, OpenTokensKept
<1>5. CASE WriteTokens(c)
  BY <1>5, WriteTokensKept
<1>6. CASE FailToWriteTokens(c)
  BY <1>6, FailToWriteTokensKept
<1>7. CASE ReadList(c)
  BY <1>7, ReadListKept
<1>8. CASE OpenFile(c)
  BY <1>8, OpenFileKept
<1>9. CASE WriteFile(c)
  BY <1>9, WriteFileKept
<1>10. QED
  BY <1>1, <1>2, <1>3, <1>4, <1>5, <1>6, <1>7, <1>8, <1>9 DEF Resolve

\* A process that dies writing tokens leaves the file unwritten; before that,
\* what it has read is still there.
LEMMA RestartKept ==
  ASSUME Undisturbed, Restart
  PROVE  TokensKept'
<1>1. /\ \A c \in Conn : calls'[c] = Idle
      /\ tokens' = {} /\ canaryFile' = canaryFile /\ file' = file
  BY DEF Restart
<1>2. Idle.phase = "idle"
  BY DEF Idle
<1>3. \A c \in Conn : calls[c].phase # "tokens-write"
  <2> SUFFICES ASSUME NEW c \in Conn, calls[c].phase = "tokens-write" PROVE FALSE
    OBVIOUS
  <2>1. calls'[c] # calls[c]
    BY <1>1, <1>2
  <2>2. unsaved'
    BY <1>1, <2>1 DEF Undisturbed, History
  <2>3. QED
    BY <2>2 DEF Undisturbed
<1>4. /\ canaryFile.state \in {"absent", "whole"}
      /\ IdsOf(file["stories"].list) \subseteq Ids(canaryFile.elements)
  <2>1. CASE \E c \in Conn : calls[c].phase \in {"tokens-open", "tokens-write"}
    <3>1. PICK c \in Conn : calls[c].phase = "tokens-open"
      BY <1>3, <2>1
    <3>2. Writes(calls[c])
      BY DEF Undisturbed, TokensKept
    <3>3. QED
      BY <3>1, <3>2 DEF Writes
  <2>2. CASE ~ \E c \in Conn : calls[c].phase \in {"tokens-open", "tokens-write"}
    BY <2>2 DEF Undisturbed, TokensKept, Saved
  <2>3. QED
    BY <2>1, <2>2
<1>5. Saved' /\ IdsOf(file["stories"].list)' \subseteq Ids(canaryFile.elements)'
  BY <1>1, <1>4 DEF Saved
<1>6. \A c \in Conn : calls'[c].phase = "idle"
  BY <1>1, <1>2
<1>7. \A c \in Conn : Writes(calls[c])'
  BY <1>6 DEF Writes
<1>8. QED
  BY <1>5, <1>7 DEF TokensKept

LEMMA StutterKept ==
  ASSUME TokensKept, UNCHANGED vars
  PROVE  TokensKept'
BY DEF vars, canaryVars, TokensKept, Writes, Saved, IdsOf

\* The invariant that also covers the tokens.
THEOREM TokensInvariance == Spec => []CInv
<1>1. Init => (~ overlap /\ ~ unsaved => TokensKept)
  <2> SUFFICES ASSUME Init PROVE TokensKept
    OBVIOUS
  <2>1. /\ \A c \in Conn : calls[c].phase = "idle"
        /\ file["stories"].list = << >> /\ tokens = {} /\ canaryFile = Absent
    BY DEF Init, CanaryInit, File, Idle
  <2>2. IdsOf(<< >>) = {}
    BY DEF IdsOf, Ids, Elements
  <2>3. Absent.state = "absent"
    BY DEF Absent
  <2>4. QED
    BY <2>1, <2>2, <2>3 DEF TokensKept, Writes, Saved
<1>2. /\ SInv /\ SInv' /\ (~ overlap /\ ~ unsaved => TokensKept) /\ [Next]_vars
      => (~ overlap' /\ ~ unsaved' => TokensKept')
  <2> SUFFICES ASSUME SInv, SInv', ~ overlap /\ ~ unsaved => TokensKept,
                      [Next]_vars, ~ overlap', ~ unsaved'
               PROVE  TokensKept'
    OBVIOUS
  <2>1. CASE UNCHANGED vars
    <3>1. TokensKept
      BY <2>1 DEF vars
    <3>2. QED
      BY <2>1, <3>1, StutterKept
  <2>2. CASE Next
    <3>1. History /\ IInv /\ ~ overlap /\ ~ unsaved
      BY <2>2 DEF Next, SInv, History
    <3>2. Undisturbed
      BY <3>1 DEF Undisturbed, SInv
    <3>3. QED
      BY <2>2, <3>2, RestartKept, ResolveKept DEF Next
  <2>3. QED
    BY <2>1, <2>2
<1>3. SInv /\ (~ overlap /\ ~ unsaved => TokensKept) <=> CInv
  BY DEF CInv
<1>4. QED
  BY <1>1, <1>2, <1>3, OneAtATimeInvariance, PTL DEF Spec

\* As long as requests come one at a time and canaries.json is written as it
\* should be, the tokens of every story on disk are recognised, and what is
\* known of tokens, marks included, is on disk when no request is under way.
THEOREM CanariesAreKept == Spec => []CanariesSurvive
<1>1. CInv => CanariesSurvive
  <2> SUFFICES ASSUME CInv, ~ overlap, ~ unsaved
               PROVE  /\ \A story \in StoredStories : story.id \in Recognised
                      /\ (tokens # {} /\ \A c \in Conn : calls[c] = Idle) =>
                           canaryFile = Whole(tokens)
    BY DEF CanariesSurvive
  <2>1. TokensKept
    BY DEF CInv
  <2>2. \A story \in StoredStories : story.id \in IdsOf(file["stories"].list)
    BY DEF StoredStories, IdsOf, Ids, Elements
  <2>3. Idle.phase = "idle"
    BY DEF Idle
  <2>4. CASE \E c \in Conn : calls[c].phase \in {"tokens-open", "tokens-write"}
    <3>1. PICK c \in Conn : calls[c].phase \in {"tokens-open", "tokens-write"}
      BY <2>4
    <3>2. tokens # {} /\ IdsOf(file["stories"].list) \subseteq Ids(tokens)
      BY <2>1, <3>1 DEF TokensKept, Writes
    <3>3. calls[c] # Idle
      BY <2>3, <3>1
    <3>4. QED
      BY <2>2, <3>2, <3>3 DEF Recognised
  <2>5. CASE ~ \E c \in Conn : calls[c].phase \in {"tokens-open", "tokens-write"}
    <3>1. Saved /\ IdsOf(file["stories"].list) \subseteq Ids(canaryFile.elements)
      BY <2>1, <2>5 DEF TokensKept
    <3>2. tokens # {} => canaryFile = Whole(tokens)
      BY <3>1 DEF Saved
    <3>3. tokens # {} => canaryFile.elements = tokens
      BY <3>2 DEF Whole
    <3>4. Recognised = Ids(canaryFile.elements)
      BY <3>3 DEF Recognised
    <3>5. QED
      BY <2>2, <3>1, <3>2, <3>4
  <2>6. QED
    BY <2>4, <2>5
<1>2. QED
  BY <1>1, TokensInvariance, PTL
=============================================================================
