-------------------------- MODULE DeceptionStories --------------------------
(***************************************************************************)
(* How overlays find or bind the story of a suspicious actor                *)
(* (story-broker.ts) in two JSON files (trap-registry.ts).  Every lookup    *)
(* reads a whole file, every save reads it, truncates it and writes it      *)
(* back, and each of these is awaited: other requests run in between, and   *)
(* the process may die.  A new story has canary tokens generated for it,    *)
(* which are saved before it is; tokens may be checked all the while.  A    *)
(* story, its binding and its tokens have the same identity; which template *)
(* is chosen and what else its assets are is left out.                      *)
(***************************************************************************)
EXTENDS Naturals, Sequences, CanaryStore

CONSTANTS
  Conn,        \* requests resolved at the same time
  Actor,
  Session,
  Client,      \* who asks: an actor in a session
  MaxRaces     \* bound: requests in a behaviour whose requests overlap

ASSUME StoriesAssumption ==
  /\ Client \subseteq [actor : Actor, session : Session]
  /\ MaxRequests \in Nat /\ MaxRaces \in 0 .. MaxRequests

Story == [id : 1 .. MaxRequests, actor : Actor, session : Session]

NoStory == [id |-> 0]

File == {"bindings", "stories"}

\* truncated: opened for writing and not written; garbled: a longer content
\* overwritten by a shorter one.  JSON.parse throws on both.
StoryFile ==
  [state : {"whole", "truncated", "garbled"}, list : Seq(Story)]

\* getActiveStory is called by getOrBindStory, bindStory and recordTrigger
Lookup == {"getOrBindStory", "bindStory", "recordTrigger"}

Idle == [phase |-> "idle"]

\* of generateTokens and checkToken
TokenPhase == {"tokens", "tokens-read", "tokens-open", "tokens-write"}

Call ==
  [phase  : {"bySession", "byActor", "list", "open", "write", "use", "logged"}
              \cup TokenPhase,
   lookup : Lookup,
   client : Client,
   id     : 1 .. MaxRequests,         \* of the binding it may create
   story  : Story \cup {NoStory},     \* it was given or is binding
   saved  : 0 .. 2,                   \* files saved
   list   : Seq(Story),               \* read, to be written back
   logged : 0 .. MaxRequests,         \* story of the trigger event, 0 if none
   tokens : SUBSET Token]             \* that are to be written

\* checkToken of a value that holds the token checked, or none
Check == [phase : TokenPhase, checked : 0 .. MaxRequests, tokens : SUBSET Token]

VARIABLES
  file,     \* file[f]: the content of the file f
  calls,    \* calls[c]: the request resolved on c
  requests, \* how many there have been
  served,   \* history: what clients were served, and what was logged
  settled,  \* history: stories on disk when no save was under way
  overlap,  \* history: whether two calls were ever under way at once
  unsaved   \* history: whether canaries.json was ever not written as it should

vars == <<file, calls, requests, served, settled, overlap, unsaved, canaryVars>>

\* a request past its lookups has a story
TypeOK ==
  /\ file \in [File -> StoryFile]
  /\ CanaryTypeOK
  /\ calls \in [Conn -> {Idle} \cup Call \cup Check]
  /\ \A c \in Conn :
       calls[c].phase \in {"list", "open", "write", "use", "logged"} =>
         calls[c].story \in Story
  /\ requests \in 0 .. MaxRequests
  /\ overlap \in BOOLEAN

Init ==
  /\ file = [f \in File |-> [state |-> "whole", list |-> << >>]]
  /\ calls = [c \in Conn |-> Idle]
  /\ requests = 0
  /\ served = {}
  /\ settled = {}
  /\ overlap = FALSE
  /\ unsaved = FALSE
  /\ CanaryInit
-----------------------------------------------------------------------------
\* the first of a list, of those at some indices
FirstOf(list, indices) ==
  IF indices = {} THEN NoStory
  ELSE list[CHOOSE i \in indices : \A j \in indices : i <= j]

getStoryBySession(list, session) ==
  FirstOf(list, {i \in DOMAIN list : list[i].session = session})

\* mutant: the first story there is
getStoryByActor_Any(list, actor) == FirstOf(list, DOMAIN list)

getStoryByActor(list, actor) ==
  FirstOf(list, {i \in DOMAIN list : list[i].actor = actor})

createBinding(call) ==
  [id |-> call.id, actor |-> call.client.actor, session |-> call.client.session]

\* mutant: what bindStory found missing is used
AfterLookup_NeverBinds(call, found) ==
  IF call.lookup = "recordTrigger"
  THEN [call EXCEPT !.phase = "logged", !.logged = found.id]
  ELSE IF found # NoStory \/ call.lookup = "bindStory"
  THEN [call EXCEPT !.phase = "use", !.story = found]
  ELSE [call EXCEPT !.phase = "bySession", !.lookup = "bindStory"]

\* where a call goes on with the story it found, or with none
AfterLookup(call, found) ==
  IF call.lookup = "recordTrigger"
  THEN [call EXCEPT !.phase = "logged", !.logged = found.id]
  ELSE IF found # NoStory
  THEN [call EXCEPT !.phase = "use", !.story = found]
  ELSE IF call.lookup = "getOrBindStory"
  THEN [call EXCEPT !.phase = "bySession", !.lookup = "bindStory"]
  ELSE [call EXCEPT !.phase = "tokens", !.story = createBinding(call)]

\* mutant: the story itself is not saved
SaveOrder_BindingsOnly == <<"bindings", "bindings">>
\* saveBinding, then saveStory
SaveOrder == <<"bindings", "stories">>

Target(call) == SaveOrder[call.saved + 1]

\* mutant: the list that was read is not written back
upsert_Forgets(list, story) == <<story>>

\* upsertById, upsertByStoryBinding: the identity is always new
upsert(list, story) == Append(list, story)

Readable(f) == file[f].state = "whole"
-----------------------------------------------------------------------------
\* bound: beyond MaxRaces requests come one at a time
MayBegin ==
  IF overlap \/ \E c \in Conn : calls[c] # Idle
  THEN requests < MaxRaces ELSE requests < MaxRequests

\* an overlay resolves the request of a client in an eligible trust state
Accept(c, client) ==
  /\ calls[c] = Idle
  /\ MayBegin
  /\ requests' = requests + 1
  /\ calls' = [calls EXCEPT ![c] =
                 [phase |-> "bySession", lookup |-> "getOrBindStory",
                  client |-> client, id |-> requests + 1, story |-> NoStory,
                  saved |-> 0, list |-> << >>, logged |-> 0, tokens |-> {}]]
  /\ UNCHANGED <<file, served, canaryVars>>

LookUpSession(c) ==
  /\ calls[c].phase = "bySession"
  /\ Readable("stories")
  /\ LET call == calls[c]
         found == getStoryBySession(file["stories"].list, call.client.session)
     IN  calls' = [calls EXCEPT ![c] = IF found # NoStory
                                       THEN AfterLookup(call, found)
                                       ELSE [call EXCEPT !.phase = "byActor"]]
  /\ UNCHANGED <<file, requests, served, canaryVars>>

LookUpActor(c) ==
  /\ calls[c].phase = "byActor"
  /\ Readable("stories")
  /\ LET call == calls[c] IN
     calls' = [calls EXCEPT ![c] =
                 AfterLookup(call, getStoryByActor(file["stories"].list,
                                                   call.client.actor))]
  /\ UNCHANGED <<file, requests, served, canaryVars>>

\* the program checks a value that it has come across
BeginCheck(c, id) ==
  /\ calls[c] = Idle
  /\ MayBegin
  /\ requests' = requests + 1
  /\ calls' = [calls EXCEPT ![c] =
                 [phase |-> "tokens", checked |-> id, tokens |-> {}]]
  /\ UNCHANGED <<file, served, canaryVars>>

\* once loadFromDisk has left the process with what it knows: a new token, or
\* the one that was found, is to be written with all the others
Proceed(c, known) ==
  LET call == calls[c]
      check == "checked" \in DOMAIN call
      now == IF check THEN marked(known, call.checked)
             ELSE generated(known, call.id)
  IN
  /\ tokens' = now
  /\ calls' = [calls EXCEPT ![c] =
                 IF check /\ call.checked \notin Ids(known) THEN Idle
                 ELSE [call EXCEPT !.phase = "tokens-open", !.tokens = now]]

\* generateTokens or checkToken, up to the reading of the file, if it is read
UseTokens(c) ==
  /\ calls[c].phase = "tokens"
  /\ IF MustLoad
     THEN calls' = [calls EXCEPT ![c].phase = "tokens-read"] /\ UNCHANGED tokens
     ELSE Proceed(c, tokens)
  /\ UNCHANGED <<file, requests, served, canaryFile>>

\* and from it on
LoadTokens(c) ==
  /\ calls[c].phase = "tokens-read"
  /\ Proceed(c, loadFromDisk(tokens, canaryFile))
  /\ UNCHANGED <<file, requests, served, canaryFile>>

OpenTokens(c) ==
  /\ calls[c].phase = "tokens-open"
  /\ canaryFile' = Truncated
  /\ calls' = [calls EXCEPT ![c].phase = "tokens-write"]
  /\ UNCHANGED <<file, requests, served, tokens>>

\* the tokens are written, and the call goes on to save the story
WriteTokens(c) ==
  /\ calls[c].phase = "tokens-write"
  /\ canaryFile' \in Written(canaryFile, calls[c].tokens)
  /\ calls' = [calls EXCEPT ![c] =
                 IF "checked" \in DOMAIN @ THEN Idle
                 ELSE [@ EXCEPT !.phase = "list", !.tokens = {}]]
  /\ UNCHANGED <<file, requests, served, tokens>>

\* so it does when they cannot be written
FailToWriteTokens(c) ==
  /\ calls[c].phase \in {"tokens-open", "tokens-write"}
  /\ calls' = [calls EXCEPT ![c] =
                 IF "checked" \in DOMAIN @ THEN Idle
                 ELSE [@ EXCEPT !.phase = "list", !.tokens = {}]]
  /\ UNCHANGED <<file, requests, served, canaryVars>>

\* listBindings or listStories, to save
ReadList(c) ==
  /\ calls[c].phase = "list"
  /\ Readable(Target(calls[c]))
  /\ calls' = [calls EXCEPT ![c].phase = "open",
                            ![c].list = file[Target(calls[c])].list]
  /\ UNCHANGED <<file, requests, served, canaryVars>>

\* writeFile opens the file and truncates it
OpenFile(c) ==
  /\ calls[c].phase = "open"
  /\ file' = [file EXCEPT ![Target(calls[c])] =
                [state |-> "truncated", list |-> << >>]]
  /\ calls' = [calls EXCEPT ![c].phase = "write"]
  /\ UNCHANGED <<requests, served, canaryVars>>

\* and writes it; a file another request has written since it was truncated
\* may keep the tail of that content
WriteFile(c) ==
  /\ calls[c].phase = "write"
  /\ LET call == calls[c]
         f == Target(call)
         written == [state |-> "whole", list |-> upsert(call.list, call.story)]
         garbled == [state |-> "garbled", list |-> << >>]
     IN  /\ \/ file' = [file EXCEPT ![f] = written]
            \/ /\ file[f].state # "truncated"
               /\ file' = [file EXCEPT ![f] = garbled]
         /\ calls' = [calls EXCEPT ![c].phase = IF call.saved = 1
                                                THEN "use" ELSE "list",
                                   ![c].saved = @ + 1, ![c].list = << >>]
  /\ UNCHANGED <<requests, served, canaryVars>>

\* an asset of the story matches the request, and the trigger is recorded;
\* or none does, and the overlay has nothing to say
UseStory(c, matched) ==
  /\ calls[c].phase = "use"
  /\ calls' = [calls EXCEPT ![c] = IF matched
                                   THEN [@ EXCEPT !.phase = "bySession",
                                                  !.lookup = "recordTrigger"]
                                   ELSE Idle]
  /\ UNCHANGED <<file, requests, served, canaryVars>>

\* the event is appended and audited, the asset is handed out
Serve(c) ==
  /\ calls[c].phase = "logged"
  /\ served' = served \cup {[client |-> calls[c].client,
                             story |-> calls[c].story,
                             logged |-> calls[c].logged]}
  /\ calls' = [calls EXCEPT ![c] = Idle]
  /\ UNCHANGED <<file, requests, canaryVars>>

\* JSON.parse throws on an unreadable file, and the request fails
Throw(c) ==
  /\ \/ calls[c].phase \in {"bySession", "byActor"} /\ ~ Readable("stories")
     \/ calls[c].phase = "list" /\ ~ Readable(Target(calls[c]))
  /\ calls' = [calls EXCEPT ![c] = Idle]
  /\ UNCHANGED <<file, requests, served, canaryVars>>

\* the process dies; the files are found as they are by the next one
Restart ==
  /\ calls' = [c \in Conn |-> Idle]
  /\ tokens' = {}
  /\ UNCHANGED <<file, requests, served, canaryFile>>

Resolve(c) ==
  \/ \E client \in Client : Accept(c, client)
  \/ LookUpSession(c)
  \/ LookUpActor(c)
  \/ \E id \in Recognised \cup {0} : BeginCheck(c, id)
  \/ UseTokens(c)
  \/ LoadTokens(c)
  \/ OpenTokens(c)
  \/ WriteTokens(c)
  \/ FailToWriteTokens(c)
  \/ ReadList(c)
  \/ OpenFile(c)
  \/ WriteFile(c)
  \/ \E matched \in BOOLEAN : UseStory(c, matched)
  \/ Serve(c)
  \/ Throw(c)

StoredStories == {file["stories"].list[i] : i \in DOMAIN file["stories"].list}

\* no save of a story is between its reading and its writing
NoSaveUnderWay ==
  \A c \in Conn : calls[c].phase \notin {"open", "write"}

History ==
  /\ settled' = IF NoSaveUnderWay' THEN settled \cup StoredStories' ELSE settled
  /\ overlap' = \/ overlap
                \/ \E c, d \in Conn :
                     c # d /\ calls'[c] # Idle /\ calls'[d] # Idle
  /\ unsaved' = \/ unsaved
                \/ \E c \in Conn :
                     /\ calls'[c] # calls[c] /\ canaryFile' = canaryFile
                     /\ \/ calls[c].phase = "tokens-write"
                        \/ calls[c].phase = "tokens-open" /\ tokens' # {}

Next == (Restart \/ \E c \in Conn : Resolve(c)) /\ History

Spec == Init /\ [][Next]_vars
-----------------------------------------------------------------------------
(***************************************************************************)
(* What the registry is relied on for.                                      *)
(***************************************************************************)

\* Whatever requests run at the same time and whenever the process dies, a
\* client is served assets of a story that was bound for its session or for
\* its actor.
ServedBelongs ==
  \A s \in served :
    \/ s.story.session = s.client.session
    \/ s.story.actor = s.client.actor

\* A story that was on disk at a moment when no save was under way is not
\* lost, however many saves race afterwards: each of them has read it.
SettledStoriesStay ==
  Readable("stories") => settled \subseteq StoredStories

\* the story was bound for the session of the client, not lent by its actor
Own(answer) == answer.story.session = answer.client.session

\* "one story per suspicious session": without overlapping requests a session
\* is bound no second story, whatever crashes between the two files or in the
\* middle of either; a client that is answered from another story than before
\* was lent one that its actor had, and another actor of its session has been
\* bound a story since; and "story asset triggers with the active story
\* context", looked up again to record them, name the story served.
OneStoryUnlessOverlap ==
  ~ overlap =>
    /\ \A s, t \in served :
         /\ s.story.session = t.story.session => s.story = t.story
         /\ s.client = t.client =>
              \/ s.story = t.story
              \/ \E x \in {s, t} : Own(x) /\ x.story.actor # x.client.actor
    /\ \A s \in served : s.logged = s.story.id

\* The credentials of all stories on disk are recognised when they come back,
\* and what is known of tokens, marks included, is on disk whenever no call is
\* under way: whenever the process dies, a story never comes back without its
\* tokens nor a token without its mark; unless calls have overlapped, or
\* canaries.json was not written or half-written.
CanariesSurvive ==
  ~ overlap /\ ~ unsaved =>
    /\ Readable("stories") =>
         \A story \in StoredStories : story.id \in Recognised
    /\ (tokens # {} /\ \A c \in Conn : calls[c] = Idle) =>
         canaryFile = Whole(tokens)
=============================================================================
