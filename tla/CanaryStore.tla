---------------------------- MODULE CanaryStore ----------------------------
(***************************************************************************)
(* The canary tokens of a process (canary-manager.ts) and canaries.json.    *)
(* generateTokens and checkToken load the file when no token is known yet,  *)
(* and write all that is known after every change; each of these is awaited.*)
(* The tokens that are generated together stand as one, that has their      *)
(* identity; their values are left out.                                     *)
(***************************************************************************)
EXTENDS Naturals, JsonFile

CONSTANT MaxRequests  \* bound: requests in a behaviour, which name the tokens

Token == [id : 1 .. MaxRequests, triggered : BOOLEAN]

VARIABLES
  tokens,      \* those the process knows
  canaryFile   \* canaries.json

canaryVars == <<tokens, canaryFile>>

CanaryTypeOK ==
  /\ tokens \in SUBSET Token
  /\ canaryFile \in Content(Token)

CanaryInit == tokens = {} /\ canaryFile = Absent

Ids(set) == {token.id : token \in set}

\* mutant: whatever is known already wins over the file
loadFromDisk_Ignored(known, content) == known

\* what loadFromDisk makes of what was known: a token of the file replaces
\* the one of its name, and a file that cannot be read is ignored
loadFromDisk(known, content) ==
  {token \in known : token.id \notin Ids(content.elements)} \cup content.elements

\* generateTokens and checkToken, on what is known
generated(known, id) == known \cup {[id |-> id, triggered |-> FALSE]}

marked(known, id) ==
  {[token EXCEPT !.triggered = @ \/ token.id = id] : token \in known}

\* whether loadFromDisk has anything to read
MustLoad == tokens = {} /\ canaryFile # Absent

\* the tokens that checkToken would recognise
Recognised == Ids(IF tokens = {} THEN canaryFile.elements ELSE tokens)
=============================================================================
