------------------------------ MODULE JsonFile ------------------------------
(***************************************************************************)
(* A JSON file that is always read and written as a whole, as the stores    *)
(* under .resimantle are.  writeFile truncates the file when it opens it    *)
(* and writes it later; the process may die in between, and writes may      *)
(* overlap.  Only the elements stored are kept of the content.              *)
(***************************************************************************)

Absent    == [state |-> "absent",    elements |-> {}]
Truncated == [state |-> "truncated", elements |-> {}]
Garbled   == [state |-> "garbled",   elements |-> {}]

Whole(elements) == [state |-> "whole", elements |-> elements]

Content(Element) ==
  {Absent, Truncated, Garbled}
    \cup [state : {"whole"}, elements : SUBSET Element]

\* what is there after elements are written to a file that was opened for it:
\* the tail of what another writer wrote since may remain
Written(content, elements) ==
  IF content = Truncated THEN {Whole(elements)} ELSE {Whole(elements), Garbled}

\* JSON.parse throws on anything else
Parses(content) == content.state = "whole"
=============================================================================
