----------------------------- MODULE PathStore ------------------------------
(***************************************************************************)
(* What the engram and manifest files promise to whoever extracts them: a  *)
(* map from paths to contents.  One update changes one path; a compaction  *)
(* changes none.  While a command replaces both files, or after it died in *)
(* doing so, the pair is torn and promises nothing: the command that mends *)
(* it brings back the same map, or a new one when it ingested everything   *)
(* again.                                                                  *)
(***************************************************************************)
EXTENDS Naturals

CONSTANTS Paths, Contents, Absent

VARIABLES
  tree,   \* path -> content or Absent
  torn,   \* the two files do not belong together, or one is not readable
  epoch   \* how often everything was ingested again

Init == tree = [p \in Paths |-> Absent] /\ torn = FALSE /\ epoch = 0

Update(p) ==
  /\ ~torn
  /\ \E c \in Contents \cup {Absent} : tree' = [tree EXCEPT ![p] = c]
  /\ UNCHANGED <<torn, epoch>>

Tear == ~torn /\ torn' = TRUE /\ UNCHANGED <<tree, epoch>>
Mend == torn /\ torn' = FALSE /\ UNCHANGED <<tree, epoch>>

Replace ==
  /\ torn /\ torn' = FALSE
  /\ epoch' > epoch
  /\ tree' \in [Paths -> Contents \cup {Absent}]

Next == (\E p \in Paths : Update(p)) \/ Tear \/ Mend \/ Replace

vars == <<tree, torn, epoch>>

Spec == Init /\ [][Next]_vars
=============================================================================
