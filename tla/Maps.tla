-------------------------------- MODULE Maps --------------------------------
(***************************************************************************)
(* The maps of the program (HashMap, BTreeMap) are functions whose domain  *)
(* grows and shrinks.                                                      *)
(***************************************************************************)

\* insert: key k has value v, whatever it had.
With(f, k, v) == [x \in DOMAIN f \cup {k} |-> IF x = k THEN v ELSE f[x]]

\* remove
Without(f, k) == [x \in DOMAIN f \ {k} |-> f[x]]

\* What a map holds after new entries are inserted over the old ones.
Over(new, old) ==
  [x \in DOMAIN new \cup DOMAIN old |-> IF x \in DOMAIN new THEN new[x] ELSE old[x]]
=============================================================================
