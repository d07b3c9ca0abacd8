----------------------------- MODULE NameLists -----------------------------
(***************************************************************************)
(* Lists of names as callers and the model spell them: blank ones are      *)
(* dropped, and of those that differ only in case the first one stays.     *)
(***************************************************************************)
EXTENDS SequencesExt

CONSTANTS
  Spellings,    (* names as they are written                               *)
  LowerCase,    (* per spelling: the one it is compared as                 *)
  Blank         (* nothing but white space                                 *)

ASSUME SpellingsAssumption == LowerCase \in [Spellings -> Spellings]

(* Of the items that have a key, the first with each.                      *)
FirstOfEach(list, key) ==
  LET kept[n \in 0..Len(list)] ==
        IF n = 0 THEN <<>>
        ELSE IF /\ list[n] \in DOMAIN key
                /\ \A e \in ToSet(kept[n - 1]) : key[e] # key[list[n]]
             THEN Append(kept[n - 1], list[n])
             ELSE kept[n - 1]
  IN kept[Len(list)]

Unique(list) == FirstOfEach(list, [n \in ToSet(list) \ {Blank} |-> LowerCase[n]])

Merge(left, right) == Unique(left \o right)
=============================================================================
