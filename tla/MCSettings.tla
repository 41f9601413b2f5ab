----------------------------- MODULE MCSettings -----------------------------
(* Small instances of Settings. *)
EXTENDS Settings

MCIds == 1..3
MCEarlier == {1}
MCBoards == {"", "scrum"}
MCLowest == [k \in Keys |-> IF k = "min_review_count" THEN 0 ELSE 1]
MCHighest == [k \in Keys |-> IF k = "min_review_count" THEN 9 ELSE 3]
MCInputs == [k \in Keys |-> {0, 2}]
=============================================================================
