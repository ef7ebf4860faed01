----------------------------- MODULE MCImports ------------------------------
(* Instances of ImportPush for TLC.                                        *)
EXTENDS ImportPush, TLC

CONSTANTS l1, l2, l3, s1

TwoUploads == <<<<l1, l2>>, <<l3>>>>
OneUpload == <<<<l1, l2>>>>
OneDay == <<1>>
SameDay == <<1, 1>>

OneDescription == [l \in Lines |-> s1]

Symmetry == Permutations(Managers) \cup Permutations(Items)
            \cup Permutations(Workers) \cup Permutations(Calls)

(* Where the index stands nobody asks whether it was tried.  Rows stored   *)
(* twice only go with their upload.  What was lost to a push that failed   *)
(* is forgotten by the next.                                               *)
View == <<item, pushed, push, call, stored, {k.upload : k \in doubled},
          [m \in Managers |-> {u \in lost[m] : Claims(m, u)}],
          indexed, IF indexed THEN {} ELSE tried>>
=============================================================================
