------------------------- MODULE MCReasoningContext -------------------------
(***************************************************************************)
(* ReasoningContext for TLC: three items, so that pass 1 can keep, drop    *)
(* and keep again; texts of 0, 10 and 14 characters are 1, 2 and 4 tokens  *)
(* (10 / 4 and 14 / 4 round to the even neighbour).                        *)
(***************************************************************************)
EXTENDS ReasoningContext

ThreeItems == 1..3
TextLengths == {0, 10, 14}
HighAndLow == {1, 2}
OneOrTwo == {1, 2}
PromptOverheads == {-5, 20}
=============================================================================
