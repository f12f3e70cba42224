---------------------------- MODULE MCThreadTeam ----------------------------
(* Three threads; chunks of two by two, so that a product of 7 x 5 has the  *)
(* 12 chunks that keep the chunking, the last ones ragged.                  *)
EXTENDS ThreadTeam

Case(g, a) == [graph |-> g, abort |-> a]

\* Graphs whose later nodes begin with the barrier of a product may abort.
MCCases ==
    { Case(<<MatMul(7, 5, TRUE, 0), MatMul(2, 3, TRUE, 0)>>, TRUE),
      Case(<<RowOp(4), MatMul(8, 2, TRUE, 4)>>, TRUE),
      Case(<<SingleOp, RowOp(5), MatMul(5, 1, FALSE, 0)>>, FALSE),
      Case(<<MatMul(6, 2, FALSE, 2), SingleOp, RowOp(2)>>, FALSE) }

\* Operators without a barrier inside, one after the other.
AbortCases == { Case(<<RowOp(2), RowOp(2)>>, TRUE) }

=============================================================================
