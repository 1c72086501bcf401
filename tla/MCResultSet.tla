----------------------------- MODULE MCResultSet -----------------------------
(* An instance of ResultSet for TLC.                                       *)
EXTENDS ResultSet, TLC

Symmetry == Permutations(Results) \cup Permutations(Objects)

(* No row; two rows whose columns differ in length and in NULL; and one    *)
(* row with a number from either side of every limit of the types.         *)
MCNumbers == {-33, -32, -31, -17, -16, -9, -8, -5, -4, -3, -2, -1, 0, 1, 2, 3,
              4, 7, 8, 15, 16, 31, 32}

MCContents ==
    {<<>>, <<<<7, None>>, <<None, -12>>>>} \cup {<<<<n, None>>>> : n \in MCNumbers}
=============================================================================
