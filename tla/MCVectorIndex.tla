--------------------------- MODULE MCVectorIndex ----------------------------
(* Four keys, one more than a pruned neighbour list and its node hold.     *)
EXTENDS VectorIndex

At(x)  == [dims |-> 1, x |-> x]
Wide   == [dims |-> 2, x |-> 0]

MCVectors == {At(0), At(1), At(3), At(7), Wide}
MCPuts == {<<2, At(3)>>, <<3, At(0)>>, <<3, Wide>>}

MCContents ==
    { [k \in Keys |-> NoEntry],
      <<At(0), At(7), NoEntry, NoEntry>>,
      <<At(7), At(0), At(3), At(1)>>,
      <<At(3), At(1), At(7), At(7)>> }

MCLayerings == { <<0, 0, 0, 0>>, <<0, 1, 0, 1>>, <<1, 0, 0, 2>> }
=============================================================================
