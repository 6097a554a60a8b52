--------------------------- MODULE MCScenarioBuild ---------------------------
EXTENDS ScenarioBuild

\* Ids with different heads, and two with the same head.
MCRandomIds == <<<<1, 0>>, <<2, 0>>, <<3, 0>>, <<4, 0>>>>
MCIdLists == {<<<<5, 1>>, <<5, 2>>, <<6, 0>>>>}
MCPeerRank == [id \in (1 .. 6) \X (0 .. 2) |-> 10 * ((5 * id[1]) % 7) + id[2]]

==============================================================================
