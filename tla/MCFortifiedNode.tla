---------------------------- MODULE MCFortifiedNode ----------------------------
EXTENDS FortifiedNode

MCRemoteChunks ==
    {[producer |-> "v1", expiry |-> e, txs |-> {"x1"}] : e \in {4}}
MCTxLists == {<<"x1">>, <<"x1", "x2">>}
MCTxExpiry == [x1 |-> 2, x2 |-> 3]
===============================================================================
