-------------------------- MODULE MCAddressRequests --------------------------
(***************************************************************************)
(* Three blocks with five transactions of the address, and room for two.   *)
(* The index of a transaction in its block is higher in slot 2 than in the *)
(* newer slot 4 and in the older slot 1.  At the start slot 1 or 2 is      *)
(* stored, or both, and slot 2 is taken back from the front.               *)
(***************************************************************************)
EXTENDS AddressRequests, TLC

MCLoads == {<<1, 1, 1, 1>>, <<2, 2, 2, 2>>, <<1, 1, 1, 2>>}

MCTxs == <<<<4, 2>>, <<4, 1>>, <<2, 3>>, <<2, 1>>, <<1, 2>>>>

NoFilters == [some |-> FALSE, slot |-> <<>>, time |-> <<>>, signature |-> <<>>, match |-> TxSet]

Some == [NoFilters EXCEPT !.some = TRUE]

MCBefores == {NoTx, <<4, 2>>, <<2, 3>>, <<2, 1>>}

MCUntils == {NoTx, <<2, 1>>}

Symmetric == Permutations(Cells)

MCFilters ==
    {NoFilters,
     [Some EXCEPT !.match = {<<4, 1>>, <<2, 1>>, <<1, 2>>}],
     [Some EXCEPT !.slot = [gte |-> 2, lt |-> 4]],
     [Some EXCEPT !.time = [gt |-> 1, lte |-> 3]],
     [Some EXCEPT !.signature = [lt |-> <<4, 1>>, gte |-> <<2, 1>>]]}
=============================================================================
