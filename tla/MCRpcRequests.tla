---------------------------- MODULE MCRpcRequests ----------------------------
(***************************************************************************)
(* Room for two slots, and the newest one of the chain is skipped, with a  *)
(* fork's block there that is no higher than slot 2.  At the start slot 3  *)
(* is stored alone; or slot 2, with slot 1 popped off the back; or slots 3 *)
(* and 4, the newest one dead; or slot 1, with slot 2 taken back from the  *)
(* front.                                                                  *)
(***************************************************************************)
EXTENDS RpcRequests, TLC

MCLoads == {<<3, 3, 3, 3>>, <<1, 2, 2, 2>>, <<3, 3, 4, 4>>, <<1, 1, 1, 2>>}

Symmetric == Permutations(Readers) \union Permutations(Cells)
=============================================================================
