-------------------------- MODULE MC_PanelExchange --------------------------
(* Panels of one block, of four and of nine; every interleaving of six     *)
(* blocks on three processes.                                              *)
EXTENDS PanelExchange

const_Sizes == {<<1, 2, 1, 2>>, <<1, 3, 2, 1>>, <<1, 4, 2, 6>>, <<2, 2, 2, 4>>,
                <<2, 3, 2, 1>>, <<3, 2, 1, 9>>}
const_Interleaved == {<<1, 2, 1, 2>>}
=============================================================================
