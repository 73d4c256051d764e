------------------------------ MODULE MCBTree ------------------------------
(* Pages so small that six keys make a tree of three levels: a leaf holds  *)
(* three payloads of two bytes, an internal node two separators, and a     *)
(* payload of three bytes an overflow chain of two pages.                  *)
EXTENDS BTree

MCOrders == {<<1, 2, 3, 4, 5, 6>>, <<6, 5, 4, 3, 2, 1>>, <<3, 5, 1, 4, 6, 2>>, <<1, 2, 3>>}

MCPayloads == {<<7, 8>>, <<7, 8, 9>>}
============================================================================
