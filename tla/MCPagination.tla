---------------------------- MODULE MCPagination ----------------------------
(* Small instances of Pagination for TLC. *)
EXTENDS Pagination

\* Bytes are 1 to 4; the table is 2, with a table on either side of it.
MCTableId == <<2>>
MCNeighbours == {<<1, 2, 1>>, <<3, 2, 1>>, <<3>>}

\* A prefix of one byte, with rows before and after its rows.
MCPrefix == <<2>>

\* Keys of one width, as the typed tables and indexes build them.
MCFixedKeys == {<<1, 3>>, <<2, 1>>, <<2, 2>>, <<2, 3>>, <<2, 4>>, <<3, 1>>}
=============================================================================
