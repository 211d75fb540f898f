---------------------------- MODULE MCPagingLoop ----------------------------
(***************************************************************************)
(* Instances of PagingLoop: two small rows and one larger than any page,   *)
(* limits around the sizes of the envelope with zero to three rows.        *)
(***************************************************************************)
EXTENDS PagingLoop

MCRows == {"small", "large", "huge"}
MCRowBytes == [r \in MCRows |-> CASE r = "small" -> 1 [] r = "large" -> 3 [] OTHER -> 20]

MCTables == UNION {[1 .. n -> MCRows] : n \in 0 .. 3}
=============================================================================
