--------------------------- MODULE MCSqliteServer ---------------------------
(***************************************************************************)
(* Instances of SqliteServer: one file, spelled absolute or relative to    *)
(* the persistence root, and in-memory databases; a table of two rows, or  *)
(* of three of which the last is too large to share a page.                *)
(***************************************************************************)
EXTENDS SqliteServer, TLC

CONSTANTS absolute, relative

MCResolve == [raw \in RawPaths |-> absolute]
MCRowBytes == [r \in Rows |-> IF r = 3 THEN 2 ELSE 1]
TwoRows == {<<1, 2>>}
ThreeRows == {<<1, 2, 3>>}

(* Nothing tells the clients apart.                                        *)
ClientSymmetry == Permutations(Clients)
=============================================================================
