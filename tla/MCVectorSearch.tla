--------------------------- MODULE MCVectorSearch ---------------------------
(***************************************************************************)
(* Instances of VectorSearch: two texts, of which one is also searched     *)
(* for, and a reranker that prefers the farther one; servers with models   *)
(* of two dimensions, and one built without embeddings.                    *)
(***************************************************************************)
EXTENDS VectorSearch

CONSTANTS near, far, small, large, lower

MCDimensionOf == [m \in Models |-> IF m = small THEN 1 ELSE 2]
OneTable == [n \in Names |-> lower]
MCRuntimes == {[model |-> m, dimension |-> MCDimensionOf[m]] : m \in Models}
                 \union {[model |-> NoModel, dimension |-> 1]}
MCDistance == [q \in Embeddings |-> [e \in Embeddings |-> IF e.text = near THEN 0 ELSE 1]]
MCScore == [q \in Texts |-> [t \in Texts |-> IF t = near THEN 0 ELSE 1]]
=============================================================================
