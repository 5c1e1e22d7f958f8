--------------------------- MODULE MCReorderBuffer ---------------------------
(* Small instance of ReorderBuffer: one kind of payload, since the buffer   *)
(* never looks at it.                                                       *)
EXTENDS ReorderBuffer

(* A time stamp already past its hold, one past, and one of this moment.    *)
MCSkews == {-2, -1, 0}
=============================================================================
