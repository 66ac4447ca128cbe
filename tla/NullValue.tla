----------------------------- MODULE NullValue -----------------------------
(* Python's None, and SQL's null *)
CONSTANT Null  \* none, no row, or not given
=============================================================================
