----------------------------- MODULE MCPgWriter -----------------------------
(* Small instances of PgWriter: a ring of three slots that wraps around, a *)
(* batch limit of two, and one event the server always refuses.            *)
EXTENDS PgWriter

MCPoison == {2}
=============================================================================
