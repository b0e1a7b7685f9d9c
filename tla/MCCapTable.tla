----------------------------- MODULE MCCapTable -----------------------------
(* Small tables for TLC. *)
EXTENDS CapTable

\* The rights that the table's own operations test, and a way to narrow them.
AllRights == {"DUPLICATE", "DERIVE", "REVOKE"}
TwoRights == {AllRights, {"DERIVE"}}
=============================================================================
