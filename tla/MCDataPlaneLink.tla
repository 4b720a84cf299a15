--------------------------- MODULE MCDataPlaneLink ---------------------------
(* Two categories, two policies, sockets of three messages.                *)
EXTENDS DataPlaneLink, TLC

CONSTANTS c1, c2, a, b, x, y, z

MCConns == {x, y, z}
MCCategories == {c1, c2}
MCPolicies == {a, b}
=============================================================================
