----------------------------- MODULE MCServices ------------------------------
(* Two of everything that can overlap; tenants a and a_b, and a schema b, so *)
(* that a schema of one can carry the name of the other.                      *)
EXTENDS Services, TLC

MCWindows == (2 :> 2) @@ (4 :> 3)
MCTenantIds == {<<"a">>, <<"a", "b">>}
MCPlanNames == {"pro", "team"}
MCLogical == {<<"b">>}
=============================================================================
