------------------------- MODULE MCProviderSettings -------------------------
(* ProviderSettings with a built-in provider, the custom template and one    *)
(* custom provider to create; one of the two sessions is a child with its    *)
(* own provider and model.                                                   *)
EXTENDS ProviderSettings

MCPair == [s \in Sessions |-> IF s = "child" THEN <<"custom", "other">> ELSE NoPair]
=============================================================================
