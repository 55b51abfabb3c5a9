--------------------------- MODULE MC_SsrHandler ---------------------------
(* Model-checking instance of SsrHandler. *)
EXTENDS SsrHandler

MCPaths == { <<"">>, <<"product", "7">>, <<"product">>, <<"about">> }
=============================================================================
