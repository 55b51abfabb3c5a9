---------------------------- MODULE MC_DevServer ----------------------------
(* Model-checking instance of DevServer. *)
EXTENDS DevServer, TLC

\* One path per proxy class, plus "/api", which `starts_with("/api/")`
\* does not match and is therefore a Page.
MCPaths == { <<"client", "app.js">>,
             <<"__forte", "hmr">>,
             <<"api", "product", "7">>,
             <<"product", "7">>,
             <<"api">> }

MCSymmetry == Permutations(Req)
=============================================================================
