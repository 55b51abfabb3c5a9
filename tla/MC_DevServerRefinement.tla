----------------------- MODULE MC_DevServerRefinement -----------------------
EXTENDS DevServerRefinement, TLC

MCPaths == {<<"client", "app.js">>, <<"__forte", "hmr">>,
            <<"api", "product", "7">>, <<"product", "7">>, <<"api">>}

MCSymmetry == Permutations(Req)
=============================================================================
