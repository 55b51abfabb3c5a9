--------------------------- MODULE MC_BackendRouter ---------------------------
EXTENDS BackendRouter

\* Router::new of PLAN.md 4.1, plus a literal route beside the parameter one
\* so that the precedence of literals is exercised.
MCRoutes ==
  << [method |-> "GET",  pattern |-> <<"">>,              role |-> "get"],
     [method |-> "GET",  pattern |-> <<"product", ":id">>, role |-> "get"],
     [method |-> "POST", pattern |-> <<"product", ":id">>, role |-> "post"],
     [method |-> "POST", pattern |-> <<"product", "new">>, role |-> "post"] >>

MCPaths == {<<"">>, <<"product", "7">>, <<"product", "abc">>,
            <<"product", "new">>, <<"about">>}
=============================================================================
