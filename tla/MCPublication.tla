---------------------------- MODULE MCPublication ----------------------------
(***************************************************************************)
(* Two runs: x and x_mcp, which share the project x-mcp on PyPI; x and y,  *)
(* which share none; x_mcp with both types, whose directories cannot be    *)
(* told apart by their names.                                              *)
(***************************************************************************)
EXTENDS Publication, TLC

CONSTANTS r1, r2, x, y

Ask(name, types) == [name |-> name, types |-> types]

TwoRuns ==
    {r1 :> Ask(<<x, 0>>, <<"cli", "mcp">>) @@ r2 :> Ask(<<x, 1>>, <<"cli">>),
     r1 :> Ask(<<x, 0>>, <<"cli", "mcp">>) @@ r2 :> Ask(<<y, 0>>, <<"mcp">>),
     r1 :> Ask(<<x, 1>>, <<"mcp", "cli">>) @@ r2 :> Ask(<<x, 0>>, <<"cli">>)}
=============================================================================
