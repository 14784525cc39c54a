------------------------- MODULE MCServiceLifecycle -------------------------
(***************************************************************************)
(* Instances of ServiceLifecycle: one start request that parses, and one   *)
(* or two that generate from what was parsed.                              *)
(***************************************************************************)
EXTENDS ServiceLifecycle, TLC

CONSTANTS p, g, h   \* the start requests

ParseOnly       == p :> "github"
ParseGenerate   == p :> "github" @@ g :> "generate"
ParsePublish    == p :> "github" @@ g :> "publish"
PyPIGenerate    == p :> "pypi" @@ g :> "generate"
GenerateTwice   == p :> "github" @@ g :> "generate" @@ h :> "generate"
=============================================================================
