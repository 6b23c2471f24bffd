----------------------------- MODULE MCPipeline -----------------------------
(* Instances of DailyPipeline for TLC. *)
EXTENDS DailyPipeline

\* Settings enable every source or none.
AllOrNone == {{}, Sources}
=============================================================================
