----------------------------- MODULE MCLiveRun -----------------------------
(***************************************************************************)
(* LiveRun with a helper container, a volume and the database container,   *)
(* in the order runLivePg17 creates them: the reverse order alone would    *)
(* remove the volume between the two containers.                           *)
(***************************************************************************)
EXTENDS LiveRun

MCPlan == <<"tls-owner", "data", "tls-pg">>
MCContainers == {"tls-owner", "tls-pg"}
SmallPlan == <<"data", "tls-pg">>
SmallContainers == {"tls-pg"}
=============================================================================
