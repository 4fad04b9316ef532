---------------------------- MODULE MCAttestedRun ----------------------------
(***************************************************************************)
(* Instances of AttestedRun for TLC.                                       *)
(***************************************************************************)
EXTENDS AttestedRun

\* All the engine offers, something it does not offer, and the least of it.
MCRequired ==
  {{"output_bounds", "process_isolation", "resource_limits"},
   {"output_bounds", "filesystem_confinement"}, {"resource_limits"}}

\* The engine as it is, and one that enforces a network mode.
MCEngines == {{}, {"closed"}}
===============================================================================
