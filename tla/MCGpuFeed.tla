------------------------------ MODULE MCGpuFeed -------------------------------
(* Two GPUs, two processes; TLC only.                                      *)
EXTENDS GpuFeed
=============================================================================
