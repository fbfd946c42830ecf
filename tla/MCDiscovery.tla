---------------------------- MODULE MCDiscovery ----------------------------
(* An instance of Discovery for TLC. *)
EXTENDS Discovery, TLC

CONSTANTS web, sample, eks, prod
=============================================================================
