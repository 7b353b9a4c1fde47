------------------------------- MODULE MCPbft -------------------------------
(***************************************************************************)
(* TLC runs of Pbft use the constant values of MCMyBft.                    *)
(***************************************************************************)
EXTENDS MCMyBft, Pbft
=============================================================================
