-------------------------- MODULE MCLooseOszImport --------------------------
(* One loader, two .osz files and one screenshot.                  *)
EXTENDS LooseOszImport, TLC

CONSTANTS loader, x1, x2, shot, bridge

MCTwoOszs == <<x1, x2>>
MCBridge == shot :> bridge
=============================================================================
