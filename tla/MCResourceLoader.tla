--------------------------- MODULE MCResourceLoader ---------------------------
(* The loader on two resources.  They are interchangeable, except that the  *)
(* value Init gives target for loads not requested yet is irrelevant.       *)
EXTENDS ResourceLoader, TLC
=============================================================================
