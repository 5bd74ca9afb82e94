----------------------------- MODULE MCMetered -----------------------------
(* The short session of MCIngest, with the memory of MeteredIngest.        *)
EXTENDS MCIngest, MeteredIngest
=============================================================================
