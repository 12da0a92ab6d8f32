------------------------------ MODULE MCServer ------------------------------
(* Bodies for TLC: a switch alone, and all of the fields.                   *)
EXTENDS Server

MCBodies == {[vector_guard |-> TRUE],
             [sensitivity |-> "HIGH", vector_guard |-> FALSE, injection_threshold |-> 800]}
=============================================================================
