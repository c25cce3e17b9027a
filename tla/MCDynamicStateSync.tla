------------------------- MODULE MCDynamicStateSync -------------------------
(***************************************************************************)
(* A tree with three heights to accept, a valid fork above the first of    *)
(* them, and an invalid fork with a child:                                 *)
(*                                                                         *)
(*      r -- a1 -- a2 -- a3                                                *)
(*       \     \                                                           *)
(*        \      c2                                                        *)
(*         b1 (invalid) -- b2                                              *)
(***************************************************************************)
EXTENDS DynamicStateSync

MCBlocks == {"r", "a1", "a2", "a3", "b1", "b2", "c2"}

MCParent == [b \in MCBlocks |->
               CASE b = "a1" -> "r" [] b = "a2" -> "a1" [] b = "a3" -> "a2"
                 [] b = "b1" -> "r" [] b = "b2" -> "b1" [] b = "c2" -> "a1"
                 [] b = "r" -> "r"]

MCHeight == [b \in MCBlocks |->
               CASE b = "r" -> 0 [] b \in {"a1", "b1"} -> 1
                 [] b \in {"a2", "b2", "c2"} -> 2 [] b = "a3" -> 3]

MCAncestors == [b \in MCBlocks |->
               CASE b = "r" -> {"r"}
                 [] b = "a1" -> {"r", "a1"} [] b = "b1" -> {"r", "b1"}
                 [] b = "a2" -> {"r", "a1", "a2"} [] b = "c2" -> {"r", "a1", "c2"}
                 [] b = "b2" -> {"r", "b1", "b2"}
                 [] b = "a3" -> {"r", "a1", "a2", "a3"}]

MCInvalid == {"b1"}
=============================================================================
