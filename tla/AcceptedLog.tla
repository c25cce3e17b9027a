---------------------------- MODULE AcceptedLog ----------------------------
(***************************************************************************)
(* What the accept pipeline of snow/ promises the rest of the node.        *)
(* Consensus decides a chain, one height after the other, and never        *)
(* forgets a decision.  The state executes that chain: one block at a      *)
(* time, in order, only once decided.  Subscribers are told of the block   *)
(* the state is at, possibly more than once and possibly not at all.       *)
(* AcceptPipeline implements this through crashes and restarts.            *)
(***************************************************************************)
EXTENDS Naturals

VARIABLES
    decided,    \* height of the last decided block
    executed,   \* height of the block the state is at
    delivered   \* heights subscribers were notified of

vars == <<decided, executed, delivered>>

Init == decided = 0 /\ executed = 0 /\ delivered = {}

Decide == decided' = decided + 1 /\ UNCHANGED <<executed, delivered>>

Execute == /\ executed < decided
           /\ executed' = executed + 1
           /\ UNCHANGED <<decided, delivered>>

Deliver == /\ delivered' = delivered \cup {executed}
           /\ UNCHANGED <<decided, executed>>

Next == Decide \/ Execute \/ Deliver

Spec == Init /\ [][Next]_vars
=============================================================================
