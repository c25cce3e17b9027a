------------------------------ MODULE UndoMap ------------------------------
(***************************************************************************)
(* What a view of state/tstate promises an action: a key-value map with an *)
(* undo stack.  A key is set or deleted, the last change can be undone,    *)
(* and a new view starts from what was committed, with nothing to undo.    *)
(***************************************************************************)
EXTENDS Integers, Sequences

CONSTANTS Keys, Values, None

VARIABLES
    contents,   \* what GetValue returns for each key; None: not found
    stack,      \* the contents before each operation, oldest first
    committed   \* the contents the view started from

vars == <<contents, stack, committed>>

Init == /\ contents \in [Keys -> Values \cup {None}]
        /\ stack = <<>>
        /\ committed = contents

Change(k, v) == /\ contents[k] # v
                /\ contents' = [contents EXCEPT ![k] = v]
                /\ stack' = Append(stack, contents)
                /\ UNCHANGED committed

Undo == /\ stack # <<>>
        /\ contents' = stack[Len(stack)]
        /\ stack' = SubSeq(stack, 1, Len(stack) - 1)
        /\ UNCHANGED committed

Commit == stack' = <<>> /\ committed' = contents /\ UNCHANGED contents

Discard == stack' = <<>> /\ contents' = committed /\ UNCHANGED committed

Next == \/ \E k \in Keys, v \in Values \cup {None} : Change(k, v)
        \/ Undo \/ Commit \/ Discard

Spec == Init /\ [][Next]_vars
=============================================================================
