--------------------------- MODULE AtomicSnapshot ---------------------------
(***************************************************************************)
(* What the index store promises its readers: the published index, when    *)
(* there is one, is the state of the whole workspace at one instant, and   *)
(* successive indexes never go back in time.                               *)
(***************************************************************************)
EXTENDS Naturals

CONSTANTS Files, Missing

VARIABLES
    ws,         \* the version of every file of the workspace
    captured,   \* the last whole state of the workspace that was captured
    published   \* the published index, or Missing

vars == <<ws, captured, published>>

Workspace == [Files -> Nat]

Init ==
    /\ ws \in Workspace
    /\ captured \in Workspace
    /\ published = Missing

\* A file is edited, created or deleted: it gets a new version.
Edit ==
    /\ \E f \in Files : ws' = [ws EXCEPT ![f] = @ + 1]
    /\ UNCHANGED <<captured, published>>

Capture == captured' = ws /\ UNCHANGED <<ws, published>>

Publish == published' = captured /\ UNCHANGED <<ws, captured>>

\* The index file is damaged or set aside.
Lose == published' = Missing /\ UNCHANGED <<ws, captured>>

Next == Edit \/ Capture \/ Publish \/ Lose

Spec == Init /\ [][Next]_vars
=============================================================================
