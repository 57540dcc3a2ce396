----------------------------- MODULE TableSwap -----------------------------
(***************************************************************************)
(* What a cut-over promises the application: its table is exchanged for    *)
(* the ghost table once, in one step, and never while a write to the       *)
(* original table is missing from the ghost table.                         *)
(***************************************************************************)
EXTENDS Naturals

VARIABLES
    current,  \* the table the application's name denotes: "original" or "ghost"
    written,  \* writes of the application to the original table
    applied   \* those of them that were applied to the ghost table

vars == <<current, written, applied>>

Init ==
    /\ current = "original"
    /\ written = 0
    /\ applied = 0

Write ==
    /\ current = "original"
    /\ written' = written + 1
    /\ UNCHANGED <<current, applied>>

Apply ==
    /\ applied < written
    /\ applied' = applied + 1
    /\ UNCHANGED <<current, written>>

Swap ==
    /\ current = "original"
    /\ applied = written
    /\ current' = "ghost"
    /\ UNCHANGED <<written, applied>>

Next == Write \/ Apply \/ Swap

Spec == Init /\ [][Next]_vars

=============================================================================
