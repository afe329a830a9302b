---------------------------- MODULE AbstractSaga ----------------------------
(***************************************************************************)
(* What a saga promises: steps are made one after the other; once it turns *)
(* round nothing more is made, and the steps made are undone, the later    *)
(* ones first.  It reports that it was undone only if every step that has  *)
(* to be undone has been.                                                  *)
(***************************************************************************)
EXTENDS Integers

CONSTANT N

VARIABLES
    optional,  \* steps that may fail without turning the saga round
    must,      \* steps that must be undone
    next,      \* the step to make next
    made,
    undone,
    phase

vars == <<optional, must, next, made, undone, phase>>

Init ==
    /\ optional \in SUBSET (1..N) /\ must \in SUBSET (1..N)
    /\ next = 1 /\ made = {} /\ undone = {}
    /\ phase = "forward"

Make ==
    /\ phase = "forward" /\ next <= N
    /\ made' = made \cup {next}
    /\ next' = next + 1
    /\ UNCHANGED <<optional, must, undone, phase>>

Tolerate ==
    /\ phase = "forward" /\ next \in optional
    /\ next' = next + 1
    /\ UNCHANGED <<optional, must, made, undone, phase>>

Complete ==
    /\ phase = "forward" /\ next = N + 1
    /\ phase' = "completed"
    /\ UNCHANGED <<optional, must, next, made, undone>>

Turn ==
    /\ phase = "forward"
    /\ phase' \in {"undoing", "abandoned"}
    /\ UNCHANGED <<optional, must, next, made, undone>>

Undo(k) ==
    /\ phase = "undoing"
    /\ k \in made
    /\ \A u \in undone : k < u
    /\ undone' = undone \cup {k}
    /\ UNCHANGED <<optional, must, next, made, phase>>

EndUndone ==
    /\ phase = "undoing"
    /\ made \cap must \subseteq undone
    /\ phase' = "undone"
    /\ UNCHANGED <<optional, must, next, made, undone>>

EndStuck ==
    /\ phase = "undoing"
    /\ phase' = "stuck"
    /\ UNCHANGED <<optional, must, next, made, undone>>

Next ==
    \/ Make \/ Tolerate \/ Complete \/ Turn
    \/ \E k \in 1..N : Undo(k)
    \/ EndUndone \/ EndStuck

Spec == Init /\ [][Next]_vars
=============================================================================
