----------------------------- MODULE Activations -----------------------------
(***************************************************************************)
(* What calls promise: every activation of a function has registers and    *)
(* words of memory of its own.  Once it has set them they stay as they are *)
(* until it leaves, whatever the activations after it do, and it is the    *)
(* last one that leaves, to the one before.                                *)
(***************************************************************************)
EXTENDS Sequences, SequencesExt

CONSTANT Unset    \* nothing set yet, or no more

VARIABLE acts     \* what the activations have set, the first first

Init == acts = <<Unset>>

Invoke == Len(acts') = Len(acts) + 1 /\ Front(acts') = acts /\ Last(acts') = Unset
Settle == acts # <<>> /\ Len(acts') = Len(acts) /\ Front(acts') = Front(acts) /\ Last(acts) = Unset
Finish == acts # <<>> /\ acts' = [acts EXCEPT ![Len(acts)] = Unset]
Leave == acts # <<>> /\ Last(acts) = Unset /\ acts' = Front(acts)

Next == Invoke \/ Settle \/ Finish \/ Leave
Spec == Init /\ [][Next]_acts
=============================================================================
