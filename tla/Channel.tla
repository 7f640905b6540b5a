------------------------------- MODULE Channel -------------------------------
(***************************************************************************)
(* What a reliable stream promises: whatever is put in comes out once, in  *)
(* the order in which it was put in.  The end of a stream is the absence   *)
(* of further steps.                                                       *)
(***************************************************************************)
EXTENDS Naturals, Sequences

VARIABLES input,    \* everything that was put in, in order
          output    \* everything that came out

vars == <<input, output>>

Init == input = <<>> /\ output = <<>>

Put ==
    /\ Len(input') = Len(input) + 1
    /\ \A i \in 1..Len(input) : input'[i] = input[i]
    /\ UNCHANGED output

Get ==
    /\ Len(output) < Len(input)
    /\ output' = Append(output, input[Len(output) + 1])
    /\ UNCHANGED input

Next == Put \/ Get

Spec == Init /\ [][Next]_vars
=============================================================================
