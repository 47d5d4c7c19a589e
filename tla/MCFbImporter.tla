----------------------------- MODULE MCFbImporter -----------------------------
(* Instances of FbImporter for TLC: two planes of b3 lie in two objects.   *)
EXTENDS FbImporter, TLC

CONSTANTS b1, b2, b3, b4, o1, o2, o3, o4

MCMem3 == (b1 :> <<o1>>) @@ (b2 :> <<o2>>) @@ (b3 :> <<o3, o4>>)
MCMem4 == (b1 :> <<o1>>) @@ (b2 :> <<o2>>) @@ (b3 :> <<o3>>) @@ (b4 :> <<o4>>)

(* Once a buffer has been imported twice the properties say nothing, and   *)
(* stay silent: such states are not explored further.                      *)
UntilDoubled == ~doubled

(* Layers are interchangeable, frames are, and b1 and b2 with their memory *)
(* are.                                                                    *)
Kept    == [x \in {b1, b2, o1, o2} |-> x]
Swapped == (b1 :> b2) @@ (b2 :> b1) @@ (o1 :> o2) @@ (o2 :> o1)
Exchanges ==
    {p @@ f @@ q : p \in Permutations(Layers), f \in Permutations(Frames), q \in {Kept, Swapped}}
=============================================================================
