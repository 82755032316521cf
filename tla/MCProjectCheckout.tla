------------------------- MODULE MCProjectCheckout -------------------------
EXTENDS ProjectCheckout, TLC

CONSTANTS r1, r2, r3, a, b

\* Two runs with nothing in common, and one that changes the files of both.
ChangesOfThree == r1 :> {a} @@ r2 :> {a, b} @@ r3 :> {b}

\* The first and the last run are alike, up to their files.
Alike == {r1 :> r3 @@ r3 :> r1 @@ a :> b @@ b :> a @@ r2 :> r2}
=============================================================================
