------------------------- MODULE MCSequentialStore --------------------------
(* Values for model checking SequentialStore. *)
EXTENDS SequentialStore, TLC

CONSTANTS k1, k2, k3, empty, small, large

\* An empty value, one that just fits a working buffer of eight bytes, and
\* one that is a byte too long for it.
MCValues == {empty, small, large}
MCSizeOf == empty :> 0 @@ small :> 3 @@ large :> 4

MCSymmetry == Permutations(Keys)

=============================================================================
