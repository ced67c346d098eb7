------------------------- MODULE MCScannerRegistry -------------------------
(* Values for model checking ScannerRegistry. *)
EXTENDS ScannerRegistry, TLC

\* A near and a far advertiser.
MCRssi == {-90, -41}

\* Addresses are compared for equality only.
MCSymmetry == Permutations(Addresses)

============================================================================
