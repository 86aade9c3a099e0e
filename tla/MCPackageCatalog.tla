-------------------------- MODULE MCPackageCatalog --------------------------
(* Instances of PackageCatalog for TLC; the bounds are in the .cfg files.    *)
EXTENDS PackageCatalog, TLC

\* One package in two versions and one in a single version: six catalogs.
TwoNames == {<<"a", 1>>, <<"a", 2>>, <<"b", 1>>}

AllFaults == FaultKind

\* The hosts are interchangeable: no action and no property names one.
HostSymmetry == Permutations(Host)
=============================================================================
