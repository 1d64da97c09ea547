---------------------------- MODULE MCLayerListing ----------------------------
(* Instances of LayerListing for TLC. *)
EXTENDS LayerListing, TLC

\* Each process has a backend object of its own on one base path.
OwnBackends == [t \in Threads |-> t]

\* Identifiers are interchangeable, and so are processes.
ListingSymmetry == Permutations(Ids) \cup Permutations(Threads)
=============================================================================
