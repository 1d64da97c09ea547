-------------------------- MODULE MCFileContentCache --------------------------
(* Instance of FileContentCache for TLC: for a cache of two bytes, two        *)
(* versions that fit beside each other, one that fits alone, and one that     *)
(* does not fit at all.                                                       *)
EXTENDS FileContentCache

CONSTANTS f, g

Sizes == <<1, 2, 1, 3>>

BothFiles == [x \in Files |-> IF x = f THEN 1 ELSE 2]
=============================================================================
