-------------------------- MODULE MC_ALPSTouchpadV3 --------------------------
(* Model values for ALPSTouchpadV3 that a .cfg cannot spell.               *)
EXTENDS ALPSTouchpadV3

\* Bitmaps of a 3-bin x axis and a 2-bin y axis: an empty x map, two x
\* runs over one y bin, and one x bin over both y bins.
MCMapPairs == {<<0, 1>>, <<5, 1>>}
=============================================================================
