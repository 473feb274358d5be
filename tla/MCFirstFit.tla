----------------------------- MODULE MCFirstFit -----------------------------
(* Instances of FirstFit for TLC: pages of two bytes, so that an address   *)
(* can be inside a page, and a bitmap of a few pages.                      *)
EXTENDS FirstFit

(* Regions that fit the bitmap: one that fills it, one that does not, one  *)
(* with no page.                                                           *)
MCRegions == {<<4, 5>>, <<6, 3>>, <<2, 0>>}

(* A region smaller and a region larger than a bitmap of 4 bits. *)
MCWildRegions == {<<4, 3>>, <<4, 5>>}
MCLargeRegion == {<<4, 5>>}
=============================================================================
