--------------------------- MODULE MCPackageCodec ---------------------------
(***************************************************************************)
(* Small instances of PackageCodec: three packages of one, two and three   *)
(* bytes behind a header of two, in pieces of at most four bytes, so that  *)
(* a piece may end inside a header, inside a body, or hold several         *)
(* packages.                                                               *)
(***************************************************************************)
EXTENDS PackageCodec

CONSTANTS p1, p2, p3, w1, w2

SizeOf == [p \in Package |-> CASE p = p1 -> 1 [] p = p2 -> 2 [] p = p3 -> 3]
=============================================================================
