-------------------------------- MODULE DbMC --------------------------------
(***************************************************************************)
(* Instance of module Db: two processes, three keys of which two hash to   *)
(* the same chain, and two values of different length.                     *)
(***************************************************************************)
EXTENDS Db, TLC

CONSTANTS p1, p2, k1, k2, k3, short, long, h1, h2

MCHash   == k1 :> h1 @@ k2 :> h1 @@ k3 :> h2
MCLength == [x \in {k1, k2, k3} |-> 2] @@ short :> 2 @@ long :> 3

\* The processes can be exchanged, and the keys of the same chain.
MCSymmetry == Permutations({p1, p2}) \cup Permutations({k1, k2})
=============================================================================
