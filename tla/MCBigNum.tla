------------------------------ MODULE MCBigNum ------------------------------
(***************************************************************************)
(* Instances of BigNum for TLC: two objects, digits of two bits, bytes of  *)
(* one, so that a few digits meet every carry, borrow and boundary.        *)
(***************************************************************************)
EXTENDS BigNum, TLC

CONSTANTS a, b

MCNames   == {a, b}
MCCounts  == {0, 1, 2, 3, 6}
MCFewCounts == {1, 2, 3}
MCBuffers == {<<0>>, <<1>>, <<1, 0>>, <<0, 1, 1>>}

\* One long and one short object.
MCUneven == a :> 3 @@ b :> 1
MCEven   == a :> 2 @@ b :> 2
MCShort  == a :> 2 @@ b :> 1
MCBits   == {<<1>>, <<0, 1>>}
MCFewBuffers == {<<3>>, <<2, 1>>}

\* TLC tells states apart by the objects only: no action reads "call", and the
\* properties that mention it are about steps.
View == num
=============================================================================
