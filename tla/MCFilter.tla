------------------------------ MODULE MCFilter ------------------------------
(***************************************************************************)
(* Filter with two public keys, of which one can be written in two ways, a *)
(* key that is too short and a key that is not hex, in every list of up to *)
(* three.                                                                  *)
(***************************************************************************)
EXTENDS Filter, SequencesExt, TLC

CONSTANTS lower, upper, another, short, text, a1, a2, a3

AddressOfText == lower :> a1 @@ upper :> a1 @@ another :> a2 @@ short :> nil

UpToThree == BoundedSeq(KeyText, 3)
=============================================================================
