------------------------------ MODULE MCFraming ------------------------------
(***************************************************************************)
(* Small instances of Framing: messages of up to three bytes in a buffer   *)
(* of three, so that frames run into each other and overflow it.  Three    *)
(* have the same first byte and can be spliced; the CRC of one is zero,    *)
(* which clearing the field does not spoil, that of another has to be      *)
(* escaped.  Flipping turns 50 into START and 51 into END.  The PC does    *)
(* not get 255.                                                            *)
(***************************************************************************)
EXTENDS Framing

MCMessages == {<<51, 0>>, <<51, 7, 50>>, <<51, 125, 255>>, <<19, 18>>}
=============================================================================
