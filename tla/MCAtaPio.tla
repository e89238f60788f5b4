------------------------------ MODULE MCAtaPio ------------------------------
(***************************************************************************)
(* Address bytes of two values, so that nine sectors use all registers,    *)
(* and sectors of two words; calls of up to two sectors, as a block has.   *)
(***************************************************************************)
EXTENDS AtaPio
=============================================================================
