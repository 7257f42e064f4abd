----------------------------- MODULE MCNcmLink -----------------------------
(***************************************************************************)
(* NcmLink with the last address of the range, whose successor wraps, and  *)
(* one whose successor carries over two bytes.                             *)
(***************************************************************************)
EXTENDS NcmLink

SomeMacs == {<<2, 21, 93, 255, 255, 255>>, <<2, 21, 93, 0, 255, 255>>}

=============================================================================
