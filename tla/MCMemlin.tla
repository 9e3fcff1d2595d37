------------------------------ MODULE MCMemlin ------------------------------
(* Widths of 3, 4 and 6 bits for 8, 16 and 32; the headers keep their size. *)
EXTENDS Memlin

SmallMods == <<8, 16, 64>>
HeaderSizes == <<3, 5, 9>>

ASSUME CallersAssumption == HeadersFit /\ SumsFit
=============================================================================
