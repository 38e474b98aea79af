---------------------------- MODULE MCCoreTiming ----------------------------
(* The core at its real size: AES-128, ten rounds and a FIFO of sixteen.   *)
(* Pointers that differ by a rotation time alike: the search stops once    *)
(* three words went through the FIFO.                                      *)
EXTENDS CoreTiming, TLC

FewWords == w_ptr <= 3
=============================================================================
