----------------------------- MODULE AesCtrInv ------------------------------
(***************************************************************************)
(* Why words and keystream blocks meet (KeystreamMatchesWord): the         *)
(* strengthening that every clock edge preserves.  The blocks loaded and   *)
(* not yet fetched, fetched + 1 .. CTR_counter, are in the pipeline in     *)
(* order without one missing, and their words fill the FIFO from r_ptr to  *)
(* w_ptr in the same order.                                                *)
(***************************************************************************)
EXTENDS AesCtr

(* The block number in register s, and whether register s holds one.       *)
Number(s) == BlockIndex(pipe[s].val.blk[2])
Carries(s) == pipe[s].type = "CTR"

(* The FIFO slot k entries after p.                                        *)
Forward(p, k) == IF p + k < DEPTH THEN p + k ELSE p + k - DEPTH

(* Each block on its way is one that was loaded and not fetched, under the *)
(* message's IV; a block in register s was loaded at most s + 2 edges ago, *)
(* so at most s + 1 were loaded after it.                                  *)
BlocksLoaded ==
    /\ data_type_in = "CTR" => fetched < CTR_counter
    /\ \A s \in 0..NR : Carries(s) =>
        /\ pipe[s].val.blk[1] = IV_out
        /\ fetched < Number(s) /\ Number(s) <= CTR_counter
        /\ data_type_in = "CTR" => Number(s) < CTR_counter
        /\ CTR_counter - Number(s) <= s + 1

(* They advance in the order they were loaded, also behind the one that is *)
(* in the output register.                                                 *)
BlocksInOrder ==
    \A s, t \in Stages : s < t /\ Carries(s) /\ Carries(t) => Number(t) < Number(s)

(* None is missing; the newest may still be in the type register.          *)
NoBlockMissing ==
    \A n \in fetched + 1 .. CTR_counter :
        \/ data_type_in = "CTR" /\ n = CTR_counter
        \/ \E s \in 0..NR : Carries(s) /\ Number(s) = n

(* The FIFO holds their words, in order, and nothing else that counts.     *)
FifoInStep ==
    /\ fetched <= CTR_counter
    /\ w_ptr = Forward(r_ptr, CTR_counter - fetched)
    /\ \A n \in fetched + 1 .. CTR_counter :
        memory_array[Forward(r_ptr, n - fetched - 1)].word = DataWord(IV_out, n)

(* J0 is the zero block or has counter 1; a data block never has either.   *)
IsJ0(b) == b = ZeroBlock \/ b[2] = 1
BlocksApart ==
    /\ IV_loaded => IV_out \in IVs
    /\ CTR_counter > 0 => IV_out \in IVs
    /\ IsJ0(J0)
    /\ \A s \in Stages :
        /\ pipe[s].type = "J0" => IsJ0(pipe[s].val.blk)
        /\ pipe[s].type = "CTR" => pipe[s].val.blk[1] \in IVs /\ pipe[s].val.blk[2] # 1

(* The inductive invariant, and what follows from it.                      *)
CtrInv ==
    /\ CtrTypeOK
    /\ BlocksLoaded /\ BlocksInOrder /\ NoBlockMissing /\ FifoInStep
    /\ KeystreamMatchesWord
    /\ BlocksApart
=============================================================================
