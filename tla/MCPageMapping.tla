--------------------------- MODULE MCPageMapping ---------------------------
(***************************************************************************)
(* Instantiates PageMapping for TLC.  The .cfg files give the sizes; this  *)
(* module gives the error model and the bound on wear.                     *)
(***************************************************************************)
EXTENDS PageMapping

CONSTANT MaxEraseCount  \* bound: states where a block is erased more often are not explored

(* The error model, abstracted to the one fact the FTL uses: does the      *)
(* predicted RBER after refresh_period * 2^k exceed 10^-2?  It grows with  *)
(* the retention time (k), the P/E cycles and the layer, as spec.md 4.4    *)
(* requires of getRBER.                                                    *)
MCRberExceeds(ec, layer, k) == ec + layer + k >= 1

ASSUME \A ec \in 0 .. MaxEraseCount, layer \in Layers, k \in Levels :
          MCRberExceeds(ec, layer, k) => MCRberExceeds(ec, layer, k + 1)

(* The warm-up configurations checked: ratios of at most 1; in           *)
(* FILLING_MODE_0 a fill within the budget (a wrapped invalidation count   *)
(* there writes LPN i past the logical range); and FILLING_MODE_1 drawing  *)
(* its invalidations from a non-empty fill (dist(0, 2^64 - 1) otherwise).  *)
ASSUME /\ FillNum <= RatioDen /\ InvalidNum <= RatioDen
       /\ FillingMode = 0 => WarmupPages <= MaxPagesBeforeGC
       /\ (FillingMode = 1 /\ InvalidatePages > 0) => WarmupPages > 0

\* format() of LPN 0 alone and of LPN 1 alone: <<slpn, nlp>>
MCFormatRanges == {<<0, 1>>, <<1, 1>>}

WearBound == \A b \in Blocks : blk[b].ec <= MaxEraseCount

DataSymmetry == Permutations(Datas)
=============================================================================
