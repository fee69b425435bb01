----------------------------- MODULE BlockPool ------------------------------
(***************************************************************************)
(* What the free-block pool and allocator of spec.md 4.3 and the erase of  *)
(* 4.7 promise, without pages, lists or mappings.  Each physical block is  *)
(* free, active (in use) or retired, and has an erase count.               *)
(*   - An allocation for stripe s makes a free block active and the       *)
(*     stripe's write target: the least worn free block whose index is s   *)
(*     modulo the stripe count, or, when the stripe has none, the least    *)
(*     worn free block of all.                                             *)
(*   - An erase makes an active block free again with one more P/E cycle,  *)
(*     or retires it for good once the count reaches the bad-block         *)
(*     threshold.                                                          *)
(* Blocks 0 .. NumStripes - 1 start active, block s the target of stripe s. *)
(***************************************************************************)
EXTENDS Naturals

CONSTANTS NumBlocks, NumStripes, InitEraseCount, BadBlockThreshold

VARIABLES state, ec, target

poolVars == <<state, ec, target>>

PoolBlocks == 0 .. NumBlocks - 1

Free == {b \in PoolBlocks : state[b] = "free"}

\* the blocks of S with no block of S less worn
LeastWorn(S) == {b \in S : \A c \in S : ec[b] <= ec[c]}

\* the blocks an allocation for stripe s may hand out
AllocatableFor(s) ==
    LET own == {b \in Free : b % NumStripes = s}
    IN  IF own # {} THEN LeastWorn(own) ELSE LeastWorn(Free)

PoolInit ==
    /\ state = [b \in PoolBlocks |-> IF b < NumStripes THEN "active" ELSE "free"]
    /\ ec = [b \in PoolBlocks |-> InitEraseCount]
    /\ target = [s \in 0 .. NumStripes - 1 |-> s]

Allocate(s, b) ==
    /\ b \in AllocatableFor(s)
    /\ state' = [state EXCEPT ![b] = "active"]
    /\ target' = [target EXCEPT ![s] = b]
    /\ UNCHANGED ec

Erase(b) ==
    /\ state[b] = "active"
    /\ ec' = [ec EXCEPT ![b] = @ + 1]
    /\ state' = [state EXCEPT ![b] =
                   IF ec[b] + 1 < BadBlockThreshold THEN "free" ELSE "retired"]
    /\ UNCHANGED target

PoolNext == \E b \in PoolBlocks : \/ \E s \in 0 .. NumStripes - 1 : Allocate(s, b)
                                  \/ Erase(b)

PoolSpec == PoolInit /\ [][PoolNext]_poolVars
=============================================================================
