---------------------------- MODULE PageMapping ----------------------------
(***************************************************************************)
(* The page-mapped FTL of src/simplessd/ftl/page_mapping.cc (PageMapping). *)
(*                                                                         *)
(* The simulator is single-threaded: every host request and every refresh  *)
(* event runs to completion before the next one starts.  A request is one *)
(* action; a garbage collection or a refresh sweep it starts continues as  *)
(* a chain of steps (one page, one erase or one Bloom key each), tracked   *)
(* by pc, and while pc # "idle" no host request and no other event can     *)
(* run.  A panic() of the code sets fault and ends the run.                *)
(*                                                                         *)
(* Modelled with use_random_io_tweak off (bitsetSize = 1, one mapping      *)
(* entry per LPN, every request writes the whole page).  The greedy,      *)
(* random and d-choice victim policies, both GC modes and initialize()'s   *)
(* warm-up fill are modelled; the cost-benefit policy is not.              *)
(* Simulated time (tick, PAL and DRAM latencies) is abstracted away; the   *)
(* refresh event is modelled by its count of firings.                     *)
(***************************************************************************)
EXTENDS FlashBlock, Integers, Sequences, SequencesExt

CONSTANTS
    NumBlocks,          \* param.totalPhysicalBlocks
    LPNs,               \* 0 .. totalLogicalPages - 1
    Datas,              \* contents a host write can carry (a ghost)
    NumStripes,         \* param.pageCountToMaxPerf
    NumLayer,           \* the layer count, 64 in the code
    NumBF,              \* bloomFilters.size() (refresh_filter_num)
    InitEraseCount,     \* FTL_INITIAL_ERASE_COUNT
    FillingMode,        \* FTL_FILLING_MODE: 0, 1 or 2
    FillNum,            \* FTL_FILL_RATIO = FillNum / RatioDen
    InvalidNum,         \* FTL_INVALID_PAGE_RATIO = InvalidNum / RatioDen
    RatioDen,
    BadBlockThreshold,  \* FTL_BAD_BLOCK_THRESHOLD
    GcMode,             \* FTL_GC_MODE: 0 (fixed count) or 1 (threshold)
    GcPolicy,           \* FTL_GC_EVICT_POLICY: "greedy", "random", "dchoice"
    DChoiceParam,       \* FTL_GC_D_CHOICE_PARAM
    GcReclaimBlock,     \* FTL_GC_RECLAIM_BLOCK
    GcReclaimThNum,     \* FTL_GC_RECLAIM_THRESHOLD =
    GcReclaimThDen,     \*     GcReclaimThNum / GcReclaimThDen
    WrappedCount,       \* stands for a uint64 count of at least 2^63
    GcThresholdNum,     \* FTL_GC_THRESHOLD_RATIO =
    GcThresholdDen,     \*     GcThresholdNum / GcThresholdDen
    RefreshEnabled,     \* FTL_REFRESH_PERIOD > 0
    RberExceeds(_, _, _), \* errorModel.getRBER(period * 2^k, ec, layer) > 0.01
    BloomFalsePositives,\* may contains() answer TRUE for a key never inserted
    FormatRanges,       \* the <<slpn, nlp>> ranges the host formats
    MaxRefreshCalls,    \* bound: refresh events fire while the count is below
    MaxAge,             \* bound: ghost page ages saturate here
    Unmapped,           \* the value of an LPN without a mapping entry
    NoLevel             \* refresh_table has no entry for a key

ASSUME /\ NumStripes \in 1 .. NumBlocks /\ NumBF >= 1
       /\ NumLayer \in 1 .. PagesInBlock /\ PagesInBlock % NumLayer = 0

Blocks  == 0 .. NumBlocks - 1
Stripes == 0 .. NumStripes - 1
Layers  == 0 .. NumLayer - 1
Levels  == 0 .. NumBF - 1
TopLevel == NumBF - 1
Keys    == Blocks \X Layers
Faults  == {"none", "Corrupted", "No free block left", "Invalid block",
            "Invalid mapping table entry", "Block is not in use",
            "No such block", "There are valid pages in victim block",
            "Segfault", "std::out_of_range",
            "ftl: GC triggered while in initialization"}

\* mapping.second % 64: the layer of a page
Layer(p) == p % NumLayer

VARIABLES
    blk,                \* Block state of every physical block
    inUse,              \* the keys of the map `blocks`
    freeBlocks,         \* the list `freeBlocks`, in order
    table,              \* the mapping table: LPN -> <<block, page>>
    lastFreeBlock,      \* current write target of each stripe
    lastFreeBlockIndex, \* the stripe used last
    reclaimMore,        \* bReclaimMore
    bloom,              \* the keys inserted into each Bloom filter level
    refreshTable,       \* refresh_table: key -> lowest level inserted
    refreshCallCount,   \* stat.refreshCallCount
    pc,                 \* "idle", "gcCopy", "gcErase", "sweep", "refreshLayer",
                        \* "victimSpin" (selectVictimBlock never returns),
                        \* "fill", "invalidate" (initialize()'s two steps)
    gcList,             \* victims whose pages are still to be copied
    gcPage,             \* next page of Head(gcList)
    gcErase,            \* victims to erase once copying is done
    gcRet,              \* where control returns after the GC
    sweepLevel,         \* the Bloom level refresh_event sweeps
    sweepKeys,          \* the (block, layer) keys still to check
    layerPages,         \* the pages of the key refreshPage still visits
    warmI,              \* the loop index i of initialize()'s warm-up loops
    fault               \* the message of the panic() that ended the run

allocVars == <<inUse, freeBlocks, lastFreeBlock, lastFreeBlockIndex>>
gcVars    == <<gcList, gcPage, gcErase, gcRet>>
sweepVars == <<sweepLevel, sweepKeys, layerPages>>
vars == <<blk, table, reclaimMore, bloom, refreshTable, refreshCallCount, pc,
          fault, allocVars, gcVars, sweepVars, warmI>>

-----------------------------------------------------------------------------
(* A panic() (or a crash): the simulator stops with the state it had.      *)
Fail(msg) ==
    /\ fault' = msg
    /\ UNCHANGED <<blk, table, reclaimMore, bloom, refreshTable,
                   refreshCallCount, pc, allocVars, gcVars,
                   sweepVars, warmI>>

\* freeBlockRatio() < gcThreshold, with nFree free blocks
GcNeeded(nFree) == nFree * GcThresholdDen < GcThresholdNum * NumBlocks

\* mutation: the stripe filter is dropped, the first free block is taken
FreeBlockForAnyStripe(idx) == Head(freeBlocks)

\* mutation: the search for a block of the stripe runs from the back
FreeBlockForLast(idx) ==
    LET i == SelectLastInSeq(freeBlocks, LAMBDA b : b % NumStripes = idx)
    IN  IF i > 0 THEN freeBlocks[i] ELSE Head(freeBlocks)

(* getFreeBlock(idx): the first free block of stripe idx, or, when the     *)
(* stripe has none, the first free block ("Just use first one").           *)
FreeBlockFor(idx) ==
    LET i == SelectInSeq(freeBlocks, LAMBDA b : b % NumStripes = idx)
    IN  IF i > 0 THEN freeBlocks[i] ELSE Head(freeBlocks)

(* getLastFreeBlock: with use_random_io_tweak off every call moves to the  *)
(* next stripe; a full target is replaced by a block from getFreeBlock.    *)
NextStripe    == (lastFreeBlockIndex + 1) % NumStripes
Current       == lastFreeBlock[NextStripe]
NeedsNewBlock == Current \in inUse /\ IsFull(blk[Current])
AllocFault ==
    IF Current \notin inUse THEN "Corrupted"
    ELSE IF NeedsNewBlock /\ freeBlocks = << >> THEN "No free block left"
    ELSE IF NeedsNewBlock /\ FreeBlockFor(NextStripe) \in inUse
         THEN "Corrupted"
    ELSE "none"
Target == IF NeedsNewBlock THEN FreeBlockFor(NextStripe) ELSE Current
AllocInUse      == inUse \cup {Target}
\* mutation: getFreeBlock forgets freeBlocks.erase(iter)
AllocFreeBlocksKept == freeBlocks

AllocFreeBlocks == IF NeedsNewBlock THEN Remove(freeBlocks, Target)
                                     ELSE freeBlocks
AllocReclaimMore == reclaimMore \/ NeedsNewBlock

GetLastFreeBlock ==
    /\ lastFreeBlockIndex' = NextStripe
    /\ lastFreeBlock' = [lastFreeBlock EXCEPT ![NextStripe] = Target]
    /\ inUse' = AllocInUse
    /\ freeBlocks' = AllocFreeBlocks

-----------------------------------------------------------------------------
(* selectVictimBlock's nBlocks: FTL_GC_RECLAIM_BLOCK in GC_MODE_0; in     *)
(* GC_MODE_1 totalPhysicalBlocks * t - nFreeBlocks, a float converted to   *)
(* uint64 by truncation.  A value of -1 or below is undefined behaviour:   *)
(* x86-64 builds give 2^64 - k (WrappedCount), saturating builds 0.  Then  *)
(* bReclaimMore adds pageCountToMaxPerf, which can wrap 2^64 - k around.   *)
ReclaimCounts(nFree, reclaim) ==
    LET extra == IF reclaim THEN NumStripes ELSE 0
        v     == NumBlocks * GcReclaimThNum - nFree * GcReclaimThDen
        tr    == IF v >= 0 THEN v \div GcReclaimThDen
                 ELSE -((-v) \div GcReclaimThDen)
    IN  IF GcMode = 0 THEN {GcReclaimBlock + extra}
        ELSE IF tr >= 0 THEN {tr + extra}
        ELSE {extra, IF tr + extra >= 0 THEN tr + extra ELSE WrappedCount}

(* calculateVictimWeight: the blocks in use that are full, weighted by     *)
(* their valid page count (greedy, random and d-choice alike).             *)
VictimCandidates(bs, used) == {b \in used : IsFull(bs[b])}

(* The sort of selectVictimBlock and its first n entries: the n lowest     *)
(* weights of cands.  std::sort is not stable, so ties fall in any order.  *)
VictimListsAmong(bs, cands, n) ==
    LET w(b)     == ValidPageCount(bs[b])
        k        == IF n < Cardinality(cands) THEN n ELSE Cardinality(cands)
        lowest   == {S \in kSubset(k, cands) :
                        \A a \in S, c \in cands \ S : w(a) <= w(c)}
    IN  {s \in UNION {SetToSeqs(S) : S \in lowest} :
            IsSorted(s, LAMBDA a, c : w(a) <= w(c))}

\* the number of distinct candidates the random loop draws
RandomRange(n) == IF GcPolicy = "random" THEN n ELSE DChoiceParam * n

(* Random and d-choice first draw RandomRange(n) distinct candidates at    *)
(* random, then sort the draw and keep its n lowest.                       *)
VictimLists(bs, cands, n) ==
    IF GcPolicy = "greedy" THEN VictimListsAmong(bs, cands, n)
    ELSE UNION {VictimListsAmong(bs, pool, n) :
                    pool \in kSubset(RandomRange(n), cands)}

\* mutation: the victims erased before their valid pages are copied
StartGcEraseFirst(list, ret) ==
    /\ gcList' = << >>
    /\ gcErase' = list
    /\ gcPage' = 0
    /\ IF list = << >> THEN /\ pc' = ret
                            /\ gcRet' = "idle"
                       ELSE /\ pc' = "gcErase"
                            /\ gcRet' = ret

(* doGarbageCollection(list): nothing for an empty list; otherwise copy    *)
(* the valid pages of every victim, then erase the victims in order.      *)
StartGc(list, ret) ==
    /\ gcList' = list
    /\ gcErase' = list
    /\ gcPage' = 0
    /\ IF list = << >> THEN /\ pc' = ret
                            /\ gcRet' = "idle"
                       ELSE /\ pc' = "gcCopy"
                            /\ gcRet' = ret

(* selectVictimBlock then doGarbageCollection, as writeInternal and       *)
(* refreshPage call them, on blocks bs with the blocks `used` in use and   *)
(* nFree free.  The random loop draws until it holds RandomRange(n)        *)
(* distinct candidates: from no candidate at all weight.at throws, and     *)
(* from fewer candidates than that it never ends.                          *)
RunGc(bs, used, nFree, reclaim, ret) ==
    LET cands == VictimCandidates(bs, used) IN
    /\ reclaimMore' = FALSE
    /\ \E n \in ReclaimCounts(nFree, reclaim) :
         IF GcPolicy # "greedy" /\ RandomRange(n) > Cardinality(cands)
         THEN IF cands = {}
              THEN /\ fault' = "std::out_of_range" /\ UNCHANGED <<pc, gcVars>>
              ELSE /\ pc' = "victimSpin" /\ UNCHANGED <<fault, gcVars>>
         ELSE /\ \E list \in VictimLists(bs, cands, n) : StartGc(list, ret)
              /\ UNCHANGED fault

\* mutation: the old page is never invalidated
InvalidateMappedNone(bs, addrs) == bs

(* The invalidate() calls of writeInternal, trimInternal and format: each *)
(* mapped address of the set addrs loses its valid bit in its block.      *)
InvalidateMapped(bs, addrs) ==
    [b \in DOMAIN bs |->
        BlockInvalidatePages(bs[b], {a[2] : a \in {x \in addrs : x[1] = b}})]

-----------------------------------------------------------------------------
(* initialize(): the page counts of the warm-up, as uint64 truncations of  *)
(* the float products.  maxPagesBeforeGC leaves gc_threshold_ratio of the  *)
(* blocks and one block per stripe free; when fill and invalidation        *)
(* together exceed it, the invalidation count is cut to what is left.      *)
NumLogicalPages == Cardinality(LPNs)
WarmupPages     == (NumLogicalPages * FillNum) \div RatioDen
MaxPagesBeforeGC ==
    (PagesInBlock * (NumBlocks * (GcThresholdDen - GcThresholdNum)
                     - NumStripes * GcThresholdDen)) \div GcThresholdDen
InvalidatePages ==
    LET asked == (NumLogicalPages * InvalidNum) \div RatioDen
    IN  IF WarmupPages + asked > MaxPagesBeforeGC
        THEN IF WarmupPages <= MaxPagesBeforeGC
             THEN MaxPagesBeforeGC - WarmupPages
             ELSE WrappedCount   \* the uint64 difference wraps around
        ELSE asked

Init ==
    /\ blk = [b \in Blocks |-> NewBlock(InitEraseCount)]
    \* the constructor takes block i as the target of stripe i
    /\ inUse = Stripes
    /\ freeBlocks = [i \in 1 .. NumBlocks - NumStripes |-> NumStripes + i - 1]
    /\ lastFreeBlock = [s \in Stripes |-> s]
    /\ lastFreeBlockIndex = 0
    /\ reclaimMore = FALSE
    /\ table = [l \in LPNs |-> Unmapped]
    /\ bloom = [lv \in Levels |-> {}]
    /\ refreshTable = [k \in Keys |-> NoLevel]
    /\ refreshCallCount = 1
    /\ pc = IF WarmupPages > 0 THEN "fill"
            ELSE IF InvalidatePages > 0 THEN "invalidate" ELSE "idle"
    /\ warmI = 0
    /\ gcList = << >> /\ gcPage = 0 /\ gcErase = << >> /\ gcRet = "idle"
    /\ sweepLevel = 0 /\ sweepKeys = << >> /\ layerPages = << >>
    /\ fault = "none"

(* The Bloom levels writeInternal registers a freshly written page in:     *)
(* the top level always, level k below it when the predicted RBER after   *)
(* refresh_period * 2^k exceeds the ECC capability.                        *)
\* mutation: the registration loop stops before level 0 (i > 1)
RefreshLevelsFromLevel1(ec, layer) ==
    {TopLevel} \cup {k \in 1 .. TopLevel - 1 : RberExceeds(ec, layer, k)}

RefreshLevels(ec, layer) ==
    {TopLevel} \cup {k \in 0 .. TopLevel - 1 : RberExceeds(ec, layer, k)}

(* setRefreshPeriod for every level the key is inserted in: the key joins *)
(* each Bloom level, and refreshTable keeps the lowest level recorded.     *)
SetRefreshPeriod(key, regs) ==
    /\ bloom' = [lv \in Levels |->
                   IF lv \in regs THEN bloom[lv] \cup {key} ELSE bloom[lv]]
    /\ refreshTable' = [refreshTable EXCEPT ![key] =
              Min(regs \cup (IF @ = NoLevel THEN {} ELSE {@}))]

(* writeInternal(req, tick, sendToPAL) of a full page.  Only a write with *)
(* sendToPAL registers the page for refresh; one without it (the warm-up   *)
(* fill) panics where a GC would start.  That panic follows the write, but *)
(* the stopped simulator never uses the state it leaves.  Continue sets pc *)
(* and warmI when no GC starts.                                            *)
WriteInternal(l, d, sendToPAL, Continue) ==
    LET old  == table[l]
        t    == Target
        p    == blk[t].next
        key  == <<t, Layer(p)>>
        regs == RefreshLevels(blk[t].ec, Layer(p))
        invalidated == IF old = Unmapped THEN blk
                       ELSE InvalidateMapped(blk, {old})
        written == [invalidated EXCEPT ![t] = BlockWrite(@, p, l, d, sendToPAL)]
    IN
    \* blocks.find(mapping.first) is not checked: for a block not in use
    \* the dereference of end() reads a null node and the process crashes
    IF old # Unmapped /\ old[1] \notin inUse THEN Fail("Segfault")
    ELSE IF AllocFault # "none" THEN Fail(AllocFault)
    ELSE IF ~sendToPAL /\ GcNeeded(Len(AllocFreeBlocks))
    THEN Fail("ftl: GC triggered while in initialization")
    ELSE
      /\ blk' = written
      /\ table' = [table EXCEPT ![l] = <<t, p>>]
      /\ GetLastFreeBlock
      /\ IF sendToPAL THEN SetRefreshPeriod(key, regs)
                      ELSE UNCHANGED <<bloom, refreshTable>>
      /\ IF GcNeeded(Len(AllocFreeBlocks))
         THEN /\ RunGc(written, AllocInUse, Len(AllocFreeBlocks),
                       AllocReclaimMore, "idle")
              /\ UNCHANGED warmI
         ELSE /\ reclaimMore' = AllocReclaimMore
              /\ Continue
              /\ UNCHANGED <<gcVars, fault>>
      /\ UNCHANGED <<refreshCallCount, sweepVars>>

(* write(): writeInternal(req, tick, sendToPAL = true).                    *)
Write(l, d) ==
    /\ pc = "idle" /\ fault = "none"
    /\ WriteInternal(l, d, TRUE, pc' = "idle" /\ UNCHANGED warmI)

(* The LPNs initialize() writes at loop index warmI: sequential loops write *)
(* LPN i; the random ones draw from every LPN, or, for the invalidation of *)
(* FILLING_MODE_1, from the LPNs the sequential fill wrote.                *)
\* mutation: step 1 fills sequentially only in FILLING_MODE_0
WarmupLPNsRandomFill ==
    IF pc = "fill"
    THEN IF FillingMode = 0 THEN {warmI} ELSE LPNs
    ELSE CASE FillingMode = 0 -> {warmI}
           [] FillingMode = 1 -> 0 .. WarmupPages - 1
           [] OTHER           -> LPNs

WarmupLPNs ==
    IF pc = "fill"
    THEN IF FillingMode \in {0, 1} THEN {warmI} ELSE LPNs
    ELSE CASE FillingMode = 0 -> {warmI}
           [] FillingMode = 1 -> 0 .. WarmupPages - 1
           [] OTHER           -> LPNs

(* The next iteration of the warm-up loops: step 2 follows step 1, and the *)
(* simulation starts after step 2.                                         *)
WarmupNext ==
    IF pc = "fill" /\ warmI + 1 = WarmupPages
    THEN /\ pc' = IF InvalidatePages > 0 THEN "invalidate" ELSE "idle"
         /\ warmI' = 0
    ELSE IF pc = "invalidate" /\ warmI + 1 = InvalidatePages
    THEN /\ pc' = "idle" /\ warmI' = 0
    ELSE /\ warmI' = warmI + 1 /\ UNCHANGED pc

(* One writeInternal(req, tick, false) of initialize()'s warm-up loops.    *)
Warmup ==
    /\ pc \in {"fill", "invalidate"} /\ fault = "none"
    /\ \E l \in WarmupLPNs, d \in Datas : WriteInternal(l, d, FALSE, WarmupNext)

(* trim(): trimInternal; an unmapped LPN is left alone.                    *)
Trim(l) ==
    /\ pc = "idle" /\ fault = "none"
    /\ table[l] # Unmapped
    /\ IF table[l][1] \notin inUse THEN Fail("Block is not in use")
       ELSE /\ blk' = InvalidateMapped(blk, {table[l]})
            /\ table' = [table EXCEPT ![l] = Unmapped]
            /\ UNCHANGED <<reclaimMore, bloom, refreshTable, refreshCallCount,
                           pc, fault, allocVars, gcVars,
                           sweepVars, warmI>>

(* read(): readInternal; it changes only timing, but panics when the      *)
(* mapped block is not in use.                                             *)
Read(l) ==
    /\ pc = "idle" /\ fault = "none"
    /\ table[l] # Unmapped
    /\ IF table[l][1] \notin inUse THEN Fail("Block is not in use")
                                    ELSE UNCHANGED vars

\* mutation: the end of the range taken inclusively
InRangeInclusive(l, r) == r[1] <= l /\ l <= r[1] + r[2]

\* iter->first >= range.slpn && iter->first < range.slpn + range.nlp
InRange(l, r) == r[1] <= l /\ l < r[1] + r[2]

(* format(): trim every mapped LPN of the range, then doGarbageCollection  *)
(* on the sorted, de-duplicated list of the blocks they were in.          *)
Format(r) ==
    /\ pc = "idle" /\ fault = "none"
    /\ LET lpns  == {l \in LPNs : InRange(l, r) /\ table[l] # Unmapped}
           addrs == {table[l] : l \in lpns}
           list  == SetToSortSeq({a[1] : a \in addrs}, <)
       IN
       IF \E a \in addrs : a[1] \notin inUse THEN Fail("Block is not in use")
       ELSE /\ blk' = InvalidateMapped(blk, addrs)
            /\ table' = [l \in LPNs |-> IF l \in lpns THEN Unmapped ELSE table[l]]
            /\ StartGc(list, "idle")
            /\ UNCHANGED <<reclaimMore, bloom, refreshTable, refreshCallCount,
                           fault, allocVars, sweepVars, warmI>>

-----------------------------------------------------------------------------
(* doGarbageCollection, first loop: one page of the victim at the head of  *)
(* gcList.  A valid page is copied to the page getLastFreeBlock hands out, *)
(* the source invalidated and the mapping of its LPN moved to the copy.   *)
\* mutation: the page loop runs to pagesInBlock inclusive
GcAdvancePastEnd ==
    IF gcPage = PagesInBlock
    THEN IF Len(gcList) = 1
         THEN /\ pc' = "gcErase" /\ gcList' = << >> /\ gcPage' = 0
         ELSE /\ gcList' = Tail(gcList) /\ gcPage' = 0 /\ UNCHANGED pc
    ELSE /\ gcPage' = gcPage + 1 /\ UNCHANGED <<pc, gcList>>

GcAdvance ==
    IF gcPage = PagesInBlock - 1
    THEN IF Len(gcList) = 1
         THEN /\ pc' = "gcErase" /\ gcList' = << >> /\ gcPage' = 0
         ELSE /\ gcList' = Tail(gcList) /\ gcPage' = 0 /\ UNCHANGED pc
    ELSE /\ gcPage' = gcPage + 1 /\ UNCHANGED <<pc, gcList>>

(* The copy of GC and refresh: page p of block v, holding LPN l, is        *)
(* invalidated and rewritten at the next page of the target that          *)
(* getLastFreeBlock returns, and the mapping of l moves there.            *)
\* mutation: the mapping set to the source page index, not the new one
MovePageToSourceIndex(v, p, l) ==
    LET t == Target  q == blk[t].next
    IN  /\ blk' = [[blk EXCEPT ![v] = BlockInvalidate(@, p)]
                     EXCEPT ![t] = BlockWrite(@, q, l, blk[v].data[p], FALSE)]
        /\ table' = [table EXCEPT ![l] = <<t, p>>]

MovePage(v, p, l) ==
    LET t == Target  q == blk[t].next
    IN  /\ blk' = [[blk EXCEPT ![v] = BlockInvalidate(@, p)]
                     EXCEPT ![t] = BlockWrite(@, q, l, blk[v].data[p], FALSE)]
        /\ table' = [table EXCEPT ![l] = <<t, q>>]

GcCopy ==
    /\ pc = "gcCopy" /\ fault = "none"
    /\ LET v == Head(gcList)
           p == gcPage
           l == blk[v].lpn[p]
       IN
       IF p = 0 /\ v \notin inUse THEN Fail("Invalid block")
       ELSE IF p \notin blk[v].valid
       THEN /\ GcAdvance
            /\ UNCHANGED <<blk, table, reclaimMore, bloom, refreshTable,
                           refreshCallCount, fault, allocVars,
                           gcErase, gcRet, sweepVars, warmI>>
       ELSE IF AllocFault # "none" THEN Fail(AllocFault)
       ELSE IF table[l] = Unmapped THEN Fail("Invalid mapping table entry")
       ELSE /\ MovePage(v, p, l)
            /\ GetLastFreeBlock
            /\ reclaimMore' = AllocReclaimMore
            /\ GcAdvance
            /\ UNCHANGED <<bloom, refreshTable, refreshCallCount, fault,
                           gcErase, gcRet, sweepVars, warmI>>

\* mutation: the erased block pushed to the front of the free list
InsertAtFront(list, b, ec) == <<b>> \o list

(* eraseInternal: the reverse search of the free list for the first block  *)
(* whose erase count is <= the erased one, insertion after it (at the     *)
(* front when there is none; into an empty list when the list is empty,   *)
(* the outcome the UB of iter-- on an empty std::list has in libstdc++).  *)
InsertByWear(list, b, ec) ==
    LET i == SelectLastInSeq(list, LAMBDA f : blk[f].ec <= ec)
    IN  InsertAt(list, i + 1, b)

\* mutation: a block is retired only past the threshold (<= for <)
BelowOrAtThreshold(n) == n <= BadBlockThreshold

\* eraseInternal: erasedCount < threshold keeps the block in service
BelowThreshold(n) == n < BadBlockThreshold

(* doGarbageCollection, last loop: eraseInternal of the head of gcErase.  *)
GcEraseBlock ==
    /\ pc = "gcErase" /\ fault = "none"
    /\ LET v  == Head(gcErase)
           nb == BlockErase(blk[v])
       IN
       IF v \notin inUse THEN Fail("No such block")
       ELSE IF ValidPageCount(blk[v]) # 0
       THEN Fail("There are valid pages in victim block")
       ELSE /\ blk' = [blk EXCEPT ![v] = nb]
            /\ inUse' = inUse \ {v}
            /\ freeBlocks' = IF BelowThreshold(nb.ec)
                             THEN InsertByWear(freeBlocks, v, nb.ec)
                             ELSE freeBlocks
            /\ gcErase' = Tail(gcErase)
            /\ IF Len(gcErase) = 1 THEN /\ pc' = gcRet /\ gcRet' = "idle"
                                   ELSE UNCHANGED <<pc, gcRet>>
            /\ UNCHANGED <<table, reclaimMore, bloom, refreshTable,
                           refreshCallCount, fault, lastFreeBlock,
                           lastFreeBlockIndex, gcList, gcPage, sweepVars, warmI>>

-----------------------------------------------------------------------------
(* calculateTotalPages: the valid and the dirty pages of the blocks in    *)
(* use, which initialize() reports against its two targets.               *)
CalculateTotalPages ==
    <<MapThenSumSet(LAMBDA b : ValidPageCount(blk[b]), inUse),
      MapThenSumSet(LAMBDA b : DirtyPageCount(blk[b]), inUse)>>

-----------------------------------------------------------------------------
(* calculateWearLeveling, the wear statistic getStatValues reports: the   *)
(* erase counts of every block in use, then of the free list from its     *)
(* tail back to its first zero count, where the loop breaks.  It returns  *)
(* -1 (here <<-1, 1>>) when the sum of squares is 0, and otherwise Jain's *)
(* index total^2 / (numOfBlocks * squares), kept as the exact fraction    *)
(* <<numerator, denominator>>.  numOfBlocks is totalLogicalBlocks.         *)
NumLogicalBlocks == NumLogicalPages \div PagesInBlock

WearTotals(S) ==
    <<MapThenSumSet(LAMBDA b : blk[b].ec, S),
      MapThenSumSet(LAMBDA b : blk[b].ec * blk[b].ec, S)>>

WearIndex(t) == IF t[2] = 0 THEN <<-1, 1>> ELSE <<t[1] * t[1], NumLogicalBlocks * t[2]>>

WearCountedBlocks ==
    LET z == SelectLastInSeq(freeBlocks, LAMBDA f : blk[f].ec = 0)
    IN  inUse \cup Range(SubSeq(freeBlocks, z + 1, Len(freeBlocks)))

CalculateWearLeveling == WearIndex(WearTotals(WearCountedBlocks))

-----------------------------------------------------------------------------
(* refresh_event picks the level to sweep from refreshCallCount: shift    *)
(* right while the low bit is 0, at most up to the top level.  A count of  *)
(* 0 (after resetStatValues) therefore sweeps the top level.               *)
RECURSIVE SweepLevelFrom(_, _)
SweepLevelFrom(rc, t) ==
    IF t < TopLevel /\ rc % 2 = 0 THEN SweepLevelFrom(rc \div 2, t + 1) ELSE t

\* the (block, layer) keys in the order of refresh_event's two loops
KeyOrder == [i \in 1 .. NumBlocks * NumLayer |->
                <<(i - 1) \div NumLayer, (i - 1) % NumLayer>>]

\* the pages refreshPage visits for a layer: layer, layer + 64, ...
LayerPageOrder(layer) ==
    [i \in 1 .. PagesInBlock \div NumLayer |-> layer + (i - 1) * NumLayer]

(* The periodic refresh event fires (it is only scheduled when             *)
(* refresh_period > 0).                                                    *)
RefreshFire ==
    /\ RefreshEnabled /\ pc = "idle" /\ fault = "none"
    /\ refreshCallCount < MaxRefreshCalls
    /\ sweepLevel' = SweepLevelFrom(refreshCallCount, 0)
    /\ sweepKeys' = KeyOrder
    /\ pc' = "sweep"
    /\ UNCHANGED <<blk, table, reclaimMore, bloom, refreshTable,
                   refreshCallCount, fault, allocVars, gcVars,
                   layerPages, warmI>>

(* refresh_event, body of the loops: test the key at the head of           *)
(* sweepKeys against the Bloom filter of the level; on a hit, refreshPage  *)
(* starts, with a GC first when free blocks are short.                     *)
SweepKey ==
    /\ pc = "sweep" /\ fault = "none" /\ sweepKeys # << >>
    /\ LET k == Head(sweepKeys) IN
       \E hit \in IF k \in bloom[sweepLevel] THEN {TRUE}
                  ELSE IF BloomFalsePositives THEN BOOLEAN ELSE {FALSE} :
         IF ~hit
         THEN /\ sweepKeys' = Tail(sweepKeys)
              /\ UNCHANGED <<blk, table, reclaimMore, bloom, refreshTable,
                             refreshCallCount, pc, fault,
                             allocVars, gcVars, sweepLevel, layerPages, warmI>>
         ELSE /\ layerPages' = LayerPageOrder(k[2])
              /\ IF GcNeeded(Len(freeBlocks))
                 THEN RunGc(blk, inUse, Len(freeBlocks), reclaimMore,
                            "refreshLayer")
                 ELSE /\ pc' = "refreshLayer"
                      /\ UNCHANGED <<reclaimMore, gcVars, fault>>
              /\ UNCHANGED <<blk, table, bloom, refreshTable, refreshCallCount,
                             allocVars, sweepLevel,
                             sweepKeys, warmI>>

(* refreshPage, after its GC: one page of the layer.  The block found in   *)
(* use is the test of the whole block's valid page count, not of the      *)
(* page's; the page's recorded LPN is looked up in the mapping table and  *)
(* a missing entry is skipped ("continue").                               *)
RefreshCopy ==
    /\ pc = "refreshLayer" /\ fault = "none"
    /\ LET b == Head(sweepKeys)[1]
           p == Head(layerPages)
           l == blk[b].lpn[p]
           EndLayer == /\ layerPages' = << >>
                       /\ sweepKeys' = Tail(sweepKeys)
                       /\ pc' = "sweep"
           NextPage == IF Len(layerPages) = 1 THEN EndLayer
                       ELSE /\ layerPages' = Tail(layerPages)
                            /\ UNCHANGED <<sweepKeys, pc>>
       IN
       IF b \notin inUse    \* a Bloom hit on a block that is not in use
       THEN /\ EndLayer
            /\ UNCHANGED <<blk, table, reclaimMore, bloom, refreshTable,
                           refreshCallCount, fault, allocVars,
                           gcVars, sweepLevel, warmI>>
       ELSE IF ValidPageCount(blk[b]) = 0
       THEN /\ NextPage
            /\ UNCHANGED <<blk, table, reclaimMore, bloom, refreshTable,
                           refreshCallCount, fault, allocVars,
                           gcVars, sweepLevel, warmI>>
       ELSE IF AllocFault # "none" THEN Fail(AllocFault)
       ELSE IF l = NoLPN \/ table[l] = Unmapped
       THEN /\ blk' = [blk EXCEPT ![b] = BlockInvalidate(@, p)]
            /\ GetLastFreeBlock
            /\ reclaimMore' = AllocReclaimMore
            /\ NextPage
            /\ UNCHANGED <<table, bloom, refreshTable, refreshCallCount, fault,
                           gcVars, sweepLevel, warmI>>
       ELSE /\ MovePage(b, p, l)
            /\ GetLastFreeBlock
            /\ reclaimMore' = AllocReclaimMore
            /\ NextPage
            /\ UNCHANGED <<bloom, refreshTable, refreshCallCount, fault,
                           gcVars, sweepLevel, warmI>>

(* The end of refresh_event: stat.refreshCallCount++.  Every valid page    *)
(* has now lived through one more refresh event.                           *)
SweepDone ==
    /\ pc = "sweep" /\ fault = "none" /\ sweepKeys = << >>
    /\ refreshCallCount' = refreshCallCount + 1
    /\ blk' = [b \in Blocks |-> [blk[b] EXCEPT !.age = [p \in Pages |->
                 IF p \in blk[b].valid /\ @[p] < MaxAge THEN @[p] + 1
                 ELSE @[p]]]]
    /\ pc' = "idle"
    /\ UNCHANGED <<table, reclaimMore, bloom, refreshTable, fault,
                   allocVars, gcVars, sweepVars, warmI>>

(* resetStatValues: memset(&stat, 0), refreshCallCount included.           *)
ResetStatValues ==
    /\ pc = "idle" /\ fault = "none" /\ refreshCallCount # 0
    /\ refreshCallCount' = 0
    /\ UNCHANGED <<blk, table, reclaimMore, bloom, refreshTable, pc, fault,
                   allocVars, gcVars, sweepVars, warmI>>

-----------------------------------------------------------------------------
Next ==
    \/ \E l \in LPNs, d \in Datas : Write(l, d)
    \/ \E l \in LPNs : Trim(l) \/ Read(l)
    \/ \E r \in FormatRanges : Format(r)
    \/ GcCopy \/ GcEraseBlock
    \/ RefreshFire \/ SweepKey \/ RefreshCopy \/ SweepDone
    \/ ResetStatValues
    \/ Warmup

Spec == Init /\ [][Next]_vars

(* The GC and refresh steps are iterations of loops that run inside one    *)
(* call of writeInternal, format, refresh_event or refreshPage: the        *)
(* single-threaded simulator does not return to its event queue until the *)
(* loop is done, so once enabled they are taken.                          *)
FairSpec ==
    /\ Spec
    /\ WF_vars(GcCopy) /\ WF_vars(GcEraseBlock)
    /\ WF_vars(SweepKey) /\ WF_vars(RefreshCopy) /\ WF_vars(SweepDone)

-----------------------------------------------------------------------------
(* Properties.                                                              *)

TypeOK ==
    /\ blk \in [Blocks -> BlockType(LPNs, Datas, MaxAge)]
    /\ inUse \subseteq Blocks
    /\ freeBlocks \in Seq(Blocks)
    /\ table \in [LPNs -> (Blocks \X Pages) \cup {Unmapped}]
    /\ lastFreeBlock \in [Stripes -> Blocks]
    /\ lastFreeBlockIndex \in Stripes
    /\ reclaimMore \in BOOLEAN
    /\ bloom \in [Levels -> SUBSET Keys]
    /\ refreshTable \in [Keys -> Levels \cup {NoLevel}]
    /\ refreshCallCount \in 0 .. MaxRefreshCalls
    /\ pc \in {"idle", "gcCopy", "gcErase", "sweep", "refreshLayer",
              "victimSpin", "fill", "invalidate"}
    /\ gcList \in Seq(Blocks) /\ gcErase \in Seq(Blocks) /\ gcPage \in Pages
    /\ gcRet \in {"idle", "refreshLayer"}
    /\ sweepLevel \in Levels /\ sweepKeys \in Seq(Keys)
    /\ layerPages \in Seq(Pages)
    /\ warmI \in 0 .. NumLogicalPages
    /\ fault \in Faults

(* Every garbage collection and refresh sweep that starts, nested ones     *)
(* included (the GC refreshPage runs before its copies), comes back to the *)
(* idle state the next request needs, unless it panics: the victim list,   *)
(* the page loop, the key loop and the layer loop all end.                 *)
OperationsComplete == pc # "idle" ~> (pc = "idle" \/ fault # "none")

(* No panic() is reached: no request, GC or refresh finds the free list    *)
(* empty, a current write target erased, a victim still holding valid      *)
(* pages, or a valid page whose LPN has no mapping.                        *)
NoPanic == fault = "none"

(* The mapping table and the blocks agree (spec.md 8, invariant 1, and its *)
(* converse): a mapped LPN points at a valid page of a block in use that   *)
(* records that LPN, and every valid page is where its LPN is mapped, so   *)
(* no valid page is orphaned.  writeInternal, trim, format, the GC copy    *)
(* loop and refreshPage all rewrite the two together.                      *)
MappingConsistent ==
    /\ \A l \in LPNs : table[l] # Unmapped =>
          LET b == table[l][1]  p == table[l][2]
          IN  b \in inUse /\ p \in blk[b].valid /\ blk[b].lpn[p] = l
    /\ \A b \in inUse, p \in Pages :
          p \in blk[b].valid => table[blk[b].lpn[p]] = <<b, p>>

(* Every block is exactly one of: in use, on the free list (once), or      *)
(* retired after reaching the bad-block threshold (spec.md 8, invariant    *)
(* 3), across getFreeBlock's moves into `blocks` and eraseInternal's moves *)
(* back.                                                                   *)
BlockPartition ==
    /\ inUse \cap Range(freeBlocks) = {}
    /\ IsInjective(freeBlocks)
    /\ \A b \in Blocks \ (inUse \cup Range(freeBlocks)) :
          blk[b].ec >= BadBlockThreshold

(* Between requests every stripe's current write target (lastFreeBlock) is *)
(* a block in use, so the next getLastFreeBlock does not panic "Corrupted". *)
(* A target is replaced only lazily, when it is next used full, so a full  *)
(* target with no valid page is a legal GC victim until then: the GC of a  *)
(* refresh, or of a write to another stripe, may erase it.                 *)
TargetsInUse ==
    pc = "idle" => \A s \in Stripes : lastFreeBlock[s] \in inUse

(* The free list stays sorted by ascending erase count (spec.md 8,         *)
(* invariant 5), the order eraseInternal's reverse search relies on and    *)
(* getFreeBlock's wear levelling assumes.                                  *)
FreePoolSorted ==
    IsSorted(freeBlocks, LAMBDA a, b : blk[a].ec <= blk[b].ec)

(* calculateWearLeveling's early break at the first zero erase count from *)
(* the tail of the free list ("freeBlocks is sorted") loses no wear: the  *)
(* statistic is the index of every block in use or free, retired ones     *)
(* aside, through any mix of GC erases, retirements and format.           *)
WearStatExact ==
    CalculateWearLeveling = WearIndex(WearTotals(inUse \cup Range(freeBlocks)))

(* initialize() reports calculateTotalPages against nPagesToWarmup and   *)
(* nPagesToInvalidate.  For FILLING_MODE_1 its comment says drawing the    *)
(* invalidations from the LPNs the sequential fill wrote creates the       *)
(* "exact number of invalid pages": when the warm-up loops finish, every   *)
(* filled LPN has one valid page and exactly nPagesToInvalidate pages are  *)
(* invalid, repeated draws of one LPN and block switches included.         *)
WarmupExact ==
    [][(pc \in {"fill", "invalidate"} /\ pc' = "idle" /\ FillingMode = 1)
         => (CalculateTotalPages' = <<WarmupPages, InvalidatePages>>)]_vars

(* The FTL implements a logical disk: what the mapping of each LPN points  *)
(* at is the data of the last host write to it, whatever GC and refresh    *)
(* have moved in between.                                                  *)
DiskView ==
    [l \in LPNs |-> IF table[l] = Unmapped THEN Unmapped
                    ELSE blk[table[l][1]].data[table[l][2]]]
Disk == INSTANCE LogicalDisk WITH disk <- DiskView
DiskRefinement == Disk!Spec

(* The FTL implements the block pool of spec.md 4.3: every getFreeBlock    *)
(* hands out a least-worn free block of the stripe it serves (of all free *)
(* blocks when the stripe has none), and every eraseInternal returns the  *)
(* block one P/E cycle older to the pool or, at the bad-block threshold,  *)
(* retires it; a block leaves neither state otherwise.  The free list's   *)
(* order, kept by the reverse search of eraseInternal, is what makes       *)
(* "first of the stripe" the least worn.                                   *)
PoolState ==
    [b \in Blocks |-> IF b \in inUse THEN "active"
                      ELSE IF b \in Range(freeBlocks) THEN "free"
                      ELSE "retired"]
Pool == INSTANCE BlockPool WITH state <- PoolState,
                                ec <- [b \in Blocks |-> blk[b].ec],
                                target <- lastFreeBlock
PoolRefinement == Pool!PoolSpec

(* The refresh interval the error model asks for, on the code's reading:  *)
(* the lowest level k whose period * 2^k already gives an RBER over the    *)
(* ECC limit, else the top level.                                          *)
NeedLevel(b, p) ==
    Min({TopLevel} \cup {k \in 0 .. TopLevel - 1 : RberExceeds(blk[b].ec, Layer(p), k)})

(* A page a host write put in place is refreshed (moved) before it has     *)
(* lived through 2^NeedLevel refresh events: the level schedule of         *)
(* refresh_event, the registration loop of writeInternal, the Bloom hits   *)
(* and the layer loop of refreshPage together must guarantee it.           *)
HostWriteRetention ==
    \A b \in inUse, p \in Pages :
        p \in blk[b].host => blk[b].age[p] < 2^NeedLevel(b, p)

(* The same for every valid page, the copies GC and refresh make included *)
(* (spec.md 1: pages whose retention has expired are rewritten).          *)
RetentionBound ==
    \A b \in inUse, p \in Pages :
        p \in blk[b].valid => blk[b].age[p] < 2^NeedLevel(b, p)

\* the least k with n <= 2^k
RECURSIVE CeilLog2(_)
CeilLog2(n) == IF n <= 1 THEN 0 ELSE 1 + CeilLog2((n + 1) \div 2)

(* A host-written page that has lived through `age` refresh events has     *)
(* been in the flash for less than (age + 1) refresh periods.  No such     *)
(* page is kept beyond a time at which its predicted RBER exceeds the ECC  *)
(* limit (spec.md 1, and 4.2 step 6, which registers level i - 1 when the  *)
(* RBER after period * 2^i exceeds it).  Pages whose RBER exceeds the      *)
(* limit within one period cannot be protected by any schedule and are     *)
(* left out.                                                               *)
RetentionWithinEcc ==
    \A b \in inUse, p \in Pages :
        (p \in blk[b].host /\ ~RberExceeds(blk[b].ec, Layer(p), 0)) =>
            ~RberExceeds(blk[b].ec, Layer(p), CeilLog2(blk[b].age[p] + 1))
=============================================================================
