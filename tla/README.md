# TLA+ models of the SimpleSSD page-mapped FTL

This directory models `src/simplessd/ftl/page_mapping.cc`, the page-mapped flash translation
layer (FTL) of SimpleSSD, with its Bloom-filter refresh extension. TLC checks the models.

## The system

`PageMapping` serves four kinds of host request: `read`, `write`, `trim` and `format`. It keeps
these structures:

- `table`: the mapping from each logical page (LPN) to a `<block, page>` pair.
- `blocks`: the blocks in use.
- `freeBlocks`: the free blocks, sorted by erase count.
- `lastFreeBlock`: one current write target per stripe (`pageCountToMaxPerf`).

Writes go out of place:

- `writeInternal` invalidates the old page and writes the next page of a target, which
  `getLastFreeBlock` hands out.
- `getLastFreeBlock` replaces a full target lazily, on its next use, with a block from
  `getFreeBlock`.
- When the free-block ratio falls below the GC threshold, `selectVictimBlock` and
  `doGarbageCollection` reclaim victims.
  - The number of victims is fixed in `GC_MODE_0`. In `GC_MODE_1` it is
    `totalPhysicalBlocks * t - nFreeBlocks`, plus `pageCountToMaxPerf` after a target
    filled.
  - Only full blocks are candidates. Greedy takes those with the fewest valid pages.
    Random and d-choice first draw `nBlocks` or `dChoiceParam * nBlocks` distinct candidates
    at random, then keep the lowest of the draw.
  - GC first copies every valid page of every victim, then erases the victims.
- `eraseInternal` puts each erased block back into the free list in erase-count order, or
  retires it at the bad-block threshold.

Refresh:

- A periodic `refresh_event` picks a Bloom level from the trailing zero bits of
  `stat.refreshCallCount`.
- It tests every (block, layer) key against that level's filter. On a hit it calls
  `refreshPage`, which first runs a GC if free blocks are short, then copies the pages of that
  layer.
- `writeInternal` registers each page written by the host in the top level. It also registers
  the page in every lower level whose predicted RBER exceeds the ECC limit, through
  `setRefreshPeriod`.

Before any request, `initialize()` warms the drive up. It writes a fill ratio of the logical
pages, then an invalid-page ratio more, sequentially or at random by filling mode, through
`writeInternal(sendToPAL = false)`. Those writes are not registered for refresh, and a GC
among them panics. The invalidation count is cut so that both loops fit `maxPagesBeforeGC`.

`getStatValues` reports `calculateWearLeveling`, Jain's index of the erase counts. It walks
the free list backwards and stops at the first zero count, relying on the list's order.

The simulator is single-threaded, so each request and each event runs to completion.

## Modules

| Module | Models |
|---|---|
| `FlashBlock` | The `Block` class. It is not in `src/`, so it is modelled from `spec.md`. A block is a record: next write page, erase count, valid pages, LPN of each page, plus three ghost fields. `data` holds the content, `age` the refresh events lived through, and `host` the pages a host write put in place. Invalidation clears them. |
| `LogicalDisk` | What the FTL promises: a map from LPN to the last data written, with write, trim and format. |
| `BlockPool` | What the free-block pool promises (`spec.md` 4.3 and 4.7). Each block is free, active or retired, with an erase count, and each stripe has a write target. `Allocate(s, b)` makes `b` active and the target of stripe `s`. `b` must be a least-worn free block of stripe `s`, or of all free blocks when the stripe has none. `Erase(b)` adds one to the count of an active block. It then frees the block, or retires it once the count reaches the threshold. |
| `PageMapping` | The FTL itself. Its variables are the fields of `PageMapping`, plus a program counter `pc` and the loop state of the two long operations (`gcList`, `gcPage`, `gcErase`, `gcRet`; `sweepLevel`, `sweepKeys`, `layerPages`). A `fault` variable records the message of a `panic()`. |
| `MCPageMapping` | Instantiates `PageMapping` for TLC. It gives the error-model predicate, the format ranges, the wear bound `WearBound` (a state constraint) and the symmetry over data values. |

The actions of `PageMapping`, and the code each one models (`PROJECT.json` "map" gives the
lines):

- `Write`, `Trim`, `Read` and `Format` are the whole handlers. They cover the unchecked
  `blocks.find` in `writeInternal`, `getLastFreeBlock`, Bloom registration, and the GC trigger
  and victim selection.
- `WriteInternal(l, d, sendToPAL, Continue)` is `writeInternal`, shared by `Write` and
  `Warmup`. `Continue` says where control goes when no GC is needed.
- `Warmup` is one iteration of `initialize()`'s fill or invalidation loop (`pc` "fill" or
  "invalidate", index `warmI`). Random LPNs are a choice over the range `dist` draws from.
- `RunGc` is `selectVictimBlock`. `ReclaimCounts` gives the victim count. When the count is
  negative in `GC_MODE_1`, its conversion to `uint64_t` is undefined, so both outcomes the
  build produces are kept: 0, and a wrapped value (`WrappedCount`, which `MIN` with
  `weight.size()` turns into "all candidates"). A random draw that cannot finish sets `pc` to
  "victimSpin", which no step leaves. With no candidate at all the draw throws
  `std::out_of_range`.
- A GC is one action per page of a victim (`GcCopy`: `doGarbageCollection`'s copy loop) and one
  per victim erase (`GcEraseBlock`: `eraseInternal`).
- A refresh event is several actions:
  - `RefreshFire`: the event fires.
  - `SweepKey`: one key of the loops, with the GC `refreshPage` starts with.
  - `RefreshCopy`: one page of the layer loop.
  - `SweepDone`: `refreshCallCount++`.
- `ResetStatValues` models `resetStatValues`, which zeroes `refreshCallCount`.

While `pc # "idle"`, no request or event can start, as in the single-threaded code.

Every `panic()` of the code becomes `Fail(msg)`, which stops the run. The unchecked dereference
in `writeInternal` becomes `Fail("Segfault")`.

`CalculateWearLeveling` models `calculateWearLeveling` as an exact fraction. `CalculateTotalPages` models
`calculateTotalPages`: the valid and dirty pages of the blocks in use. `initialize()` reports it
against its two targets, and `WarmupExact` checks it when the warm-up ends.

`DiskView` maps each LPN to the ghost data at its mapped page. `DiskRefinement` checks that
`PageMapping` implements `LogicalDisk` (`INSTANCE ... WITH disk <- DiskView`).

`PoolRefinement` checks that `PageMapping` implements `BlockPool`. The mapping is:
- `state` comes from `blocks` (active) and `freeBlocks` (free); any other block is retired;
- `ec` is each block's erase count;
- `target` is `lastFreeBlock`.

`getFreeBlock` only looks for the first free block of the stripe. That block is the least worn
only because `eraseInternal`'s reverse search keeps the list sorted. Lazy target replacement,
format's GC and retirement must all keep the two in step. Steps that change none of these
variables, such as copies, mapping changes and refresh, are stuttering steps of the pool.

## Runs

All runs use `MCPageMapping`, 2 pages per block, one or two stripes, one or two layers, and one
or two Bloom levels. `WearBound` stops exploration past `MaxEraseCount` erases per block.
`DataSymmetry` permutes the data values; no property names a particular value.

| Run | Expect | Checks | What it shows |
|---|---|---|---|
| `gc` | pass | `TypeOK`, `NoPanic`, `MappingConsistent`, `BlockPartition`, `FreePoolSorted`, `WearStatExact`, `DiskRefinement`, `PoolRefinement` | The setting is 4 blocks, 3 LPNs, a GC threshold of 1/2 and a random warm-up (fill 1/3, invalidation 2/3, cut to the budget of 2 pages). The warm-up never triggers GC, and writes, trims and reads with greedy GC never panic. The table and blocks agree both ways. Each block is in use, free (once) or retired. The free list stays in wear order. The wear statistic's early break drops no erase count. The FTL refines a logical disk and the block pool, so each new target is a least-worn free block. |
| `stripes` | pass | `PoolRefinement` | Two stripes, `GC_MODE_1` with the reclaim threshold equal to the GC threshold, and a sequential warm-up. Each new target is a least-worn free block of its own stripe, or of all free blocks when the stripe has none. |
| `refresh` | pass | `HostWriteRetention` | Pages written by the host are moved before they outlive 2^level refresh events. This holds with Bloom false positives and with stats resets that restart the level schedule. |
| `format` | pass | `MappingConsistent`, `BlockPartition`, `DiskRefinement`, `PoolRefinement`, `WarmupExact` | The setting is 4 blocks, 2 LPNs and a `FILLING_MODE_1` warm-up that fills both LPNs and invalidates one. The warm-up ends with exactly 2 valid pages and 1 invalid page, the "exact number" the code's comment promises, even though it switches to a new block partway through. `format` of one LPN keeps the mapping consistent and refines the abstract format. The bad-block threshold is 2, so blocks are retired here, and retired blocks stay out of both `blocks` and the free list. Retirement happens exactly at the threshold, as the block pool requires. |
| `refresh_stale` | violation | `MappingConsistent` | Refresh remaps an LPN to a copy of its stale page. |
| `refresh_panic` | violation | `NoPanic` | One refresh event uses up the free list: the first `refreshPage` copies into the last free block, and the GC of the next `refreshPage` finds none: "No free block left". |
| `refresh_target` | violation | `TargetsInUse` | `refreshPage`'s GC erases the current write target. The next write panics "Corrupted". |
| `write_gc_target` | violation | `TargetsInUse` | Five blocks, two stripes, GC below a free ratio of 3/5. A write to stripe 1 allocates and triggers GC, which erases stripe 0's full, fully overwritten target; `lastFreeBlock[0]` still names it, and the next write to stripe 0 panics "Corrupted". |
| `format_panic` | violation | `NoPanic` | `format`'s GC erases the current target. The next write panics "Corrupted". |
| `retention_copies` | violation | `RetentionBound` | Pages the warm-up writes, and copies made by GC and refresh, are never registered in the Bloom filters. The run starts with a one-page warm-up. TLC shows the copy route; without host writes it shows the warm-up route. |
| `retention_level` | violation | `RetentionWithinEcc` | The registration loop uses `2^(i-1)` where spec 4.6 step 6 uses `2^i`, so a page is kept one level too long. |
| `victim_spin` | violation | `OperationsComplete` | Under d-choice, `selectVictimBlock` needs `2 * 2` distinct full blocks when only 2 exist. Its draw loop never ends, and the write never returns. |

The findings in `PROJECT.json` describe each violation: the code lines and the short trace TLC
gives.

For each property of a passing run, a mutant in `PROJECT.json` replaces one mapped definition
with a plausible bug, and TLC finds the property violated:

- an off-by-one in a loop bound;
- a missing invalidate;
- a missing `freeBlocks.erase`;
- an erased block pushed to the front of the free list;
- the source page index in a remap;
- registration stopping before level 0;
- an inclusive range end;
- `getFreeBlock` searching from the back of the list;
- `getFreeBlock` dropping the stripe filter;
- a retirement test of `<=` where the code has `<`;
- a `FILLING_MODE_1` fill that draws its LPNs at random.

The `victim_spin` hazard needs fairness to show: `FairSpec` makes every enabled loop step
happen, and "victimSpin" has none.

### Bounds

- Two pages per block is the smallest size with a partly valid full block. That is what makes
  greedy victim choice and the copy loop matter.
- The `gc` run needs 4 blocks and 3 LPNs at threshold 1/2. With fewer, a GC never finds a full
  victim that still holds a valid page, so it never copies one.
- The refresh runs use 3 blocks, 2 layers and 2 levels: the smallest setting in which a key can
  be in level 0 and not level 1, and a sweep of level 1 happens (`refreshCallCount` 2).
- `MaxRefreshCalls` 3 covers the counts 1 and 2, and the reset to 0, so both levels are swept.
- `MaxAge` 2 is the largest age a level-1 page may reach.
- `MaxEraseCount` 1–2 lets every block be erased and reused.
- The bad-block threshold is 2 only in `format`, which does not check deadlock. When blocks
  retire with 3 LPNs still mapped, the drive wears out and `getFreeBlock` rightly panics "No
  free block left". That end of life would be a false alarm for `NoPanic` in `gc`, so `gc` keeps
  the threshold out of reach.

- In `format` the fill (2 pages) fills block 0 exactly, so the invalidation draw writes to the
  next block. With 4 blocks the free list holds up to 3 blocks of different wear, enough for the
  least-worn choice of `PoolRefinement` to matter.
- Warm-up ratios in `gc` are thirds of the 3 LPNs. There the asked invalidation (2 pages) exceeds
  the budget and is cut to 1, so the adjustment runs and the warm-up ends at
  `maxPagesBeforeGC`, the budget the code computes. That budget is conservative: a GC
  would start only a few writes later. `format` uses
  filling mode 1 and `stripes` mode 0, so every mode is covered.
- `MCPageMapping` assumes ratios of at most 1. It also assumes that `FILLING_MODE_0` fills within
  the budget, and that `FILLING_MODE_1` has a non-empty fill. Outside that range the code's
  unsigned counts wrap and LPNs leave the drive (hazards at lines 120 and 172).
- A fill above the budget is modelled: `InvalidatePages` becomes `WrappedCount`. With the `gc`
  constants and a fill of all 3 LPNs, TLC shows the fill completing and the invalidation loop
  running into "ftl: GC triggered while in initialization". The passing runs keep the fill
  within the budget.

Each violation appears within 7–39 states, well inside these bounds.

### Fairness

`FairSpec` puts weak fairness only on the loop steps: `GcCopy`, `GcEraseBlock`, `SweepKey`,
`RefreshCopy` and `SweepDone`. Each is an iteration of a loop inside one call of
`writeInternal`, `format`, `refresh_event` or `refreshPage`. The simulator's event engine does
not run anything else until that call returns, so once such a step is enabled, it is taken.

Host requests and refresh events get no fairness, because the host may stop issuing them.

Only `victim_spin` uses `FairSpec`. With the greedy policy every loop of a GC or a sweep is a
bounded `for` over a finite list, so its termination says nothing about the code; the one loop
that may not end is the random and d-choice draw of `selectVictimBlock`, which `victim_spin`
shows spinning.

## Not modelled

- The random-I/O tweak (sub-page mappings). `bitsetSize` is fixed at 1, as with the refresh
  configuration. With the tweak on, `writeInternal` takes a page from
  `Block::getNextWritePageIndex(idx)` for each I/O unit. `Block` is not in `src/`.
  `spec.md` 4.1 calls a block full only when every unit pointer has reached the end, so a
  model would have to guess where a unit writes once its own pointer is past the last page.
  That guess would reach every property. One consequence needs no guess, and is listed as a
  hazard at line 1471: a unit never written keeps the sentinel mapping
  `{totalPhysicalBlocks, pagesInBlock}`, and a later trim or format of the LPN panics
  "Block is not in use".
- The cost-benefit victim policy. Its weight `u / ((1 - u) * (tick - lastAccessedTime))`
  depends on simulated time and on a `Block` field outside `src/`. With 2 pages per block the
  only partly valid utilisation is 1/2, so it ranks blocks exactly as greedy does.
- A `GC_MODE_1` reclaim threshold below the GC threshold. The model has the wrapped count, and
  in that setting TLC reaches "No free block left". That misconfiguration has no run; see the
  hazard at line 621.
- `doRefresh` and `selectRefreshVictim`, which are dead code.
- Status and statistics reporting other than `calculateWearLeveling` and `calculateTotalPages`.
  These only read state. `calculateAverageError` divides by the number of blocks in use; a
  hazard records when that number is 0.
- PAL, DRAM and simulated time.
- The error model. It is abstracted to `RberExceeds(ec, layer, k)`, which is monotone in `k` as
  `spec.md` 4.4 requires.
- Bloom filter hashing. It is abstracted to set membership, plus optional false positives.
