----------------------------- MODULE FlashBlock -----------------------------
(***************************************************************************)
(* The per-block state of the FTL (class Block, ftl/common/block.cc).      *)
(* That class is not part of src/, so these operators follow spec.md 3 and *)
(* 4.1.  Only I/O unit 0 exists: with use_random_io_tweak off the FTL's    *)
(* bitsetSize is 1, so page_mapping.cc only ever touches I/O unit 0.       *)
(*                                                                         *)
(* A block is a record                                                     *)
(*   next  : the write pointer (getNextWritePageIndex)                     *)
(*   ec    : the erase count                                               *)
(*   valid : the pages whose valid bit is set                              *)
(*   lpn   : the LPN recorded by the last write of each page (getPageInfo) *)
(* A page below next is written (valid or invalid), one at or above next   *)
(* is erased, so the erased bits are implied by next.  Three ghost fields  *)
(* are kept with the block so that every Block operation maintains them;   *)
(* they describe only valid pages and are cleared when a page stops being  *)
(* valid:                                                                  *)
(*   data  : the host data a valid page holds                              *)
(*   age   : refresh events a valid page has lived through                 *)
(*   host  : the valid pages whose data was put there by a host write      *)
(***************************************************************************)
EXTENDS Naturals, FiniteSets

CONSTANTS
    PagesInBlock,   \* param.pagesInBlock
    NoLPN,          \* what an erased page records as its LPN
    NoData          \* the data of a page that is not valid

Pages == 0 .. PagesInBlock - 1

BlockType(LPNs, Datas, MaxAge) ==
    [next : 0 .. PagesInBlock, ec : Nat, valid : SUBSET Pages,
     lpn : [Pages -> LPNs \cup {NoLPN}], data : [Pages -> Datas \cup {NoData}],
     age : [Pages -> 0 .. MaxAge], host : SUBSET Pages]

\* Block::Block: a block is created erased with its initial erase count.
NewBlock(ec) ==
    [next |-> 0, ec |-> ec, valid |-> {}, lpn |-> [p \in Pages |-> NoLPN],
     data |-> [p \in Pages |-> NoData], age |-> [p \in Pages |-> 0],
     host |-> {}]

\* Block::write: program page p for LPN l and advance the pointer; the data
\* d comes from the host when fromHost, else from a GC or refresh copy.
BlockWrite(b, p, l, d, fromHost) ==
    [b EXCEPT !.valid = @ \cup {p}, !.lpn[p] = l, !.data[p] = d,
              !.age[p] = 0, !.next = p + 1,
              !.host = IF fromHost THEN @ \cup {p} ELSE @ \ {p}]

\* Block::invalidate of each page of ps: clear the valid bit; idempotent,
\* and a no-op on an erased page.  The recorded LPNs stay.
BlockInvalidatePages(b, ps) ==
    [b EXCEPT !.valid = @ \ ps, !.host = @ \ ps,
              !.data = [p \in Pages |-> IF p \in ps THEN NoData ELSE @[p]],
              !.age  = [p \in Pages |-> IF p \in ps THEN 0 ELSE @[p]]]

BlockInvalidate(b, p) == BlockInvalidatePages(b, {p})

\* Block::erase: every page erased, pointer back to 0, one more P/E cycle.
BlockErase(b) == NewBlock(b.ec + 1)

\* Block::getValidPageCount
ValidPageCount(b) == Cardinality(b.valid)

\* Block::getDirtyPageCount: the written pages no longer valid (spec.md 8,
\* invariant 2: valid + invalid + erased pages = pagesInBlock).
DirtyPageCount(b) == b.next - ValidPageCount(b)

\* getNextWritePageIndex() == pagesInBlock: the block is full.
IsFull(b) == b.next = PagesInBlock
=============================================================================
