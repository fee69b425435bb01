---------------------------- MODULE LogicalDisk ----------------------------
(***************************************************************************)
(* What the FTL promises its host (spec.md 6, "Core operations"): a disk   *)
(* of logical pages.  A write stores data at an LPN, a read returns what   *)
(* the last write stored, trim and format forget LPNs.  Garbage collection *)
(* and refresh are invisible here: they may move data, never change it.    *)
(***************************************************************************)
EXTENDS Naturals

CONSTANTS
    LPNs,       \* the logical page numbers
    Datas,      \* the contents a write can carry
    Unmapped,   \* the value of an LPN that holds nothing
    FormatRanges \* the <<slpn, nlp>> ranges format is called with

VARIABLE disk

TypeOK == disk \in [LPNs -> Datas \cup {Unmapped}]

Init == disk = [l \in LPNs |-> Unmapped]

Write(l, d) == disk' = [disk EXCEPT ![l] = d]

Trim(l) == disk' = [disk EXCEPT ![l] = Unmapped]

Format(r) ==
    disk' = [l \in LPNs |-> IF r[1] <= l /\ l < r[1] + r[2] THEN Unmapped
                                                          ELSE disk[l]]

Next ==
    \/ \E l \in LPNs, d \in Datas : Write(l, d)
    \/ \E l \in LPNs : Trim(l)
    \/ \E r \in FormatRanges : Format(r)

Spec == Init /\ [][Next]_disk
=============================================================================
