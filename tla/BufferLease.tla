---------------------------- MODULE BufferLease ----------------------------
(***************************************************************************)
(* What the header promises of the DMA calls: locking a buffer leases one  *)
(* locked kernel buffer of its kind to the client's pointer (and, for a    *)
(* contiguous one, one mapping of it); unlocking gives back exactly that;  *)
(* locking a contiguous buffer that is leased is no change.                *)
(***************************************************************************)
EXTENDS Naturals

CONSTANTS SGVar, ContigVar

VARIABLES
  leased,  \* the client's pointers that lease a buffer
  sg,      \* how many scatter/gather buffers the kernel has locked
  contig,  \* how many contiguous buffers the kernel has locked
  mapped   \* how many contiguous buffers are mapped

vars == <<leased, sg, contig, mapped>>

Init == leased = {} /\ sg = 0 /\ contig = 0 /\ mapped = 0

LockSG(v) ==
  /\ v \in SGVar \ leased
  /\ leased' = leased \cup {v}
  /\ sg' = sg + 1
  /\ UNCHANGED <<contig, mapped>>

UnlockSG(v) ==
  /\ v \in SGVar \cap leased
  /\ leased' = leased \ {v}
  /\ sg' = sg - 1
  /\ UNCHANGED <<contig, mapped>>

LockContig(v) ==
  /\ v \in ContigVar \ leased
  /\ leased' = leased \cup {v}
  /\ contig' = contig + 1
  /\ mapped' = mapped + 1
  /\ UNCHANGED sg

UnlockContig(v) ==
  /\ v \in ContigVar \cap leased
  /\ leased' = leased \ {v}
  /\ contig' = contig - 1
  /\ mapped' = mapped - 1
  /\ UNCHANGED sg

Next ==
  \/ \E v \in SGVar : LockSG(v) \/ UnlockSG(v)
  \/ \E v \in ContigVar : LockContig(v) \/ UnlockContig(v)

Spec == Init /\ [][Next]_vars

=============================================================================
