----------------------------- MODULE DmaBuffers ----------------------------
(***************************************************************************)
(* The DMA buffer calls of crono_kernel_interface.cpp on one open device:  *)
(* CRONO_KERNEL_DMASGBufLock / Unlock for scatter/gather buffers and       *)
(* CRONO_KERNEL_DMAContigBufLock / Unlock for contiguous ones, with the    *)
(* client's pointer each call is given (the variable behind ppDma), the    *)
(* heap, the buffers the kernel module has locked and their mappings.      *)
(*                                                                         *)
(* The kernel module is not in this repository: it is modelled from the    *)
(* ioctl and mmap calls made to it.  Each library call is one action; what *)
(* malloc, ioctl, mmap and munmap answer is a choice bounded by Faults.    *)
(***************************************************************************)
EXTENDS Integers, FiniteSets

CONSTANTS
  SGVar,         \* the client's CRONO_KERNEL_DMA_SG* variables
  ContigVar,     \* the client's CRONO_KERNEL_DMA_CONTIG* variables
  Ptr,           \* addresses malloc can return
  Addr,          \* addresses mmap can return
  Id,            \* buffer ids of the kernel module
  NULL,          \* the null pointer, no id, no buffer
  Faults,        \* which calls may fail
  ResetsPointer  \* whether the client nulls its variable when an unlock has
                 \* succeeded or a lock has failed

Var == SGVar \cup ContigVar
Kind == {"sg", "contig"}
Fault == {"malloc", "pages", "lock", "contig malloc", "mmap", "unlock", "munmap"}

ASSUME BufferAssumption ==
  /\ SGVar \cap ContigVar = {}
  /\ IsFiniteSet(Id) /\ IsFiniteSet(Addr) /\ Id \cap Addr = {}
  /\ NULL \notin Ptr /\ NULL \notin Addr /\ NULL \notin Id /\ NULL \notin Kind
  /\ Faults \subseteq Fault
  /\ ResetsPointer \in BOOLEAN

VARIABLES
  ppDma,      \* the value of each client variable
  held,       \* variables whose buffer the client takes to be locked
  heap,       \* the CRONO_KERNEL_DMA_SG / _CONTIG blocks that are allocated
  id,         \* field id of each block
  pUserAddr,  \* field pUserAddr of each contiguous block
  locked,     \* kernel module: the kind of each locked buffer
  maps,       \* address space: the contiguous buffer mapped at each address
  left        \* the buffers and mappings that a failure in the middle of a
              \* contiguous call has left behind (for the properties only)

blocks == <<heap, id, pUserAddr>>
vars == <<ppDma, held, blocks, locked, maps, left>>

TypeOK ==
  /\ ppDma \in [Var -> Ptr \cup {NULL}]
  /\ held \subseteq Var
  /\ heap \subseteq Ptr
  /\ id \in [Ptr -> Id \cup {NULL}]
  /\ pUserAddr \in [Ptr -> Addr \cup {NULL}]
  /\ locked \in [Id -> Kind \cup {NULL}]
  /\ maps \in [Addr -> Id \cup {NULL}]
  /\ left \subseteq Id \cup Addr

Init ==
  /\ ppDma = [v \in Var |-> NULL]
  /\ held = {}
  /\ heap = {}
  /\ id = [p \in Ptr |-> NULL]
  /\ pUserAddr = [p \in Ptr |-> NULL]
  /\ locked = [i \in Id |-> NULL]
  /\ maps = [a \in Addr |-> NULL]
  /\ left = {}

-----------------------------------------------------------------------------
(* The kernel module (external).                                           *)

\* IOCTL_CRONO_LOCK_BUFFER and IOCTL_CRONO_LOCK_CONTIG_BUFFER: a fresh id.
ioctlLock(i, kind) ==
  /\ locked[i] = NULL
  /\ locked' = [locked EXCEPT ![i] = kind]

\* IOCTL_CRONO_UNLOCK_BUFFER and IOCTL_CRONO_UNLOCK_CONTIG_BUFFER.
ioctlUnlock(i, kind) ==
  /\ locked[i] = kind
  /\ locked' = [locked EXCEPT ![i] = NULL]

-----------------------------------------------------------------------------
(* What the client does with its variable around the calls.                *)

\* A lock returned an error, having left value p in *ppDma.
AfterFailedLock(v, p) ==
  /\ ppDma' = [ppDma EXCEPT ![v] = IF ResetsPointer THEN NULL ELSE p]
  /\ UNCHANGED held

AfterUnlock(v) ==
  /\ ppDma' = [ppDma EXCEPT ![v] = IF ResetsPointer THEN NULL ELSE @]
  /\ held' = held \ {v}

-----------------------------------------------------------------------------
(* Scatter/gather buffers.                                                 *)

\* pDma or pDma->Page cannot be allocated: *ppDma is not written.
SGLockNoMemory(v) ==
  /\ v \notin held
  /\ "malloc" \in Faults
  /\ AfterFailedLock(v, ppDma[v])
  /\ UNCHANGED <<blocks, locked, maps, left>>

(* A definition whose name begins with Mutant is a slip the definition      *)
(* after it could have; no action uses it.                                 *)

\* alloc_err does not free pDma.
MutantSGLockRefused(v) ==
  /\ v \notin held
  /\ Faults \cap {"pages", "lock"} # {}
  /\ \E p \in Ptr \ heap : AfterFailedLock(v, p) /\ heap' = heap \cup {p}
  /\ UNCHANGED <<id, pUserAddr, locked, maps, left>>

\* *ppDma = pDma, then buff_info.pages cannot be allocated or the kernel
\* refuses the buffer, and pDma is freed: *ppDma keeps the freed block.
SGLockRefused(v) ==
  /\ v \notin held
  /\ Faults \cap {"pages", "lock"} # {}
  /\ \E p \in Ptr \ heap : AfterFailedLock(v, p)
  /\ UNCHANGED <<blocks, locked, maps, left>>

SGLockSucceeds(v) ==
  /\ v \notin held
  /\ \E p \in Ptr \ heap, i \in Id :
       /\ ioctlLock(i, "sg")
       /\ ppDma' = [ppDma EXCEPT ![v] = p]
       /\ heap' = heap \cup {p}
       /\ id' = [id EXCEPT ![p] = i]
  /\ held' = held \cup {v}
  /\ UNCHANGED <<pUserAddr, maps, left>>

DMASGBufLock(v) == SGLockNoMemory(v) \/ SGLockRefused(v) \/ SGLockSucceeds(v)

\* The id of a freed block is set to the invalid -1 of a new one.
MutantFreeBlock(p) ==
  /\ heap' = heap \ {p}
  /\ id' = [id EXCEPT ![p] = 0 - 1]
  /\ UNCHANGED pUserAddr

\* free(pDma), its Page first
FreeBlock(p) ==
  /\ heap' = heap \ {p}
  /\ id' = [id EXCEPT ![p] = NULL]
  /\ pUserAddr' = [pUserAddr EXCEPT ![p] = NULL]

\* Unlocking a block that is not allocated is undefined behaviour: the model
\* stops at it.
Unlockable(v) == v \in held /\ ppDma[v] \in heap

\* The early return is missing: the block is freed all the same.
MutantUnlockRefused(v) ==
  /\ Unlockable(v)
  /\ "unlock" \in Faults
  /\ FreeBlock(ppDma[v])
  /\ UNCHANGED <<ppDma, held, locked, maps, left>>

\* The kernel refuses: the call returns with everything as it was.
UnlockRefused(v) ==
  /\ Unlockable(v)
  /\ "unlock" \in Faults
  /\ UNCHANGED vars

SGUnlockSucceeds(v) ==
  /\ Unlockable(v)
  /\ ioctlUnlock(id[ppDma[v]], "sg")
  /\ FreeBlock(ppDma[v])
  /\ AfterUnlock(v)
  /\ UNCHANGED <<maps, left>>

DMASGBufUnlock(v) == UnlockRefused(v) \/ SGUnlockSucceeds(v)

-----------------------------------------------------------------------------
(* Contiguous buffers.                                                     *)

\* if (*ppDma) return ret: any pointer but null is taken for a buffer that is
\* preallocated and locked.
ContigLockPreallocated(v) ==
  /\ ppDma[v] # NULL
  /\ held' = held \cup {v}
  /\ UNCHANGED <<ppDma, blocks, locked, maps, left>>

\* The kernel refuses to allocate the buffer.
ContigLockRefused(v) ==
  /\ ppDma[v] = NULL
  /\ "lock" \in Faults
  /\ UNCHANGED vars

\* pDma cannot be allocated: the kernel keeps the buffer it has just locked.
ContigLockNoMemory(v) ==
  /\ ppDma[v] = NULL
  /\ "contig malloc" \in Faults
  /\ \E i \in Id : ioctlLock(i, "contig") /\ left' = left \cup {i}
  /\ UNCHANGED <<ppDma, held, blocks, maps>>

\* *ppDma = pDma, then mmap fails: pDma is freed and *ppDma keeps it, and the
\* kernel keeps the buffer.
ContigLockNotMapped(v) ==
  /\ ppDma[v] = NULL
  /\ "mmap" \in Faults
  /\ \E i \in Id : ioctlLock(i, "contig") /\ left' = left \cup {i}
  /\ \E p \in Ptr \ heap : AfterFailedLock(v, p)
  /\ UNCHANGED <<blocks, maps>>

ContigLockSucceeds(v) ==
  /\ ppDma[v] = NULL
  /\ \E p \in Ptr \ heap, i \in Id, a \in Addr :
       /\ ioctlLock(i, "contig")
       /\ maps[a] = NULL
       /\ maps' = [maps EXCEPT ![a] = i]
       /\ ppDma' = [ppDma EXCEPT ![v] = p]
       /\ heap' = heap \cup {p}
       /\ id' = [id EXCEPT ![p] = i]
       /\ pUserAddr' = [pUserAddr EXCEPT ![p] = a]
  /\ held' = held \cup {v}
  /\ UNCHANGED left

DMAContigBufLock(v) ==
  \/ ContigLockPreallocated(v)
  \/ ContigLockRefused(v)
  \/ ContigLockNoMemory(v)
  \/ ContigLockNotMapped(v)
  \/ ContigLockSucceeds(v)

\* The buffer is unlocked and freed, not unmapped.
MutantUnmapBuffer(a) == a \in Addr /\ UNCHANGED <<maps, left>>

\* munmap; when it fails the call goes on, and the buffer stays mapped.
UnmapBuffer(a) ==
  \/ maps' = [maps EXCEPT ![a] = NULL] /\ UNCHANGED left
  \/ "munmap" \in Faults /\ UNCHANGED maps /\ left' = left \cup {a}

ContigUnlockSucceeds(v) ==
  /\ Unlockable(v)
  /\ ioctlUnlock(id[ppDma[v]], "contig")
  /\ UnmapBuffer(pUserAddr[ppDma[v]])
  /\ FreeBlock(ppDma[v])
  /\ AfterUnlock(v)

DMAContigBufUnlock(v) == UnlockRefused(v) \/ ContigUnlockSucceeds(v)

Next ==
  \/ \E v \in SGVar : DMASGBufLock(v) \/ DMASGBufUnlock(v)
  \/ \E v \in ContigVar : DMAContigBufLock(v) \/ DMAContigBufUnlock(v)

Spec == Init /\ [][Next]_vars

-----------------------------------------------------------------------------
(* Properties.                                                             *)

KindOf(v) == IF v \in SGVar THEN "sg" ELSE "contig"

\* A variable whose lock succeeded points to an allocated block that no other
\* such variable points to, with the id of a buffer the kernel holds locked
\* for it and, for a contiguous one, the address it is mapped at: "it's
\* already locked by kernel module" (crono_kernel_interface.cpp:816-817).  So
\* no board writes through DMA to memory the client does not have.
HeldLocked ==
  \A v \in held :
    /\ ppDma[v] \in heap
    /\ id[ppDma[v]] # NULL
    /\ locked[id[ppDma[v]]] = KindOf(v)
    /\ v \in ContigVar => /\ pUserAddr[ppDma[v]] # NULL
                          /\ maps[pUserAddr[ppDma[v]]] = id[ppDma[v]]
    /\ \A w \in held : w # v => id[ppDma[w]] # id[ppDma[v]]

\* Every block that is allocated belongs to a held variable: no path through
\* the calls, failed ones included, loses a block.
NoOrphanBlock == heap \subseteq {ppDma[v] : v \in held}

-----------------------------------------------------------------------------
(* What makes them inductive.                                              *)

\* Whatever the client does with its pointers, every allocated block has the
\* id of a locked buffer that no other block has and, if that is a contiguous
\* one, the address where it is mapped.
BlocksSound ==
  \A p \in heap :
    /\ id[p] # NULL
    /\ locked[id[p]] # NULL
    /\ locked[id[p]] = "contig" => /\ pUserAddr[p] # NULL
                                   /\ maps[pUserAddr[p]] = id[p]
    /\ \A q \in heap : id[q] = id[p] => q = p

\* What has been left behind is still locked or mapped, and is in no block.
LeftSound ==
  /\ \A i \in left \cap Id : locked[i] = "contig"
  /\ \A a \in left \cap Addr : maps[a] # NULL
  /\ \A p \in heap : /\ id[p] \notin left
                     /\ locked[id[p]] = "contig" => pUserAddr[p] \notin left

IndInv == TypeOK /\ BlocksSound /\ NoOrphanBlock /\ LeftSound

\* For a client that nulls its pointer after an unlock and after a lock that
\* failed: each is null, or points to a block of its own, whose buffer is of the
\* pointer's kind.
PointersSound ==
  /\ \A v \in held : /\ ppDma[v] \in heap
                     /\ locked[id[ppDma[v]]] = KindOf(v)
                     /\ \A w \in held : ppDma[w] = ppDma[v] => w = v
  /\ \A v \in Var \ held : ppDma[v] = NULL

-----------------------------------------------------------------------------
(* The promise of the interface.                                           *)

\* The calls implement BufferLease: the kernel has locked, and has mapped,
\* exactly what the client holds, but for what is left by a malloc or mmap that
\* fails after the kernel's lock of a contiguous buffer ("$$
\* CRONO_KERNEL_DMAContigBufUnlock", crono_kernel_interface.cpp:886 and :903)
\* and by a munmap that fails.  No other path leaves anything.
Leases == INSTANCE BufferLease WITH
  leased <- held,
  sg <- Cardinality({i \in Id : locked[i] = "sg"}),
  contig <- Cardinality({i \in Id \ left : locked[i] = "contig"}),
  mapped <- Cardinality({a \in Addr \ left : maps[a] # NULL})

LeaseSpec == Leases!Spec

=============================================================================
