-------------------------- MODULE DmaBuffersProofs -------------------------
(***************************************************************************)
(* Proofs about DmaBuffers: that no call loses a block or takes the id or  *)
(* the mapping of another block, whatever the client does with its         *)
(* pointers; and, for a client that nulls its pointer after an unlock and  *)
(* after a lock that failed, that what it holds stays locked and that the  *)
(* calls implement BufferLease.                                            *)
(***************************************************************************)
EXTENDS DmaBuffers, FiniteSetTheorems, TLAPS

LEMMA InitInv == Init => IndInv
<1> SUFFICES ASSUME Init PROVE IndInv
  OBVIOUS
<1>1. TypeOK
  BY DEF Init, TypeOK
<1>2. BlocksSound /\ NoOrphanBlock /\ LeftSound
  BY DEF Init, BlocksSound, NoOrphanBlock, LeftSound
<1> QED
  BY <1>1, <1>2 DEF IndInv

-----------------------------------------------------------------------------
(* The calls that fail, and the contiguous lock that takes the buffer to   *)
(* be locked already: no block comes or goes.                              *)

\* The pointer of a variable that points to no block changes, or a variable is
\* taken to be held: no block is orphaned.
LEMMA PointerStep ==
  ASSUME IndInv, NEW v \in Var, heap' = heap, held \subseteq held',
         \A w \in held : w = v \/ ppDma'[w] = ppDma[w],
         v \notin held \/ ppDma[v] = NULL \/ ppDma'[v] = ppDma[v]
  PROVE  NoOrphanBlock'
<1> SUFFICES ASSUME NEW p \in heap PROVE \E w \in held' : p = ppDma'[w]
  BY DEF NoOrphanBlock
<1>1. PICK w \in held : p = ppDma[w]
  BY DEF IndInv, NoOrphanBlock
<1>2. p # NULL
  BY BufferAssumption DEF IndInv, TypeOK
<1>3. ppDma'[w] = ppDma[w]
  BY <1>1, <1>2
<1> QED
  BY <1>1, <1>3

\* Nothing changes but one pointer and what the client takes to be held.
LEMMA QuietStep ==
  ASSUME IndInv, NEW v \in Var, UNCHANGED <<blocks, locked, maps, left>>,
         held' \in {held, held \cup {v}},
         ppDma' = ppDma \/ (v \notin held /\ \E p \in Ptr \cup {NULL} : ppDma' = [ppDma EXCEPT ![v] = p])
  PROVE  IndInv'
<1> USE DEF blocks
<1>1. TypeOK'
  BY DEF IndInv, TypeOK
<1>2. BlocksSound' /\ LeftSound'
  BY DEF IndInv, BlocksSound, LeftSound
<1>3. NoOrphanBlock'
  BY PointerStep DEF IndInv, TypeOK
<1> QED
  BY <1>1, <1>2, <1>3 DEF IndInv

\* The kernel keeps a contiguous buffer that is in no block.
LEMMA KeptBufferStep ==
  ASSUME IndInv, NEW v \in ContigVar, ContigLockNoMemory(v) \/ ContigLockNotMapped(v)
  PROVE  IndInv'
<1> USE DEF blocks
<1>1. PICK i \in Id : /\ locked[i] = NULL
                      /\ locked' = [locked EXCEPT ![i] = "contig"]
                      /\ left' = left \cup {i}
  BY DEF ContigLockNoMemory, ContigLockNotMapped, ioctlLock
<1>2. ppDma[v] = NULL /\ UNCHANGED <<held, heap, id, pUserAddr, maps>>
  BY DEF ContigLockNoMemory, ContigLockNotMapped, AfterFailedLock
<1>3. ppDma' = ppDma \/ \E p \in Ptr \cup {NULL} : ppDma' = [ppDma EXCEPT ![v] = p]
  BY DEF ContigLockNoMemory, ContigLockNotMapped, AfterFailedLock
<1>4. TypeOK'
  BY <1>1, <1>2, <1>3 DEF IndInv, TypeOK, Kind
<1>5. BlocksSound'
  <2>1. \A p \in heap : id[p] # i
    BY <1>1 DEF IndInv, BlocksSound
  <2>2. \A p \in heap : locked'[id[p]] = locked[id[p]]
    BY <1>1, <2>1 DEF IndInv, TypeOK, BlocksSound
  <2> QED
    BY <1>2, <2>2 DEF IndInv, BlocksSound
<1>6. NoOrphanBlock'
  BY <1>2, <1>3, PointerStep DEF IndInv, TypeOK, Var
<1>7. LeftSound'
  <2>1. i \notin Addr /\ locked'[i] = "contig"
    BY <1>1, BufferAssumption DEF IndInv, TypeOK
  <2>2. \A j \in Id : j # i => locked'[j] = locked[j]
    BY <1>1 DEF IndInv, TypeOK
  <2>3. \A p \in heap : id[p] # i /\ id[p] \in Id
    BY <1>1 DEF IndInv, BlocksSound, TypeOK
  <2>4. \A p \in heap : locked[id[p]] = "contig" => pUserAddr[p] \in Addr
    BY DEF IndInv, BlocksSound, TypeOK
  <2>5. \A j \in left' \cap Id : locked'[j] = "contig"
    BY <1>1, <2>1, <2>2 DEF IndInv, LeftSound
  <2>6. \A a \in left' \cap Addr : maps'[a] # NULL
    BY <1>1, <1>2, <2>1 DEF IndInv, LeftSound
  <2>7. \A p \in heap : /\ id[p] \notin left'
                        /\ locked'[id[p]] = "contig" => pUserAddr[p] \notin left'
    BY <1>1, <2>1, <2>2, <2>3, <2>4 DEF IndInv, LeftSound
  <2> QED
    BY <1>2, <2>5, <2>6, <2>7 DEF LeftSound
<1> QED
  BY <1>4, <1>5, <1>6, <1>7 DEF IndInv

-----------------------------------------------------------------------------
(* The locks that succeed: a new block with a new id.                      *)

LEMMA SGLockStep ==
  ASSUME IndInv, NEW v \in SGVar, SGLockSucceeds(v)
  PROVE  IndInv'
<1>1. PICK p \in Ptr \ heap, i \in Id :
        /\ locked[i] = NULL
        /\ locked' = [locked EXCEPT ![i] = "sg"]
        /\ ppDma' = [ppDma EXCEPT ![v] = p]
        /\ heap' = heap \cup {p}
        /\ id' = [id EXCEPT ![p] = i]
  BY DEF SGLockSucceeds, ioctlLock
<1>2. v \notin held /\ held' = held \cup {v} /\ UNCHANGED <<pUserAddr, maps, left>>
  BY DEF SGLockSucceeds
<1>3. TypeOK'
  BY <1>1, <1>2 DEF IndInv, TypeOK, Kind, Var
<1>4. \A q \in heap : /\ q # p /\ q \in Ptr /\ id'[q] = id[q]
                      /\ id[q] # i /\ id[q] \in Id
                      /\ locked'[id[q]] = locked[id[q]]
  BY <1>1 DEF IndInv, TypeOK, BlocksSound
<1>5. id'[p] = i /\ locked'[i] = "sg" /\ i # NULL /\ "sg" # NULL /\ "sg" # "contig"
  BY <1>1, BufferAssumption DEF IndInv, TypeOK, Kind
<1>6. BlocksSound'
  BY <1>1, <1>2, <1>4, <1>5 DEF IndInv, BlocksSound
<1>7. NoOrphanBlock'
  BY <1>1, <1>2 DEF IndInv, NoOrphanBlock, TypeOK, Var
<1>8. LeftSound'
  <2>1. i \notin left
    BY <1>1, BufferAssumption DEF IndInv, LeftSound, Kind
  <2>2. \A j \in left \cap Id : locked'[j] = locked[j]
    BY <1>1, <2>1 DEF IndInv, TypeOK
  <2> QED
    BY <1>1, <1>2, <1>4, <1>5, <2>1, <2>2 DEF IndInv, LeftSound
<1> QED
  BY <1>3, <1>6, <1>7, <1>8 DEF IndInv

LEMMA ContigLockStep ==
  ASSUME IndInv, NEW v \in ContigVar, ContigLockSucceeds(v)
  PROVE  IndInv'
<1>0. PICK p \in Ptr \ heap, i \in Id, a \in Addr :
        /\ ioctlLock(i, "contig")
        /\ maps[a] = NULL
        /\ maps' = [maps EXCEPT ![a] = i]
        /\ ppDma' = [ppDma EXCEPT ![v] = p]
        /\ heap' = heap \cup {p}
        /\ id' = [id EXCEPT ![p] = i]
        /\ pUserAddr' = [pUserAddr EXCEPT ![p] = a]
  BY Zenon DEF ContigLockSucceeds
<1>1. /\ locked[i] = NULL
      /\ locked' = [locked EXCEPT ![i] = "contig"]
      /\ maps[a] = NULL
      /\ maps' = [maps EXCEPT ![a] = i]
      /\ ppDma' = [ppDma EXCEPT ![v] = p]
      /\ heap' = heap \cup {p}
      /\ id' = [id EXCEPT ![p] = i]
      /\ pUserAddr' = [pUserAddr EXCEPT ![p] = a]
  BY <1>0 DEF ioctlLock
<1>2. ppDma[v] = NULL /\ held' = held \cup {v} /\ UNCHANGED left
  BY DEF ContigLockSucceeds
<1>3. TypeOK'
  BY <1>1, <1>2 DEF IndInv, TypeOK, Kind, Var
<1>4. \A q \in heap : /\ q # p /\ q \in Ptr /\ id'[q] = id[q] /\ pUserAddr'[q] = pUserAddr[q]
                      /\ id[q] # i /\ id[q] \in Id
                      /\ locked'[id[q]] = locked[id[q]]
  BY <1>1 DEF IndInv, TypeOK, BlocksSound
<1>5. /\ id'[p] = i /\ locked'[i] = "contig" /\ pUserAddr'[p] = a /\ maps'[a] = i
      /\ i # NULL /\ a # NULL /\ "contig" # NULL
  BY <1>1, BufferAssumption DEF IndInv, TypeOK, Kind
<1>6. \A q \in heap : locked[id[q]] = "contig" => /\ pUserAddr[q] \in Addr /\ pUserAddr[q] # a
                                                  /\ maps'[pUserAddr[q]] = maps[pUserAddr[q]]
  BY <1>1 DEF IndInv, TypeOK, BlocksSound
<1>7. BlocksSound'
  BY <1>1, <1>4, <1>5, <1>6 DEF IndInv, BlocksSound
<1>8. NoOrphanBlock'
  <2> SUFFICES ASSUME NEW q \in heap' PROVE \E w \in held' : q = ppDma'[w]
    BY DEF NoOrphanBlock
  <2>1. CASE q = p
    BY <1>1, <1>2, <2>1 DEF IndInv, TypeOK, Var
  <2>2. CASE q \in heap
    <3>1. PICK w \in held : q = ppDma[w]
      BY <2>2 DEF IndInv, NoOrphanBlock
    <3>2. w # v
      BY <1>2, <2>2, <3>1, BufferAssumption DEF IndInv, TypeOK
    <3> QED
      BY <1>1, <1>2, <3>1, <3>2 DEF IndInv, TypeOK
  <2> QED
    BY <1>1, <2>1, <2>2
<1>9. LeftSound'
  <2>1. i \notin left /\ a \notin left
    BY <1>1, BufferAssumption DEF IndInv, LeftSound, Kind
  <2>2. \A j \in left \cap Id : locked'[j] = locked[j]
    BY <1>1, <2>1 DEF IndInv, TypeOK
  <2>3. \A b \in left \cap Addr : maps'[b] = maps[b]
    BY <1>1, <2>1 DEF IndInv, TypeOK
  <2> QED
    BY <1>1, <1>2, <1>4, <1>5, <2>1, <2>2, <2>3 DEF IndInv, LeftSound
<1> QED
  BY <1>3, <1>7, <1>8, <1>9 DEF IndInv

-----------------------------------------------------------------------------
(* The unlocks that succeed: one block and its id less.                    *)

\* Freeing a block orphans no other, whoever else points to the freed one.
LEMMA UnlockPointers ==
  ASSUME IndInv, NEW v \in held, AfterUnlock(v), FreeBlock(ppDma[v])
  PROVE  NoOrphanBlock'
<1> SUFFICES ASSUME NEW q \in heap' PROVE \E w \in held' : q = ppDma'[w]
  BY DEF NoOrphanBlock
<1>1. q \in heap /\ q # ppDma[v]
  BY DEF FreeBlock
<1>2. PICK w \in held : q = ppDma[w]
  BY <1>1 DEF IndInv, NoOrphanBlock
<1> QED
  BY <1>1, <1>2 DEF AfterUnlock, IndInv, TypeOK

LEMMA UnlockTypeOK ==
  ASSUME IndInv, NEW v \in held, AfterUnlock(v), FreeBlock(ppDma[v]),
         locked' = [locked EXCEPT ![id[ppDma[v]]] = NULL]
  PROVE  /\ ppDma' \in [Var -> Ptr \cup {NULL}]
         /\ held' \subseteq Var
         /\ heap' \subseteq Ptr
         /\ id' \in [Ptr -> Id \cup {NULL}]
         /\ pUserAddr' \in [Ptr -> Addr \cup {NULL}]
         /\ locked' \in [Id -> Kind \cup {NULL}]
BY DEF IndInv, TypeOK, AfterUnlock, FreeBlock

\* The other blocks are as they were.
LEMMA UnlockOthers ==
  ASSUME IndInv, NEW v \in held, ppDma[v] \in heap, FreeBlock(ppDma[v]),
         locked' = [locked EXCEPT ![id[ppDma[v]]] = NULL],
         NEW q \in heap'
  PROVE  /\ q \in heap /\ q # ppDma[v]
         /\ id'[q] = id[q] /\ pUserAddr'[q] = pUserAddr[q]
         /\ id[q] \in Id /\ id[q] # id[ppDma[v]]
         /\ locked'[id[q]] = locked[id[q]]
<1>1. q \in heap /\ q # ppDma[v] /\ q \in Ptr
  BY DEF IndInv, TypeOK, FreeBlock
<1>2. id'[q] = id[q] /\ pUserAddr'[q] = pUserAddr[q]
  BY <1>1 DEF IndInv, TypeOK, FreeBlock
<1>3. id[q] \in Id /\ id[q] # id[ppDma[v]]
  BY <1>1 DEF IndInv, TypeOK, BlocksSound
<1> QED
  BY <1>1, <1>2, <1>3 DEF IndInv, TypeOK

LEMMA SGUnlockStep ==
  ASSUME IndInv, NEW v \in SGVar, SGUnlockSucceeds(v)
  PROVE  IndInv'
<1> DEFINE p == ppDma[v]
           i == id[p]
<1>1. /\ v \in held /\ p \in heap /\ locked[i] = "sg"
      /\ locked' = [locked EXCEPT ![i] = NULL]
      /\ FreeBlock(p) /\ AfterUnlock(v) /\ UNCHANGED <<maps, left>>
  BY DEF SGUnlockSucceeds, Unlockable, ioctlUnlock
<1>2. TypeOK'
  BY <1>1, UnlockTypeOK DEF IndInv, TypeOK
<1>3. \A q \in heap' : /\ q \in heap /\ id'[q] = id[q] /\ pUserAddr'[q] = pUserAddr[q]
                       /\ locked'[id[q]] = locked[id[q]]
  BY <1>1, UnlockOthers
<1>4. BlocksSound'
  BY <1>1, <1>3 DEF IndInv, BlocksSound
<1>5. NoOrphanBlock'
  BY <1>1, UnlockPointers
<1>6. LeftSound'
  <2>1. \A j \in left \cap Id : locked'[j] = locked[j]
    BY <1>1 DEF IndInv, TypeOK, LeftSound
  <2> QED
    BY <1>1, <1>3, <2>1 DEF IndInv, LeftSound
<1> QED
  BY <1>2, <1>4, <1>5, <1>6 DEF IndInv

LEMMA ContigUnlockStep ==
  ASSUME IndInv, NEW v \in ContigVar, ContigUnlockSucceeds(v)
  PROVE  IndInv'
<1> DEFINE p == ppDma[v]
           i == id[p]
           a == pUserAddr[p]
<1>1. /\ v \in held /\ p \in heap /\ locked[i] = "contig"
      /\ locked' = [locked EXCEPT ![i] = NULL]
      /\ UnmapBuffer(a) /\ FreeBlock(p) /\ AfterUnlock(v)
  BY DEF ContigUnlockSucceeds, Unlockable, ioctlUnlock
<1>2. a \in Addr /\ maps[a] = i /\ i \in Id /\ i # NULL
  BY <1>1, BufferAssumption DEF IndInv, TypeOK, BlocksSound
<1>3. \/ maps' = [maps EXCEPT ![a] = NULL] /\ left' = left
      \/ maps' = maps /\ left' = left \cup {a}
  BY <1>1 DEF UnmapBuffer
<1>4. TypeOK'
  <2>1. maps' \in [Addr -> Id \cup {NULL}] /\ left' \subseteq Id \cup Addr
    BY <1>2, <1>3 DEF IndInv, TypeOK
  <2> QED
    BY <1>1, <2>1, UnlockTypeOK DEF TypeOK
<1>5. \A q \in heap' : /\ q \in heap /\ id'[q] = id[q] /\ pUserAddr'[q] = pUserAddr[q]
                       /\ locked'[id[q]] = locked[id[q]] /\ id[q] # i /\ id[q] \in Id
  BY <1>1, UnlockOthers
<1>6. \A q \in heap' : locked[id[q]] = "contig" => /\ pUserAddr[q] # a /\ pUserAddr[q] \in Addr
                                                   /\ maps'[pUserAddr[q]] = maps[pUserAddr[q]]
  BY <1>2, <1>3, <1>5 DEF IndInv, TypeOK, BlocksSound
<1>7. BlocksSound'
  BY <1>5, <1>6 DEF IndInv, BlocksSound
<1>8. NoOrphanBlock'
  BY <1>1, UnlockPointers
<1>9. LeftSound'
  <2>1. i \notin left /\ a \notin left /\ a \notin Id
    <3>1. i \notin left /\ a \notin left
      <4>1. \A q \in heap : /\ id[q] \notin left
                            /\ locked[id[q]] = "contig" => pUserAddr[q] \notin left
        BY DEF IndInv, LeftSound
      <4>2. p \in heap /\ locked[id[p]] = "contig"
        BY <1>1
      <4>3. id[p] \notin left /\ pUserAddr[p] \notin left
        BY <4>1, <4>2, Zenon
      <4> QED
        BY <4>3
    <3>2. a \notin Id
      BY <1>2, BufferAssumption
    <3> QED
      BY <3>1, <3>2
  <2>2. \A j \in left' \cap Id : j \in left /\ locked'[j] = locked[j]
    BY <1>1, <1>3, <2>1 DEF IndInv, TypeOK
  <2>3. \A b \in left' \cap Addr : maps'[b] # NULL
    BY <1>2, <1>3, <2>1 DEF IndInv, TypeOK, LeftSound
  <2>4. \A q \in heap' : /\ id[q] \notin left'
                         /\ locked[id[q]] = "contig" => pUserAddr[q] \notin left'
    BY <1>3, <1>5, <1>6, <2>1 DEF IndInv, LeftSound
  <2> QED
    BY <1>5, <2>2, <2>3, <2>4 DEF IndInv, LeftSound
<1> QED
  BY <1>4, <1>7, <1>8, <1>9 DEF IndInv

-----------------------------------------------------------------------------

LEMMA StepInv == IndInv /\ [Next]_vars => IndInv'
<1> SUFFICES ASSUME IndInv, [Next]_vars PROVE IndInv'
  OBVIOUS
<1> USE DEF Var
<1>1. CASE UNCHANGED vars
  BY <1>1 DEF vars, blocks, IndInv, TypeOK, BlocksSound, NoOrphanBlock, LeftSound
<1>2. ASSUME NEW v \in SGVar, SGLockNoMemory(v) \/ SGLockRefused(v) PROVE IndInv'
  <2>1. /\ UNCHANGED <<blocks, locked, maps, left>> /\ held' = held /\ v \notin held
        /\ \E p \in Ptr \cup {NULL} : ppDma' = [ppDma EXCEPT ![v] = p]
    BY <1>2 DEF SGLockNoMemory, SGLockRefused, AfterFailedLock, IndInv, TypeOK
  <2> QED
    BY <2>1, QuietStep
<1>3. ASSUME NEW v \in Var, UnlockRefused(v) \/ ContigLockRefused(v) PROVE IndInv'
  BY <1>1, <1>3 DEF UnlockRefused, ContigLockRefused
<1>4. ASSUME NEW v \in ContigVar, ContigLockPreallocated(v) PROVE IndInv'
  BY <1>4, QuietStep DEF ContigLockPreallocated
<1> QED
  BY <1>1, <1>2, <1>3, <1>4, SGLockStep, SGUnlockStep, ContigLockStep, ContigUnlockStep,
     KeptBufferStep
     DEF Next, DMASGBufLock, DMASGBufUnlock, DMAContigBufLock, DMAContigBufUnlock

LEMMA Inductive == Spec => []IndInv
BY InitInv, StepInv, PTL DEF Spec

\* The variables keep their types: a pointer is null or an address malloc can
\* return, a block's id and address are null or the kernel's.
THEOREM TypeCorrect == Spec => []TypeOK
<1>1. IndInv => TypeOK
  BY DEF IndInv
<1> QED
  BY <1>1, Inductive, PTL

\* No path through the calls loses a block, the failed ones included, whatever
\* the client does with the pointers it is left with.
THEOREM NoBlockIsOrphaned == Spec => []NoOrphanBlock
<1>1. IndInv => NoOrphanBlock
  BY DEF IndInv
<1> QED
  BY <1>1, Inductive, PTL

-----------------------------------------------------------------------------
(* A client that nulls its pointer after an unlock and after a lock that   *)
(* failed (ResetsPointer).                                                 *)

ClientInv == IndInv /\ PointersSound

LEMMA KindsDiffer == \A v \in Var : /\ v \in SGVar => KindOf(v) = "sg"
                                    /\ v \in ContigVar => KindOf(v) = "contig"
BY BufferAssumption DEF KindOf

\* No pointer points to the block that an unlock frees but the one it is given.
LEMMA UnlockPointersSound ==
  ASSUME ResetsPointer, ClientInv, NEW v \in held, ppDma[v] \in heap,
         locked' = [locked EXCEPT ![id[ppDma[v]]] = NULL],
         FreeBlock(ppDma[v]), AfterUnlock(v)
  PROVE  PointersSound'
<1>1. held' = held \ {v} /\ ppDma' = [ppDma EXCEPT ![v] = NULL]
  BY DEF AfterUnlock
<1>2. \A w \in held' : ppDma'[w] = ppDma[w] /\ ppDma[w] \in heap'
  BY <1>1 DEF ClientInv, IndInv, TypeOK, PointersSound, FreeBlock
<1>3. \A w \in held' : locked'[id'[ppDma[w]]] = KindOf(w)
  <2> SUFFICES ASSUME NEW w \in held' PROVE locked'[id'[ppDma[w]]] = KindOf(w)
    OBVIOUS
  <2>1. /\ id'[ppDma[w]] = id[ppDma[w]]
        /\ locked'[id[ppDma[w]]] = locked[id[ppDma[w]]]
    BY <1>2, UnlockOthers DEF ClientInv
  <2>2. w \in held /\ locked[id[ppDma[w]]] = KindOf(w)
    BY <1>1 DEF ClientInv, PointersSound
  <2> QED
    BY <2>1, <2>2
<1>4. \A w \in Var \ held' : ppDma'[w] = NULL
  BY <1>1 DEF ClientInv, IndInv, TypeOK, PointersSound
<1>5. \A w, x \in held' : ppDma'[x] = ppDma'[w] => x = w
  BY <1>1, <1>2 DEF ClientInv, PointersSound
<1>6. \A w \in held' : ppDma'[w] \in heap' /\ locked'[id'[ppDma'[w]]] = KindOf(w)
  BY <1>2, <1>3
<1> QED
  BY <1>4, <1>5, <1>6 DEF PointersSound, KindOf

\* The block that a lock allocates is the one of its pointer.
LEMMA LockPointersSound ==
  ASSUME ClientInv, NEW v \in Var, v \notin held, NEW p \in Ptr \ heap, NEW i \in Id,
         locked[i] = NULL,
         locked' = [locked EXCEPT ![i] = KindOf(v)],
         ppDma' = [ppDma EXCEPT ![v] = p],
         heap' = heap \cup {p},
         id' = [id EXCEPT ![p] = i],
         held' = held \cup {v}
  PROVE  PointersSound'
<1>1. \A w \in held : /\ w # v /\ ppDma'[w] = ppDma[w] /\ ppDma[w] \in heap
                      /\ ppDma[w] \in Ptr /\ ppDma[w] # p
  BY DEF ClientInv, IndInv, TypeOK, PointersSound
<1>2. \A w \in held : /\ id'[ppDma[w]] = id[ppDma[w]]
                      /\ id[ppDma[w]] \in Id /\ id[ppDma[w]] # i
  BY <1>1 DEF ClientInv, IndInv, TypeOK, BlocksSound
<1>3. \A w \in held : locked'[id[ppDma[w]]] = KindOf(w)
  BY <1>2 DEF ClientInv, IndInv, TypeOK, PointersSound
<1>4. ppDma'[v] = p /\ id'[p] = i /\ locked'[i] = KindOf(v)
  BY DEF ClientInv, IndInv, TypeOK
<1>5. \A w \in held' : ppDma'[w] \in heap' /\ locked'[id'[ppDma'[w]]] = KindOf(w)
  BY <1>1, <1>2, <1>3, <1>4
<1>6. \A w, x \in held' : ppDma'[x] = ppDma'[w] => x = w
  BY <1>1, <1>4 DEF ClientInv, PointersSound
<1>7. \A w \in Var \ held' : ppDma'[w] = NULL
  BY DEF ClientInv, IndInv, TypeOK, PointersSound
<1> QED
  BY <1>5, <1>6, <1>7 DEF PointersSound, KindOf

\* Unless a lock or an unlock succeeds, a client with ResetsPointer has its
\* pointers as they were.
LEMMA FailedStep ==
  ASSUME ResetsPointer, ClientInv, NEW v \in Var,
         \/ SGLockNoMemory(v) \/ SGLockRefused(v) \/ UnlockRefused(v)
         \/ ContigLockPreallocated(v) \/ ContigLockRefused(v)
  PROVE  UNCHANGED vars
<1>1. v \notin held => ppDma[v] = NULL
  BY DEF ClientInv, PointersSound
<1>2. v \notin held => [ppDma EXCEPT ![v] = NULL] = ppDma
  BY <1>1 DEF ClientInv, IndInv, TypeOK
<1>3. CASE SGLockNoMemory(v) \/ SGLockRefused(v)
  BY <1>2, <1>3 DEF SGLockNoMemory, SGLockRefused, AfterFailedLock, vars
<1>4. CASE UnlockRefused(v) \/ ContigLockRefused(v)
  BY <1>4 DEF UnlockRefused, ContigLockRefused
<1>5. CASE ContigLockPreallocated(v)
  BY <1>1, <1>5 DEF ContigLockPreallocated, vars
<1> QED
  BY <1>3, <1>4, <1>5

\* A contiguous lock that fails in the middle leaves the pointer null too.
LEMMA KeptBufferPointers ==
  ASSUME ResetsPointer, ClientInv, NEW v \in ContigVar,
         ContigLockNoMemory(v) \/ ContigLockNotMapped(v)
  PROVE  ppDma' = ppDma /\ UNCHANGED <<held, blocks, maps>>
<1>1. ppDma[v] = NULL
  BY DEF ContigLockNoMemory, ContigLockNotMapped
<1>2. [ppDma EXCEPT ![v] = NULL] = ppDma
  BY <1>1 DEF ClientInv, IndInv, TypeOK, Var
<1> QED
  BY <1>2 DEF ContigLockNoMemory, ContigLockNotMapped, AfterFailedLock

LEMMA ClientStepInv ==
  ASSUME ResetsPointer
  PROVE  ClientInv /\ [Next]_vars => ClientInv'
<1> SUFFICES ASSUME ClientInv, [Next]_vars PROVE PointersSound'
  BY StepInv DEF ClientInv
<1>1. CASE UNCHANGED vars
  BY <1>1 DEF ClientInv, PointersSound, KindOf, vars, blocks
<1>2. ASSUME NEW v \in Var,
             \/ SGLockNoMemory(v) \/ SGLockRefused(v) \/ UnlockRefused(v)
             \/ ContigLockPreallocated(v) \/ ContigLockRefused(v)
      PROVE  PointersSound'
  BY <1>1, <1>2, FailedStep
<1>3. ASSUME NEW v \in ContigVar, ContigLockNoMemory(v) \/ ContigLockNotMapped(v)
      PROVE  PointersSound'
  <2>1. ppDma' = ppDma /\ UNCHANGED <<held, heap, id>>
    BY <1>3, KeptBufferPointers DEF blocks
  <2>2. PICK i \in Id : locked[i] = NULL /\ locked' = [locked EXCEPT ![i] = "contig"]
    BY <1>3 DEF ContigLockNoMemory, ContigLockNotMapped, ioctlLock
  <2>3. \A w \in held : /\ id[ppDma[w]] # i
                        /\ locked'[id[ppDma[w]]] = locked[id[ppDma[w]]]
    BY <2>2 DEF ClientInv, IndInv, TypeOK, PointersSound, BlocksSound
  <2> QED
    BY <2>1, <2>3 DEF ClientInv, PointersSound, KindOf
<1>4. ASSUME NEW v \in SGVar, SGLockSucceeds(v) PROVE PointersSound'
  <2>1. v \in Var /\ KindOf(v) = "sg"
    BY KindsDiffer DEF Var
  <2>2. PICK p \in Ptr \ heap, i \in Id :
          /\ locked[i] = NULL
          /\ locked' = [locked EXCEPT ![i] = "sg"]
          /\ ppDma' = [ppDma EXCEPT ![v] = p]
          /\ heap' = heap \cup {p}
          /\ id' = [id EXCEPT ![p] = i]
    BY <1>4 DEF SGLockSucceeds, ioctlLock
  <2> QED
    BY <1>4, <2>1, <2>2, LockPointersSound DEF SGLockSucceeds
<1>5. ASSUME NEW v \in ContigVar, ContigLockSucceeds(v) PROVE PointersSound'
  <2>1. v \in Var /\ KindOf(v) = "contig"
    BY KindsDiffer DEF Var
  <2>2. v \notin held
    BY <1>5, BufferAssumption DEF ContigLockSucceeds, ClientInv, IndInv, TypeOK, PointersSound
  <2>3. PICK p \in Ptr \ heap, i \in Id, a \in Addr :
          /\ ioctlLock(i, "contig")
          /\ ppDma' = [ppDma EXCEPT ![v] = p]
          /\ heap' = heap \cup {p}
          /\ id' = [id EXCEPT ![p] = i]
    BY <1>5, Zenon DEF ContigLockSucceeds
  <2> QED
    BY <1>5, <2>1, <2>2, <2>3, LockPointersSound DEF ContigLockSucceeds, ioctlLock
<1>6. ASSUME NEW v \in SGVar, SGUnlockSucceeds(v) PROVE PointersSound'
  BY <1>6, UnlockPointersSound DEF SGUnlockSucceeds, Unlockable, ioctlUnlock
<1>7. ASSUME NEW v \in ContigVar, ContigUnlockSucceeds(v) PROVE PointersSound'
  BY <1>7, UnlockPointersSound DEF ContigUnlockSucceeds, Unlockable, ioctlUnlock
<1> QED
  BY <1>1, <1>2, <1>3, <1>4, <1>5, <1>6, <1>7
     DEF Next, DMASGBufLock, DMASGBufUnlock, DMAContigBufLock, DMAContigBufUnlock, Var

LEMMA ClientInductive == ASSUME ResetsPointer PROVE Spec => []ClientInv
<1>1. Init => ClientInv
  <2>1. Init => PointersSound
    BY DEF Init, PointersSound
  <2> QED
    BY <2>1, InitInv DEF ClientInv
<1> QED
  BY <1>1, ClientStepInv, PTL DEF Spec

\* For a client that nulls its pointer after an unlock and after a lock that
\* failed, what it holds stays locked for it, and mapped, until it unlocks it: no
\* other call takes the block, the id or the address.  To null it after unlocks
\* alone is not enough: a contiguous lock whose mmap fails leaves *ppDma set, and
\* the next lock with it returns success.
THEOREM HeldStaysLocked ==
  ASSUME ResetsPointer PROVE Spec => []HeldLocked
<1>1. ClientInv => HeldLocked
  <2> SUFFICES ASSUME ClientInv, NEW v \in held
               PROVE  /\ ppDma[v] \in heap
                      /\ id[ppDma[v]] # NULL
                      /\ locked[id[ppDma[v]]] = KindOf(v)
                      /\ v \in ContigVar => /\ pUserAddr[ppDma[v]] # NULL
                                            /\ maps[pUserAddr[ppDma[v]]] = id[ppDma[v]]
                      /\ \A w \in held : w # v => id[ppDma[w]] # id[ppDma[v]]
    BY DEF HeldLocked
  <2>1. v \in Var /\ ppDma[v] \in heap /\ locked[id[ppDma[v]]] = KindOf(v)
    BY DEF ClientInv, IndInv, TypeOK, PointersSound
  <2>2. \A w \in held : w # v => id[ppDma[w]] # id[ppDma[v]]
    BY <2>1 DEF ClientInv, IndInv, BlocksSound, PointersSound
  <2>3. v \in ContigVar => locked[id[ppDma[v]]] = "contig"
    BY <2>1, KindsDiffer
  <2> QED
    BY <2>1, <2>2, <2>3 DEF ClientInv, IndInv, BlocksSound
<1> QED
  BY <1>1, ClientInductive, PTL

-----------------------------------------------------------------------------
(* The calls implement BufferLease.                                        *)

sgIds == {i \in Id : locked[i] = "sg"}
contigIds == {i \in Id \ left : locked[i] = "contig"}
mappedAddrs == {a \in Addr \ left : maps[a] # NULL}

LEMMA CountedFinite ==
  /\ IsFiniteSet(sgIds) /\ IsFiniteSet(contigIds) /\ IsFiniteSet(mappedAddrs)
  /\ Cardinality(sgIds) \in Nat
  /\ Cardinality(contigIds) \in Nat
  /\ Cardinality(mappedAddrs) \in Nat
<1>1. sgIds \in SUBSET Id /\ contigIds \in SUBSET Id /\ mappedAddrs \in SUBSET Addr
  BY DEF sgIds, contigIds, mappedAddrs
<1>2. IsFiniteSet(sgIds) /\ IsFiniteSet(contigIds) /\ IsFiniteSet(mappedAddrs)
  BY <1>1, BufferAssumption, FS_Subset
<1> QED
  BY <1>2, FS_CardinalityType

LEMMA SGLockLeases ==
  ASSUME ClientInv, NEW v \in SGVar, SGLockSucceeds(v)
  PROVE  Leases!LockSG(v)
<1>1. PICK i \in Id : locked[i] = NULL /\ locked' = [locked EXCEPT ![i] = "sg"]
  BY DEF SGLockSucceeds, ioctlLock
<1>2. v \notin held /\ held' = held \cup {v} /\ UNCHANGED <<maps, left>>
  BY DEF SGLockSucceeds
<1>3. sgIds' = sgIds \cup {i} /\ i \notin sgIds
  BY <1>1, BufferAssumption DEF sgIds, Kind, ClientInv, IndInv, TypeOK
<1>4. contigIds' = contigIds
  BY <1>1, <1>2, BufferAssumption DEF contigIds, Kind, ClientInv, IndInv, TypeOK
<1>5. mappedAddrs' = mappedAddrs
  BY <1>2 DEF mappedAddrs
<1>6. Cardinality(sgIds') = Cardinality(sgIds) + 1
  BY <1>3, CountedFinite, FS_AddElement
<1> QED
  BY <1>2, <1>4, <1>5, <1>6 DEF Leases!LockSG, sgIds, contigIds, mappedAddrs

LEMMA SGUnlockUnleases ==
  ASSUME ClientInv, NEW v \in SGVar, SGUnlockSucceeds(v)
  PROVE  Leases!UnlockSG(v)
<1> DEFINE i == id[ppDma[v]]
<1>1. /\ v \in held /\ held' = held \ {v}
      /\ ppDma[v] \in heap
      /\ locked[i] = "sg" /\ locked' = [locked EXCEPT ![i] = NULL]
      /\ UNCHANGED <<maps, left>>
  BY DEF SGUnlockSucceeds, Unlockable, ioctlUnlock, AfterUnlock
<1>2. i \in Id
  BY <1>1 DEF ClientInv, IndInv, TypeOK, BlocksSound
<1> HIDE DEF i
<1>3. sgIds' = sgIds \ {i} /\ i \in sgIds
  BY <1>1, <1>2, BufferAssumption DEF sgIds, Kind, ClientInv, IndInv, TypeOK
<1>4. contigIds' = contigIds
  BY <1>1, <1>2, BufferAssumption DEF contigIds, Kind, ClientInv, IndInv, TypeOK
<1>5. mappedAddrs' = mappedAddrs
  BY <1>1 DEF mappedAddrs
<1>6. Cardinality(sgIds') = Cardinality(sgIds) - 1
  BY <1>3, CountedFinite, FS_RemoveElement
<1> QED
  BY <1>1, <1>4, <1>5, <1>6 DEF Leases!UnlockSG, sgIds, contigIds, mappedAddrs

LEMMA ContigLockLeases ==
  ASSUME ClientInv, NEW v \in ContigVar, ContigLockSucceeds(v)
  PROVE  Leases!LockContig(v)
<1>1. PICK p \in Ptr \ heap, i \in Id, a \in Addr :
        /\ ioctlLock(i, "contig")
        /\ maps[a] = NULL
        /\ maps' = [maps EXCEPT ![a] = i]
  BY Zenon DEF ContigLockSucceeds
<1>2. locked[i] = NULL /\ locked' = [locked EXCEPT ![i] = "contig"]
  BY <1>1 DEF ioctlLock
<1>3. held' = held \cup {v} /\ left' = left
  BY DEF ContigLockSucceeds
<1>4. v \notin held
  BY BufferAssumption DEF ContigLockSucceeds, ClientInv, IndInv, TypeOK, PointersSound
<1>5. i \notin left /\ a \notin left
  BY <1>1, <1>2, BufferAssumption DEF ClientInv, IndInv, LeftSound, Kind
<1>6. sgIds' = sgIds
  BY <1>2, BufferAssumption DEF sgIds, Kind, ClientInv, IndInv, TypeOK
<1>7. contigIds' = contigIds \cup {i} /\ i \notin contigIds
  BY <1>2, <1>3, <1>5, BufferAssumption DEF contigIds, Kind, ClientInv, IndInv, TypeOK
<1>8. mappedAddrs' = mappedAddrs \cup {a} /\ a \notin mappedAddrs
  BY <1>1, <1>3, <1>5, BufferAssumption DEF mappedAddrs, ClientInv, IndInv, TypeOK
<1>9. /\ Cardinality(contigIds') = Cardinality(contigIds) + 1
      /\ Cardinality(mappedAddrs') = Cardinality(mappedAddrs) + 1
  BY <1>7, <1>8, CountedFinite, FS_AddElement
<1> QED
  BY <1>3, <1>4, <1>6, <1>9 DEF Leases!LockContig, sgIds, contigIds, mappedAddrs

\* Whether munmap fails or not: the mapping is given back or left behind.
LEMMA ContigUnlockUnleases ==
  ASSUME ClientInv, NEW v \in ContigVar, ContigUnlockSucceeds(v)
  PROVE  Leases!UnlockContig(v)
<1> DEFINE i == id[ppDma[v]]
           a == pUserAddr[ppDma[v]]
<1>1. /\ v \in held /\ held' = held \ {v}
      /\ ppDma[v] \in heap
      /\ locked[i] = "contig" /\ locked' = [locked EXCEPT ![i] = NULL]
      /\ \/ maps' = [maps EXCEPT ![a] = NULL] /\ left' = left
         \/ maps' = maps /\ left' = left \cup {a}
  BY DEF ContigUnlockSucceeds, Unlockable, ioctlUnlock, AfterUnlock, UnmapBuffer
<1>2. /\ i \in Id /\ i # NULL /\ a \in Addr /\ maps[a] = i
  BY <1>1, BufferAssumption DEF ClientInv, IndInv, TypeOK, BlocksSound
<1>3. i \notin left /\ a \notin left
  BY <1>1 DEF ClientInv, IndInv, LeftSound
<1>4. a \notin Id
  BY <1>2, BufferAssumption
<1> HIDE DEF i, a
<1>5. sgIds' = sgIds
  BY <1>1, <1>2, BufferAssumption DEF sgIds, Kind, ClientInv, IndInv, TypeOK
<1>6. contigIds' = contigIds \ {i} /\ i \in contigIds
  <2>1. Id \ left' = Id \ left
    BY <1>1, <1>4
  <2> QED
    BY <1>1, <1>2, <1>3, <2>1, BufferAssumption DEF contigIds, Kind, ClientInv, IndInv, TypeOK
<1>7. mappedAddrs' = mappedAddrs \ {a} /\ a \in mappedAddrs
  BY <1>1, <1>2, <1>3 DEF mappedAddrs, ClientInv, IndInv, TypeOK
<1>8. /\ Cardinality(contigIds') = Cardinality(contigIds) - 1
      /\ Cardinality(mappedAddrs') = Cardinality(mappedAddrs) - 1
  BY <1>6, <1>7, CountedFinite, FS_RemoveElement
<1> QED
  BY <1>1, <1>5, <1>8 DEF Leases!UnlockContig, sgIds, contigIds, mappedAddrs

\* What a contiguous lock that fails in the middle makes the kernel keep is
\* left behind: nobody has it on lease.
LEMMA KeptBufferStutters ==
  ASSUME ResetsPointer, ClientInv, NEW v \in ContigVar,
         ContigLockNoMemory(v) \/ ContigLockNotMapped(v)
  PROVE  UNCHANGED <<held, sgIds, contigIds, mappedAddrs>>
<1>1. PICK i \in Id : /\ locked[i] = NULL
                      /\ locked' = [locked EXCEPT ![i] = "contig"]
                      /\ left' = left \cup {i}
  BY DEF ContigLockNoMemory, ContigLockNotMapped, ioctlLock
<1>2. UNCHANGED <<held, maps>>
  BY KeptBufferPointers
<1>3. i \notin Addr
  BY BufferAssumption
<1>4. sgIds' = sgIds
  BY <1>1, BufferAssumption DEF sgIds, Kind, ClientInv, IndInv, TypeOK
<1>5. contigIds' = contigIds
  BY <1>1, BufferAssumption DEF contigIds, Kind, ClientInv, IndInv, TypeOK
<1>6. mappedAddrs' = mappedAddrs
  BY <1>1, <1>2, <1>3 DEF mappedAddrs
<1> QED
  BY <1>2, <1>4, <1>5, <1>6

LEMMA LeaseStep ==
  ASSUME ResetsPointer
  PROVE  ClientInv /\ [Next]_vars => [Leases!Next]_(Leases!vars)
<1> SUFFICES ASSUME ClientInv, [Next]_vars, ~ Leases!Next
             PROVE  UNCHANGED Leases!vars
  OBVIOUS
<1>1. CASE UNCHANGED vars
  BY <1>1 DEF vars, Leases!vars
<1>2. ASSUME NEW v \in Var,
             \/ SGLockNoMemory(v) \/ SGLockRefused(v) \/ UnlockRefused(v)
             \/ ContigLockPreallocated(v) \/ ContigLockRefused(v)
      PROVE  UNCHANGED Leases!vars
  BY <1>1, <1>2, FailedStep
<1>3. ASSUME NEW v \in ContigVar, ContigLockNoMemory(v) \/ ContigLockNotMapped(v)
      PROVE  UNCHANGED Leases!vars
  BY <1>3, KeptBufferStutters DEF Leases!vars, sgIds, contigIds, mappedAddrs
<1>4. \A v \in SGVar : ~ SGLockSucceeds(v) /\ ~ SGUnlockSucceeds(v)
  BY SGLockLeases, SGUnlockUnleases DEF Leases!Next
<1>5. \A v \in ContigVar : ~ ContigLockSucceeds(v) /\ ~ ContigUnlockSucceeds(v)
  BY ContigLockLeases, ContigUnlockUnleases DEF Leases!Next
<1> QED
  BY <1>1, <1>2, <1>3, <1>4, <1>5
     DEF Next, DMASGBufLock, DMASGBufUnlock, DMAContigBufLock, DMAContigBufUnlock, Var

LEMMA LeaseInit == Init => Leases!Init
<1> SUFFICES ASSUME Init PROVE Leases!Init
  OBVIOUS
<1>1. sgIds = {} /\ contigIds = {} /\ mappedAddrs = {}
  BY BufferAssumption DEF Init, sgIds, contigIds, mappedAddrs, Kind
<1>2. Cardinality({}) = 0
  BY FS_EmptySet
<1> QED
  BY <1>1, <1>2 DEF Init, Leases!Init, sgIds, contigIds, mappedAddrs

\* For the same client, the calls implement BufferLease: a
\* successful lock leases one buffer, a successful unlock gives back exactly
\* it, and every other step is no change but for what the named failures leave
\* behind.
THEOREM ImplementsBufferLease ==
  ASSUME ResetsPointer PROVE Spec => LeaseSpec
<1>1. Spec => []ClientInv
  BY ClientInductive
<1> QED
  BY <1>1, LeaseInit, LeaseStep, PTL DEF Spec, LeaseSpec, Leases!Spec

=============================================================================
