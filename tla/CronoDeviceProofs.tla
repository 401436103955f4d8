------------------------- MODULE CronoDeviceProofs -------------------------
(***************************************************************************)
(* Proofs about CronoDevice, for every set of boards, every size of the    *)
(* table and of the descriptor table, and every combination of faults.     *)
(***************************************************************************)
EXTENDS CronoDevice, TLAPS

-----------------------------------------------------------------------------
(* Lemmas about the helpers.                                               *)

\* Mapping the BARs of a slot keeps the address space well typed.
LEMMA MappedType ==
  ASSUME TypeOK,
         NEW s \in Slot, NEW B \in SUBSET BarNum, NEW u \in FreshAddresses(B)
  PROVE  Mapped(s, B, u) \in [Addr -> Mapping \cup {NULL}]
<1> SUFFICES ASSUME NEW a \in Addr, NEW c \in B, u[c] = a
             PROVE  [slot |-> s, bar |-> CHOOSE b \in B : u[b] = a] \in Mapping
  BY DEF Mapped, TypeOK
<1>1. (CHOOSE b \in B : u[b] = a) \in B
  OBVIOUS
<1> QED
  BY <1>1 DEF Mapping

\* A BAR that cannot be mapped leaves some set L of BARs mapped.
LEMMA BarFailsMapsSome ==
  ASSUME TypeOK, NEW s \in Slot, NEW p, OpenBarFails(s, p)
  PROVE  \E L \in SUBSET BarNum : \E u \in FreshAddresses(L) : maps' = Mapped(s, L, u)
<1>1. CASE maps' = maps
  <2>1. \A u : Mapped(s, {}, u) = maps
    BY DEF Mapped, TypeOK
  <2>2. [b \in {} |-> NULL] \in FreshAddresses({})
    BY DEF FreshAddresses
  <2> QED
    BY <1>1, <2>1, <2>2
<1>2. CASE maps' # maps
  <2>1. PICK b \in Bars[s] \cup {0} : LET L == {c \in Bars[s] : c < b} IN
          \E u \in FreshAddresses(L) : maps' = Mapped(s, L, u)
    BY <1>2 DEF OpenBarFails
  <2> DEFINE L == {c \in Bars[s] : c < b}
  <2>2. L \in SUBSET BarNum
    BY DeviceAssumption
  <2>3. \E u \in FreshAddresses(L) : maps' = Mapped(s, L, u)
    BY <2>1
  <2> HIDE DEF L
  <2> QED
    BY <2>2, <2>3
<1> QED
  BY <1>1, <1>2

\* freeDeviceMem keeps the library's state and the address space well typed.
LEMMA FreeType ==
  ASSUME TypeOK, NEW p \in Ptr, freeDeviceMem(p)
  PROVE  /\ devices' \in [Index -> Ptr \cup {NULL}]
         /\ iNewDev' \in 0..DEVICES
         /\ heap' \subseteq Ptr
         /\ pciSlot' \in [Ptr -> Slot \cup {NULL}]
         /\ miscdev_fd' \in [Ptr -> Fd]
         /\ userAddress' \in [Ptr -> [BarNum -> Addr \cup {NULL}]]
         /\ maps' \in [Addr -> Mapping \cup {NULL}]
<1> USE DeviceAssumption DEF TypeOK
<1>1. devices' \in [Index -> Ptr \cup {NULL}]
  BY DEF freeDeviceMem, Untrack
<1>2. iNewDev' \in 0..DEVICES
  BY DEF freeDeviceMem
<1>3. CASE Tracked(p)
  <2>1. maps' = Unmapped({userAddress[p][b] : b \in BarNum})
    BY <1>3 DEF freeDeviceMem
  <2>2. maps' \in [Addr -> Mapping \cup {NULL}]
    BY <2>1 DEF Unmapped
  <2>3. heap' \subseteq Ptr /\ pciSlot' \in [Ptr -> Slot \cup {NULL}]
    BY <1>3 DEF freeDeviceMem
  <2>4. 0 \in Fd
    BY DEF Fd
  <2>5. miscdev_fd' \in [Ptr -> Fd]
    BY <1>3, <2>4 DEF freeDeviceMem
  <2>6. userAddress' \in [Ptr -> [BarNum -> Addr \cup {NULL}]]
    BY <1>3 DEF freeDeviceMem, NoBars
  <2> QED
    BY <1>1, <1>2, <2>2, <2>3, <2>5, <2>6
<1>4. CASE ~Tracked(p)
  BY <1>1, <1>2, <1>4 DEF freeDeviceMem, blocks
<1> QED
  BY <1>3, <1>4

-----------------------------------------------------------------------------
(* Type correctness.                                                       *)

LEMMA TypeInit == Init => TypeOK
<1> SUFFICES ASSUME Init PROVE TypeOK
  OBVIOUS
<1>1. 0 \in Fd /\ 0 \in 0..DEVICES
  BY DeviceAssumption DEF Fd
<1> QED
  BY <1>1 DEF Init, TypeOK, NoBars, NoReply

LEMMA TypeOpen == TypeOK /\ PciDeviceOpen => TypeOK'
<1> SUFFICES ASSUME TypeOK, PciDeviceOpen PROVE TypeOK'
  OBVIOUS
<1> USE DeviceAssumption
<1>1. CASE OpenUnmatched
  BY <1>1 DEF OpenUnmatched, Answer, TypeOK, blocks
<1>2. CASE OpenOverrun
  BY <1>2 DEF OpenOverrun, TypeOK, blocks
<1>3. ASSUME NEW p \in Ptr \ heap, OpenFails(p) PROVE TypeOK'
  BY <1>3 DEF OpenFails, DeviceError, Answer, TypeOK, blocks
<1>4. ASSUME NEW p \in Ptr \ heap, NEW s \in Slot, OpenBarFails(s, p) PROVE TypeOK'
  <2>1. PICK L \in SUBSET BarNum : \E u \in FreshAddresses(L) : maps' = Mapped(s, L, u)
    BY <1>4, BarFailsMapsSome
  <2>2. maps' \in [Addr -> Mapping \cup {NULL}]
    BY <2>1, MappedType
  <2> QED
    BY <1>4, <2>2 DEF OpenBarFails, DeviceError, Answer, TypeOK, blocks
<1>5. ASSUME NEW p \in Ptr \ heap, NEW s \in Slot, OpenSucceeds(s, p) PROVE TypeOK'
  <2>1. PICK fd \in Fd, u \in FreshAddresses(Bars[s]) :
          /\ files' = [files EXCEPT ![fd] = s]
          /\ miscdev_fd' = [miscdev_fd EXCEPT ![p] = fd]
          /\ maps' = Mapped(s, Bars[s], u)
          /\ userAddress' = [userAddress EXCEPT ![p] =
               [b \in BarNum |-> IF b \in Bars[s] THEN u[b] ELSE NULL]]
    BY <1>5 DEF OpenSucceeds
  <2>2. Bars[s] \in SUBSET BarNum
    OBVIOUS
  <2>3. maps' \in [Addr -> Mapping \cup {NULL}]
    BY <2>1, <2>2, MappedType
  <2>4. userAddress' \in [Ptr -> [BarNum -> Addr \cup {NULL}]]
    BY <2>1 DEF TypeOK, FreshAddresses
  <2>5. files' \in [Fd -> Slot \cup {NULL, APP}] /\ miscdev_fd' \in [Ptr -> Fd]
    BY <2>1 DEF TypeOK
  <2>6. devices' \in [Index -> Ptr \cup {NULL}]
    BY <1>5 DEF OpenSucceeds, Enter, TypeOK
  <2>7. iNewDev' \in 0..DEVICES
    BY <1>5 DEF OpenSucceeds, Enter, TypeOK
  <2>8. reply' \in [ret : {"NONE", "SUCCESS", "ERROR"}, phDev : Ptr \cup {NULL}]
    BY <1>5 DEF OpenSucceeds, Answer
  <2>9. /\ heap' \subseteq Ptr /\ held' \subseteq Ptr /\ failed' \subseteq Ptr
        /\ pciSlot' \in [Ptr -> Slot \cup {NULL}]
        /\ phase' \in {"running", "unloaded", "overrun"}
    BY <1>5 DEF OpenSucceeds, TypeOK
  <2> QED
    BY <2>3, <2>4, <2>5, <2>6, <2>7, <2>8, <2>9, Zenon DEF TypeOK
<1> QED
  BY <1>1, <1>2, <1>3, <1>4, <1>5 DEF PciDeviceOpen

LEMMA TypeClose == TypeOK /\ PciDeviceClose => TypeOK'
<1> SUFFICES ASSUME TypeOK, NEW p \in Ptr,
                    CloseRefused(p) \/
                    CloseFails(p) \/ CloseLeavesMemory(p) \/ CloseSucceeds(p)
             PROVE  TypeOK'
  BY DEF PciDeviceClose
<1>1. CloseFile(p) => files' \in [Fd -> Slot \cup {NULL, APP}]
  BY DEF CloseFile, TypeOK
<1>2. CASE CloseFails(p)
  BY <1>1, <1>2 DEF CloseFails, TypeOK, blocks, NoReply
<1>3. CASE CloseLeavesMemory(p)
  BY <1>1, <1>3 DEF CloseLeavesMemory, freeDeviceMemFails, Unmapped, TypeOK, NoReply
<1>4. CASE CloseSucceeds(p)
  <2>1. freeDeviceMem(p)
    BY <1>4 DEF CloseSucceeds
  <2> QED
    BY <1>1, <1>4, <2>1, FreeType DEF CloseSucceeds, TypeOK, NoReply
<1>5. CASE CloseRefused(p)
  BY <1>5 DEF CloseRefused, TypeOK, blocks, NoReply
<1> QED
  BY <1>2, <1>3, <1>4, <1>5

LEMMA TypeUnload == TypeOK /\ onUnload => TypeOK'
<1> SUFFICES ASSUME TypeOK, onUnload PROVE TypeOK'
  OBVIOUS
<1>1. 0 \in Fd /\ 0 \in 0..DEVICES
  BY DeviceAssumption DEF Fd
<1> QED
  BY <1>1 DEF onUnload, TypeOK, NoBars

LEMMA TypeStep == TypeOK /\ [Next]_vars => TypeOK'
<1>1. TypeOK /\ UNCHANGED vars => TypeOK'
  BY DEF TypeOK, vars, blocks
<1> QED
  BY <1>1, TypeOpen, TypeClose, TypeUnload DEF Next

\* Every variable keeps its type through every Open, Close and unload; in
\* particular iNewDev never leaves 0..DEVICES, however Open and Close fail.
THEOREM TypeCorrect == Spec => []TypeOK
<1> QED
  BY TypeInit, TypeStep, PTL DEF Spec

-----------------------------------------------------------------------------
(* The table: entries below iNewDev stay allocated and distinct.           *)

\* A failed Open writes the entry at iNewDev, which is not below iNewDev.
LEMMA ErrorKeepsTable ==
  ASSUME TypeOK, TableSound, NEW p \in Ptr, DeviceError(p), UNCHANGED phase
  PROVE  TableSound'
<1>1. iNewDev \in Int /\ \A i \in 0..(iNewDev - 1) : devices'[i] = devices[i]
  BY DeviceAssumption DEF TypeOK, DeviceError, Index
<1> QED
  BY <1>1 DEF TableSound, Running, DeviceError, blocks

\* A new block is entered above the others and differs from them.
LEMMA EnterKeepsTable ==
  ASSUME TypeOK, TableSound, NEW p \in Ptr \ heap, iNewDev < DEVICES,
         Enter(p), heap' = heap \cup {p}, UNCHANGED phase
  PROVE  TableSound'
<1> SUFFICES ASSUME Running PROVE TableSound'
  BY DEF TableSound, Running
<1>1. /\ iNewDev \in Nat /\ iNewDev' = iNewDev + 1
      /\ devices'[iNewDev] = p
      /\ \A i \in 0..(iNewDev - 1) : devices'[i] = devices[i]
  BY DeviceAssumption DEF TypeOK, Enter, Index
<1>2. \A i \in 0..(iNewDev' - 1) : i = iNewDev \/ i \in 0..(iNewDev - 1)
  BY <1>1
<1>3. \A i \in 0..(iNewDev - 1) : devices'[i] # NULL => devices'[i] \in heap
  BY <1>1 DEF TableSound
<1>4. \A i, j \in 0..(iNewDev - 1) :
        devices'[i] # NULL /\ devices'[i] = devices'[j] => i = j
  BY <1>1 DEF TableSound
<1> QED
  BY <1>1, <1>2, <1>3, <1>4 DEF TableSound

\* freeDeviceMem frees p and removes it from every entry below iNewDev; the
\* index never grows.
LEMMA FreeKeepsTable ==
  ASSUME TypeOK, TableSound, NEW p \in Ptr, freeDeviceMem(p), UNCHANGED phase
  PROVE  TableSound'
<1> SUFFICES ASSUME Running PROVE TableSound'
  BY DEF TableSound, Running
<1>0. DEVICES \in Nat /\ iNewDev \in Nat /\ iNewDev <= DEVICES
  BY DeviceAssumption DEF TypeOK
<1>1. PICK k \in 0..iNewDev : iNewDev' = k
  BY DEF freeDeviceMem
<1>2. ASSUME NEW i \in 0..(k - 1) PROVE i \in 0..(iNewDev - 1) /\ i \in Index
  BY <1>0, <1>1, <1>2 DEF Index
<1>3. \A i \in 0..(iNewDev - 1) : i \in Index =>
        devices'[i] = IF devices[i] = p THEN NULL ELSE devices[i]
  BY <1>0 DEF freeDeviceMem, Untrack
<1>4. heap \ {p} \subseteq heap'
  BY DEF freeDeviceMem, blocks
<1>5. ASSUME NEW i \in 0..(k - 1), devices'[i] # NULL
      PROVE  /\ devices'[i] \in heap'
             /\ \A j \in 0..(k - 1) : devices'[j] = devices'[i] => i = j
  <2>1. devices'[i] = devices[i] /\ devices[i] # p
    BY <1>2, <1>3, <1>5
  <2>2. devices[i] \in heap
    BY <1>2, <1>5, <2>1 DEF TableSound
  <2>3. ASSUME NEW j \in 0..(k - 1), devices'[j] = devices'[i] PROVE i = j
    <3>1. devices[j] = devices[i]
      BY <1>2, <1>3, <1>5, <2>1, <2>3
    <3> QED
      BY <1>2, <1>5, <2>1, <3>1 DEF TableSound
  <2> QED
    BY <1>4, <2>1, <2>2, <2>3
<1> QED
  BY <1>1, <1>5 DEF TableSound

LEMMA TableStep == TypeOK /\ TableSound /\ [Next]_vars => TableSound'
<1> SUFFICES ASSUME TypeOK, TableSound, [Next]_vars PROVE TableSound'
  OBVIOUS
<1>1. CASE OpenUnmatched
  BY <1>1 DEF OpenUnmatched, TableSound, Running, blocks
<1>2. CASE OpenOverrun
  BY <1>2 DEF OpenOverrun, TableSound, Running
<1>3. ASSUME NEW p \in Ptr \ heap, NEW s \in Slot, OpenBarFails(s, p)
      PROVE  TableSound'
  BY <1>3, ErrorKeepsTable DEF OpenBarFails
<1>4. ASSUME NEW p \in Ptr \ heap, OpenFails(p) PROVE TableSound'
  BY <1>4, ErrorKeepsTable DEF OpenFails
<1>5. ASSUME NEW p \in Ptr \ heap, NEW s \in Slot, OpenSucceeds(s, p) PROVE TableSound'
  BY <1>5, EnterKeepsTable DEF OpenSucceeds
<1>6. CASE PciDeviceOpen
  BY <1>1, <1>2, <1>3, <1>4, <1>5, <1>6 DEF PciDeviceOpen
<1>7. ASSUME NEW p \in Ptr, CloseRefused(p) \/ CloseFails(p) \/ CloseLeavesMemory(p)
      PROVE  TableSound'
  BY <1>7 DEF CloseRefused, CloseFails, CloseLeavesMemory, freeDeviceMemFails, TableSound,
              Running, blocks
<1>8. ASSUME NEW p \in Ptr, CloseSucceeds(p) PROVE TableSound'
  BY <1>8, FreeKeepsTable DEF CloseSucceeds
<1>9. CASE PciDeviceClose
  BY <1>7, <1>8, <1>9 DEF PciDeviceClose
<1>10. CASE onUnload
  BY <1>10 DEF onUnload, TableSound, Running
<1>11. CASE UNCHANGED vars
  BY <1>11 DEF vars, blocks, TableSound, Running
<1> QED
  BY <1>6, <1>9, <1>10, <1>11 DEF Next

\* No block is ever freed twice by a Close or by the cleanup at unload,
\* whatever sequence of Opens and Closes succeeded or failed before.
THEOREM TableIsSound == Spec => []TableSound
<1>1. Init => TableSound
  BY DEF Init, TableSound
<1> QED
  BY <1>1, TypeInit, TypeStep, TableStep, PTL DEF Spec

-----------------------------------------------------------------------------
(* Blocks: a held device's block is allocated.                             *)

LEMMA AllocatedStep ==
  TypeOK /\ HeldAllocated /\ [Next]_vars => HeldAllocated'
<1> SUFFICES ASSUME TypeOK, HeldAllocated, [Next]_vars, Running' PROVE HeldAllocated'
  BY DEF HeldAllocated
<1>1. CASE OpenUnmatched
  BY <1>1 DEF OpenUnmatched, HeldAllocated, Running, blocks
<1>2. CASE OpenOverrun
  BY <1>2 DEF OpenOverrun, Running
<1>3. ASSUME NEW p \in Ptr \ heap, OpenFails(p) PROVE HeldAllocated'
  BY <1>3 DEF OpenFails, DeviceError, HeldAllocated, Running, blocks
<1>4. ASSUME NEW p \in Ptr \ heap, NEW s \in Slot, OpenBarFails(s, p)
      PROVE  HeldAllocated'
  BY <1>4 DEF OpenBarFails, DeviceError, HeldAllocated, Running, blocks
<1>5. ASSUME NEW p \in Ptr \ heap, NEW s \in Slot, OpenSucceeds(s, p)
      PROVE  HeldAllocated'
  BY <1>5 DEF OpenSucceeds, HeldAllocated, Running, TypeOK
<1>6. CASE PciDeviceOpen
  BY <1>1, <1>2, <1>3, <1>4, <1>5, <1>6 DEF PciDeviceOpen
<1>7. ASSUME NEW p \in Ptr, CloseRefused(p) \/ CloseFails(p) \/ CloseLeavesMemory(p)
      PROVE  HeldAllocated'
  BY <1>7 DEF CloseRefused, CloseFails, CloseLeavesMemory, freeDeviceMemFails,
              HeldAllocated, Running, blocks
<1>8. ASSUME NEW p \in Ptr, CloseSucceeds(p) PROVE HeldAllocated'
  BY <1>8 DEF CloseSucceeds, freeDeviceMem, HeldAllocated, Running, TypeOK, blocks
<1>9. CASE PciDeviceClose
  BY <1>7, <1>8, <1>9 DEF PciDeviceClose
<1>10. CASE onUnload
  BY <1>10 DEF onUnload, Running
<1>11. CASE UNCHANGED vars
  BY <1>11 DEF vars, blocks, HeldAllocated, Running
<1> QED
  BY <1>6, <1>9, <1>10, <1>11 DEF Next

-----------------------------------------------------------------------------
(* Addresses: each mapping an allocated block names is its own.            *)

\* mmap gives each BAR an address of its own that was free, and leaves the
\* mappings there were.
LEMMA FreshFacts ==
  ASSUME TypeOK, NEW s \in Slot, NEW B \in SUBSET BarNum, NEW u \in FreshAddresses(B)
  PROVE  /\ \A b \in B : u[b] \in Addr /\ u[b] # NULL /\ maps[u[b]] = NULL
         /\ \A b \in B : Mapped(s, B, u)[u[b]] = [slot |-> s, bar |-> b]
         /\ \A a \in Addr : maps[a] # NULL => Mapped(s, B, u)[a] = maps[a]
         /\ \A b, c \in B : u[b] = u[c] => b = c
<1>1. \A b \in B : u[b] \in Addr /\ u[b] # NULL /\ maps[u[b]] = NULL
  BY DeviceAssumption DEF FreshAddresses
<1>2. \A b, c \in B : u[b] = u[c] => b = c
  BY DEF FreshAddresses
<1>3. ASSUME NEW b \in B PROVE Mapped(s, B, u)[u[b]] = [slot |-> s, bar |-> b]
  <2>1. (CHOOSE c \in B : u[c] = u[b]) = b
    BY <1>2, <1>3
  <2> QED
    BY <1>1, <1>3, <2>1 DEF Mapped
<1>4. ASSUME NEW a \in Addr, maps[a] # NULL PROVE Mapped(s, B, u)[a] = maps[a]
  <2>1. ~ \E b \in B : u[b] = a
    BY <1>1, <1>4
  <2> QED
    BY <2>1, <1>4 DEF Mapped
<1> QED
  BY <1>1, <1>2, <1>3, <1>4

\* What an allocated block names is mapped, hence not null.
LEMMA OwnedIsMapped ==
  ASSUME TypeOK, HeldAllocated, AddressesOwned, Running,
         NEW p \in heap, NEW b \in BarNum, userAddress[p][b] # NULL
  PROVE  /\ userAddress[p][b] \in Addr
         /\ maps[userAddress[p][b]] = [slot |-> pciSlot[p], bar |-> b]
         /\ maps[userAddress[p][b]] # NULL
<1>1. userAddress[p][b] \in Addr
  BY DEF TypeOK
<1>2. maps[userAddress[p][b]] = [slot |-> pciSlot[p], bar |-> b]
  BY DEF AddressesOwned
<1>3. [slot |-> pciSlot[p], bar |-> b] \in Mapping
  BY DEF HeldAllocated, Mapping
<1> QED
  BY <1>1, <1>2, <1>3, DeviceAssumption

\* An address that is not null is named by one BAR of one allocated block.
LEMMA OwnedOnce ==
  ASSUME AddressesOwned, Running,
         NEW q \in heap, NEW b \in BarNum, userAddress[q][b] # NULL,
         NEW r \in heap, NEW c \in BarNum, userAddress[r][c] = userAddress[q][b]
  PROVE  q = r /\ b = c
<1>1. \A x \in heap, d \in BarNum :
        userAddress[x][d] = userAddress[q][b] => q = x /\ b = d
  BY DEF AddressesOwned
<1> QED
  BY <1>1

\* A step that only adds mappings.
LEMMA ExtendKeepsAddresses ==
  ASSUME TypeOK, HeldAllocated, AddressesOwned, Running, UNCHANGED blocks,
         \A a \in Addr : maps[a] # NULL => maps'[a] = maps[a]
  PROVE  AddressesOwned'
<1>1. ASSUME NEW p \in heap, NEW b \in BarNum, userAddress[p][b] # NULL
      PROVE  maps'[userAddress[p][b]] = [slot |-> pciSlot[p], bar |-> b]
  BY <1>1, OwnedIsMapped
<1>2. heap' = heap /\ userAddress' = userAddress /\ pciSlot' = pciSlot
  BY DEF blocks
<1> QED
  BY <1>1, <1>2 DEF AddressesOwned

\* A step that unmaps the BARs C of block p, and after which no allocated
\* block names what was unmapped.
LEMMA UnmapKeepsAddresses ==
  ASSUME TypeOK, HeldAllocated, AddressesOwned, Running,
         NEW p \in heap, NEW C \in SUBSET BarNum,
         maps' = Unmapped({userAddress[p][c] : c \in C}),
         heap' \subseteq heap,
         \A q \in heap' : pciSlot'[q] = pciSlot[q],
         \A q \in heap', b \in BarNum : userAddress'[q][b] # NULL =>
           userAddress'[q][b] = userAddress[q][b] /\ ~ (q = p /\ b \in C)
  PROVE  AddressesOwned'
<1>1. ASSUME NEW q \in heap', NEW b \in BarNum, userAddress'[q][b] # NULL
      PROVE  maps'[userAddress'[q][b]] = [slot |-> pciSlot'[q], bar |-> b]
  <2>1. q \in heap /\ userAddress'[q][b] = userAddress[q][b] /\ ~ (q = p /\ b \in C)
    BY <1>1
  <2>2. /\ userAddress[q][b] \in Addr
        /\ maps[userAddress[q][b]] = [slot |-> pciSlot[q], bar |-> b]
    BY <1>1, <2>1, OwnedIsMapped
  <2>3. ASSUME NEW c \in C PROVE userAddress[p][c] # userAddress[q][b]
    <3> SUFFICES ASSUME userAddress[p][c] = userAddress[q][b] PROVE FALSE
      OBVIOUS
    <3>1. q = p /\ b = c
      BY <1>1, <2>1, OwnedOnce
    <3> QED
      BY <2>1, <2>3, <3>1
  <2> QED
    BY <1>1, <2>1, <2>2, <2>3 DEF Unmapped
<1>2. ASSUME NEW q \in heap', NEW b \in BarNum, userAddress'[q][b] # NULL,
             NEW r \in heap', NEW c \in BarNum, userAddress'[r][c] = userAddress'[q][b]
      PROVE  q = r /\ b = c
  <2>1. userAddress'[q][b] = userAddress[q][b] /\ userAddress'[r][c] = userAddress[r][c]
    BY <1>2
  <2>2. q \in heap /\ r \in heap
    BY <1>2
  <2> QED
    BY <1>2, <2>1, <2>2, OwnedOnce
<1> QED
  BY <1>1, <1>2 DEF AddressesOwned

\* A failed Open leaves the blocks as they are and unmaps nothing.
LEMMA FailedOpenKeepsAddresses ==
  ASSUME TypeOK, HeldAllocated, AddressesOwned, Running, NEW p \in Ptr \ heap, NEW s \in Slot,
         OpenFails(p) \/ OpenBarFails(s, p)
  PROVE  AddressesOwned'
<1>1. UNCHANGED blocks
  BY DEF OpenFails, OpenBarFails, DeviceError
<1>2. CASE OpenFails(p)
  BY <1>1, <1>2, ExtendKeepsAddresses DEF OpenFails
<1>3. CASE OpenBarFails(s, p)
  <2>1. PICK L \in SUBSET BarNum : \E u \in FreshAddresses(L) : maps' = Mapped(s, L, u)
    BY <1>3, BarFailsMapsSome
  <2>2. \A a \in Addr : maps[a] # NULL => maps'[a] = maps[a]
    BY <2>1, FreshFacts
  <2> QED
    BY <1>1, <2>2, ExtendKeepsAddresses
<1> QED
  BY <1>2, <1>3

\* The addresses of a new device were free, so no other block names them.
LEMMA OpenKeepsAddresses ==
  ASSUME TypeOK, HeldAllocated, AddressesOwned, Running, NEW p \in Ptr \ heap, NEW s \in Slot,
         OpenSucceeds(s, p)
  PROVE  AddressesOwned'
<1>1. PICK u \in FreshAddresses(Bars[s]) :
        /\ maps' = Mapped(s, Bars[s], u)
        /\ userAddress' = [userAddress EXCEPT ![p] =
             [b \in BarNum |-> IF b \in Bars[s] THEN u[b] ELSE NULL]]
  BY DEF OpenSucceeds
<1>2. Bars[s] \in SUBSET BarNum
  BY DeviceAssumption
<1>3. /\ \A b \in Bars[s] : u[b] \in Addr /\ u[b] # NULL /\ maps[u[b]] = NULL
      /\ \A b \in Bars[s] : maps'[u[b]] = [slot |-> s, bar |-> b]
      /\ \A a \in Addr : maps[a] # NULL => maps'[a] = maps[a]
      /\ \A b, c \in Bars[s] : u[b] = u[c] => b = c
  BY <1>1, <1>2, FreshFacts
<1>4. heap' = heap \cup {p} /\ pciSlot'[p] = s /\ \A q \in heap : pciSlot'[q] = pciSlot[q]
  BY DEF OpenSucceeds, TypeOK
<1>5. \A b \in BarNum : userAddress'[p][b] = IF b \in Bars[s] THEN u[b] ELSE NULL
  BY <1>1 DEF TypeOK
<1>6. \A q \in heap : userAddress'[q] = userAddress[q]
  BY <1>1 DEF TypeOK
<1>7. \A q \in heap, b \in BarNum : userAddress[q][b] # NULL =>
        /\ userAddress[q][b] \in Addr
        /\ maps[userAddress[q][b]] = [slot |-> pciSlot[q], bar |-> b]
        /\ maps[userAddress[q][b]] # NULL
  BY OwnedIsMapped
<1>8. ASSUME NEW q \in heap', NEW b \in BarNum, userAddress'[q][b] # NULL
      PROVE  maps'[userAddress'[q][b]] = [slot |-> pciSlot'[q], bar |-> b]
  <2>1. CASE q = p
    BY <1>3, <1>4, <1>5, <1>8, <2>1
  <2>2. CASE q \in heap
    BY <1>3, <1>4, <1>6, <1>7, <1>8, <2>2
  <2> QED
    BY <1>4, <1>8, <2>1, <2>2
<1>9. ASSUME NEW q \in heap', NEW b \in BarNum, userAddress'[q][b] # NULL,
             NEW r \in heap', NEW c \in BarNum, userAddress'[r][c] = userAddress'[q][b]
      PROVE  q = r /\ b = c
  <2>1. CASE q = p /\ r = p
    BY <1>3, <1>5, <1>9, <2>1
  <2>2. CASE q \in heap /\ r = p
    <3>1. c \in Bars[s] /\ userAddress[q][b] = u[c] /\ userAddress[q][b] # NULL
      BY <1>5, <1>6, <1>9, <2>2
    <3>2. maps[userAddress[q][b]] # NULL
      BY <1>9, <2>2, <3>1, OwnedIsMapped
    <3> QED
      BY <1>3, <3>1, <3>2
  <2>3. CASE q = p /\ r \in heap
    <3>1. b \in Bars[s] /\ userAddress[r][c] = u[b] /\ userAddress[r][c] # NULL
      BY <1>5, <1>6, <1>9, <2>3
    <3>2. maps[userAddress[r][c]] # NULL
      BY <1>9, <2>3, <3>1, OwnedIsMapped
    <3> QED
      BY <1>3, <3>1, <3>2
  <2>4. CASE q \in heap /\ r \in heap
    BY <1>6, <1>9, <2>4, OwnedOnce
  <2> QED
    BY <1>4, <1>9, <2>1, <2>2, <2>3, <2>4
<1> QED
  BY <1>8, <1>9 DEF AddressesOwned

\* An entry the table tracks is an allocated block.
LEMMA TrackedAllocated ==
  ASSUME TableSound, Running, NEW p \in Ptr, Tracked(p)
  PROVE  p \in heap
BY DeviceAssumption DEF TableSound, Tracked

LEMMA CloseKeepsAddresses ==
  ASSUME TypeOK, TableSound, HeldAllocated, AddressesOwned, Running, NEW p \in Ptr,
         CloseFails(p) \/ CloseLeavesMemory(p) \/ CloseSucceeds(p)
  PROVE  AddressesOwned'
<1>1. CASE CloseFails(p)
  BY <1>1, ExtendKeepsAddresses DEF CloseFails
<1>2. CASE CloseLeavesMemory(p)
  <2>1. PICK b \in BarNum : freeDeviceMemFails(p, b)
    BY <1>2 DEF CloseLeavesMemory
  <2> DEFINE C == {d \in BarNum : d < b}
  <2>2. p \in heap
    BY <2>1, TrackedAllocated DEF freeDeviceMemFails
  <2>3. C \in SUBSET BarNum /\ maps' = Unmapped({userAddress[p][c] : c \in C})
    BY <2>1 DEF freeDeviceMemFails
  <2>4. heap' = heap /\ pciSlot' = pciSlot
    BY <2>1 DEF freeDeviceMemFails
  <2>5. \A q \in heap', d \in BarNum : userAddress'[q][d] # NULL =>
          userAddress'[q][d] = userAddress[q][d] /\ ~ (q = p /\ d \in C)
    BY <2>1, <2>4 DEF freeDeviceMemFails, TypeOK
  <2> HIDE DEF C
  <2> QED
    BY <2>2, <2>3, <2>4, <2>5, UnmapKeepsAddresses
<1>3. CASE CloseSucceeds(p) /\ Tracked(p)
  <2>1. p \in heap
    BY <1>3, TrackedAllocated
  <2>2. /\ maps' = Unmapped({userAddress[p][c] : c \in BarNum})
        /\ heap' = heap \ {p}
        /\ \A q \in heap' : pciSlot'[q] = pciSlot[q]
        /\ \A q \in heap' : userAddress'[q] = userAddress[q]
    BY <1>3 DEF CloseSucceeds, freeDeviceMem, TypeOK
  <2>3. \A q \in heap', d \in BarNum : userAddress'[q][d] # NULL =>
          userAddress'[q][d] = userAddress[q][d] /\ ~ (q = p /\ d \in BarNum)
    BY <2>2
  <2> QED
    BY <2>1, <2>2, <2>3, UnmapKeepsAddresses
<1>4. CASE CloseSucceeds(p) /\ ~ Tracked(p)
  BY <1>4, ExtendKeepsAddresses DEF CloseSucceeds, freeDeviceMem
<1> QED
  BY <1>1, <1>2, <1>3, <1>4

LEMMA AddressesStep ==
  TypeOK /\ TableSound /\ HeldAllocated /\ AddressesOwned /\ [Next]_vars => AddressesOwned'
<1> SUFFICES ASSUME TypeOK, TableSound, HeldAllocated, AddressesOwned, [Next]_vars, Running'
             PROVE  AddressesOwned'
  BY DEF AddressesOwned
<1>1. CASE OpenUnmatched
  BY <1>1 DEF OpenUnmatched, AddressesOwned, Running, blocks
<1>2. CASE OpenOverrun
  BY <1>2 DEF OpenOverrun, Running
<1>3. ASSUME NEW p \in Ptr \ heap, OpenFails(p) PROVE AddressesOwned'
  BY <1>3 DEF OpenFails, DeviceError, AddressesOwned, Running, blocks
<1>4. ASSUME NEW p \in Ptr \ heap, NEW s \in Slot, OpenBarFails(s, p)
      PROVE  AddressesOwned'
  BY <1>4, FailedOpenKeepsAddresses DEF OpenBarFails, Ready, Running
<1>5. ASSUME NEW p \in Ptr \ heap, NEW s \in Slot, OpenSucceeds(s, p)
      PROVE  AddressesOwned'
  BY <1>5, OpenKeepsAddresses DEF OpenSucceeds, Ready, Running
<1>6. CASE PciDeviceOpen
  BY <1>1, <1>2, <1>3, <1>4, <1>5, <1>6 DEF PciDeviceOpen
<1>7. ASSUME NEW p \in Ptr, CloseRefused(p) PROVE AddressesOwned'
  BY <1>7 DEF CloseRefused, AddressesOwned, Running, blocks
<1>8. ASSUME NEW p \in Ptr, CloseFails(p) \/ CloseLeavesMemory(p) \/ CloseSucceeds(p)
      PROVE  AddressesOwned'
  <2>1. Running
    BY <1>8 DEF CloseFails, CloseLeavesMemory, CloseSucceeds, Closable, Running
  <2> QED
    BY <1>8, <2>1, CloseKeepsAddresses
<1>9. CASE onUnload
  BY <1>9 DEF onUnload, Running
<1>10. CASE UNCHANGED vars
  BY <1>10 DEF vars, blocks, AddressesOwned, Running
<1> QED
  BY <1>6, <1>7, <1>8, <1>9, <1>10 DEF Next, PciDeviceClose

-----------------------------------------------------------------------------
(* What a held device has: its BARs.                                       *)

LEMMA HeldMappedStep ==
  TypeOK /\ HeldAllocated /\ HeldMapped /\ [Next]_vars => HeldMapped'
<1> SUFFICES ASSUME TypeOK, HeldAllocated, HeldMapped, [Next]_vars, Running' PROVE HeldMapped'
  BY DEF HeldMapped
<1>1. ASSUME UNCHANGED <<blocks, held, phase>> PROVE HeldMapped'
  BY <1>1 DEF HeldMapped, Running, blocks
<1>2. CASE PciDeviceOpen
  <2>1. CASE OpenUnmatched \/ OpenOverrun
    BY <1>1, <2>1 DEF OpenUnmatched, OpenOverrun, Running
  <2>2. ASSUME NEW p \in Ptr, NEW s \in Slot, OpenBarFails(s, p)
        PROVE  HeldMapped'
    BY <1>1, <2>2 DEF OpenBarFails, DeviceError
  <2>3. ASSUME NEW p \in Ptr, OpenFails(p) PROVE HeldMapped'
    BY <1>1, <2>3 DEF OpenFails, DeviceError
  <2>4. ASSUME NEW p \in Ptr \ heap, NEW s \in Slot, OpenSucceeds(s, p)
        PROVE  HeldMapped'
    <3>1. PICK u \in FreshAddresses(Bars[s]) :
            userAddress' = [userAddress EXCEPT ![p] =
              [b \in BarNum |-> IF b \in Bars[s] THEN u[b] ELSE NULL]]
      BY <2>4 DEF OpenSucceeds
    <3>2. held' = held \cup {p} /\ held \subseteq heap /\ Running
      BY <2>4 DEF OpenSucceeds, HeldAllocated, Ready, Running
    <3>3. \A q \in held : pciSlot'[q] = pciSlot[q] /\ userAddress'[q] = userAddress[q]
      BY <2>4, <3>1, <3>2 DEF OpenSucceeds, TypeOK
    <3>4. pciSlot'[p] = s /\ Bars[s] \subseteq BarNum
      BY <2>4, DeviceAssumption DEF OpenSucceeds, TypeOK
    <3>5. \A b \in Bars[s] : u[b] \in Addr /\ u[b] # NULL
      BY <3>1, DeviceAssumption DEF FreshAddresses
    <3>6. \A b \in Bars[s] : userAddress'[p][b] # NULL
      BY <3>1, <3>4, <3>5 DEF TypeOK
    <3> QED
      BY <3>2, <3>3, <3>4, <3>6 DEF HeldMapped
  <2> QED
    BY <1>2, <2>1, <2>2, <2>3, <2>4 DEF PciDeviceOpen
<1>3. ASSUME NEW p \in Ptr, CloseRefused(p) PROVE HeldMapped'
  BY <1>1, <1>3 DEF CloseRefused
<1>4. ASSUME NEW p \in Ptr, CloseFails(p) \/ CloseLeavesMemory(p) \/ CloseSucceeds(p)
      PROVE  HeldMapped'
  <2>1. held' = held \ {p} /\ Running
    BY <1>4 DEF CloseFails, CloseLeavesMemory, CloseSucceeds, Closable, Running
  <2>2. \A q \in Ptr \ {p} : pciSlot'[q] = pciSlot[q] /\ userAddress'[q] = userAddress[q]
    BY <1>4 DEF CloseFails, CloseLeavesMemory, CloseSucceeds, freeDeviceMem,
                freeDeviceMemFails, TypeOK, blocks
  <2> QED
    BY <2>1, <2>2 DEF HeldMapped, TypeOK
<1>5. CASE onUnload
  BY <1>5 DEF onUnload, Running
<1>6. CASE UNCHANGED vars
  BY <1>1, <1>6 DEF vars
<1> QED
  BY <1>2, <1>3, <1>4, <1>5, <1>6 DEF Next, PciDeviceClose

-----------------------------------------------------------------------------
(* The inductive invariant and what follows from it.                       *)

LEMMA NoOrphanFileStep ==
  TypeOK /\ HeldAllocated /\ NoOrphanFile /\ [Next]_vars => NoOrphanFile'
<1> SUFFICES ASSUME TypeOK, HeldAllocated, NoOrphanFile, [Next]_vars, Running'
             PROVE  NoOrphanFile'
  BY DEF NoOrphanFile
<1>1. ASSUME UNCHANGED <<miscdev_fd, held, phase>>,
             \A fd \in Fd : files'[fd] = files[fd]
      PROVE  NoOrphanFile'
  BY <1>1 DEF NoOrphanFile, Running
<1>2. CASE PciDeviceOpen
  <2>1. CASE OpenUnmatched \/ OpenOverrun
    BY <1>1, <2>1 DEF OpenUnmatched, OpenOverrun, Running, blocks
  <2>2. ASSUME NEW p \in Ptr, NEW s \in Slot, OpenBarFails(s, p)
        PROVE  NoOrphanFile'
    BY <1>1, <2>2 DEF OpenBarFails, DeviceError, blocks, TypeOK
  <2>3. ASSUME NEW p \in Ptr, OpenFails(p) PROVE NoOrphanFile'
    BY <1>1, <2>3 DEF OpenFails, DeviceError, blocks
  <2>4. ASSUME NEW p \in Ptr \ heap, NEW s \in Slot, OpenSucceeds(s, p)
        PROVE  NoOrphanFile'
    <3>1. PICK g \in Fd : /\ files' = [files EXCEPT ![g] = s]
                          /\ miscdev_fd' = [miscdev_fd EXCEPT ![p] = g]
      BY <2>4 DEF OpenSucceeds
    <3>2. held' = held \cup {p} /\ p \notin held /\ Running
      BY <2>4 DEF OpenSucceeds, HeldAllocated, Ready, Running
    <3>3. ASSUME NEW fd \in Fd, files'[fd] \in Slot
          PROVE  \E q \in held' : miscdev_fd'[q] = fd
      <4>1. CASE fd = g
        BY <3>1, <3>2, <4>1 DEF TypeOK
      <4>2. CASE fd # g
        <5>1. PICK q \in held : miscdev_fd[q] = fd
          BY <3>1, <3>2, <3>3, <4>2 DEF NoOrphanFile, TypeOK
        <5> QED
          BY <3>1, <3>2, <5>1 DEF TypeOK
      <4> QED
        BY <4>1, <4>2
    <3> QED
      BY <3>3 DEF NoOrphanFile
  <2> QED
    BY <1>2, <2>1, <2>2, <2>3, <2>4 DEF PciDeviceOpen
<1>3. ASSUME NEW p \in Ptr, CloseRefused(p) PROVE NoOrphanFile'
  BY <1>1, <1>3 DEF CloseRefused, blocks
<1>4. ASSUME NEW p \in Ptr, CloseFails(p) \/ CloseLeavesMemory(p) \/ CloseSucceeds(p)
      PROVE  NoOrphanFile'
  <2>1. held' = held \ {p} /\ Running /\ files' = [files EXCEPT ![miscdev_fd[p]] = NULL]
    BY <1>4 DEF CloseFails, CloseLeavesMemory, CloseSucceeds, Closable, CloseFile, Running
  <2>2. \A q \in Ptr \ {p} : miscdev_fd'[q] = miscdev_fd[q]
    BY <1>4 DEF CloseFails, CloseLeavesMemory, CloseSucceeds, freeDeviceMem,
                freeDeviceMemFails, TypeOK, blocks
  <2>3. ASSUME NEW fd \in Fd, files'[fd] \in Slot
        PROVE  \E q \in held' : miscdev_fd'[q] = fd
    <3>1. fd # miscdev_fd[p] /\ files[fd] \in Slot
      BY <2>1, <2>3, DeviceAssumption DEF TypeOK
    <3>2. PICK q \in held : miscdev_fd[q] = fd
      BY <2>1, <2>3, <3>1 DEF NoOrphanFile
    <3> QED
      BY <2>1, <2>2, <3>1, <3>2 DEF TypeOK
  <2> QED
    BY <2>3 DEF NoOrphanFile
<1>5. CASE onUnload
  BY <1>5 DEF onUnload, Running
<1>6. CASE UNCHANGED vars
  BY <1>1, <1>6 DEF vars, blocks
<1> QED
  BY <1>2, <1>3, <1>4, <1>5, <1>6 DEF Next, PciDeviceClose

LEMMA IndInit == Init => IndInv
<1> SUFFICES ASSUME Init PROVE IndInv
  OBVIOUS
<1>1. TableSound /\ HeldAllocated /\ AddressesOwned /\ HeldMapped
  BY DEF Init, TableSound, HeldAllocated, AddressesOwned, HeldMapped
<1>2. NoOrphanFile
  BY DeviceAssumption DEF Init, NoOrphanFile
<1> QED
  BY <1>1, <1>2, TypeInit DEF IndInv

LEMMA IndStep == IndInv /\ [Next]_vars => IndInv'
BY TypeStep, TableStep, AllocatedStep, AddressesStep, HeldMappedStep, NoOrphanFileStep
   DEF IndInv

LEMMA IndInvariant == Spec => []IndInv
<1> QED
  BY IndInit, IndStep, PTL DEF Spec

\* While a device is held its BARs stay mapped, each at an address of its own,
\* through every Open and Close of other devices and every failure of them,
\* and even when the client closes again a handle whose Close had failed.
THEOREM BarsStayMapped == Spec => []BarsMapped
<1>1. ASSUME IndInv PROVE BarsMapped
  <2> SUFFICES ASSUME Running, NEW p \in held, NEW b \in Bars[pciSlot[p]]
               PROVE  /\ userAddress[p][b] # NULL
                      /\ maps[userAddress[p][b]] = [slot |-> pciSlot[p], bar |-> b]
                      /\ \A q \in held, c \in BarNum :
                           userAddress[q][c] = userAddress[p][b] => p = q /\ b = c
    BY DEF BarsMapped
  <2>1. TypeOK /\ HeldAllocated /\ AddressesOwned /\ HeldMapped
    BY <1>1 DEF IndInv
  <2>2. p \in heap /\ b \in BarNum /\ userAddress[p][b] # NULL
    BY <2>1, DeviceAssumption DEF HeldAllocated, HeldMapped
  <2>3. maps[userAddress[p][b]] = [slot |-> pciSlot[p], bar |-> b]
    BY <2>1, <2>2, OwnedIsMapped
  <2>4. ASSUME NEW q \in held, NEW c \in BarNum, userAddress[q][c] = userAddress[p][b]
        PROVE  p = q /\ b = c
    <3>1. q \in heap
      BY <2>1, <2>4 DEF HeldAllocated
    <3> QED
      BY <2>1, <2>2, <2>4, <3>1, OwnedOnce
  <2> QED
    BY <2>2, <2>3, <2>4
<1> QED
  BY <1>1, IndInvariant, PTL

\* No path through Open or Close, failed or not, leaves a miscdev open without
\* a held device.
THEOREM NoFileIsOrphaned == Spec => []NoOrphanFile
<1>1. IndInv => NoOrphanFile
  BY DEF IndInv
<1> QED
  BY <1>1, IndInvariant, PTL

-----------------------------------------------------------------------------
(* Descriptors, for a client that calls Close once for each handle.        *)

LEMMA FdStep ==
  ASSUME ~RetryClose
  PROVE  TypeOK /\ HeldAllocated /\ FdOwned /\ [Next]_vars => FdOwned'
<1> SUFFICES ASSUME TypeOK, HeldAllocated, FdOwned, [Next]_vars, Running' PROVE FdOwned'
  BY DEF FdOwned
<1>1. ASSUME UNCHANGED <<miscdev_fd, pciSlot, held, phase>>,
             \A fd \in Fd : files'[fd] = files[fd]
      PROVE  FdOwned'
  BY <1>1 DEF FdOwned, Running, TypeOK
<1>2. CASE PciDeviceOpen
  <2>1. CASE OpenUnmatched \/ OpenOverrun
    BY <1>1, <2>1 DEF OpenUnmatched, OpenOverrun, Running, blocks
  <2>2. ASSUME NEW p \in Ptr, NEW s \in Slot, OpenBarFails(s, p)
        PROVE  FdOwned'
    BY <1>1, <2>2 DEF OpenBarFails, DeviceError, blocks, TypeOK
  <2>3. ASSUME NEW p \in Ptr, OpenFails(p) PROVE FdOwned'
    BY <1>1, <2>3 DEF OpenFails, DeviceError, blocks
  <2>4. ASSUME NEW p \in Ptr \ heap, NEW s \in Slot, OpenSucceeds(s, p)
        PROVE  FdOwned'
    <3>1. PICK g \in Fd : /\ IsMiscdevFd(g)
                          /\ files' = [files EXCEPT ![g] = s]
                          /\ miscdev_fd' = [miscdev_fd EXCEPT ![p] = g]
      BY <2>4 DEF OpenSucceeds
    <3>2. held' = held \cup {p} /\ p \notin held /\ Running
      BY <2>4 DEF OpenSucceeds, HeldAllocated, Ready, Running
    <3>3. /\ miscdev_fd'[p] = g /\ files'[g] = s /\ pciSlot'[p] = s
          /\ \A q \in held : pciSlot'[q] = pciSlot[q] /\ miscdev_fd'[q] = miscdev_fd[q]
      BY <2>4, <3>1, <3>2 DEF OpenSucceeds, TypeOK
    <3>4. g # 0 /\ files[g] = NULL
      BY <3>1 DEF IsMiscdevFd, Free, Fd
    <3>5. \A q \in held : /\ miscdev_fd[q] \in Fd \ {0, g}
                          /\ pciSlot[q] \in Slot
                          /\ files'[miscdev_fd[q]] = pciSlot[q]
      BY <3>1, <3>2, <3>4, DeviceAssumption DEF FdOwned, TypeOK
    <3> QED
      BY <3>2, <3>3, <3>4, <3>5 DEF FdOwned
  <2> QED
    BY <1>2, <2>1, <2>2, <2>3, <2>4 DEF PciDeviceOpen
<1>3. ASSUME NEW p \in Ptr, CloseRefused(p) PROVE FdOwned'
  BY <1>1, <1>3 DEF CloseRefused, blocks
<1>4. ASSUME NEW p \in Ptr, CloseFails(p) \/ CloseLeavesMemory(p) \/ CloseSucceeds(p)
      PROVE  FdOwned'
  <2>1. /\ p \in held /\ held' = held \ {p} /\ Running
        /\ files' = [files EXCEPT ![miscdev_fd[p]] = NULL]
    BY <1>4 DEF CloseFails, CloseLeavesMemory, CloseSucceeds, Closable, CloseFile, Running
  <2>2. \A q \in Ptr \ {p} : miscdev_fd'[q] = miscdev_fd[q] /\ pciSlot'[q] = pciSlot[q]
    BY <1>4 DEF CloseFails, CloseLeavesMemory, CloseSucceeds, freeDeviceMem,
                freeDeviceMemFails, TypeOK, blocks
  <2>3. \A q \in held' : miscdev_fd[q] # miscdev_fd[p]
    BY <2>1 DEF FdOwned
  <2> QED
    BY <2>1, <2>2, <2>3 DEF FdOwned, TypeOK
<1>5. CASE onUnload
  BY <1>5 DEF onUnload, Running
<1>6. CASE UNCHANGED vars
  BY <1>1, <1>6 DEF vars, blocks
<1> QED
  BY <1>2, <1>3, <1>4, <1>5, <1>6 DEF Next, PciDeviceClose

\* When the client closes each handle once, the miscdev_fd of a held device is
\* always its own open file: no other Open or Close, whatever fails in it,
\* closes or takes over that descriptor.
THEOREM FdIsOwned ==
  ASSUME ~RetryClose
  PROVE  Spec => []FdOwned
<1>1. Init => FdOwned
  BY DEF Init, FdOwned
<1>2. IndInv => TypeOK /\ HeldAllocated
  BY DEF IndInv
<1>3. TypeOK /\ HeldAllocated /\ FdOwned /\ [Next]_vars => FdOwned'
  BY FdStep
<1> QED
  BY <1>1, <1>2, <1>3, IndInvariant, PTL DEF Spec

=============================================================================
