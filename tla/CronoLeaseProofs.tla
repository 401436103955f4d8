-------------------------- MODULE CronoLeaseProofs -------------------------
(***************************************************************************)
(* Proofs about CronoDevice for a client that holds one device at a time   *)
(* and closes it once: the table tracks what is held and never overflows,  *)
(* no mapping outlives its device, and Open and Close implement            *)
(* DeviceLease.  With two devices none of these holds.                     *)
(***************************************************************************)
EXTENDS CronoDeviceProofs, FiniteSetTheorems

\* One device at a time, each handle closed once, and close(2) and munmap do
\* not fail.  With a table of one entry, Close would look past its end.
OneAtATime ==
  /\ MaxHeld = 1 /\ ~RetryClose /\ DEVICES > 1
  /\ "close" \notin Faults /\ "munmap" \notin Faults

\* What OneDevice and the theorems of CronoDeviceProofs say of each state.
TableInv == IndInv /\ FdOwned /\ OneDevice

-----------------------------------------------------------------------------
(* The calls of such a client.                                             *)

\* Open is called with nothing held, and the table is then empty.
LEMMA OpenFromEmpty ==
  ASSUME OneAtATime, TypeOK, OneDevice, Ready
  PROVE  held = {} /\ iNewDev = 0 /\ iNewDev < DEVICES /\ iNewDev # DEVICES
<1>1. IsFiniteSet(held)
  BY DeviceAssumption, FS_Subset DEF TypeOK
<1>2. Cardinality(held) \in Nat /\ Cardinality(held) < 1
  BY <1>1, FS_CardinalityType DEF OneAtATime, Ready
<1>3. held = {}
  BY <1>1, <1>2, FS_EmptySet
<1>4. iNewDev = 0
  BY <1>3 DEF OneDevice, Ready, Running
<1> QED
  BY <1>3, <1>4, DeviceAssumption DEF OneAtATime

\* The shrink loop takes a table of one entry, now null, back to none.
LEMMA ShrinksToEmpty ==
  ASSUME OneAtATime, NEW tab, tab[1] = NULL, NEW k \in 0..1, Shrunk(tab, 1, k)
  PROVE  k = 0
<1>1. 1 \in Index \ {0}
  BY DeviceAssumption DEF OneAtATime, Index
<1> QED
  BY <1>1 DEF Shrunk

\* Close succeeds, and frees all there is.
LEMMA CloseToEmpty ==
  ASSUME OneAtATime, TableInv, NEW p \in Ptr,
         CloseFails(p) \/ CloseLeavesMemory(p) \/ CloseSucceeds(p)
  PROVE  /\ Running /\ held = {p} /\ CloseSucceeds(p) /\ Tracked(p)
         /\ held' = {} /\ failed' = {} /\ iNewDev' = 0
         /\ devices' = [i \in Index |-> NULL]
<1>1. TypeOK /\ FdOwned /\ OneDevice /\ DEVICES \in Nat /\ DEVICES > 1
  BY DeviceAssumption DEF TableInv, IndInv, OneAtATime
<1>2. Running /\ p \in held
  BY DEF CloseFails, CloseLeavesMemory, CloseSucceeds, Closable, OneAtATime, Running
<1>3. /\ held = {p} /\ iNewDev = 1 /\ devices[0] = p /\ failed = {}
      /\ \A i \in Index \ {0} : devices[i] = NULL
  BY <1>1, <1>2 DEF OneDevice
<1>4. ~ CloseFails(p) /\ ~ CloseLeavesMemory(p)
  <2>1. files[miscdev_fd[p]] # NULL
    BY <1>1, <1>2, DeviceAssumption DEF FdOwned
  <2> QED
    BY <2>1 DEF CloseFails, CloseLeavesMemory, freeDeviceMemFails, OneAtATime
<1>5. CloseSucceeds(p) /\ freeDeviceMem(p) /\ held' = {} /\ failed' = {}
  BY <1>3, <1>4 DEF CloseSucceeds
<1>6. Tracked(p)
  <2>1. 0 \in 0..(iNewDev - 1)
    BY <1>3
  <2> QED
    BY <1>3, <2>1 DEF Tracked
<1>7. Untrack(p) = [i \in Index |-> NULL]
  BY <1>3 DEF Untrack, Index
<1>8. iNewDev' = 0
  <2>1. PICK k \in 0..iNewDev : Shrunk(Untrack(p), iNewDev, k) /\ iNewDev' = k
    BY <1>5 DEF freeDeviceMem
  <2>2. Untrack(p)[1] = NULL
    BY <1>1, <1>7 DEF Index
  <2> QED
    BY <1>3, <2>1, <2>2, ShrinksToEmpty
<1> QED
  BY <1>2, <1>3, <1>5, <1>6, <1>7, <1>8 DEF freeDeviceMem

-----------------------------------------------------------------------------
(* The table.                                                              *)

LEMMA OneDeviceStep ==
  ASSUME OneAtATime
  PROVE  TableInv /\ [Next]_vars => OneDevice'
<1> SUFFICES ASSUME TableInv, [Next]_vars, Running' PROVE OneDevice'
  BY DEF OneDevice
<1>1. TypeOK /\ OneDevice
  BY DEF TableInv, IndInv
<1>2. CASE UNCHANGED vars \/ OpenUnmatched \/ \E p \in Ptr : CloseRefused(p)
  <2>1. UNCHANGED <<devices, iNewDev, held, failed, phase>>
    BY <1>2 DEF vars, OpenUnmatched, CloseRefused
  <2> QED
    BY <1>1, <2>1 DEF OneDevice, Running
<1>3. CASE OpenOverrun \/ onUnload
  BY <1>3 DEF OpenOverrun, onUnload, Running
<1>4. ASSUME NEW p \in Ptr, Ready, DeviceError(p), UNCHANGED <<held, failed>>
      PROVE  OneDevice'
  <2>1. held = {} /\ iNewDev = 0
    BY <1>1, <1>4, OpenFromEmpty
  <2>2. Running /\ \A i \in Index \ {0} : devices'[i] = devices[i]
    BY <1>1, <1>4, <2>1 DEF Ready, Running, TypeOK, DeviceError
  <2> QED
    BY <1>1, <1>4, <2>1, <2>2 DEF OneDevice, DeviceError
<1>5. ASSUME NEW p \in Ptr, OpenFails(p) \/ \E s \in Slot : OpenBarFails(s, p)
      PROVE  OneDevice'
  BY <1>4, <1>5 DEF OpenFails, OpenBarFails
<1>6. ASSUME NEW p \in Ptr \ heap, NEW s \in Slot, OpenSucceeds(s, p) PROVE OneDevice'
  <2>1. /\ Ready /\ devices' = [devices EXCEPT ![iNewDev] = p]
        /\ iNewDev' = iNewDev + 1 /\ held' = held \cup {p} /\ failed' = failed
    BY <1>6 DEF OpenSucceeds, Enter
  <2>2. held = {} /\ iNewDev = 0
    BY <1>1, <2>1, OpenFromEmpty
  <2>3. 0 \in Index
    BY DeviceAssumption DEF Index
  <2>4. held' = {p} /\ iNewDev' = 1 /\ devices'[0] = p
    BY <1>1, <2>1, <2>2, <2>3 DEF TypeOK
  <2>5. Running /\ \A i \in Index \ {0} : devices'[i] = devices[i]
    BY <1>1, <2>1, <2>2 DEF Ready, Running, TypeOK
  <2> QED
    BY <1>1, <2>1, <2>4, <2>5 DEF OneDevice
<1>7. ASSUME NEW p \in Ptr, CloseFails(p) \/ CloseLeavesMemory(p) \/ CloseSucceeds(p)
      PROVE  OneDevice'
  BY <1>7, CloseToEmpty DEF OneDevice
<1> QED
  BY <1>2, <1>3, <1>5, <1>6, <1>7 DEF Next, PciDeviceOpen, PciDeviceClose

LEMMA TableInvariant == ASSUME OneAtATime PROVE Spec => []TableInv
<1>1. Init => OneDevice
  BY DEF Init, OneDevice
<1>2. TableInv /\ [Next]_vars => OneDevice'
  BY OneDeviceStep
<1>3. Spec => []FdOwned
  BY FdIsOwned DEF OneAtATime
<1>4. IndInv /\ FdOwned /\ OneDevice <=> TableInv
  BY DEF TableInv
<1> QED
  BY <1>1, <1>2, <1>3, <1>4, IndInvariant, PTL DEF Spec

\* For a client of one device at a time, the table holds the device that is
\* held and nothing else below iNewDev, whatever Opens have failed before.
THEOREM HeldIsTracked == ASSUME OneAtATime PROVE Spec => []HeldTracked
<1>1. TableInv => HeldTracked
  <2> SUFFICES ASSUME TableInv, Running
               PROVE  held = {devices[i] : i \in 0..(iNewDev - 1)} \ {NULL}
    BY DEF HeldTracked
  <2>1. CASE held = {} /\ iNewDev = 0
    <3>1. 0..(iNewDev - 1) = {}
      BY <2>1
    <3> QED
      BY <2>1, <3>1
  <2>2. ASSUME NEW p \in Ptr, held = {p}, iNewDev = 1, devices[0] = p
        PROVE  held = {devices[i] : i \in 0..(iNewDev - 1)} \ {NULL}
    <3>1. 0..(iNewDev - 1) = {0}
      BY <2>2
    <3> QED
      BY <2>2, <3>1, DeviceAssumption
  <2> QED
    BY <2>1, <2>2 DEF TableInv, OneDevice
<1> QED
  BY <1>1, TableInvariant, PTL

\* Such a client can open and close devices for ever: no sequence of failed and
\* successful Opens and Closes fills the table.
THEOREM TableKeepsRoom == ASSUME OneAtATime PROVE Spec => []TableHasRoom
<1>1. Init => phase # "overrun"
  BY DEF Init
<1>2. TableInv /\ phase # "overrun" /\ [Next]_vars => (phase # "overrun")'
  <2> SUFFICES ASSUME TableInv, phase # "overrun", [Next]_vars PROVE phase' # "overrun"
    OBVIOUS
  <2>1. ~ OpenOverrun
    BY OpenFromEmpty DEF OpenOverrun, TableInv, IndInv
  <2> QED
    BY <2>1 DEF Next, PciDeviceOpen, PciDeviceClose, OpenUnmatched, OpenFails, OpenBarFails,
                OpenSucceeds, CloseRefused, CloseFails, CloseLeavesMemory, CloseSucceeds,
                onUnload, vars
<1>3. phase # "overrun" => TableHasRoom
  BY DEF TableHasRoom
<1> QED
  BY <1>1, <1>2, <1>3, TableInvariant, PTL DEF Spec

-----------------------------------------------------------------------------
(* Mappings, when those of an Open do not fail half-way.                   *)

\* What Open has mapped, it has mapped for its device.
LEMMA MappedForDevice ==
  ASSUME TypeOK, NEW s \in Slot, NEW p \in Ptr, OpenSucceeds(s, p),
         NEW a \in Addr, maps[a] = NULL, maps'[a] # NULL
  PROVE  userAddress'[p][maps'[a].bar] = a
<1>1. PICK u \in FreshAddresses(Bars[s]) :
        /\ maps' = Mapped(s, Bars[s], u)
        /\ userAddress' = [userAddress EXCEPT ![p] =
             [b \in BarNum |-> IF b \in Bars[s] THEN u[b] ELSE NULL]]
  BY DEF OpenSucceeds
<1>2. Bars[s] \in SUBSET BarNum
  BY DeviceAssumption
<1>3. PICK b \in Bars[s] : u[b] = a
  BY <1>1 DEF Mapped
<1>4. maps'[a] = [slot |-> s, bar |-> b]
  BY <1>1, <1>2, <1>3, FreshFacts
<1> QED
  BY <1>1, <1>2, <1>3, <1>4 DEF TypeOK

LEMMA MappingStep ==
  ASSUME OneAtATime, "bar" \notin Faults
  PROVE  TableInv /\ NoOrphanMapping /\ [Next]_vars => NoOrphanMapping'
<1> SUFFICES ASSUME TableInv, NoOrphanMapping, [Next]_vars, Running' PROVE NoOrphanMapping'
  BY DEF NoOrphanMapping
<1>1. TypeOK /\ OneDevice
  BY DEF TableInv, IndInv
<1>2. ASSUME Running, UNCHANGED <<maps, userAddress, held, failed>> PROVE NoOrphanMapping'
  BY <1>2 DEF NoOrphanMapping
<1>3. CASE UNCHANGED vars \/ OpenUnmatched \/ \E p \in Ptr : CloseRefused(p)
  BY <1>2, <1>3 DEF vars, blocks, OpenUnmatched, CloseRefused, Closable,
                      Running, Ready
<1>4. CASE OpenOverrun \/ onUnload
  BY <1>4 DEF OpenOverrun, onUnload, Running
<1>5. ASSUME NEW p \in Ptr, OpenFails(p) \/ \E s \in Slot : OpenBarFails(s, p)
      PROVE  NoOrphanMapping'
  BY <1>2, <1>5 DEF OpenFails, OpenBarFails, DeviceError, blocks, Running, Ready
<1>6. ASSUME NEW p \in Ptr \ heap, NEW s \in Slot, OpenSucceeds(s, p)
      PROVE  NoOrphanMapping'
  <2>1. Ready /\ Running /\ held' = held \cup {p}
    BY <1>6 DEF OpenSucceeds, Ready, Running
  <2>2. held = {} /\ failed = {}
    BY <1>1, <2>1, OpenFromEmpty DEF OneDevice
  <2>3. \A a \in Addr : maps[a] = NULL
    BY <2>1, <2>2 DEF NoOrphanMapping
  <2>4. \A a \in Addr : maps'[a] # NULL => userAddress'[p][maps'[a].bar] = a
    BY <1>1, <1>6, <2>3, MappedForDevice
  <2> QED
    BY <2>1, <2>4 DEF NoOrphanMapping
<1>7. ASSUME NEW p \in Ptr, CloseFails(p) \/ CloseLeavesMemory(p) \/ CloseSucceeds(p)
      PROVE  NoOrphanMapping'
  <2>1. Running /\ held = {p} /\ failed = {} /\ Tracked(p) /\ freeDeviceMem(p)
    BY <1>1, <1>7, CloseToEmpty DEF CloseSucceeds, OneDevice
  <2>2. maps' = Unmapped({userAddress[p][b] : b \in BarNum})
    BY <2>1 DEF freeDeviceMem
  <2>3. ASSUME NEW a \in Addr PROVE maps'[a] = NULL
    <3>1. maps[a] # NULL => maps[a].bar \in BarNum /\ userAddress[p][maps[a].bar] = a
      BY <1>1, <2>1 DEF NoOrphanMapping, TypeOK, Mapping
    <3> QED
      BY <2>2, <3>1 DEF Unmapped
  <2> QED
    BY <2>3 DEF NoOrphanMapping
<1> QED
  BY <1>3, <1>4, <1>5, <1>6, <1>7 DEF Next, PciDeviceOpen, PciDeviceClose

\* For a client of one device at a time, no BAR stays mapped after the Close of
\* its device, if no Open fails between two of its BARs.
THEOREM NoMappingIsOrphaned ==
  ASSUME OneAtATime, "bar" \notin Faults
  PROVE  Spec => []NoOrphanMapping
<1>1. Init => NoOrphanMapping
  BY DEF Init, NoOrphanMapping
<1>2. TableInv /\ NoOrphanMapping /\ [Next]_vars => NoOrphanMapping'
  BY MappingStep
<1> QED
  BY <1>1, <1>2, TableInvariant, PTL DEF Spec

-----------------------------------------------------------------------------
(* The refinement of DeviceLease.                                          *)

\* No BAR fails to be mapped: neither does mmap fail, nor are there too few
\* descriptors for the files that Open reads the BARs from.
BarsMap == "bar" \notin Faults /\ Cardinality(Fd \ AppFds) >= 5

LeaseInv == TableInv /\ NoOrphanMapping /\ NamesOwnBars /\ AppKept

LEMMA NamesStep ==
  ASSUME OneAtATime
  PROVE  TableInv /\ NamesOwnBars /\ [Next]_vars => NamesOwnBars'
<1> SUFFICES ASSUME TableInv, NamesOwnBars, [Next]_vars, Running' PROVE NamesOwnBars'
  BY DEF NamesOwnBars
<1>1. TypeOK /\ OneDevice
  BY DEF TableInv, IndInv
<1>2. ASSUME Running, UNCHANGED <<userAddress, pciSlot, held>> PROVE NamesOwnBars'
  BY <1>2 DEF NamesOwnBars
<1>3. CASE UNCHANGED vars \/ OpenUnmatched \/ \E p \in Ptr : CloseRefused(p)
  BY <1>2, <1>3 DEF vars, blocks, OpenUnmatched, CloseRefused, Closable,
                      Running, Ready
<1>4. CASE OpenOverrun \/ onUnload
  BY <1>4 DEF OpenOverrun, onUnload, Running
<1>5. ASSUME NEW p \in Ptr, OpenFails(p) \/ \E s \in Slot : OpenBarFails(s, p)
      PROVE  NamesOwnBars'
  BY <1>2, <1>5 DEF OpenFails, OpenBarFails, DeviceError, blocks, Running, Ready
<1>6. ASSUME NEW p \in Ptr \ heap, NEW s \in Slot, OpenSucceeds(s, p)
      PROVE  NamesOwnBars'
  <2>1. Ready /\ held' = held \cup {p}
    BY <1>6 DEF OpenSucceeds
  <2>2. held' = {p}
    BY <1>1, <2>1, OpenFromEmpty
  <2>3. \E u \in FreshAddresses(Bars[s]) : userAddress' = [userAddress EXCEPT ![p] =
          [b \in BarNum |-> IF b \in Bars[s] THEN u[b] ELSE NULL]]
    BY <1>6 DEF OpenSucceeds
  <2>4. pciSlot'[p] = s
    BY <1>1, <1>6 DEF OpenSucceeds, TypeOK
  <2>5. \A b \in BarNum : userAddress'[p][b] # NULL => b \in Bars[s]
    BY <1>1, <2>3 DEF TypeOK
  <2> QED
    BY <2>2, <2>4, <2>5 DEF NamesOwnBars
<1>7. ASSUME NEW p \in Ptr, CloseFails(p) \/ CloseLeavesMemory(p) \/ CloseSucceeds(p)
      PROVE  NamesOwnBars'
  <2>1. held' = {}
    BY <1>7, CloseToEmpty
  <2> QED
    BY <2>1 DEF NamesOwnBars
<1> QED
  BY <1>3, <1>4, <1>5, <1>6, <1>7 DEF Next, PciDeviceOpen, PciDeviceClose

LEMMA AppStep ==
  ASSUME OneAtATime
  PROVE  TableInv /\ AppKept /\ [Next]_vars => AppKept'
<1> SUFFICES ASSUME TableInv, AppKept, [Next]_vars, Running' PROVE AppKept'
  BY DEF AppKept
<1>1. TypeOK /\ FdOwned
  BY DEF TableInv, IndInv
<1>2. ASSUME Running, UNCHANGED files PROVE AppKept'
  BY <1>2 DEF AppKept
<1>3. CASE UNCHANGED vars \/ OpenUnmatched \/ \E p \in Ptr : CloseRefused(p)
  BY <1>2, <1>3 DEF vars, OpenUnmatched, CloseRefused, Closable,
                      Running, Ready
<1>4. CASE OpenOverrun \/ onUnload
  BY <1>4 DEF OpenOverrun, onUnload, Running
<1>5. ASSUME NEW p \in Ptr, OpenFails(p) \/ \E s \in Slot : OpenBarFails(s, p) PROVE AppKept'
  BY <1>2, <1>5 DEF OpenFails, OpenBarFails, Running, Ready
<1>6. ASSUME NEW p \in Ptr, NEW s \in Slot, OpenSucceeds(s, p) PROVE AppKept'
  <2>1. PICK g \in Fd : IsMiscdevFd(g) /\ files' = [files EXCEPT ![g] = s]
    BY <1>6 DEF OpenSucceeds
  <2>2. files[g] = NULL /\ Running
    BY <1>6, <2>1 DEF IsMiscdevFd, Free, OpenSucceeds, Ready, Running
  <2>3. files[g] # APP /\ s # APP
    BY <2>2, DeviceAssumption
  <2> QED
    BY <1>1, <2>1, <2>2, <2>3 DEF AppKept, TypeOK
<1>7. ASSUME NEW p \in Ptr, CloseFails(p) \/ CloseLeavesMemory(p) \/ CloseSucceeds(p)
      PROVE  AppKept'
  <2>1. Running /\ held = {p} /\ CloseFile(p)
    BY <1>7, CloseToEmpty DEF CloseSucceeds
  <2>2. files[miscdev_fd[p]] # APP
    BY <1>1, <2>1, DeviceAssumption DEF FdOwned
  <2> QED
    BY <1>1, <2>1, <2>2, DeviceAssumption DEF AppKept, CloseFile, TypeOK
<1> QED
  BY <1>3, <1>4, <1>5, <1>6, <1>7 DEF Next, PciDeviceOpen, PciDeviceClose

LEMMA LeaseInvariant == ASSUME OneAtATime, BarsMap PROVE Spec => []LeaseInv
<1>1. Init => NamesOwnBars /\ AppKept
  BY DeviceAssumption DEF Init, NamesOwnBars, AppKept
<1>2. TableInv /\ NamesOwnBars /\ AppKept /\ [Next]_vars => (NamesOwnBars /\ AppKept)'
  BY NamesStep, AppStep
<1>3. Spec => []TableInv
  BY TableInvariant
<1>4. Spec => []NoOrphanMapping
  BY NoMappingIsOrphaned DEF BarsMap
<1>5. TableInv /\ NoOrphanMapping /\ NamesOwnBars /\ AppKept <=> LeaseInv
  BY DEF LeaseInv
<1> QED
  BY <1>1, <1>2, <1>3, <1>4, <1>5, PTL DEF Spec

\* With nothing held all descriptors but the application's are free.
LEMMA NoBarFails ==
  ASSUME OneAtATime, BarsMap, LeaseInv, NEW s \in Slot, NEW p PROVE ~ OpenBarFails(s, p)
<1> SUFFICES ASSUME OpenBarFails(s, p) PROVE FALSE
  OBVIOUS
<1>1. TypeOK /\ OneDevice /\ NoOrphanFile /\ AppKept
  BY DEF LeaseInv, TableInv, IndInv
<1>2. Ready /\ Running /\ ~ Enough(s)
  BY DEF OpenBarFails, BarsMap, Ready, Running
<1>3. held = {}
  BY <1>1, <1>2, OpenFromEmpty
<1>4. Free = Fd \ AppFds
  BY <1>1, <1>2, <1>3, DeviceAssumption DEF Free, NoOrphanFile, AppKept, TypeOK
<1>5. IsFiniteSet(Fd \ AppFds)
  <2>1. IsFiniteSet(Fd)
    BY FS_Interval, DeviceAssumption DEF Fd
  <2> QED
    BY <2>1, FS_Subset
<1>6. Cardinality(Fd \ AppFds) \in Nat
  BY <1>5, FS_CardinalityType
<1> QED
  BY <1>2, <1>4, <1>6 DEF Enough, BarsMap

-----------------------------------------------------------------------------
(* The mapping, evaluated: with nothing held and with one device.          *)

leaseOf == [p \in Ptr |-> IF Running /\ p \in held THEN pciSlot[p] ELSE NULL]
openedOf == [s \in Slot |-> Cardinality({fd \in Fd : files[fd] = s})]
mappedOf == [s \in Slot |-> [b \in BarNum |->
               Cardinality({a \in Addr : maps[a] = [slot |-> s, bar |-> b]})]]

NoneMapped ==
  LeaseInv /\ Running /\ held = {} =>
    /\ leaseOf = [p \in Ptr |-> NULL]
    /\ openedOf = [s \in Slot |-> 0]
    /\ mappedOf = [s \in Slot |-> [b \in BarNum |-> 0]]

OneMapped ==
  \A p \in Ptr : LeaseInv /\ Running /\ held = {p} =>
    /\ pciSlot[p] \in Slot
    /\ leaseOf = [q \in Ptr |-> IF q = p THEN pciSlot[p] ELSE NULL]
    /\ openedOf = [s \in Slot |-> IF s = pciSlot[p] THEN 1 ELSE 0]
    /\ mappedOf = [s \in Slot |-> [b \in BarNum |->
                     IF s = pciSlot[p] /\ b \in Bars[pciSlot[p]] THEN 1 ELSE 0]]

LEMMA NoneLeased == NoneMapped
<1> SUFFICES ASSUME LeaseInv, Running, held = {}
             PROVE  /\ leaseOf = [p \in Ptr |-> NULL]
                    /\ openedOf = [s \in Slot |-> 0]
                    /\ mappedOf = [s \in Slot |-> [b \in BarNum |-> 0]]
  BY DEF NoneMapped
<1>1. NoOrphanFile /\ NoOrphanMapping /\ failed = {}
  BY DEF LeaseInv, TableInv, IndInv, OneDevice
<1>2. Cardinality({}) = 0
  BY FS_EmptySet
<1>3. ASSUME NEW s \in Slot PROVE Cardinality({fd \in Fd : files[fd] = s}) = 0
  <2>1. {fd \in Fd : files[fd] = s} = {}
    BY <1>1 DEF NoOrphanFile
  <2> QED
    BY <1>2, <2>1
<1>4. ASSUME NEW s \in Slot, NEW b \in BarNum
      PROVE  Cardinality({a \in Addr : maps[a] = [slot |-> s, bar |-> b]}) = 0
  <2>1. [slot |-> s, bar |-> b] # NULL
    BY DeviceAssumption DEF Mapping
  <2>2. {a \in Addr : maps[a] = [slot |-> s, bar |-> b]} = {}
    BY <1>1, <2>1 DEF NoOrphanMapping
  <2> QED
    BY <1>2, <2>2
<1>5. openedOf = [s \in Slot |-> 0]
  BY <1>3 DEF openedOf
<1>6. mappedOf = [s \in Slot |-> [b \in BarNum |-> 0]]
  BY <1>4 DEF mappedOf
<1> QED
  BY <1>5, <1>6 DEF leaseOf

LEMMA OneLeased == OneMapped
<1> SUFFICES ASSUME NEW p \in Ptr, LeaseInv, Running, held = {p}
             PROVE  /\ pciSlot[p] \in Slot
                    /\ leaseOf = [q \in Ptr |-> IF q = p THEN pciSlot[p] ELSE NULL]
                    /\ openedOf = [s \in Slot |-> IF s = pciSlot[p] THEN 1 ELSE 0]
                    /\ mappedOf = [s \in Slot |-> [b \in BarNum |->
                         IF s = pciSlot[p] /\ b \in Bars[pciSlot[p]] THEN 1 ELSE 0]]
  BY DEF OneMapped
<1>1. /\ TypeOK /\ HeldAllocated /\ AddressesOwned /\ HeldMapped /\ NoOrphanFile /\ FdOwned
      /\ NoOrphanMapping /\ NamesOwnBars /\ failed = {}
  BY DEF LeaseInv, TableInv, IndInv, OneDevice
<1>2. Cardinality({}) = 0 /\ \A x : Cardinality({x}) = 1
  BY FS_EmptySet, FS_Singleton
<1>3. p \in heap /\ pciSlot[p] \in Slot
  BY <1>1 DEF HeldAllocated
<1>4. ASSUME NEW s \in Slot
      PROVE  Cardinality({fd \in Fd : files[fd] = s}) = IF s = pciSlot[p] THEN 1 ELSE 0
  <2>1. \A fd \in Fd : files[fd] = s <=> fd = miscdev_fd[p] /\ s = pciSlot[p]
    BY <1>1 DEF NoOrphanFile, FdOwned
  <2>2. miscdev_fd[p] \in Fd
    BY <1>1 DEF TypeOK
  <2>3. CASE s = pciSlot[p]
    <3>1. {fd \in Fd : files[fd] = s} = {miscdev_fd[p]}
      BY <2>1, <2>2, <2>3
    <3> QED
      BY <1>2, <2>3, <3>1
  <2>4. CASE s # pciSlot[p]
    <3>1. {fd \in Fd : files[fd] = s} = {}
      BY <2>1, <2>4
    <3> QED
      BY <1>2, <2>4, <3>1
  <2> QED
    BY <2>3, <2>4
<1>5. ASSUME NEW s \in Slot, NEW b \in BarNum
      PROVE  Cardinality({a \in Addr : maps[a] = [slot |-> s, bar |-> b]}) =
               IF s = pciSlot[p] /\ b \in Bars[pciSlot[p]] THEN 1 ELSE 0
  <2>1. ASSUME NEW a \in Addr, maps[a] = [slot |-> s, bar |-> b]
        PROVE  a = userAddress[p][b] /\ s = pciSlot[p] /\ b \in Bars[pciSlot[p]]
    <3>1. maps[a] # NULL /\ maps[a].bar = b
      BY <2>1, DeviceAssumption DEF Mapping
    <3>2. userAddress[p][b] = a /\ a # NULL
      BY <1>1, <3>1, DeviceAssumption DEF NoOrphanMapping
    <3>3. b \in Bars[pciSlot[p]]
      BY <1>1, <3>2 DEF NamesOwnBars
    <3>4. maps[a] = [slot |-> pciSlot[p], bar |-> b]
      BY <1>1, <1>3, <3>2, OwnedIsMapped
    <3> QED
      BY <2>1, <3>2, <3>3, <3>4
  <2>2. CASE s = pciSlot[p] /\ b \in Bars[pciSlot[p]]
    <3>1. userAddress[p][b] # NULL
      BY <1>1, <2>2 DEF HeldMapped
    <3>2. userAddress[p][b] \in Addr /\ maps[userAddress[p][b]] = [slot |-> s, bar |-> b]
      BY <1>1, <1>3, <2>2, <3>1, OwnedIsMapped
    <3>3. {a \in Addr : maps[a] = [slot |-> s, bar |-> b]} = {userAddress[p][b]}
      BY <2>1, <3>2
    <3> QED
      BY <1>2, <2>2, <3>3
  <2>3. CASE ~ (s = pciSlot[p] /\ b \in Bars[pciSlot[p]])
    <3>1. {a \in Addr : maps[a] = [slot |-> s, bar |-> b]} = {}
      BY <2>1, <2>3
    <3> QED
      BY <1>2, <2>3, <3>1
  <2> QED
    BY <2>2, <2>3
<1>6. openedOf = [s \in Slot |-> IF s = pciSlot[p] THEN 1 ELSE 0]
  BY <1>4 DEF openedOf
<1>7. mappedOf = [s \in Slot |-> [b \in BarNum |->
                    IF s = pciSlot[p] /\ b \in Bars[pciSlot[p]] THEN 1 ELSE 0]]
  BY <1>5 DEF mappedOf
<1> QED
  BY <1>3, <1>6, <1>7 DEF leaseOf

\* Both hold of the state after a step as well.
LEMMA LeasedNext == NoneMapped' /\ OneMapped'
BY NoneLeased, OneLeased, PTL

-----------------------------------------------------------------------------
(* Each step is one of the promise's, or no change.                        *)

LEMMA AcquireStep ==
  ASSUME OneAtATime, LeaseInv, LeaseInv', NEW p \in Ptr \ heap, NEW s \in Slot,
         OpenSucceeds(s, p)
  PROVE  Lease!Acquire(p, s)
<1>1. /\ Ready /\ held' = held \cup {p} /\ pciSlot' = [pciSlot EXCEPT ![p] = s]
      /\ Answer("SUCCESS", p) /\ phase' = phase
  BY DEF OpenSucceeds
<1>2. TypeOK /\ OneDevice
  BY DEF LeaseInv, TableInv, IndInv
<1>3. Running /\ Running' /\ held = {} /\ held' = {p} /\ pciSlot'[p] = s
  BY <1>1, <1>2, OpenFromEmpty DEF Ready, Running, TypeOK
<1>4. /\ leaseOf = [q \in Ptr |-> NULL]
      /\ openedOf = [t \in Slot |-> 0]
      /\ mappedOf = [t \in Slot |-> [b \in BarNum |-> 0]]
  <2> HIDE DEF leaseOf, openedOf, mappedOf
  <2> QED
    BY <1>3, NoneLeased DEF NoneMapped
<1>5. /\ leaseOf' = [q \in Ptr |-> IF q = p THEN pciSlot'[p] ELSE NULL]
      /\ openedOf' = [t \in Slot |-> IF t = pciSlot'[p] THEN 1 ELSE 0]
      /\ mappedOf' = [t \in Slot |-> [b \in BarNum |->
           IF t = pciSlot'[p] /\ b \in Bars[pciSlot'[p]] THEN 1 ELSE 0]]
  BY <1>3, LeasedNext DEF OneMapped
<1>6. /\ leaseOf' = [q \in Ptr |-> IF q = p THEN s ELSE NULL]
      /\ openedOf' = [t \in Slot |-> IF t = s THEN 1 ELSE 0]
      /\ mappedOf' = [t \in Slot |-> [b \in BarNum |->
           IF t = s /\ b \in Bars[s] THEN 1 ELSE 0]]
  BY <1>3, <1>5
<1> HIDE DEF leaseOf, openedOf, mappedOf
<1>7. leaseOf[p] = NULL /\ leaseOf' = [leaseOf EXCEPT ![p] = s]
  BY <1>4, <1>6
<1>8. openedOf' = [openedOf EXCEPT ![s] = @ + 1]
  BY <1>4, <1>6
<1>9. mappedOf' = [mappedOf EXCEPT ![s] =
                     [b \in BarNum |-> IF b \in Bars[s] THEN @[b] + 1 ELSE @[b]]]
  <2>1. mappedOf[s] = [b \in BarNum |-> 0]
    BY <1>4
  <2>2. [b \in BarNum |-> IF b \in Bars[s] THEN mappedOf[s][b] + 1 ELSE mappedOf[s][b]]
          = [b \in BarNum |-> IF b \in Bars[s] THEN 1 ELSE 0]
    BY <2>1
  <2>3. \A t \in Slot \ {s} : mappedOf'[t] = mappedOf[t]
    BY <1>4, <1>6
  <2>4. mappedOf'[s] = [b \in BarNum |-> IF b \in Bars[s] THEN 1 ELSE 0]
    BY <1>6
  <2>5. mappedOf = [t \in Slot |-> mappedOf[t]] /\ mappedOf' = [t \in Slot |-> mappedOf'[t]]
    BY <1>4, <1>6
  <2> QED
    BY <2>2, <2>3, <2>4, <2>5
<1> QED
  BY <1>1, <1>3, <1>7, <1>8, <1>9
     DEF Lease!Acquire, Lease!Answer, Answer, leaseOf, openedOf, mappedOf

LEMMA ReleaseStep ==
  ASSUME OneAtATime, LeaseInv, LeaseInv', NEW p \in Ptr,
         CloseFails(p) \/ CloseLeavesMemory(p) \/ CloseSucceeds(p)
  PROVE  Lease!Release(p)
<1>1. Running /\ held = {p} /\ CloseSucceeds(p) /\ held' = {}
  BY CloseToEmpty DEF LeaseInv
<1>2. Running' /\ reply' = NoReply
  BY <1>1 DEF CloseSucceeds, Running
<1>3. /\ pciSlot[p] \in Slot
      /\ leaseOf = [q \in Ptr |-> IF q = p THEN pciSlot[p] ELSE NULL]
      /\ openedOf = [t \in Slot |-> IF t = pciSlot[p] THEN 1 ELSE 0]
      /\ mappedOf = [t \in Slot |-> [b \in BarNum |->
           IF t = pciSlot[p] /\ b \in Bars[pciSlot[p]] THEN 1 ELSE 0]]
  BY <1>1, OneLeased DEF OneMapped
<1>4. /\ leaseOf' = [q \in Ptr |-> NULL]
      /\ openedOf' = [t \in Slot |-> 0]
      /\ mappedOf' = [t \in Slot |-> [b \in BarNum |-> 0]]
  BY <1>1, <1>2, LeasedNext DEF NoneMapped
<1> HIDE DEF leaseOf, openedOf, mappedOf
<1>5. PICK s \in Slot : s = leaseOf[p] /\ s = pciSlot[p]
  BY <1>3
<1>6. s # NULL /\ leaseOf' = [leaseOf EXCEPT ![p] = NULL]
  BY <1>3, <1>4, DeviceAssumption
<1>7. openedOf' = [openedOf EXCEPT ![s] = @ - 1]
  BY <1>3, <1>4, <1>5
<1>8. mappedOf' = [mappedOf EXCEPT ![s] =
                     [b \in BarNum |-> IF b \in Bars[s] THEN @[b] - 1 ELSE @[b]]]
  <2>1. mappedOf[s] = [b \in BarNum |-> IF b \in Bars[s] THEN 1 ELSE 0]
    BY <1>3, <1>5
  <2>2. [b \in BarNum |-> IF b \in Bars[s] THEN mappedOf[s][b] - 1 ELSE mappedOf[s][b]]
          = [b \in BarNum |-> 0]
    BY <2>1
  <2>3. \A t \in Slot \ {s} : mappedOf'[t] = mappedOf[t]
    BY <1>3, <1>4, <1>5
  <2>4. mappedOf'[s] = [b \in BarNum |-> 0]
    BY <1>4
  <2>5. mappedOf = [t \in Slot |-> mappedOf[t]] /\ mappedOf' = [t \in Slot |-> mappedOf'[t]]
    BY <1>3, <1>4
  <2> QED
    BY <2>2, <2>3, <2>4, <2>5
<1>9. /\ Running /\ Running' /\ reply' = NoReply
      /\ leaseOf[p] # NULL
      /\ leaseOf' = [leaseOf EXCEPT ![p] = NULL]
      /\ openedOf' = [openedOf EXCEPT ![leaseOf[p]] = @ - 1]
      /\ mappedOf' = [mappedOf EXCEPT ![leaseOf[p]] =
           [b \in BarNum |-> IF b \in Bars[leaseOf[p]] THEN @[b] - 1 ELSE @[b]]]
  BY <1>1, <1>2, <1>5, <1>6, <1>7, <1>8
<1> QED
  BY <1>9 DEF Lease!Release, Lease!Answer, NoReply, leaseOf, openedOf, mappedOf

\* An Open that is refused leaves no trace that the client could see.
LEMMA RefuseStep ==
  ASSUME OpenUnmatched \/ \E p \in Ptr : OpenFails(p)
  PROVE  Lease!Refuse
<1>1. /\ Ready /\ UNCHANGED <<blocks, files, maps, held, phase>>
      /\ \E code \in {"SUCCESS", "ERROR"} : Answer(code, NULL)
  BY DEF OpenUnmatched, OpenFails, DeviceError
<1> QED
  BY <1>1 DEF Lease!Refuse, Lease!Answer, Answer, Ready, Running, blocks

LEMMA EndStep == ASSUME onUnload PROVE Lease!End
BY DEF onUnload, Lease!End, Running

LEMMA LeaseStep ==
  ASSUME OneAtATime, BarsMap, ZeroId = {}
  PROVE  LeaseInv /\ LeaseInv' /\ [Next]_vars => [Lease!Next]_(Lease!vars)
<1> SUFFICES ASSUME LeaseInv, LeaseInv', [Next]_vars
             PROVE  Lease!Next \/ UNCHANGED Lease!vars
  OBVIOUS
<1>1. CASE UNCHANGED vars
  BY <1>1 DEF vars, blocks, Lease!vars, Running
<1>2. CASE OpenUnmatched \/ \E p \in Ptr : OpenFails(p)
  BY <1>2, RefuseStep DEF Lease!Next
<1>3. ~ OpenOverrun
  BY OpenFromEmpty DEF OpenOverrun, LeaseInv, TableInv, IndInv
<1>4. ASSUME NEW p \in Ptr \ heap, NEW s \in Slot, OpenSucceeds(s, p) PROVE Lease!Next
  BY <1>4, AcquireStep DEF Lease!Next
<1>5. CASE PciDeviceClose
  <2>1. \A p \in Ptr : ~ CloseRefused(p)
    BY DEF CloseRefused, RefusesHandle
  <2> QED
    BY <1>5, <2>1, ReleaseStep DEF PciDeviceClose, Lease!Next
<1>6. CASE onUnload
  BY <1>6, EndStep DEF Lease!Next
<1> QED
  BY <1>1, <1>2, <1>3, <1>4, <1>5, <1>6, NoBarFails DEF Next, PciDeviceOpen

LEMMA LeaseInit == Init => Lease!Init
<1> SUFFICES ASSUME Init PROVE Lease!Init
  OBVIOUS
<1>1. held = {} /\ reply = NoReply /\ Running
  BY DEF Init, Running
<1>2. Cardinality({}) = 0
  BY FS_EmptySet
<1>3. \A s \in Slot : {fd \in Fd : files[fd] = s} = {}
  BY DeviceAssumption DEF Init
<1>4. \A s \in Slot, b \in BarNum : {a \in Addr : maps[a] = [slot |-> s, bar |-> b]} = {}
  BY DeviceAssumption DEF Init, Mapping
<1> QED
  BY <1>1, <1>2, <1>3, <1>4 DEF Lease!Init, NoReply

\* For a client of one device at a time, Open and Close implement DeviceLease:
\* a successful Open takes one file and one mapping of each BAR, Close gives
\* back exactly those, and an Open that is refused changes nothing.  No board's
\* device id reads 0: Close refuses the handle of one whose id does.
THEOREM ImplementsDeviceLease ==
  ASSUME OneAtATime, BarsMap, ZeroId = {}
  PROVE  Spec => LeaseSpec
<1>1. Spec => []LeaseInv
  BY LeaseInvariant
<1>2. LeaseInv /\ LeaseInv' /\ [Next]_vars => [Lease!Next]_(Lease!vars)
  BY LeaseStep
<1> QED
  BY <1>1, <1>2, LeaseInit, PTL DEF Spec, LeaseSpec, Lease!Spec

=============================================================================
