------------------------- MODULE CronoSessionProofs ------------------------
(***************************************************************************)
(* Proofs about CronoSession, on top of those about CronoDevice: for every *)
(* number of boards, devices and buffers, for clients that call Close once *)
(* for each handle.                                                        *)
(***************************************************************************)
EXTENDS CronoSession, CronoLeaseProofs

\* A step of the session is one of the device lifecycle or leaves it alone.
LEMMA SessionStepIsStep == [SessionNext]_sessionVars => [Next]_vars
BY DEF SessionNext, sessionVars, Next, PciDeviceOpen, PciDeviceClose, CardCleanupSetup,
       BufLock, BufUnlock

\* A session uses Open and Close as CronoDevice has them: whatever is proved of
\* Spec holds of every session.
THEOREM SessionRefinesDevice == SessionSpec => Spec
<1>1. SessionInit => Init
  BY DEF SessionInit
<1> QED
  BY <1>1, SessionStepIsStep, PTL DEF SessionSpec, Spec

-----------------------------------------------------------------------------

\* What a device that stays open has to fear from a step of the lifecycle:
\* nothing.
LEMMA HeldKept ==
  ASSUME ~RetryClose, TypeOK, HeldAllocated, FdOwned, Running', [Next]_vars,
         NEW q \in held, q \in held'
  PROVE  /\ Running
         /\ miscdev_fd'[q] = miscdev_fd[q]
         /\ pciSlot'[q] = pciSlot[q]
         /\ files'[miscdev_fd[q]] = files[miscdev_fd[q]]
<1> USE DEF Running
<1>1. Running
  BY DEF Next, PciDeviceOpen, PciDeviceClose, OpenUnmatched, OpenOverrun, OpenFails,
         OpenBarFails, OpenSucceeds, CloseRefused, CloseFails, CloseLeavesMemory,
         CloseSucceeds, onUnload, Ready, Closable, vars
<1>2. /\ q \in heap /\ q \in Ptr /\ miscdev_fd[q] \in Fd
      /\ files[miscdev_fd[q]] = pciSlot[q] /\ pciSlot[q] \in Slot /\ pciSlot[q] # NULL
  BY <1>1, DeviceAssumption DEF TypeOK, HeldAllocated, FdOwned
<1>3. CASE UNCHANGED vars
  BY <1>1, <1>3 DEF vars, blocks
<1>4. CASE OpenUnmatched \/ OpenOverrun
  BY <1>1, <1>4 DEF OpenUnmatched, OpenOverrun, blocks
<1>5. ASSUME NEW p \in Ptr \ heap, NEW s \in Slot, OpenFails(p) \/ OpenBarFails(s, p)
      PROVE  UNCHANGED <<miscdev_fd, pciSlot, files>>
  BY <1>5 DEF OpenFails, OpenBarFails, DeviceError, blocks
<1>6. ASSUME NEW p \in Ptr \ heap, OpenFails(p)
      PROVE  UNCHANGED <<miscdev_fd, pciSlot, files>>
  BY <1>6 DEF OpenFails, DeviceError, blocks
<1>7. ASSUME NEW p \in Ptr \ heap, NEW s \in Slot, OpenSucceeds(s, p)
      PROVE  /\ miscdev_fd'[q] = miscdev_fd[q]
             /\ pciSlot'[q] = pciSlot[q]
             /\ files'[miscdev_fd[q]] = files[miscdev_fd[q]]
  <2>1. PICK fd \in Fd : /\ IsMiscdevFd(fd)
                         /\ files' = [files EXCEPT ![fd] = s]
                         /\ miscdev_fd' = [miscdev_fd EXCEPT ![p] = fd]
    BY <1>7 DEF OpenSucceeds
  <2>2. fd # miscdev_fd[q]
    BY <1>2, <2>1 DEF IsMiscdevFd, Free
  <2>3. p # q /\ pciSlot' = [pciSlot EXCEPT ![p] = s]
    BY <1>2, <1>7 DEF OpenSucceeds
  <2> QED
    BY <1>2, <2>1, <2>2, <2>3 DEF TypeOK
<1>8. ASSUME NEW p \in Ptr, CloseFails(p) \/ CloseLeavesMemory(p) \/ CloseSucceeds(p)
      PROVE  /\ miscdev_fd'[q] = miscdev_fd[q]
             /\ pciSlot'[q] = pciSlot[q]
             /\ files'[miscdev_fd[q]] = files[miscdev_fd[q]]
  <2>1. p \in held /\ p # q /\ CloseFile(p)
    BY <1>8 DEF CloseFails, CloseLeavesMemory, CloseSucceeds, Closable
  <2>2. miscdev_fd[p] # miscdev_fd[q]
    BY <1>1, <2>1 DEF FdOwned
  <2>3. files'[miscdev_fd[q]] = files[miscdev_fd[q]]
    BY <1>2, <2>1, <2>2 DEF CloseFile, TypeOK
  <2>4. miscdev_fd'[q] = miscdev_fd[q] /\ pciSlot'[q] = pciSlot[q]
    BY <1>2, <1>8, <2>1 DEF CloseFails, CloseLeavesMemory, CloseSucceeds, freeDeviceMem,
                            freeDeviceMemFails, blocks, TypeOK
  <2> QED
    BY <2>3, <2>4
<1>9. ASSUME NEW p \in Ptr, CloseRefused(p)
      PROVE  UNCHANGED <<miscdev_fd, pciSlot, files>>
  BY <1>9 DEF CloseRefused, blocks
<1>10. CASE onUnload
  BY <1>10 DEF onUnload
<1> QED
  BY <1>1, <1>3, <1>4, <1>5, <1>6, <1>7, <1>8, <1>9, <1>10 DEF Next, PciDeviceOpen, PciDeviceClose

LEMMA SessionInitInv == SessionInit => SessionInv
<1> SUFFICES ASSUME SessionInit PROVE SessionInv
  OBVIOUS
<1>1. SessionTypeOK /\ BuffersReachable /\ CleanupOwn
  BY DEF SessionInit, SessionTypeOK, BuffersReachable, CleanupOwn
<1> QED
  BY <1>1 DEF SessionInv

\* A step of the lifecycle that closes no device with buffers keeps them.
LEMMA LifecycleKeeps ==
  ASSUME ~RetryClose, TypeOK, HeldAllocated, FdOwned, SessionInv, [Next]_vars,
         UNCHANGED <<lockedBy, board, cleanup>>,
         \A b \in Buffer : Running' /\ lockedBy[b] \in held => lockedBy[b] \in held'
  PROVE  SessionInv'
<1>1. SessionTypeOK' /\ CleanupOwn'
  BY DEF SessionInv, SessionTypeOK, CleanupOwn
<1>2. BuffersReachable'
  <2> SUFFICES ASSUME Running', NEW b \in Buffer
               PROVE  IF lockedBy'[b] = NULL THEN board'[b] = NULL
                        ELSE /\ lockedBy'[b] \in held'
                             /\ board'[b] = pciSlot'[lockedBy'[b]]
                             /\ files'[miscdev_fd'[lockedBy'[b]]] = board'[b]
    BY DEF BuffersReachable
  <2>1. Running
    BY DEF Running, Next, PciDeviceOpen, PciDeviceClose, OpenUnmatched, OpenOverrun,
           OpenFails, OpenBarFails, OpenSucceeds, CloseRefused, CloseFails,
           CloseLeavesMemory, CloseSucceeds, onUnload, Ready, Closable, vars
  <2>2. CASE lockedBy[b] = NULL
    BY <2>1, <2>2 DEF SessionInv, BuffersReachable
  <2>3. CASE lockedBy[b] # NULL
    <3> DEFINE q == lockedBy[b]
    <3>1. /\ q \in held /\ q \in held'
          /\ board[b] = pciSlot[q] /\ files[miscdev_fd[q]] = board[b]
      BY <2>1, <2>3 DEF SessionInv, BuffersReachable
    <3>2. /\ miscdev_fd'[q] = miscdev_fd[q] /\ pciSlot'[q] = pciSlot[q]
          /\ files'[miscdev_fd[q]] = files[miscdev_fd[q]]
      BY <3>1, HeldKept
    <3> QED
      BY <2>3, <3>1, <3>2
  <2> QED
    BY <2>2, <2>3
<1> QED
  BY <1>1, <1>2 DEF SessionInv

LEMMA SessionStep ==
  ASSUME ~RetryClose
  PROVE  TypeOK /\ HeldAllocated /\ FdOwned /\ SessionInv /\ [SessionNext]_sessionVars
           => SessionInv'
<1> SUFFICES ASSUME TypeOK, HeldAllocated, FdOwned, SessionInv, [SessionNext]_sessionVars
             PROVE  SessionInv'
  OBVIOUS
<1>1. [Next]_vars
  BY SessionStepIsStep
<1>2. CASE KernelKept /\ PciDeviceOpen
  <2>1. held \subseteq held'
    BY <1>2 DEF PciDeviceOpen, OpenUnmatched, OpenOverrun, OpenFails, OpenBarFails, OpenSucceeds
  <2> QED
    BY <1>1, <1>2, <2>1, LifecycleKeeps DEF KernelKept, kernelVars
<1>3. CASE KernelKept /\ onUnload
  <2>1. ~ Running'
    BY <1>3 DEF onUnload, Running
  <2> QED
    BY <1>1, <1>3, <2>1, LifecycleKeeps DEF KernelKept, kernelVars
<1>4. ASSUME NEW p \in Ptr, Drained(p), KernelKept,
             CloseFails(p) \/ CloseLeavesMemory(p) \/ CloseSucceeds(p)
      PROVE  SessionInv'
  <2>1. held' = held \ {p} /\ \A b \in Buffer : lockedBy[b] # p
    BY <1>4 DEF Drained, CloseFails, CloseLeavesMemory, CloseSucceeds
  <2>2. UNCHANGED <<lockedBy, board, cleanup>>
    BY <1>4 DEF KernelKept, kernelVars
  <2> QED
    BY <1>1, <2>1, <2>2, LifecycleKeeps
<1>5. ASSUME NEW p \in Ptr, CardCleanupSetup(p) PROVE SessionInv'
  <2>1. PICK s \in Slot : Reached(p, s) /\ cleanup' = [cleanup EXCEPT ![s] = pciSlot[p]]
    BY <1>5 DEF CardCleanupSetup
  <2>2. s = pciSlot[p]
    BY <1>5, <2>1 DEF CardCleanupSetup, Accepted, Reached, FdOwned, Running
  <2>3. SessionTypeOK' /\ CleanupOwn'
    BY <1>5, <2>1, <2>2 DEF SessionInv, SessionTypeOK, CleanupOwn, CardCleanupSetup, vars
  <2>4. BuffersReachable'
    BY <1>5 DEF SessionInv, BuffersReachable, CardCleanupSetup, vars, blocks, Running
  <2> QED
    BY <2>3, <2>4 DEF SessionInv
<1>6. ASSUME NEW p \in Ptr, NEW b \in Buffer, BufLock(p, b) PROVE SessionInv'
  <2>1. PICK s \in Slot : Reached(p, s) /\ board' = [board EXCEPT ![b] = s]
    BY <1>6 DEF BufLock
  <2>2. s = pciSlot[p] /\ p \in held /\ files[miscdev_fd[p]] = s
    BY <1>6, <2>1 DEF BufLock, Accepted, Reached, FdOwned, Running
  <2>3. lockedBy' = [lockedBy EXCEPT ![b] = p] /\ UNCHANGED <<vars, cleanup>>
    BY <1>6 DEF BufLock
  <2>4. SessionTypeOK' /\ CleanupOwn'
    BY <2>1, <2>3 DEF SessionInv, SessionTypeOK, CleanupOwn
  <2>5. BuffersReachable'
    <3>1. UNCHANGED <<held, pciSlot, files, miscdev_fd, phase>> /\ p # NULL
      BY <2>3, DeviceAssumption DEF vars, blocks
    <3>2. lockedBy'[b] = p /\ board'[b] = s
      BY <2>1, <2>3 DEF SessionInv, SessionTypeOK
    <3>3. \A c \in Buffer : c # b => lockedBy'[c] = lockedBy[c] /\ board'[c] = board[c]
      BY <2>1, <2>3 DEF SessionInv, SessionTypeOK
    <3> QED
      BY <2>2, <3>1, <3>2, <3>3 DEF SessionInv, BuffersReachable, Running
  <2> QED
    BY <2>4, <2>5 DEF SessionInv
<1>7. ASSUME NEW p \in Ptr, NEW b \in Buffer, BufUnlock(p, b) PROVE SessionInv'
  <2>1. /\ lockedBy' = [lockedBy EXCEPT ![b] = NULL] /\ board' = [board EXCEPT ![b] = NULL]
        /\ UNCHANGED <<vars, cleanup>>
    BY <1>7 DEF BufUnlock
  <2>2. SessionTypeOK' /\ CleanupOwn'
    BY <2>1 DEF SessionInv, SessionTypeOK, CleanupOwn
  <2>3. BuffersReachable'
    <3>1. UNCHANGED <<held, pciSlot, files, miscdev_fd, phase>>
      BY <2>1 DEF vars, blocks
    <3>2. lockedBy'[b] = NULL /\ board'[b] = NULL
      BY <2>1 DEF SessionInv, SessionTypeOK
    <3>3. \A c \in Buffer : c # b => lockedBy'[c] = lockedBy[c] /\ board'[c] = board[c]
      BY <2>1 DEF SessionInv, SessionTypeOK
    <3> QED
      BY <3>1, <3>2, <3>3 DEF SessionInv, BuffersReachable, Running
  <2> QED
    BY <2>2, <2>3 DEF SessionInv
<1>8. ASSUME NEW p \in Ptr, CloseRefused(p), KernelKept PROVE SessionInv'
  BY <1>1, <1>8, LifecycleKeeps DEF CloseRefused, KernelKept, kernelVars
<1>9. CASE UNCHANGED sessionVars
  BY <1>9 DEF sessionVars, kernelVars, vars, blocks, SessionInv, SessionTypeOK,
              BuffersReachable, CleanupOwn, Running
<1> QED
  BY <1>2, <1>3, <1>4, <1>5, <1>6, <1>7, <1>8, <1>9 DEF SessionNext, PciDeviceOpen

\* The invariant of the session, from those of the device lifecycle.
LEMMA SessionInvariant ==
  ASSUME ~RetryClose
  PROVE  SessionSpec => []SessionInv
<1>1. SessionSpec => [](TypeOK /\ HeldAllocated) /\ []FdOwned
  <2>1. IndInv => TypeOK /\ HeldAllocated
    BY DEF IndInv
  <2> QED
    BY <2>1, SessionRefinesDevice, IndInvariant, FdIsOwned, PTL
<1>2. TypeOK /\ HeldAllocated /\ FdOwned /\ SessionInv /\ [SessionNext]_sessionVars => SessionInv'
  BY SessionStep
<1> QED
  BY <1>1, <1>2, SessionInitInv, PTL DEF SessionSpec

\* The unlock of a buffer reaches the board the buffer is locked for, whatever
\* the client has opened, closed and failed to open or close in between.
THEOREM BuffersStayReachable ==
  ASSUME ~RetryClose
  PROVE  SessionSpec => []BuffersReachable
<1>1. SessionInv => BuffersReachable
  BY DEF SessionInv
<1> QED
  BY <1>1, SessionInvariant, PTL

\* No board gets the cleanup commands that were written for another.
THEOREM CleanupStaysOwn ==
  ASSUME ~RetryClose
  PROVE  SessionSpec => []CleanupOwn
<1>1. SessionInv => CleanupOwn
  BY DEF SessionInv
<1> QED
  BY <1>1, SessionInvariant, PTL

\* A session of one device at a time implements DeviceLease: the buffers and
\* cleanup commands in between take and give back nothing that Open and Close
\* account for.  No board's device id reads 0, as in ImplementsDeviceLease.
THEOREM SessionImplementsLease ==
  ASSUME OneAtATime, BarsMap, ZeroId = {}
  PROVE  SessionSpec => LeaseSpec
BY SessionRefinesDevice, ImplementsDeviceLease, PTL

=============================================================================
