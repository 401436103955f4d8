---------------------------- MODULE CronoDevice ----------------------------
(***************************************************************************)
(* The device lifecycle of crono_kernel_interface.cpp:                     *)
(* CRONO_KERNEL_PciDeviceOpen, CRONO_KERNEL_PciDeviceClose and the         *)
(* destructor onUnload, over the static table devices[8] / iNewDev, with   *)
(* the process resources they acquire and release: heap blocks, file       *)
(* descriptors and BAR mappings.                                           *)
(*                                                                         *)
(* A library call runs to completion on its caller's thread, so each call  *)
(* is one action.  What the kernel answers to a system call inside it is a *)
(* nondeterministic choice, bounded by Faults.                             *)
(***************************************************************************)
EXTENDS Integers, FiniteSets

CONSTANTS
  Slot,        \* PCI functions, named by their CRONO_KERNEL_PCI_SLOT
  BarNum,      \* BAR numbers (0..5)
  ZeroId,      \* those whose device id reads 0
  Bars,        \* Bars[s]: the BARs the sysfs `resource` file of s lists
  Ptr,         \* addresses malloc can return
  Addr,        \* addresses mmap can return
  MaxFd,       \* largest file descriptor of the process
  DEVICES,     \* length of devices[] (8)
  NULL,        \* the null pointer, the zero userAddress, an unused table entry
  APP,         \* a file of the application's own
  Faults,      \* which system calls may fail
  MaxHeld,     \* how many devices the client holds at once, at most
  RetryClose,  \* whether the client calls Close again after it has failed
  AppFds       \* descriptors the application has open when it starts

Fault == {"vendor", "miscdev", "open", "bar", "close", "munmap"}

Fd == 0..MaxFd
Index == 0..(DEVICES - 1)
Mapping == [slot : Slot, bar : BarNum]

ASSUME DeviceAssumption ==
  /\ DEVICES \in Nat \ {0}
  /\ MaxFd \in Nat
  /\ MaxHeld \in Nat
  /\ BarNum \subseteq Nat
  /\ ZeroId \subseteq Slot
  /\ Bars \in [Slot -> SUBSET BarNum]
  /\ IsFiniteSet(Ptr)
  /\ NULL \notin Slot /\ NULL \notin Ptr /\ NULL \notin Addr /\ NULL \notin Mapping
  /\ APP \notin Slot /\ APP # NULL
  /\ Faults \subseteq Fault
  /\ RetryClose \in BOOLEAN
  /\ AppFds \subseteq Fd

VARIABLES
  devices,      \* devices[]: Index -> pointer or NULL
  iNewDev,      \* index of the next device in devices[]
  heap,         \* the CRONO_KERNEL_DEVICE blocks that are allocated
  pciSlot,      \* field pciSlot of each block
  miscdev_fd,   \* field miscdev_fd of each block
  userAddress,  \* field bar_descs[].userAddress of each block, by barNum
  files,        \* descriptor table: the slot whose miscdev is open there
  maps,         \* address space: the BAR mapped at each address
  held,         \* handles the client got from Open and has not closed
  failed,       \* handles whose Close got past its checks and returned an error
  reply,        \* what the last Open returned: its code and *phDev
  phase         \* "running", "unloaded", or "overrun" (devices[] was exceeded)

blocks == <<heap, pciSlot, miscdev_fd, userAddress>>
vars == <<devices, iNewDev, blocks, files, maps, held, failed, reply, phase>>

NoBars == [b \in BarNum |-> NULL]
NoReply == [ret |-> "NONE", phDev |-> NULL]

TypeOK ==
  /\ devices \in [Index -> Ptr \cup {NULL}]
  /\ iNewDev \in 0..DEVICES
  /\ heap \subseteq Ptr
  /\ pciSlot \in [Ptr -> Slot \cup {NULL}]
  /\ miscdev_fd \in [Ptr -> Fd]
  /\ userAddress \in [Ptr -> [BarNum -> Addr \cup {NULL}]]
  /\ files \in [Fd -> Slot \cup {NULL, APP}]
  /\ maps \in [Addr -> Mapping \cup {NULL}]
  /\ held \subseteq Ptr
  /\ failed \subseteq Ptr
  /\ reply \in [ret : {"NONE", "SUCCESS", "ERROR"}, phDev : Ptr \cup {NULL}]
  /\ phase \in {"running", "unloaded", "overrun"}

Init ==
  /\ devices = [i \in Index |-> NULL]
  /\ iNewDev = 0
  /\ heap = {}
  /\ pciSlot = [p \in Ptr |-> NULL]
  /\ miscdev_fd = [p \in Ptr |-> 0]
  /\ userAddress = [p \in Ptr |-> NoBars]
  /\ files = [fd \in Fd |-> IF fd \in AppFds THEN APP ELSE NULL]
  /\ maps = [a \in Addr |-> NULL]
  /\ held = {}
  /\ failed = {}
  /\ reply = NoReply
  /\ phase = "running"

-----------------------------------------------------------------------------
(* The system calls the library makes.                                     *)

Free == {fd \in Fd : files[fd] = NULL}

\* The descriptor that open(2), which takes the lowest free one, gives the
\* miscdev: the lowest but one, for opendir has taken the lowest until Open
\* returns.  So it is never 0, which `miscdev_fd <= 0` takes for an error.
IsMiscdevFd(fd) ==
  /\ fd \in Free
  /\ \E dr \in Free : dr < fd /\ \A g \in Free : g < fd => g = dr

\* Open holds at once the directory, the miscdev, the sysfs `resource` file
\* twice and the resource file of a BAR.
Enough(s) == Cardinality(Free) >= IF Bars[s] = {} THEN 4 ELSE 5

\* mmap of the BARs B of slot s, at the fresh addresses u[b], b \in B.
FreshAddresses(B) ==
  {u \in [B -> {a \in Addr : maps[a] = NULL}] :
     \A b, c \in B : b # c => u[b] # u[c]}

Mapped(s, B, u) ==
  [a \in Addr |-> IF \E b \in B : u[b] = a
                    THEN [slot |-> s, bar |-> CHOOSE b \in B : u[b] = a]
                    ELSE maps[a]]

\* munmap of the addresses A.
Unmapped(A) == [a \in Addr |-> IF a \in A THEN NULL ELSE maps[a]]

-----------------------------------------------------------------------------
(* The device table.                                                       *)

(* A definition whose name begins with Mutant is a slip the definition      *)
(* after it could have; no action uses it.                                 *)

\* devices[++iNewDev] = pDevice
MutantEnter(p) ==
  /\ devices' = [devices EXCEPT ![iNewDev + 1] = p]
  /\ iNewDev' = iNewDev + 1

\* devices[iNewDev++] = pDevice
Enter(p) ==
  /\ devices' = [devices EXCEPT ![iNewDev] = p]
  /\ iNewDev' = iNewDev + 1

\* The index steps back twice.
MutantDeviceErrorTwice(p) ==
  /\ devices' = [devices EXCEPT ![iNewDev] = p]
  /\ iNewDev' = iNewDev - 1
  /\ UNCHANGED blocks

\* The index does not step back.
MutantDeviceErrorKeeps(p) ==
  /\ devices' = [devices EXCEPT ![iNewDev] = p]
  /\ iNewDev' = iNewDev + 1
  /\ UNCHANGED blocks

\* The label device_error: pDevice is freed and the index steps back, but the
\* pointer stays in the entry devices[iNewDev].
DeviceError(p) ==
  /\ devices' = [devices EXCEPT ![iNewDev] = p]
  /\ UNCHANGED <<iNewDev, blocks>>

Tracked(p) == \E i \in 0..(iNewDev - 1) : devices[i] = p

\* devices[iDev] = nullptr for every entry below iNewDev that holds p.
Untrack(p) ==
  [i \in Index |-> IF i < iNewDev /\ devices[i] = p THEN NULL ELSE devices[i]]

\* The loop is left out.
MutantShrunk(tab, n, k) == k = n

\* while (iNewDev > 0 && devices[iNewDev] == nullptr) iNewDev--, from n to k.
\* The loop reads the entry after the last one; at n = DEVICES that is the
\* word past the array, which may be null or not.
Shrunk(tab, n, k) ==
  /\ k \in Index \ {0} => tab[k] # NULL
  /\ \A j \in (k + 1)..n : j \in Index => tab[j] = NULL

\* The BARs stay mapped.
MutantFreeKeepsBars(p) ==
  /\ heap' = IF Tracked(p) THEN heap \ {p} ELSE heap
  /\ devices' = Untrack(p)
  /\ \E k \in 0..iNewDev : Shrunk(Untrack(p), iNewDev, k) /\ iNewDev' = k
  /\ UNCHANGED <<maps, pciSlot, miscdev_fd, userAddress>>

\* `if (pDevice != devices[iDev]) continue` is left out of the unmapping.
MutantFreeUnmapsAll(p) ==
  /\ maps' = Unmapped({userAddress[q][b] : q \in {r \in Ptr : Tracked(r)}, b \in BarNum})
  /\ heap' = heap \ {p}
  /\ devices' = Untrack(p)
  /\ \E k \in 0..iNewDev : Shrunk(Untrack(p), iNewDev, k) /\ iNewDev' = k
  /\ UNCHANGED <<pciSlot, miscdev_fd, userAddress>>

\* freeDeviceMem when every munmap succeeds: a block the table does not hold
\* below iNewDev is neither unmapped nor freed, and the call still succeeds.
freeDeviceMem(p) ==
  /\ \/ /\ Tracked(p)
        /\ maps' = Unmapped({userAddress[p][b] : b \in BarNum})
        /\ heap' = heap \ {p}
        /\ pciSlot' = [pciSlot EXCEPT ![p] = NULL]
        /\ miscdev_fd' = [miscdev_fd EXCEPT ![p] = 0]
        /\ userAddress' = [userAddress EXCEPT ![p] = NoBars]
     \/ ~Tracked(p) /\ UNCHANGED <<maps, blocks>>
  /\ devices' = Untrack(p)
  /\ \E k \in 0..iNewDev : Shrunk(Untrack(p), iNewDev, k) /\ iNewDev' = k

\* freeDeviceMem when the munmap of BAR b fails: the BARs before it are gone
\* (userAddress = 0), the rest, the block and the table stay as they are.
freeDeviceMemFails(p, b) ==
  /\ "munmap" \in Faults
  /\ Tracked(p)
  /\ userAddress[p][b] # NULL
  /\ maps' = Unmapped({userAddress[p][c] : c \in {d \in BarNum : d < b}})
  /\ userAddress' = [userAddress EXCEPT ![p] =
                       [c \in BarNum |-> IF c < b THEN NULL ELSE userAddress[p][c]]]
  /\ UNCHANGED <<devices, iNewDev, heap, pciSlot, miscdev_fd>>

-----------------------------------------------------------------------------
(* CRONO_KERNEL_PciDeviceOpen, by the way the call ends.                   *)

Ready == phase = "running" /\ Cardinality(held) < MaxHeld

Answer(code, p) == reply' = [ret |-> code, phDev |-> p]

\* /sys/bus/pci/devices cannot be read, or lists no entry for the requested
\* slot; the latter is a success with a null handle.
OpenUnmatched ==
  /\ Ready
  /\ \E code \in {"SUCCESS", "ERROR"} : Answer(code, NULL)
  /\ UNCHANGED <<devices, iNewDev, blocks, files, maps, held, failed, phase>>

\* devices[iNewDev++] = pDevice with the table full writes past devices[].
OpenOverrun ==
  /\ Ready
  /\ iNewDev = DEVICES
  /\ phase' = "overrun"
  /\ UNCHANGED <<devices, iNewDev, blocks, files, maps, held, failed, reply>>

\* The ids cannot be read, the miscdev is missing, or its open(2) fails.
OpenFails(p) ==
  /\ Ready
  /\ iNewDev < DEVICES
  /\ Faults \cap {"vendor", "miscdev", "open"} = {} => Cardinality(Free) = 1
  /\ DeviceError(p)
  /\ Answer("ERROR", NULL)
  /\ UNCHANGED <<files, maps, held, failed, phase>>

\* fill_device_bar_descriptions fails, for want of descriptors or after it has
\* mapped the BARs below some b: the miscdev is closed, the mappings stay, and
\* *phDev keeps the freed block.
OpenBarFails(s, p) ==
  /\ Ready
  /\ iNewDev < DEVICES
  /\ \E fd \in Fd : IsMiscdevFd(fd)
  /\ \/ ~Enough(s) /\ UNCHANGED maps
     \/ /\ Enough(s)
        /\ "bar" \in Faults
        /\ \E b \in Bars[s] \cup {0} : LET L == {c \in Bars[s] : c < b} IN
             \E u \in FreshAddresses(L) : maps' = Mapped(s, L, u)
  /\ DeviceError(p)
  /\ Answer("ERROR", p)
  /\ UNCHANGED <<files, held, failed, phase>>

OpenSucceeds(s, p) ==
  /\ Ready
  /\ iNewDev < DEVICES
  /\ Enough(s)
  /\ \E fd \in Fd, u \in FreshAddresses(Bars[s]) :
       /\ IsMiscdevFd(fd)
       /\ files' = [files EXCEPT ![fd] = s]
       /\ miscdev_fd' = [miscdev_fd EXCEPT ![p] = fd]
       /\ maps' = Mapped(s, Bars[s], u)
       /\ userAddress' = [userAddress EXCEPT ![p] =
            [b \in BarNum |-> IF b \in Bars[s] THEN u[b] ELSE NULL]]
  /\ Enter(p)
  /\ heap' = heap \cup {p}
  /\ pciSlot' = [pciSlot EXCEPT ![p] = s]
  /\ held' = held \cup {p}
  /\ Answer("SUCCESS", p)
  /\ UNCHANGED <<failed, phase>>

PciDeviceOpen ==
  \/ OpenUnmatched
  \/ OpenOverrun
  \/ \E p \in Ptr \ heap :
       \/ OpenFails(p)
       \/ \E s \in Slot : OpenBarFails(s, p) \/ OpenSucceeds(s, p)

-----------------------------------------------------------------------------
(* CRONO_KERNEL_PciDeviceClose and onUnload.                               *)

\* The handles a client passes to Close: it never reuses one that Close has
\* taken back, and retries one whose Close failed only under RetryClose.
Closable(p) == phase = "running" /\ (p \in held \/ (RetryClose /\ p \in failed))

\* dwDeviceId == 0: CRONO_INIT_HDEV_FUNC, with which every call on a handle
\* begins, refuses the handle.
RefusesHandle(p) == pciSlot[p] \in ZeroId

\* Close returns -EINVAL and does nothing, however often it is called: the
\* device stays open, and the client still holds it.
CloseRefused(p) ==
  /\ Closable(p)
  /\ RefusesHandle(p)
  /\ reply' = NoReply
  /\ UNCHANGED <<devices, iNewDev, blocks, files, maps, held, failed, phase>>

\* Every file of the slot is closed, not the one of this handle.
MutantCloseSlot(p) ==
  files' = [fd \in Fd |-> IF files[fd] = pciSlot[p] THEN NULL ELSE files[fd]]

\* The descriptor is not closed.
MutantCloseNothing(p) == Closable(p) /\ UNCHANGED files

CloseFile(p) == files' = [files EXCEPT ![miscdev_fd[p]] = NULL]

\* close(2) fails, with EBADF or with a late error (Linux has then released the
\* descriptor all the same): nothing else is undone.
CloseFails(p) ==
  /\ Closable(p)
  /\ ~RefusesHandle(p)
  /\ files[miscdev_fd[p]] = NULL \/ "close" \in Faults
  /\ CloseFile(p)
  /\ held' = held \ {p}
  /\ failed' = failed \cup {p}
  /\ reply' = NoReply
  /\ UNCHANGED <<devices, iNewDev, blocks, maps, phase>>

\* The descriptor is closed, then munmap fails in freeDeviceMem.
CloseLeavesMemory(p) ==
  /\ Closable(p)
  /\ ~RefusesHandle(p)
  /\ files[miscdev_fd[p]] # NULL
  /\ CloseFile(p)
  /\ \E b \in BarNum : freeDeviceMemFails(p, b)
  /\ held' = held \ {p}
  /\ failed' = failed \cup {p}
  /\ reply' = NoReply
  /\ UNCHANGED phase

CloseSucceeds(p) ==
  /\ Closable(p)
  /\ ~RefusesHandle(p)
  /\ files[miscdev_fd[p]] # NULL
  /\ CloseFile(p)
  /\ freeDeviceMem(p)
  /\ held' = held \ {p}
  /\ failed' = failed \ {p}
  /\ reply' = NoReply
  /\ UNCHANGED phase

PciDeviceClose ==
  \E p \in Ptr :
    \/ CloseRefused(p)
    \/ CloseFails(p) \/ CloseLeavesMemory(p) \/ CloseSucceeds(p)

\* freeDevicesMem at unload: the blocks below iNewDev are freed, their files
\* and mappings are not touched.
onUnload ==
  /\ phase = "running"
  /\ LET freed == {devices[i] : i \in 0..(iNewDev - 1)} IN
       /\ heap' = heap \ freed
       /\ pciSlot' = [p \in Ptr |-> IF p \in freed THEN NULL ELSE pciSlot[p]]
       /\ miscdev_fd' = [p \in Ptr |-> IF p \in freed THEN 0 ELSE miscdev_fd[p]]
       /\ userAddress' = [p \in Ptr |-> IF p \in freed THEN NoBars ELSE userAddress[p]]
  /\ devices' = [i \in Index |-> IF i < iNewDev THEN NULL ELSE devices[i]]
  /\ iNewDev' = 0
  /\ phase' = "unloaded"
  /\ UNCHANGED <<files, maps, held, failed, reply>>

Next == PciDeviceOpen \/ PciDeviceClose \/ onUnload

Spec == Init /\ [][Next]_vars

-----------------------------------------------------------------------------
(* Properties.  They speak of a process that is still running: after an    *)
(* overrun of devices[] anything may happen.                               *)

Running == phase = "running"

\* Every entry the cleanup walks (below iNewDev) is null or a block that is
\* still allocated, and no block is entered twice: neither freeDeviceMem nor
\* freeDevicesMem frees a block twice, whatever failed before.
TableSound ==
  Running => \A i \in 0..(iNewDev - 1) : devices[i] # NULL =>
    /\ devices[i] \in heap
    /\ \A j \in 0..(iNewDev - 1) : devices[j] = devices[i] => i = j

\* The miscdev_fd of a held device is an open file of its own slot, is not 0
\* (which every later call refuses), and belongs to no other held device: an
\* ioctl never reaches another board, and a Close never closes its file.
FdOwned ==
  Running => \A p \in held :
    /\ miscdev_fd[p] # 0
    /\ pciSlot[p] \in Slot
    /\ files[miscdev_fd[p]] = pciSlot[p]
    /\ \A q \in held : miscdev_fd[q] = miscdev_fd[p] => p = q

\* While a device is held, each of its BARs is mapped, at an address no other
\* BAR of a held device has: whichever devices were opened and closed around
\* it, its reads and writes reach its own registers.
BarsMapped ==
  Running => \A p \in held : \A b \in Bars[pciSlot[p]] :
    /\ userAddress[p][b] # NULL
    /\ maps[userAddress[p][b]] = [slot |-> pciSlot[p], bar |-> b]
    /\ \A q \in held, c \in BarNum :
         userAddress[q][c] = userAddress[p][b] => p = q /\ b = c

\* A miscdev that is open is the miscdev of a held device: no failed Open and
\* no Close leaks a descriptor.
NoOrphanFile ==
  Running => \A fd \in Fd :
    files[fd] \in Slot => \E p \in held : miscdev_fd[p] = fd

\* A BAR that is mapped is mapped for a device the client holds or whose Close
\* returned an error: "Memory addresses will not be valid after device is
\* closed" (crono_kernel_interface.h:398-399).
NoOrphanMapping ==
  Running => \A a \in Addr : maps[a] # NULL =>
    \E p \in held \cup failed : userAddress[p][maps[a].bar] = a

\* The devices the client holds are the ones the table tracks: "Save value if
\* a later cleanup is needed" (crono_kernel_interface.cpp:153).
HeldTracked ==
  Running => held = {devices[i] : i \in 0..(iNewDev - 1)} \ {NULL}

\* A client that never holds more than MaxHeld devices at once, fewer than the
\* table has entries, can open and close devices for ever: a failed Open and a
\* Close give their entry back ("Device freed, drop it from `devices`",
\* crono_kernel_interface.cpp:258).
TableHasRoom == MaxHeld < DEVICES => phase # "overrun"

-----------------------------------------------------------------------------
(* What makes them inductive.                                              *)

\* The block of a held device is allocated, and every allocated block names
\* the slot it was opened for.
HeldAllocated ==
  Running => held \subseteq heap /\ \A p \in heap : pciSlot[p] \in Slot

\* Each address in a block that is allocated, held or not, is its own mapping
\* of that BAR: a block that Close left behind keeps its addresses to itself.
AddressesOwned ==
  Running => \A p \in heap, b \in BarNum : userAddress[p][b] # NULL =>
    /\ maps[userAddress[p][b]] = [slot |-> pciSlot[p], bar |-> b]
    /\ \A q \in heap, c \in BarNum :
         userAddress[q][c] = userAddress[p][b] => p = q /\ b = c

\* No address of a BAR of a held device is null.
HeldMapped ==
  Running => \A p \in held : \A b \in Bars[pciSlot[p]] : userAddress[p][b] # NULL

IndInv ==
  TypeOK /\ TableSound /\ HeldAllocated /\ AddressesOwned /\ HeldMapped /\ NoOrphanFile

\* For a client that holds one device at a time, and whose Closes do not fail:
\* the table is the device it holds, if any, in its first entry.  Above it no
\* failed Open has left a pointer, so that Close can shrink the table again.
OneDevice ==
  Running =>
    /\ \/ held = {} /\ iNewDev = 0
       \/ \E p \in Ptr : held = {p} /\ iNewDev = 1 /\ devices[0] = p
    /\ \A i \in Index \ {0} : devices[i] = NULL
    /\ failed = {}

\* A held device names mappings only of the BARs its board has.
NamesOwnBars ==
  Running => \A p \in held, b \in BarNum :
    userAddress[p][b] # NULL => b \in Bars[pciSlot[p]]

\* The application's files are left alone.
AppKept == Running => \A fd \in Fd : files[fd] = APP <=> fd \in AppFds

-----------------------------------------------------------------------------
(* The promise of the interface, DeviceLease: a handle the client holds is *)
(* a lease, and the files and mappings are counted by slot and BAR.        *)

Lease == INSTANCE DeviceLease WITH
  lease <- [p \in Ptr |-> IF Running /\ p \in held THEN pciSlot[p] ELSE NULL],
  opened <- [s \in Slot |-> Cardinality({fd \in Fd : files[fd] = s})],
  mapped <- [s \in Slot |-> [b \in BarNum |->
              Cardinality({a \in Addr : maps[a] = [slot |-> s, bar |-> b]})]],
  live <- Running

\* Open and Close keep that promise: each takes and gives back exactly the
\* resources of its lease, and a refused Open leaves no trace, when the client
\* holds one device at a time and no BAR mapping, close or munmap fails.
LeaseSpec == Lease!Spec

=============================================================================
