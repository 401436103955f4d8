# A TLA+ model of the cronologic PCI userspace library for Linux

This directory specifies, model-checks and proves properties of the library in
`src/`: a C++ shared library through which applications find cronologic PCI
boards in sysfs, open them through the miscdev of the kernel module, map their
BARs, read and write registers and configuration space, and lock DMA buffers.
The kernel module and the application are other repositories.

## 1. The system

| Component | State it keeps | Operations | What makes it correct |
|---|---|---|---|
| Device lifecycle (`crono_kernel_interface.cpp`) | `devices[8]`, `iNewDev`; one heap block per device with slot, `miscdev_fd`, `bar_descs[]` | `PciDeviceOpen`, `PciDeviceClose`, `fill_device_bar_descriptions`, `freeDeviceMem`, `freeDevicesMem` at unload | each held device has its own open miscdev and its own BAR mappings; nothing is freed twice; nothing is left open or mapped; the table tracks what is held and never overflows |
| DMA buffers (same file) | the blocks behind the client's `ppDma`; buffers locked in the kernel module; their mappings | `DMASGBufLock/Unlock`, `DMAContigBufLock/Unlock` | what a lock returned is locked until it is unlocked; the kernel holds exactly what clients hold; no block is lost |
| Configuration space (same file, `sysfs.cpp`) | none between calls; three cursors inside one | `PciReadCfg32`, `PciWriteCfg32`, `crono_read_vendor_device`, `crono_read_config`, `crono_write_config` | each byte goes to its place however the transfer is split; success means the whole word; the loop ends |
| Bus scan (same file) | the client's `CRONO_KERNEL_PCI_SCAN_RESULT` | `PciScanDevices` | lists and counts exactly the matching functions |
| Register access (same file) | `bar_descs[]`, `bar_count`, filled in by Open | `ReadAddr8..64`, `WriteAddr8..64`, `ReadAddr`, `WriteAddr`, `GetBarDescriptions`, `GetDeviceBARMem` | the descriptions are the BARs of the board; an access reaches the bytes it names and no others, or is refused |
| Cleanup commands (same file) | none; the kernel module keeps the commands of each board | `CardCleanupSetup` | no board is given commands written for another |
| Stubs, `GetDeviceMiscName`, path construction, build files | none | `PciGetDeviceInfo`, `PciDriverVersion`, ... | - |

The components interact through the device block: Open creates it, every call
on a handle reads its `miscdev_fd`, slot and descriptions, Close frees it. Open
and the scan read ids through `crono_read_vendor_device`, that is through the
transfer loop. The DMA calls and `CardCleanupSetup` use the device's descriptor
for their ioctls, and register accesses its descriptions.

The library has no thread, lock or callback, and nothing in it survives the
process: each call runs to its end on its caller's thread, and concurrent calls
from several threads are the application's to serialise. What makes it hard is
elsewhere: *sequences* of calls by one client holding several devices (the
table is a stack with holes), *partial failure* (each call is a chain of
acquisitions, any of which can fail after the ones before it), *stale values*
(a pointer left in the table, in `*phDev`, in `*ppDma`, a descriptor left in a
block, a count left in a result), and *limits* (8 entries, the descriptor
table, 100 scan results). `PROJECT.json` lists each of these hazards at the
line where it bites, with the properties aimed at it.

## 2. The modules

| Module | Models |
|---|---|
| `CronoDevice` | Open, Close and unload over the table, the heap, the descriptor table and the address space |
| `DeviceLease` | the promise of Open and Close: an opened device is a lease of one file and one mapping per BAR, given back by Close |
| `CronoDeviceProofs` | theorems about `CronoDevice` for every client |
| `CronoLeaseProofs` | theorems about `CronoDevice` for a client of one device at a time, the refinement of `DeviceLease` among them |
| `BarAccess` | the descriptions, filled in a BAR at a time, and the register calls through them |
| `RegisterFile` | the promise of the register calls: every BAR is an array of bytes of its own |
| `BarAccessProofs` | theorems about `BarAccess`, the refinement among them |
| `CronoSession` | `CronoDevice` composed with the calls on a handle: buffers locked and cleanup commands set up while devices are opened and closed |
| `CronoSessionProofs` | theorems about `CronoSession`, over those about `CronoDevice` and its refinement |
| `DmaBuffers` | the four DMA calls on one open device |
| `BufferLease` | the promise of the DMA calls: the kernel has locked, and has mapped, exactly what the client holds |
| `DmaBuffersProofs` | theorems about `DmaBuffers`, the refinement of `BufferLease` among them |
| `SysfsConfig` | a configuration space call, one `pread64` / `pwrite64` at a time |
| `SysfsConfigProofs` | theorems about `SysfsConfig` |
| `PciScan` | a scan, one directory entry at a time, and repeated scans |
| `PciScanProofs` | theorems about `PciScan` |
| `MCDevice`, `MCSession`, `MCBuffers`, `MCBars`, `MCConfig`, `MCScan` | small instances for TLC |

**How they correspond to the code.** In `CronoDevice` and `DmaBuffers` a
library call is one action per way the call can end, because it runs to
completion and only its system calls vary: `PciDeviceOpen` ends as
`OpenUnmatched` (no directory, or no entry for the slot: a success with a null
handle), `OpenFails` (ids, miscdev or its `open`), `OpenBarFails`,
`OpenSucceeds`, or `OpenOverrun` where `devices[iNewDev++]` leaves the array;
`PciDeviceClose` as `CloseRefused`, `CloseFails`, `CloseLeavesMemory` (descriptor
closed, `munmap` failed) or `CloseSucceeds`. `CloseRefused` is the `-EINVAL` of
`CRONO_INIT_HDEV_FUNC`, with which every call on a handle begins: a handle whose
device id is 0 (`ZeroId`, the boards whose id reads so; Open does not look) is
refused, nothing is released, and the client goes on holding it. In
`CronoSession` the calls on a handle have the same guard, in `Accepted`.
`DeviceError` is the label
`device_error`: the pointer to the freed block stays in the table.
`freeDeviceMem` contains its trailing loop, `Shrunk`, as written: it tests
`devices[iNewDev]`, the entry *after* the last, and with the table full a word
past the array, whose value is open. Which system calls may fail is the
constant `Faults`. A block that is not allocated has its fields reset, so that
states differ only in what the program can still reach. Descriptors follow
`open(2)`: the lowest free one; Open keeps the directory stream open
throughout, so its miscdev gets the lowest *but one*, and it needs up to five
descriptors at once (`Enough`). In `DmaBuffers` the variable behind `ppDma` is
state of its own, because the lock of a contiguous buffer reads it; unlocking
through a pointer to freed memory is undefined behaviour and the model stops
before it. Its variable `left` is for the properties only: it collects the
buffers and mappings that the contiguous calls leave behind where the code
leaves them, so that `LeaseSpec` can say that nothing else does. `BarAccess`
turns the loop of `fill_device_bar_descriptions` into `SkipBar` and `FillBar`
steps, and lets an access dereference `userAddress + dwOffset` through the
address space `maps`: which registers that reaches is a result and not an
assumption. The range check is `InRange` with `sizeof(val)` as compiled, that is
8 in every read (`val` is a pointer there) and the width in every write; the
length of a BAR is reduced to the width of its field. `CronoSession` adds to
`CronoDevice` what matters of the calls on a handle: which board their ioctl
reaches (`Reached`, the file behind `miscdev_fd`); its client unlocks the buffers
it has locked through a handle before it closes it (`Drained`), as nothing in the
library makes it. `SysfsConfig` and `PciScan` go step by step, since their properties
are about what happens between two steps of a loop; bytes are told apart by
where they came from, not by value. Several `Mutant...` definitions stand beside
the actions: each is a slip the next definition could have, and a property is
only kept if TLC refutes it when that slip is put in.

External definitions (the kernel's `open`, `mmap`, the kernel module's locks,
what the client does with its pointers) are modelled from how the code uses
them and marked so in the map.

## 3. What the runs check

Passing runs:

* `device_one` - a session with one device at a time and one buffer, every step
  of Open up to the miscdev may fail. `HeldTracked` and `TableHasRoom` (the table holds what is held and never
  overflows), `NoOrphanMapping`, and `LeaseSpec`: Open and Close implement
  `DeviceLease` under the mapping that counts files and mappings per slot.
* `session` - several devices and two buffers, *every* system call may fail, and
  no descriptor is open at first, not even 0. `TableSound` (nothing is freed
  twice), `FdOwned`, `BarsMapped`, `NoOrphanFile`, `TypeOK`; with six
  descriptors the third Open finds too few for the files it reads BARs from.
  `BuffersReachable`: a locked buffer's handle keeps reaching the board it is
  locked for, and an unlocked one is locked nowhere. `CleanupOwn`: no board is
  given another's cleanup commands. A third board has no BARs and a device id
  that reads 0, so that every call on its handle, Close included, is refused.
  335 812 states.
* `dma_faults` - two scatter/gather and two contiguous variables, every call may
  fail, and the client nulls its pointer after an unlock and after a lock that
  failed: `HeldLocked`, `NoOrphanBlock`, `TypeOK`, and `LeaseSpec`: `DmaBuffers`
  implements `BufferLease`, but for the buffers and mappings in `left`.
* `registers` - boards with no BAR, with BARs 0 and 1, 0 and 2 (a gap between
  them), 1 only (a gap below it), and one with a BAR too long for its field:
  `DescsExact`, `RegisterSpec` (`BarAccess` implements `RegisterFile`),
  `NamedBarIsRead` (the index is the number of the BAR on a board without
  gaps), `TypeOK`.
* `config_transfer` - every split of a 4-byte transfer over a file of 8 bytes,
  6 of them readable, with a failure at every step: `ReadInPlace`,
  `WriteInPlace`, `WriteCompletes`, `TypeOK` and, under fairness, `CallReturns`.
* `scan` - two boards of one kind, one more by the vendor and one other, result
  arrays of two entries, every set of boards present, every order, any entry
  unreadable, all queries with and without wildcards: `ScanExact`, `CountExact`,
  `TypeOK`, and `OverrunNeedsMatches`: line 82 has no check, but only a query that
  more functions match than the result has entries takes a scan past them. The
  client zeroes its result before each scan.

Runs that TLC refutes, each a disagreement between the code and what the
repository says of it (quoted in `PROJECT.json`, "findings"):

* `table_overrun` - a client that never holds more than two devices writes past
  `devices[8]`: each failed Open leaves a pointer above `iNewDev` that stops the
  shrink loop of the next Close, so one entry is lost for good. Checked with
  the code's 8 entries.
* `closed_still_mapped` - two devices, no failure: closing the newer one shrinks
  the table to nothing, and the Close of the other returns success without
  unmapping its BAR.
* `close_retried` - a Close that failed in `munmap` has already closed its
  descriptor; calling it again closes the file of a device opened in between.
* `contig_relocked` - locking a contiguous buffer with the pointer of an unlocked
  one returns success with nothing locked.
* `config_short_read` - a read that meets the end of the file returns success.
* `last_word_refused` - a read within the last bytes of a BAR is refused as out
  of range, because the size that is checked is that of a pointer.

Six more behaviours are known and have no run of their own. An Open that fails
at its second BAR leaves the first mapped (`crono_kernel_interface.cpp:1100`)
and the caller a handle to a freed block (:228); the `session` run includes
this fault and shows that it harms no other device. A contiguous lock whose
`malloc` or `mmap` fails leaves its buffer locked in the kernel (:886, :903); that
is what `left` collects. A scan without a match does not write `dwNumDevices`
(:94), so that a result that is used again keeps its old count. After a short
read of the ids a scan lists the ids of the entry before (`sysfs.cpp:81`); sysfs
always serves those four bytes. A board whose device id reads 0
can be opened but not closed, for Close refuses its handle (:265). And on a
board with a gap below a BAR, the `barIndex` of `ReadAddr` is not the number of
the BAR the header speaks of: `NamedBarIsRead` is restricted to boards without
one, and `RegisterSpec` takes the index as the position that the code takes it
for, so that neither property would tell the two readings apart.

**Bounds.** Two boards, with one and two BARs, so that BARs of one board and of
two can be confused, and in `session` a third without BARs that cannot be closed;
three heap blocks, so that a block can be reused while two
are held; four addresses, one more than the BARs of both boards; a table of two
entries where its limit is to be met soon and of eight, the code's, where the
run is about the limit itself. When leaks use up blocks or addresses, Open has
no success left in the model; that is a `malloc` or `mmap` that never succeeds,
and the proofs, which bound neither set's size, do not depend on it. For DMA, four blocks and four ids
for four variables; for sessions, two buffers, so that one is locked while the
other's device goes. For registers, three BARs of 8 and 16 bytes and a length
field of five bits, in which 32 wraps to 0 as 4 GiB does in the code's; two
addresses `mmap` can return, at which a BAR of 16 bytes ends where the other
begins, so that an access one byte too far is another BAR's; offsets on both
sides of each end; two writes, the least with which one can disturb another.
The answer of a call is state, so every call is compared with `RegisterFile`.
Blocks, addresses and ids are interchangeable, and
symmetry is used in the runs without temporal properties. `CHECK_DEADLOCK
FALSE` is set where the system may stop: after an unload, an overrun, or with
everything used up; `PciScan` stops at an overrun of the result.

**Fairness** is assumed in one place, `FairSpec` of `SysfsConfig`: a call that
has begun keeps its caller's thread and `open`, `pread64` and `pwrite64` on a
sysfs file return (`WF_vars(OpenConfig)`, `WF_vars(Transfer \/ EndOfFile \/
Complete)`); that they fail is never relied on to end the loop. Nothing makes a
client call the library, so nothing else is fair.

## 4. What is proved

Every invariant and every refinement that a passing run checks is also a theorem
of TLAPS, for every value of the constants that the assumption of its module
allows. Where such a theorem has a hypothesis of its own, the run satisfies it,
and in most cases a run that TLC refutes shows that it cannot be dropped. The
strengthened invariants below were model-checked before they were proved.

`CronoDeviceProofs`, checked by TLAPS, for any finite set of heap blocks and any boards, BARs,
addresses, table length, descriptor table and faults:

* `TypeCorrect` - `Spec => []TypeOK`, up to the overrun of `devices[]` at which the
  model stops.
* `TableIsSound` - `Spec => []TableSound`.
* `BarsStayMapped` - `Spec => []BarsMapped`, also for clients that retry Close.
* `NoFileIsOrphaned` - `Spec => []NoOrphanFile`.
* `FdIsOwned` - `Spec => []FdOwned`, assuming `~RetryClose`; `close_retried`
  shows that the assumption is needed.

The only assumptions are the named `DeviceAssumption` (types of the constants)
and, for the last theorem, the one it states. The invariant behind them is

    IndInv == TypeOK /\ TableSound /\ HeldAllocated /\ AddressesOwned
                     /\ HeldMapped /\ NoOrphanFile

`BarsMapped` is not inductive: a failed Close leaves a block that is no longer
held but still names mappings, and a second Close of it unmaps what it names.
`AddressesOwned` therefore speaks of all *allocated* blocks, held or not: each
non-null address in one is its own mapping and nobody else's; `HeldAllocated`
connects the two (a held block is allocated, every allocated block has a
slot), and `HeldMapped` says that a held block's addresses are not null, which
every failing path has to preserve. `TableSound` gives that a tracked block is
allocated. A fresh mapping cannot collide because `mmap` answers free
addresses; unmapping the addresses of one block does not touch another's
because each is owned once. For `FdOwned` the step that matters is Open: the
descriptor is free, hence differs from every held one, and is not 0 because the
directory's is below it. The module has one lemma per conjunct and, in it, one
step per action.

`BarAccessProofs`, for any number of BARs, boards, lengths, addresses, offsets
and values:

* `TypeCorrect` - `Spec => []TypeOK`; no BAR is filled in past the array.
* `DescriptionsExact` - `Spec => []DescsExact`.
* `ImplementsRegisterFile` - `Spec => RegisterSpec`, the refinement.
* `ReadsNamedBar` - `Spec => []NamedBarIsRead`.

From `BarAssumption`: the types of the constants, that `mmap` does not return the
null address, and that the lengths are such that, reduced to the width of the
field, they are themselves or 0, which the powers of two of the PCI bus are.
The invariant is `TypeOK /\ DescsSound /\ Progress`. `DescsSound` says of the
filled part of the array what `DescsExact` says of all of it, that every
present BAR below `ibar` is in it, and that the rest is zero: with length 0 no
access at an index beyond `bar_count` is in range. `Progress` keeps register
calls out until the loop has ended. A step of the refinement then follows from
one lemma, `Reaches`: an index that passes the range check has a description,
and the addresses the access goes through are those of its own BAR. For a write
one also needs that no other address of the access maps to the same byte.
`Positions` adds, by induction over the loop, that without gaps the index of a
description is its number.

`CronoSessionProofs`, for any number of buffers:

* `SessionRefinesDevice` - `SessionSpec => Spec`: every theorem about `CronoDevice`
  holds of sessions.
* `BuffersStayReachable`, `CleanupStaysOwn` - `BuffersReachable` and `CleanupOwn`,
  assuming `~RetryClose`, under which `FdOwned` holds. The two are proved together
  (`SessionInv`) from `FdOwned` and `IndInv` of `CronoDevice`: a handle that is held
  names a file of its own board, which Open and Close of others leave alone.
* `SessionImplementsLease` - `SessionSpec => LeaseSpec`, under the hypotheses of
  `ImplementsDeviceLease` below; it is what `device_one` checks.

`CronoLeaseProofs`, for any boards and BARs, any heap and address space:

* `HeldIsTracked`, `TableKeepsRoom` - `HeldTracked` and `TableHasRoom`, assuming
  `OneAtATime`: one device at a time (`MaxHeld = 1`), no retried Close, no failing
  `close` or `munmap`, and a table of at least two entries, since Close of the
  only entry of a table of one looks past its end.
* `NoMappingIsOrphaned` - `NoOrphanMapping`, assuming also that no BAR fails to
  be mapped (`"bar" \notin Faults`); an Open that fails at its second BAR leaves
  the first mapped.
* `ImplementsDeviceLease` - `Spec => LeaseSpec`, assuming `OneAtATime` and
  `BarsMap` (also five free descriptors besides the application's, so that no
  BAR fails for want of one) and `ZeroId = {}`: `DeviceLease` knows no Close that
  is refused.

With two devices the first two are refuted by `table_overrun` and the third by
`closed_still_mapped`. What holds of one device is `OneDevice`: `iNewDev` is 0
with nothing held or 1 with the device in entry 0, no entry above is set, and no
Close has failed. The second part is what makes it inductive: an Open that fails
leaves its pointer in entry 0 only, where the next Open overwrites it, and so
the shrink loop of Close, which reads the entry above, stops at once
(`ShrinksToEmpty`). For the refinement, `NamesOwnBars` says that a held block
names mappings only of BARs its board has, and `AppKept` that the application's
files are left alone, so that with nothing held all other descriptors are free.
The counts of `DeviceLease` are then evaluated in the two cases there are, nothing
held (`NoneLeased`) and one device (`OneLeased`): every count is the size of an
empty set or of a set of one, and the address space need not be finite. Acquire and
Release lead from one case to the other.

`DmaBuffersProofs`, for any number of variables and blocks and any finite sets of ids
and addresses:

* `TypeCorrect` - `Spec => []TypeOK`.
* `NoBlockIsOrphaned` - `Spec => []NoOrphanBlock`, for every client.
* `HeldStaysLocked` - `HeldLocked`, assuming `ResetsPointer`.
* `ImplementsBufferLease` - `Spec => LeaseSpec`, assuming `ResetsPointer`.

`ResetsPointer` is a client that nulls a pointer after unlocking through it and
after a lock through it that failed. The first is needed, as `contig_relocked`
shows. A client that does only the first is not covered, and could not be: a
contiguous lock whose `mmap` fails leaves `*ppDma` set to the freed block (:891,
:904), and the next lock with it returns success. The assumption
`BufferAssumption` is the types of the constants; that `Id` and `Addr` are disjoint
says only that what `left` collects can be told apart. Of every client,
`BlocksSound` says that an allocated block names a locked buffer that no other
block names, and a mapping of it if it is contiguous; `LeftSound`, that what has
been left behind is still locked or mapped and is in no block. Neither speaks
of pointers, since a client may keep dead ones. `PointersSound` does, for the
clients that null them: each held variable points to a block of its own, of its
own kind, and every other is null. `HeldLocked` follows from `BlocksSound` and
`PointersSound` together, and with `LeftSound` they give the simulation, one lemma
per call and way to end: the lock of a buffer takes an id that is in no lease
and in nothing left behind, and its unlock takes away what is in no other.

`SysfsConfigProofs`, for a file of any size, any part of it readable, any offsets:

* `TypeCorrect`, `ReadsInPlace`, `WritesInPlace`, `WritesComplete` - `TypeOK`,
  `ReadInPlace`, `WriteInPlace`, `WriteCompletes`.
* `WholeFileIsComplete` - `SuccessIsComplete`, assuming that the whole file is
  readable and holds the ids. `config_short_read` shows that it needs the first:
  nothing else makes a success incomplete.

The invariant adds `CursorsAgree` (the three cursors of the loop, `temp_size`,
`offset` and `data_bytes`, say the same) and `WordFits` (the word of a transfer
under way ends within the file, which the check before the loop gives) to the
properties. `WriteCompletes` needs both: a write whose cursors agree and whose
word fits does not meet the end of the file before its last byte.

`PciScanProofs`, for any finite bus and any length of the result:

* `TypeCorrect` - `Spec => []TypeOK`. That the index of an entry is within the
  result is in it because the model stops at the write past the result
  (`Overrun`), not because the code checks; when that write cannot happen is what
  the last two theorems say.
* `ListsExactly` - `ScanExact`, assuming `~ShortReads`: a read of the ids that
  returns success has written them.
* `CountsExactly` - `CountExact`, assuming `ClearsResult`: the client zeroes its
  result before each scan.
* `NoOverrunWhenFew` - `Spec => [](pc # "overrun")`, assuming at most `PCI_CARDS`
  functions on the bus.
* `OverrunsOnlyWhenMany` - `OverrunNeedsMatches`, assuming `~ShortReads`: a scan
  gets to the overrun only if more functions match than there are entries,
  whatever else is on the bus.

`ScanExact` speaks of a scan that is over. `FoundSoFar` says the same of what has
been scanned at any moment, and `ReadOnce` that an entry readdir has returned is
not returned again, so that none is listed twice. `CountSoFar` keeps the count equal to
the index at each step, and `RoomSoFar` bounds the index by the entries returned.
`OneTooMany` says that at the overrun the result is full and one more function,
which is not in it, matches: with those listed,
which are that many and all different, it makes one more than `PCI_CARDS`.

Only model-checked: the liveness property `CallReturns`, which is beyond the
prover. Of the properties of the refuted runs, all but `InRangeIsServed` are
theorems under the hypotheses above.

## 5. Not modelled, and the plan

Not modelled: concurrent calls from several threads (the library does not
claim to allow them); a `malloc` in Open that fails, after which the code
writes through a null pointer; string handling of paths; the stubs; the
build; `GetDeviceMiscName`; unaligned register accesses, and an index past
`bar_descs[]`, which the code does not check. `GetBarDescriptions` of a board
without BARs reads the resource file again, to the same effect. `dwPages`
(:611) leaves out the offset of a buffer in its first page; what follows from
that is decided in the kernel module. The kernel module itself is external.

Order of work:

1. `CronoDevice` with `DeviceLease`, its runs, invariants and proofs (done).
2. `DmaBuffers` with `BufferLease`, `SysfsConfig`, `PciScan` (done).
3. `BarAccess` with `RegisterFile`, and its proofs (done).
4. `CronoSession`, devices with buffers and cleanup commands, and its proofs
   (done).
5. Proofs about one device at a time and its refinement, `DmaBuffers` with
   its refinement, `SysfsConfig`, `PciScan` (done).
