----------------------------- MODULE BarAccess -----------------------------
(***************************************************************************)
(* Register access of crono_kernel_interface.cpp on one board: the array   *)
(* bar_descs[] that fill_device_bar_descriptions builds, a BAR at a time,  *)
(* when the device is opened, and the calls that index it:                 *)
(* CRONO_KERNEL_ReadAddr8/16/32/64, WriteAddr8/16/32/64 (always at index   *)
(* 0), ReadAddr and WriteAddr (at barIndex), and the two getters.          *)
(*                                                                         *)
(* Registers are told apart by byte.  An access goes through the address   *)
(* space, as in the code: to userAddress + dwOffset, wherever that leads.  *)
(***************************************************************************)
EXTENDS Integers, FiniteSets

CONSTANTS
  NBARS,       \* length of bar_descs[] and number of BARs of a board (6)
  Boards,      \* the boards: the length of each BAR, 0 when it is absent
  LENGTH_MOD,  \* one more than the largest value of field length (2^32)
  Addr,        \* the addresses of the process
  Base,        \* those that mmap returns
  Offset,      \* the offsets the client asks for
  Value,       \* the values it writes
  NULL,        \* no mapping, no value
  MaxWrites    \* bound: how many writes a behaviour has

BarNum == 0..(NBARS - 1)
Width == {1, 2, 4, 8}
SizeofPointer == 8

\* The lengths are those the bus can decode, powers of two: reduced to the
\* width of field length, one is itself or 0.
ASSUME BarAssumption ==
  /\ NBARS \in Nat \ {0}
  /\ LENGTH_MOD \in Nat \ {0}
  /\ Boards \subseteq [BarNum -> Nat]
  /\ \A board \in Boards, b \in BarNum :
       board[b] % LENGTH_MOD \in {0, board[b]}
  /\ Addr \subseteq Nat
  /\ Base \subseteq Addr \ {0}
  /\ Offset \subseteq Nat
  /\ NULL \notin BarNum /\ NULL \notin BarNum \X Nat
  /\ MaxWrites \in Nat

VARIABLES
  board,      \* the length of each BAR of the board
  regs,       \* the bytes of its BARs
  maps,       \* address space: the BAR and offset behind each address
  bar_descs,  \* the descriptions: barNum, length and userAddress
  bar_count,  \* how many are filled
  ibar,       \* the next BAR fill_device_bar_descriptions looks at
  phase,      \* "filling", "open" or "refused"
  call,       \* the last register call, with its answer
  writes      \* how many writes there were

vars == <<board, regs, maps, bar_descs, bar_count, ibar, phase, call, writes>>

Desc == [barNum : BarNum, length : 0..(LENGTH_MOD - 1), userAddress : Addr \cup {0}]
NoCall == [op |-> "none", index |-> 0, offset |-> 0, width |-> 0,
           ret |-> "NONE", val |-> NULL]
NoDesc == [barNum |-> 0, length |-> 0, userAddress |-> 0]

\* f has a byte for every offset in every BAR, of the lengths len.
Shaped(f, len) == f = [b \in BarNum |-> [o \in 0..(len[b] - 1) |-> f[b][o]]]

TypeOK ==
  /\ board \in Boards
  /\ Shaped(regs, board)
  /\ maps \in [Addr -> (BarNum \X Nat) \cup {NULL}]
  /\ bar_descs \in [BarNum -> Desc]
  /\ bar_count \in 0..NBARS
  /\ ibar \in 0..NBARS
  /\ phase \in {"filling", "open", "refused"}
  /\ writes \in 0..MaxWrites

Init ==
  /\ board \in Boards
  /\ regs = [b \in BarNum |-> [o \in 0..(board[b] - 1) |-> <<b, o>>]]
  /\ maps = [a \in Addr |-> NULL]
  /\ bar_descs = [i \in BarNum |-> NoDesc]
  /\ bar_count = 0
  /\ ibar = 0
  /\ phase = "filling"
  /\ call = NoCall
  /\ writes = 0

-----------------------------------------------------------------------------
(* fill_device_bar_descriptions, one turn of its loop at a time.           *)

Span(a, n) == a..(a + n - 1)

\* mmap of n bytes of a BAR's resource file at address a; of 0 bytes it fails.
mmap(b, a, n) ==
  /\ n > 0
  /\ Span(a, n) \subseteq Addr
  /\ \A x \in Span(a, n) : maps[x] = NULL
  /\ maps' = [x \in Addr |-> IF x \in Span(a, n) THEN <<b, x - a>> ELSE maps[x]]

\* "BAR not supported": the line of ibar is all zeros.
SkipBar ==
  /\ phase = "filling"
  /\ ibar < NBARS
  /\ board[ibar] = 0
  /\ ibar' = ibar + 1
  /\ UNCHANGED <<board, regs, maps, bar_descs, bar_count, phase, call, writes>>

(* A definition whose name begins with Mutant is a slip the definition      *)
(* after it could have; no action uses it.                                 *)

\* length = end_addr - start_addr
MutantDescribe(a) ==
  bar_descs' = [bar_descs EXCEPT ![bar_count] =
    [barNum |-> ibar, length |-> board[ibar] - 1, userAddress |-> a]]

\* temp_bar_descs[bar_count], of which field length has LENGTH_MOD values
Describe(a) ==
  bar_descs' = [bar_descs EXCEPT ![bar_count] =
    [barNum |-> ibar, length |-> board[ibar] % LENGTH_MOD, userAddress |-> a]]

\* A 64-bit BAR takes two lines: the one after it is skipped unseen.
MutantFillBar ==
  /\ phase = "filling"
  /\ ibar < NBARS
  /\ board[ibar] # 0
  /\ \E a \in Base : mmap(ibar, a, board[ibar] % LENGTH_MOD) /\ Describe(a)
  /\ bar_count' = bar_count + 1
  /\ ibar' = ibar + 2
  /\ UNCHANGED <<board, regs, phase, call, writes>>

FillBar ==
  /\ phase = "filling"
  /\ ibar < NBARS
  /\ board[ibar] # 0
  /\ \E a \in Base : mmap(ibar, a, board[ibar] % LENGTH_MOD) /\ Describe(a)
  /\ bar_count' = bar_count + 1
  /\ ibar' = ibar + 1
  /\ UNCHANGED <<board, regs, phase, call, writes>>

\* The BAR cannot be opened or mapped: the device is not opened.
FillFails ==
  /\ phase = "filling"
  /\ ibar < NBARS
  /\ board[ibar] # 0
  /\ phase' = "refused"
  /\ UNCHANGED <<board, regs, maps, bar_descs, bar_count, ibar, call, writes>>

\* temp_bar_descs is copied into the device.
Filled ==
  /\ phase = "filling"
  /\ ibar = NBARS
  /\ phase' = "open"
  /\ UNCHANGED <<board, regs, maps, bar_descs, bar_count, ibar, call, writes>>

-----------------------------------------------------------------------------
(* The register calls: i indexes bar_descs, w is the width of the access.  *)

\* The calls there are: widths 1 to 8 at index 0, width 4 at any.
Access == {<<0, w>> : w \in Width} \cup {<<i, 4>> : i \in BarNum}

\* Accesses are aligned.
Callable(i, o, w) == phase = "open" /\ <<i, w>> \in Access /\ o % w = 0

Answer(op, i, o, w, ret, val) ==
  call' = [op |-> op, index |-> i, offset |-> o, width |-> w, ret |-> ret, val |-> val]

\* dwOffset > length
MutantInRange(i, o, n) == o <= bar_descs[i].length

\* CRONO_VALIDATE_MEM_RANGE and its copies in ReadAddr and WriteAddr, for an
\* access of sizeof(val) = n
InRange(i, o, n) == o + n <= bar_descs[i].length

Bytes(v, w) == [k \in 0..(w - 1) |-> <<v, k>>]

\* *((volatile T *)(userAddress + dwOffset))
Loaded(a, w) ==
  [k \in 0..(w - 1) |-> IF maps[a + k] = NULL THEN NULL
                          ELSE regs[maps[a + k][1]][maps[a + k][2]]]

\* ... = val
Stored(a, w, v) ==
  [b \in BarNum |-> [o \in 0..(board[b] - 1) |->
     IF \E k \in 0..(w - 1) : maps[a + k] = <<b, o>>
       THEN Bytes(v, w)[CHOOSE k \in 0..(w - 1) : maps[a + k] = <<b, o>>]
       ELSE regs[b][o]]]

\* In the reads val is a pointer, whatever they read: its size is checked.
Read(i, o, w) ==
  /\ Callable(i, o, w)
  /\ InRange(i, o, SizeofPointer)
  /\ Answer("read", i, o, w, "SUCCESS", Loaded(bar_descs[i].userAddress + o, w))
  /\ UNCHANGED <<board, regs, maps, bar_descs, bar_count, ibar, phase, writes>>

ReadRefused(i, o, w) ==
  /\ Callable(i, o, w)
  /\ ~InRange(i, o, SizeofPointer)
  /\ Answer("read", i, o, w, "ENOMEM", NULL)
  /\ UNCHANGED <<board, regs, maps, bar_descs, bar_count, ibar, phase, writes>>

Write(i, o, w, v) ==
  /\ Callable(i, o, w)
  /\ writes < MaxWrites
  /\ InRange(i, o, w)
  /\ regs' = Stored(bar_descs[i].userAddress + o, w, v)
  /\ Answer("write", i, o, w, "SUCCESS", Bytes(v, w))
  /\ writes' = writes + 1
  /\ UNCHANGED <<board, maps, bar_descs, bar_count, ibar, phase>>

WriteRefused(i, o, w) ==
  /\ Callable(i, o, w)
  /\ ~InRange(i, o, w)
  /\ Answer("write", i, o, w, "ENOMEM", NULL)
  /\ UNCHANGED <<board, regs, maps, bar_descs, bar_count, ibar, phase, writes>>

\* What the getters answer.  On an open device GetBarDescriptions fills in
\* nothing: it has its BARs, or has none.
GetBarDescriptions == [barCount |-> bar_count, barDescs |-> bar_descs]

GetDeviceBARMem == [pBARUSAddr |-> bar_descs[0].userAddress,
                    pBARMemSize |-> bar_descs[0].length]

Next ==
  \/ SkipBar \/ FillBar \/ FillFails \/ Filled
  \/ \E i \in BarNum, o \in Offset, w \in Width :
       \/ Read(i, o, w) \/ ReadRefused(i, o, w) \/ WriteRefused(i, o, w)
       \/ \E v \in Value : Write(i, o, w, v)

Spec == Init /\ [][Next]_vars

-----------------------------------------------------------------------------
(* Properties.                                                             *)

\* The number of the BAR that index i of bar_descs stands for.
BarAt(i) == IF i < bar_count THEN bar_descs[i].barNum ELSE NULL

\* The descriptions that GetBarDescriptions hands out are the BARs the board
\* has, each once and in order, with its whole length and the address its first
\* byte is mapped at, and the memory that GetDeviceBARMem hands out is BAR 0
\* where there is one: a client that works through those addresses reaches
\* every register and nothing else.
DescsExact ==
  LET count == GetBarDescriptions.barCount
      descs == GetBarDescriptions.barDescs
      mem == GetDeviceBARMem
  IN phase = "open" =>
       /\ {descs[i].barNum : i \in 0..(count - 1)} = {b \in BarNum : board[b] # 0}
       /\ \A i, j \in 0..(count - 1) : i < j => descs[i].barNum < descs[j].barNum
       /\ \A i \in 0..(count - 1) :
            /\ descs[i].length = board[descs[i].barNum]
            /\ \A o \in 0..(descs[i].length - 1) :
                 maps[descs[i].userAddress + o] = <<descs[i].barNum, o>>
       /\ board[0] # 0 =>
            /\ mem.pBARMemSize = board[0]
            /\ \A o \in 0..(board[0] - 1) : maps[mem.pBARUSAddr + o] = <<0, o>>

\* The calls implement RegisterFile, their index taken for a position among
\* the descriptions: an access reaches the bytes it names, none in another
\* BAR, and an index without a description is refused.
Registers == INSTANCE RegisterFile WITH
  size <- board,
  call <- [op |-> call.op,
           bar |-> IF call.op = "none" THEN NULL ELSE BarAt(call.index),
           offset |-> call.offset, width |-> call.width,
           ret |-> call.ret, val |-> call.val]

RegisterSpec == Registers!Spec

\* On a board whose BARs are contiguous from BAR 0, a read that succeeds answers
\* with the registers of the BAR whose number it was given: "Read 32-bit value
\* from the BAR of `barNum`" (crono_kernel_interface.h:324), "Read/write a
\* device's address space ... of BAR0" (:305).  With a gap below a BAR, the
\* index of a BAR is not its number.
Contiguous == \A b, c \in BarNum : b < c /\ board[c] # 0 => board[b] # 0

NamedBarIsRead ==
  Contiguous /\ call.op = "read" /\ call.ret = "SUCCESS" =>
    \A k \in 0..(call.width - 1) :
      /\ call.offset + k < board[call.index]
      /\ call.val[k] = regs[call.index][call.offset + k]

\* What makes them inductive: the same of the part of the array that is filled,
\* and that no register is accessed before all of it is.
DescsSound ==
  /\ \A i \in 0..(bar_count - 1) :
       /\ bar_descs[i].barNum < ibar
       /\ bar_descs[i].length = board[bar_descs[i].barNum]
       /\ \A o \in 0..(bar_descs[i].length - 1) :
            /\ bar_descs[i].userAddress + o \in Addr
            /\ maps[bar_descs[i].userAddress + o] = <<bar_descs[i].barNum, o>>
  /\ \A i, j \in 0..(bar_count - 1) :
       i < j => bar_descs[i].barNum < bar_descs[j].barNum
  /\ \A b \in 0..(ibar - 1) : board[b] # 0 =>
       \E i \in 0..(bar_count - 1) : bar_descs[i].barNum = b
  /\ \A i \in 0..(bar_count - 1) : board[bar_descs[i].barNum] # 0
  /\ \A i \in bar_count..(NBARS - 1) : bar_descs[i] = NoDesc

Progress ==
  /\ bar_count <= ibar
  /\ phase = "open" => ibar = NBARS
  /\ phase # "open" => call.op = "none"

IndInv == TypeOK /\ DescsSound /\ Progress

\* On a contiguous board the BARs fill the array from its start: the index of
\* a description is the number of its BAR.
Positions ==
  Contiguous =>
    /\ \A i \in 0..(bar_count - 1) : bar_descs[i].barNum = i
    /\ (\A b \in 0..(ibar - 1) : board[b] # 0) => bar_count = ibar

\* "Validates that both `dwOffset` and `val` size are within the memory range.
\* Returns '-ENOMEM' if not" (crono_kernel_interface.cpp:19-20): an access of
\* which every byte is within the memory range is not refused.
InRangeIsServed ==
  call.ret = "ENOMEM" =>
    call.offset + call.width > bar_descs[call.index].length

=============================================================================
