-------------------------- MODULE BarAccessProofs --------------------------
(***************************************************************************)
(* Proofs about BarAccess, for every board, however many BARs it has and   *)
(* wherever they are mapped.                                               *)
(***************************************************************************)
EXTENDS BarAccess, TLAPS

-----------------------------------------------------------------------------
(* The invariant.                                                          *)

LEMMA InitInv == Init => IndInv
<1> SUFFICES ASSUME Init PROVE IndInv
  OBVIOUS
<1> USE BarAssumption DEF Init
<1>1. TypeOK
  <2>1. NoDesc \in Desc
    BY DEF NoDesc, Desc, BarNum
  <2>2. Shaped(regs, board)
    <3> HIDE DEF Init
    <3>1. regs = [b \in BarNum |-> [o \in 0..(board[b] - 1) |-> <<b, o>>]]
      BY DEF Init
    <3> QED
      BY <3>1 DEF Shaped
  <2> QED
    BY <2>1, <2>2 DEF TypeOK
<1>2. DescsSound
  BY DEF DescsSound, BarNum
<1>3. Progress
  BY DEF Progress, NoCall
<1> QED
  BY <1>1, <1>2, <1>3 DEF IndInv

\* A BAR that has been filled in keeps the array sound.
LEMMA FillBarInv == IndInv /\ FillBar => IndInv'
<1> SUFFICES ASSUME IndInv, FillBar PROVE IndInv'
  OBVIOUS
<1> USE BarAssumption DEF IndInv
<1>1. PICK a \in Base : mmap(ibar, a, board[ibar] % LENGTH_MOD) /\ Describe(a)
  BY DEF FillBar
<1> DEFINE n == board[ibar]
<1>2. ibar \in BarNum /\ bar_count \in BarNum /\ bar_count \in Nat /\ ibar \in Nat
  BY DEF FillBar, TypeOK, BarNum, Progress
<1>3. n \in Nat /\ n # 0 /\ n % LENGTH_MOD = n /\ n < LENGTH_MOD
  <2>1. board \in [BarNum -> Nat] /\ n % LENGTH_MOD \in {0, n}
    BY <1>2 DEF TypeOK
  <2>2. n % LENGTH_MOD # 0
    BY <1>1, <2>1, <1>2 DEF mmap
  <2>3. n \in Nat /\ n % LENGTH_MOD = n
    BY <2>1, <2>2, <1>2
  <2>4. n % LENGTH_MOD < LENGTH_MOD
    BY <2>3
  <2> QED
    BY <2>2, <2>3, <2>4
<1>4. a \in Nat /\ \A o \in 0..(n - 1) : a + o \in Addr /\ maps'[a + o] = <<ibar, o>>
  <2> SUFFICES ASSUME NEW o \in 0..(n - 1) PROVE a + o \in Addr /\ maps'[a + o] = <<ibar, o>>
    BY <1>1
  <2>1. a + o \in Span(a, n) /\ (a + o) - a = o
    BY <1>1, <1>3 DEF Span
  <2> QED
    BY <1>1, <1>3, <2>1 DEF mmap
<1>5. \A x \in Addr : maps[x] # NULL => maps'[x] = maps[x]
  BY <1>1, <1>3 DEF mmap
<1>6. bar_descs' = [bar_descs EXCEPT ![bar_count] =
                      [barNum |-> ibar, length |-> n, userAddress |-> a]]
  BY <1>1, <1>3 DEF Describe
<1>7. TypeOK'
  <2>1. [barNum |-> ibar, length |-> n, userAddress |-> a] \in Desc
    BY <1>1, <1>2, <1>3 DEF Desc
  <2>2. bar_descs' \in [BarNum -> Desc]
    BY <1>2, <1>6, <2>1 DEF TypeOK
  <2>3. maps' \in [Addr -> (BarNum \X Nat) \cup {NULL}]
    <3> SUFFICES ASSUME NEW x \in Addr, x \in Span(a, n) PROVE x - a \in Nat
      BY <1>1, <1>2, <1>3 DEF mmap, TypeOK
    <3> HIDE BarAssumption DEF n, IndInv
    <3>1. x \in Int /\ a \in Int /\ n \in Int
      BY <1>3, BarAssumption
    <3> QED
      BY <3>1 DEF Span
  <2>4. bar_count' \in 0..NBARS /\ ibar' \in 0..NBARS
    BY <1>2 DEF FillBar, BarNum
  <2> QED
    BY <2>2, <2>3, <2>4 DEF TypeOK, FillBar
<1>8. DescsSound'
  <2>1. \A i \in 0..(bar_count - 1) : i \in BarNum /\ bar_descs'[i] = bar_descs[i]
    BY <1>2, <1>6 DEF TypeOK, BarNum
  <2>2. bar_descs'[bar_count] = [barNum |-> ibar, length |-> n, userAddress |-> a]
    BY <1>2, <1>6 DEF TypeOK
  <2>3. bar_count' = bar_count + 1 /\ ibar' = ibar + 1 /\ board' = board
    BY DEF FillBar
  <2>4. \A i \in 0..bar_count : i \in 0..(bar_count - 1) \/ i = bar_count
    BY <1>2
  <2>5. ASSUME NEW i \in 0..(bar_count' - 1)
        PROVE  /\ bar_descs'[i].barNum < ibar'
               /\ bar_descs'[i].length = board'[bar_descs'[i].barNum]
               /\ board'[bar_descs'[i].barNum] # 0
               /\ \A o \in 0..(bar_descs'[i].length - 1) :
                    /\ bar_descs'[i].userAddress + o \in Addr
                    /\ maps'[bar_descs'[i].userAddress + o] = <<bar_descs'[i].barNum, o>>
    <3>1. CASE i = bar_count
      BY <1>2, <1>3, <1>4, <2>2, <2>3, <3>1
    <3>2. CASE i \in 0..(bar_count - 1)
      <4>1. bar_descs[i].barNum \in BarNum /\ bar_descs[i].barNum < ibar + 1
        BY <1>2, <2>1, <3>2 DEF DescsSound, TypeOK, Desc, BarNum
      <4>2. ASSUME NEW o \in 0..(bar_descs[i].length - 1)
            PROVE  maps[bar_descs[i].userAddress + o] # NULL
        <5>1. bar_descs[i].length \in Int
          BY <1>2, <2>1, <3>2 DEF TypeOK, Desc
        <5>2. maps[bar_descs[i].userAddress + o] = <<bar_descs[i].barNum, o>>
          BY <3>2 DEF DescsSound
        <5>3. <<bar_descs[i].barNum, o>> \in BarNum \X Nat
          BY <4>1, <5>1
        <5> QED
          BY <5>2, <5>3
      <4>3. \A o \in 0..(bar_descs[i].length - 1) :
              /\ bar_descs[i].userAddress + o \in Addr
              /\ maps'[bar_descs[i].userAddress + o] = <<bar_descs[i].barNum, o>>
        BY <1>5, <3>2, <4>2 DEF DescsSound
      <4> QED
        BY <2>1, <2>3, <3>2, <4>1, <4>3 DEF DescsSound
    <3>3. i \in 0..bar_count
      BY <1>2, <2>3
    <3> QED
      BY <2>4, <3>1, <3>2, <3>3
  <2>6. ASSUME NEW i \in 0..(bar_count' - 1), NEW j \in 0..(bar_count' - 1), i < j
        PROVE  bar_descs'[i].barNum < bar_descs'[j].barNum
    <3>1. i \in 0..(bar_count - 1)
      <4>1. i \in 0..bar_count /\ j \in 0..bar_count
        BY <1>2, <2>3
      <4> QED
        BY <1>2, <2>6, <4>1
    <3>2. CASE j = bar_count
      BY <2>1, <2>2, <3>1, <3>2 DEF DescsSound
    <3>3. CASE j \in 0..(bar_count - 1)
      BY <2>1, <2>6, <3>1, <3>3 DEF DescsSound
    <3> QED
      BY <1>2, <2>3, <2>4, <3>2, <3>3
  <2>7. ASSUME NEW b \in 0..(ibar' - 1), board'[b] # 0
        PROVE  \E i \in 0..(bar_count' - 1) : bar_descs'[i].barNum = b
    <3>1. CASE b = ibar
      BY <1>2, <2>2, <2>3, <3>1
    <3>2. CASE b \in 0..(ibar - 1)
      <4>1. PICK i \in 0..(bar_count - 1) : bar_descs[i].barNum = b
        BY <2>3, <2>7, <3>2 DEF DescsSound
      <4> QED
        BY <1>2, <2>1, <2>3, <4>1
    <3> QED
      BY <1>2, <2>3, <3>1, <3>2
  <2>8. ASSUME NEW i \in bar_count'..(NBARS - 1) PROVE bar_descs'[i] = NoDesc
    BY <1>2, <1>6, <2>3 DEF DescsSound, TypeOK, BarNum
  <2> QED
    BY <2>5, <2>6, <2>7, <2>8 DEF DescsSound
<1>9. Progress'
  BY <1>2 DEF Progress, FillBar
<1> QED
  BY <1>7, <1>8, <1>9 DEF IndInv

\* What a call does not touch.
LEMMA CallInv ==
  ASSUME IndInv, phase = "open",
         UNCHANGED <<board, maps, bar_descs, bar_count, ibar, phase>>,
         Shaped(regs', board),
         writes' \in 0..MaxWrites
  PROVE  IndInv'
<1> USE DEF IndInv
<1>1. TypeOK'
  BY DEF TypeOK
<1>2. DescsSound'
  BY DEF DescsSound
<1>3. Progress'
  BY DEF Progress
<1> QED
  BY <1>1, <1>2, <1>3

LEMMA StoredShape ==
  ASSUME NEW a, NEW w, NEW v
  PROVE  Shaped(Stored(a, w, v), board)
BY DEF Shaped, Stored

LEMMA NextInv == IndInv /\ [Next]_vars => IndInv'
<1> SUFFICES ASSUME IndInv, [Next]_vars PROVE IndInv'
  OBVIOUS
<1> USE BarAssumption
<1>1. CASE SkipBar
  <2>1. TypeOK'
    BY <1>1 DEF IndInv, TypeOK, SkipBar
  <2>2. DescsSound'
    <3>1. ibar' = ibar + 1 /\ ibar \in Nat /\ board[ibar] = 0
      BY <1>1 DEF SkipBar, IndInv, TypeOK
    <3>2. \A b \in 0..(ibar' - 1) : board[b] # 0 => b \in 0..(ibar - 1)
      BY <3>1
    <3>3. \A i \in 0..(bar_count - 1) : bar_descs[i].barNum < ibar + 1
      <4> SUFFICES ASSUME NEW i \in 0..(bar_count - 1) PROVE bar_descs[i].barNum < ibar + 1
        OBVIOUS
      <4>1. i \in BarNum /\ bar_descs[i].barNum \in Int
        BY DEF IndInv, TypeOK, BarNum, Desc
      <4> QED
        BY <3>1, <4>1 DEF IndInv, DescsSound
    <3> QED
      BY <1>1, <3>1, <3>2, <3>3 DEF IndInv, DescsSound, SkipBar
  <2>3. Progress'
    BY <1>1 DEF IndInv, Progress, SkipBar, TypeOK
  <2> QED
    BY <2>1, <2>2, <2>3 DEF IndInv
<1>2. CASE FillBar
  BY <1>2, FillBarInv
<1>3. CASE FillFails \/ Filled
  <2>1. TypeOK'
    BY <1>3 DEF IndInv, TypeOK, FillFails, Filled
  <2>2. DescsSound'
    BY <1>3 DEF IndInv, DescsSound, FillFails, Filled
  <2>3. Progress'
    BY <1>3 DEF IndInv, Progress, FillFails, Filled
  <2> QED
    BY <2>1, <2>2, <2>3 DEF IndInv
<1>4. ASSUME NEW i \in BarNum, NEW o \in Offset, NEW w \in Width,
             Read(i, o, w) \/ ReadRefused(i, o, w) \/ WriteRefused(i, o, w)
      PROVE  IndInv'
  <2>1. /\ phase = "open"
        /\ UNCHANGED <<board, regs, maps, bar_descs, bar_count, ibar, phase, writes>>
    BY <1>4 DEF Read, ReadRefused, WriteRefused, Callable
  <2>2. writes' \in 0..MaxWrites
    BY <2>1 DEF IndInv, TypeOK
  <2>3. Shaped(regs', board)
    BY <2>1 DEF IndInv, TypeOK
  <2> QED
    BY <2>1, <2>2, <2>3, CallInv
<1>5. ASSUME NEW i \in BarNum, NEW o \in Offset, NEW w \in Width, NEW v \in Value,
             Write(i, o, w, v)
      PROVE  IndInv'
  <2>1. /\ phase = "open" /\ writes' = writes + 1 /\ writes < MaxWrites
        /\ UNCHANGED <<board, maps, bar_descs, bar_count, ibar, phase>>
    BY <1>5 DEF Write, Callable
  <2>2. writes' \in 0..MaxWrites
    BY <2>1 DEF IndInv, TypeOK
  <2>3. Shaped(regs', board)
    BY <1>5, StoredShape DEF Write
  <2> QED
    BY <2>1, <2>2, <2>3, CallInv
<1>6. CASE UNCHANGED vars
  <2>1. TypeOK'
    BY <1>6 DEF IndInv, TypeOK, vars
  <2>2. DescsSound'
    BY <1>6 DEF IndInv, DescsSound, vars
  <2>3. Progress'
    BY <1>6 DEF IndInv, Progress, vars
  <2> QED
    BY <2>1, <2>2, <2>3 DEF IndInv
<1> QED
  BY <1>1, <1>2, <1>3, <1>4, <1>5, <1>6 DEF Next

LEMMA Invariance == Spec => []IndInv
<1> QED
  BY InitInv, NextInv, PTL DEF Spec

\* Every variable keeps its type, whatever the board and wherever mmap maps its
\* BARs; in particular no BAR is filled in past the six entries of the array.
THEOREM TypeCorrect == Spec => []TypeOK
<1>1. IndInv => TypeOK
  BY DEF IndInv
<1> QED
  BY <1>1, Invariance, PTL

\* The descriptions of an open device are exactly its BARs, each described with
\* its whole length and the address its first byte is mapped at.
THEOREM DescriptionsExact == Spec => []DescsExact
<1>1. ASSUME IndInv, phase = "open"
      PROVE  {bar_descs[i].barNum : i \in 0..(bar_count - 1)} = {b \in BarNum : board[b] # 0}
  <2> USE BarAssumption
  <2>1. ibar = NBARS /\ \A i \in 0..(bar_count - 1) : i \in BarNum
    BY <1>1 DEF IndInv, Progress, TypeOK, BarNum
  <2>2. ASSUME NEW i \in 0..(bar_count - 1)
        PROVE  bar_descs[i].barNum \in BarNum /\ board[bar_descs[i].barNum] # 0
    BY <1>1, <2>1 DEF IndInv, DescsSound, TypeOK, Desc
  <2>3. ASSUME NEW b \in BarNum, board[b] # 0
        PROVE  \E i \in 0..(bar_count - 1) : bar_descs[i].barNum = b
    BY <1>1, <2>1, <2>3 DEF IndInv, DescsSound, BarNum
  <2> QED
    BY <2>2, <2>3
<1>2. ASSUME IndInv, phase = "open", board[0] # 0
      PROVE  0 < bar_count /\ bar_descs[0].barNum = 0
  <2>1. 0 \in BarNum /\ bar_count \in Nat
    BY <1>2, BarAssumption DEF IndInv, TypeOK, BarNum
  <2>2. PICK i \in 0..(bar_count - 1) : bar_descs[i].barNum = 0
    BY <1>1, <1>2, <2>1
  <2>3. i \in Nat /\ 0 < bar_count /\ 0 \in 0..(bar_count - 1)
    BY <2>1, <2>2
  <2>4. bar_descs[0].barNum \in Nat
    BY <1>2, <2>1 DEF IndInv, TypeOK, BarNum, Desc
  <2>5. ~(0 < i)
    <3> SUFFICES ASSUME 0 < i PROVE FALSE
      OBVIOUS
    <3>1. bar_descs[0].barNum < bar_descs[i].barNum
      BY <1>2, <2>2, <2>3 DEF IndInv, DescsSound
    <3> QED
      BY <2>2, <2>4, <3>1
  <2>6. i = 0
    BY <2>3, <2>5
  <2> QED
    BY <2>2, <2>3, <2>6
<1>3. ASSUME IndInv, phase = "open", board[0] # 0
      PROVE  /\ bar_descs[0].length = board[0]
             /\ \A o \in 0..(board[0] - 1) :
                  maps[bar_descs[0].userAddress + o] = <<0, o>>
  <2>1. bar_count \in Nat /\ 0 \in 0..(bar_count - 1)
    BY <1>2, <1>3 DEF IndInv, TypeOK
  <2>2. \A i \in 0..(bar_count - 1) :
          /\ bar_descs[i].length = board[bar_descs[i].barNum]
          /\ \A o \in 0..(bar_descs[i].length - 1) :
               maps[bar_descs[i].userAddress + o] = <<bar_descs[i].barNum, o>>
    BY <1>3 DEF IndInv, DescsSound
  <2>3. /\ bar_descs[0].length = board[bar_descs[0].barNum]
        /\ \A o \in 0..(bar_descs[0].length - 1) :
             maps[bar_descs[0].userAddress + o] = <<bar_descs[0].barNum, o>>
    BY <2>1, <2>2
  <2>4. bar_descs[0].barNum = 0
    BY <1>2, <1>3
  <2> QED
    BY <2>3, <2>4, Zenon
<1>4. IndInv => DescsExact
  <2> SUFFICES ASSUME IndInv, phase = "open" PROVE DescsExact
    BY DEF DescsExact
  <2> HIDE DEF IndInv
  <2>1. \A i \in 0..(bar_count - 1) :
          /\ bar_descs[i].length = board[bar_descs[i].barNum]
          /\ \A o \in 0..(bar_descs[i].length - 1) :
               maps[bar_descs[i].userAddress + o] = <<bar_descs[i].barNum, o>>
    BY DEF IndInv, DescsSound
  <2>2. \A i, j \in 0..(bar_count - 1) :
          i < j => bar_descs[i].barNum < bar_descs[j].barNum
    BY DEF IndInv, DescsSound
  <2> QED
    BY <1>1, <1>3, <2>1, <2>2 DEF DescsExact, GetBarDescriptions, GetDeviceBARMem
<1> QED
  BY <1>4, Invariance, PTL

-----------------------------------------------------------------------------
(* The refinement of RegisterFile.                                         *)

\* An index that passes the range check has a description, and what the access
\* finds at the addresses it goes through is its BAR.
LEMMA Reaches ==
  IndInv => \A i \in BarNum, o \in Nat, n \in Nat \ {0} : InRange(i, o, n) =>
    /\ BarAt(i) = bar_descs[i].barNum
    /\ BarAt(i) \in BarNum
    /\ o + n <= board[BarAt(i)]
    /\ board[BarAt(i)] \in Nat
    /\ \A k \in 0..(n - 1) :
         maps[bar_descs[i].userAddress + o + k] = <<BarAt(i), o + k>>
<1> SUFFICES ASSUME IndInv, NEW i \in BarNum, NEW o \in Nat, NEW n \in Nat \ {0},
                    InRange(i, o, n)
             PROVE  /\ BarAt(i) = bar_descs[i].barNum
                    /\ BarAt(i) \in BarNum
                    /\ o + n <= board[BarAt(i)]
                    /\ board[BarAt(i)] \in Nat
                    /\ \A k \in 0..(n - 1) :
                         maps[bar_descs[i].userAddress + o + k] = <<BarAt(i), o + k>>
  OBVIOUS
<1> USE BarAssumption
<1>1. bar_descs[i] \in Desc /\ bar_count \in Nat /\ i \in Nat /\ bar_count <= NBARS
  BY DEF IndInv, TypeOK, BarNum
<1>2. i < bar_count
  <2> SUFFICES ASSUME i >= bar_count PROVE FALSE
    BY <1>1 DEF BarNum
  <2>1. bar_descs[i] = NoDesc
    BY <1>1 DEF IndInv, DescsSound, BarNum
  <2> QED
    BY <2>1 DEF InRange, NoDesc
<1> DEFINE b == bar_descs[i].barNum
<1>3. BarAt(i) = b /\ b \in BarNum /\ bar_descs[i].userAddress \in Nat
  <2>1. BarAt(i) = b
    BY <1>2 DEF BarAt
  <2>2. b \in BarNum
    BY <1>1 DEF Desc
  <2>3. bar_descs[i].userAddress \in Addr \cup {0}
    BY <1>1 DEF Desc
  <2> QED
    BY <2>1, <2>2, <2>3
<1>4. i \in 0..(bar_count - 1)
  BY <1>1, <1>2
<1>5. bar_descs[i].length = board[b] /\ bar_descs[i].length \in Nat
  BY <1>1, <1>4 DEF IndInv, DescsSound, Desc
<1>6. ASSUME NEW k \in 0..(n - 1)
      PROVE  maps[bar_descs[i].userAddress + o + k] = <<b, o + k>>
  <2>1. o + k \in 0..(bar_descs[i].length - 1)
    BY <1>5 DEF InRange
  <2>2. maps[bar_descs[i].userAddress + (o + k)] = <<b, o + k>>
    BY <1>4, <2>1 DEF IndInv, DescsSound
  <2>3. bar_descs[i].userAddress + (o + k) = bar_descs[i].userAddress + o + k
    BY <1>3
  <2> QED
    BY <2>2, <2>3
<1>7. o + n <= board[b] /\ board[b] \in Nat
  BY <1>5 DEF InRange
<1>8. \A k \in 0..(n - 1) : maps[bar_descs[i].userAddress + o + k] = <<BarAt(i), o + k>>
  BY <1>3, <1>6
<1>9. o + n <= board[BarAt(i)] /\ board[BarAt(i)] \in Nat
  BY <1>3, <1>7
<1> QED
  BY <1>3, <1>8, <1>9

\* What the abstract specification sees of a call.
LEMMA CallSeen ==
  ASSUME NEW i, NEW o, NEW w, NEW ret, NEW val, NEW op \in {"read", "write"},
         Answer(op, i, o, w, ret, val), UNCHANGED <<bar_descs, bar_count>>
  PROVE  Registers!Answer(op, BarAt(i), o, w, ret, val)
<1>1. /\ call'.op = op /\ call'.index = i /\ call'.offset = o /\ call'.width = w
      /\ call'.ret = ret /\ call'.val = val
  BY DEF Answer
<1>2. BarAt(call.index)' = BarAt(i)
  BY <1>1 DEF BarAt
<1> QED
  BY <1>1, <1>2 DEF Registers!Answer

\* A read and a refusal are steps of RegisterFile, for the BAR their index
\* stands for.
LEMMA ReadStep ==
  ASSUME IndInv, NEW i \in BarNum, NEW o \in Offset, NEW w \in Width, Read(i, o, w)
  PROVE  Registers!Read(BarAt(i), o, w) /\ BarAt(i) \in BarNum
<1>1. o \in Nat /\ w \in 1..8
  BY BarAssumption DEF Width
<1>2. /\ BarAt(i) \in BarNum
      /\ o + 8 <= board[BarAt(i)] /\ board[BarAt(i)] \in Nat
      /\ \A k \in 0..7 : maps[bar_descs[i].userAddress + o + k] = <<BarAt(i), o + k>>
  <2>1. InRange(i, o, 8) /\ 8 \in Nat \ {0}
    BY DEF Read, SizeofPointer
  <2>2. /\ BarAt(i) \in BarNum
        /\ o + 8 <= board[BarAt(i)] /\ board[BarAt(i)] \in Nat
        /\ \A k \in 0..(8 - 1) : maps[bar_descs[i].userAddress + o + k] = <<BarAt(i), o + k>>
    BY <1>1, <2>1, Reaches
  <2> QED
    BY <2>2
<1> DEFINE a == bar_descs[i].userAddress + o
           b == BarAt(i)
<1>3. ASSUME NEW k \in 0..(w - 1) PROVE maps[a + k] = <<b, o + k>> /\ maps[a + k] # NULL
  <2>1. k \in 0..7 /\ o + k \in Nat
    BY <1>1
  <2>2. maps[a + k] = <<b, o + k>>
    BY <1>2, <2>1
  <2>3. <<b, o + k>> \in BarNum \X Nat
    BY <1>2, <2>1
  <2> QED
    BY <2>2, <2>3, BarAssumption
<1> HIDE DEF a, b
<1>4. Loaded(a, w) = [k \in 0..(w - 1) |-> regs[b][o + k]]
  <2>1. ASSUME NEW k \in 0..(w - 1)
        PROVE  (IF maps[a + k] = NULL THEN NULL ELSE regs[maps[a + k][1]][maps[a + k][2]])
                 = regs[b][o + k]
    BY <1>3
  <2> QED
    BY <2>1, Zenon DEF Loaded
<1>5. Registers!Answer("read", b, o, w, "SUCCESS", [k \in 0..(w - 1) |-> regs[b][o + k]])
  BY <1>4, CallSeen DEF Read, a, b
<1>6. o + w <= board[b]
  BY <1>1, <1>2 DEF b
<1> QED
  BY <1>2, <1>5, <1>6 DEF Read, Registers!Read, b

LEMMA RefusedStep ==
  ASSUME IndInv, NEW i \in BarNum, NEW o \in Offset, NEW w \in Width,
         ReadRefused(i, o, w) \/ WriteRefused(i, o, w)
  PROVE  \E op \in {"read", "write"} :
           Registers!Refuse(op, BarAt(i), o, w) /\ BarAt(i) \in BarNum \cup {NULL}
<1> USE BarAssumption
<1>1. o \in Nat /\ w \in 1..8
  BY DEF Width
<1>2. BarAt(i) \in BarNum \cup {NULL}
  BY DEF BarAt, IndInv, TypeOK, Desc
<1>3. BarAt(i) = NULL \/ o + 8 > board[BarAt(i)]
  <2>1. CASE i < bar_count
    <3>1. i \in 0..(bar_count - 1) /\ bar_descs[i] \in Desc
      BY <2>1 DEF IndInv, TypeOK, BarNum
    <3>2. bar_descs[i].length = board[bar_descs[i].barNum] /\ bar_descs[i].length \in Nat
      BY <3>1 DEF IndInv, DescsSound, Desc
    <3>3. o + 8 > bar_descs[i].length
      BY <1>1, <3>2 DEF ReadRefused, WriteRefused, InRange, SizeofPointer
    <3> QED
      BY <2>1, <3>2, <3>3 DEF BarAt
  <2>2. CASE ~(i < bar_count)
    BY <2>2 DEF BarAt
  <2> QED
    BY <2>1, <2>2
<1>4. \E op \in {"read", "write"} : Registers!Answer(op, BarAt(i), o, w, "ENOMEM", NULL)
  BY CallSeen DEF ReadRefused, WriteRefused
<1> QED
  BY <1>2, <1>3, <1>4 DEF ReadRefused, WriteRefused, Registers!Refuse

\* So is a write: of all registers it changes the bytes it names.
LEMMA WriteStep ==
  ASSUME IndInv, NEW i \in BarNum, NEW o \in Offset, NEW w \in Width, NEW v \in Value,
         Write(i, o, w, v)
  PROVE  Registers!Write(BarAt(i), o, w, v) /\ BarAt(i) \in BarNum
<1>1. o \in Nat /\ w \in 1..8
  BY BarAssumption DEF Width
<1> DEFINE a == bar_descs[i].userAddress + o
           b == BarAt(i)
<1>2. /\ b \in BarNum
      /\ o + w <= board[b] /\ board[b] \in Nat
      /\ \A k \in 0..(w - 1) : maps[a + k] = <<b, o + k>>
  <2>1. InRange(i, o, w) /\ w \in Nat \ {0}
    BY <1>1 DEF Write
  <2>2. /\ b \in BarNum
        /\ o + w <= board[b] /\ board[b] \in Nat
        /\ \A k \in 0..(w - 1) : maps[a + k] = <<b, o + k>>
    BY <1>1, <2>1, Reaches
  <2> QED
    BY <2>2
<1> DEFINE new == [x \in 0..(board[b] - 1) |->
                    IF x \in o..(o + w - 1) THEN Bytes(v, w)[x - o] ELSE regs[b][x]]
<1> HIDE DEF a, b
<1>3. Stored(a, w, v)[b] = new
  <2>1. ASSUME NEW x \in 0..(board[b] - 1), x \in o..(o + w - 1)
        PROVE  Stored(a, w, v)[b][x] = new[x]
    <3>1. x - o \in 0..(w - 1) /\ o + (x - o) = x
      BY <1>1, <2>1
    <3>2. maps[a + (x - o)] = <<b, x>>
      BY <1>2, <3>1
    <3>3. \A k \in 0..(w - 1) : maps[a + k] = <<b, x>> => k = x - o
      BY <1>1, <1>2
    <3>4. (CHOOSE k \in 0..(w - 1) : maps[a + k] = <<b, x>>) = x - o
      BY <3>1, <3>2, <3>3
    <3>5. Stored(a, w, v)[b][x] = Bytes(v, w)[x - o]
      BY <1>2, <3>1, <3>2, <3>4 DEF Stored
    <3> QED
      BY <2>1, <3>5
  <2>2. ASSUME NEW x \in 0..(board[b] - 1), x \notin o..(o + w - 1)
        PROVE  Stored(a, w, v)[b][x] = new[x]
    <3>1. ~ \E k \in 0..(w - 1) : maps[a + k] = <<b, x>>
      BY <1>1, <1>2, <2>2
    <3>2. Stored(a, w, v)[b][x] = regs[b][x]
      BY <1>2, <3>1 DEF Stored
    <3> QED
      BY <2>2, <3>2
  <2>3. Stored(a, w, v)[b] = [x \in 0..(board[b] - 1) |-> Stored(a, w, v)[b][x]]
    BY <1>2 DEF Stored
  <2> QED
    BY <2>1, <2>2, <2>3
<1>4. ASSUME NEW c \in BarNum, c # b PROVE Stored(a, w, v)[c] = regs[c]
  <2>1. \A x \in 0..(board[c] - 1) : ~ \E k \in 0..(w - 1) : maps[a + k] = <<c, x>>
    BY <1>2, <1>4
  <2>2. Stored(a, w, v)[c] = [x \in 0..(board[c] - 1) |-> regs[c][x]]
    BY <2>1 DEF Stored
  <2>3. regs[c] = [x \in 0..(board[c] - 1) |-> regs[c][x]]
    BY DEF IndInv, TypeOK, Shaped
  <2> QED
    BY <2>2, <2>3
<1>5. regs' = [regs EXCEPT ![b] = new]
  <2> HIDE DEF new
  <2>1. regs' = [c \in BarNum |-> Stored(a, w, v)[c]]
    BY DEF Write, Stored, a
  <2>2. regs = [c \in BarNum |-> regs[c]]
    BY DEF IndInv, TypeOK, Shaped
  <2> QED
    BY <1>2, <1>3, <1>4, <2>1, <2>2
<1>6. Registers!Answer("write", b, o, w, "SUCCESS", Bytes(v, w))
  BY CallSeen DEF Write, b
<1>7. Bytes(v, w) = Registers!Bytes(v, w)
  BY DEF Bytes, Registers!Bytes
<1> QED
  BY <1>2, <1>5, <1>6, <1>7 DEF Write, Registers!Write, b

\* Every behaviour of the library's register calls is one of RegisterFile, with
\* the index of a call read as a position among the descriptions: an access that
\* succeeds reaches the bytes it names in that BAR and no other, whatever the
\* board and wherever its BARs are mapped.
THEOREM ImplementsRegisterFile == Spec => RegisterSpec
<1>1. Init => Registers!Init
  BY DEF Init, NoCall, BarAt, Registers!Init
<1>2. IndInv /\ IndInv' /\ [Next]_vars => [Registers!Next]_(Registers!vars)
  <2> SUFFICES ASSUME IndInv, IndInv', [Next]_vars
               PROVE  Registers!Next \/ UNCHANGED Registers!vars
    OBVIOUS
  <2>1. ASSUME SkipBar \/ FillBar \/ FillFails \/ Filled
        PROVE  UNCHANGED Registers!vars
    <3>1. call' = call /\ call.op = "none" /\ UNCHANGED <<board, regs>>
      BY <2>1 DEF SkipBar, FillBar, FillFails, Filled, IndInv, Progress
    <3> QED
      BY <3>1 DEF Registers!vars
  <2>2. ASSUME UNCHANGED vars PROVE UNCHANGED Registers!vars
    BY <2>2 DEF vars, Registers!vars, BarAt
  <2>3. ASSUME NEW i \in BarNum, NEW o \in Offset, NEW w \in Width, Read(i, o, w)
        PROVE  Registers!Next
    BY <2>3, ReadStep DEF Registers!Next, Width, Registers!Width
  <2>4. ASSUME NEW i \in BarNum, NEW o \in Offset, NEW w \in Width,
               ReadRefused(i, o, w) \/ WriteRefused(i, o, w)
        PROVE  Registers!Next
    BY <2>4, RefusedStep DEF Registers!Next, Width, Registers!Width
  <2>5. ASSUME NEW i \in BarNum, NEW o \in Offset, NEW w \in Width, NEW v \in Value,
               Write(i, o, w, v)
        PROVE  Registers!Next
    BY <2>5, WriteStep DEF Registers!Next, Width, Registers!Width
  <2> QED
    BY <2>1, <2>2, <2>3, <2>4, <2>5 DEF Next
<1> QED
  BY <1>1, <1>2, Invariance, PTL DEF Spec, RegisterSpec, Registers!Spec

-----------------------------------------------------------------------------
(* Boards whose BARs are contiguous.                                       *)

\* Each BAR that is filled in of such a board takes the index of its number.
LEMMA PositionsInv == IndInv /\ Positions /\ [Next]_vars => Positions'
<1> SUFFICES ASSUME IndInv, Positions, [Next]_vars, Contiguous' PROVE Positions'
  BY DEF Positions
<1>1. board' = board /\ Contiguous
  <2>1. board' = board
    BY DEF Next, SkipBar, FillBar, FillFails, Filled, Read, ReadRefused, Write,
           WriteRefused, vars
  <2> QED
    BY <2>1 DEF Contiguous
<1>2. /\ \A i \in 0..(bar_count - 1) : bar_descs[i].barNum = i
      /\ (\A b \in 0..(ibar - 1) : board[b] # 0) => bar_count = ibar
  BY <1>1 DEF Positions
<1>3. CASE SkipBar
  <2>1. ibar' = ibar + 1 /\ ibar \in 0..ibar /\ board[ibar] = 0 /\ ibar \in Nat
        /\ UNCHANGED <<bar_descs, bar_count>>
    BY <1>3 DEF SkipBar, IndInv, TypeOK
  <2>2. ~ \A b \in 0..(ibar' - 1) : board'[b] # 0
    BY <1>1, <2>1
  <2> QED
    BY <1>2, <2>1, <2>2 DEF Positions
<1>4. CASE FillBar
  <2>1. /\ ibar' = ibar + 1 /\ bar_count' = bar_count + 1
        /\ ibar \in BarNum /\ ibar \in Nat /\ board[ibar] # 0
        /\ bar_count \in BarNum /\ bar_count \in Nat
    BY <1>4, BarAssumption DEF FillBar, IndInv, TypeOK, Progress, BarNum
  <2>2. \A b \in 0..(ibar - 1) : board[b] # 0
    BY <1>1, <2>1, BarAssumption DEF Contiguous, BarNum
  <2>3. bar_count = ibar
    BY <1>2, <2>2
  <2>4. PICK a : bar_descs' = [bar_descs EXCEPT ![bar_count] =
                   [barNum |-> ibar, length |-> board[ibar] % LENGTH_MOD, userAddress |-> a]]
    BY <1>4 DEF FillBar, Describe
  <2>5. bar_descs'[bar_count].barNum = bar_count
    BY <2>1, <2>3, <2>4 DEF IndInv, TypeOK
  <2>6. \A i \in 0..(bar_count - 1) : bar_descs'[i].barNum = i
    BY <1>2, <2>1, <2>4 DEF IndInv, TypeOK, BarNum
  <2>7. \A i \in 0..(bar_count' - 1) : i \in 0..(bar_count - 1) \/ i = bar_count
    BY <2>1
  <2> QED
    BY <2>1, <2>3, <2>5, <2>6, <2>7 DEF Positions
<1>5. CASE UNCHANGED <<bar_descs, bar_count, ibar>>
  BY <1>1, <1>2, <1>5 DEF Positions
<1> QED
  BY <1>3, <1>4, <1>5 DEF Next, FillFails, Filled, Read, ReadRefused, Write,
                          WriteRefused, vars

\* On such a board a read answers with the registers of the BAR whose number it
\* is given, for every width, offset and placement of the BARs.
THEOREM ReadsNamedBar == Spec => []NamedBarIsRead
<1>1. Init => Positions /\ NamedBarIsRead
  BY DEF Init, Positions, NamedBarIsRead, NoCall
<1>2. IndInv /\ Positions /\ NamedBarIsRead /\ [Next]_vars => NamedBarIsRead'
  <2> SUFFICES ASSUME IndInv, Positions, NamedBarIsRead, [Next]_vars,
                      Contiguous', call'.op = "read", call'.ret = "SUCCESS"
               PROVE  \A k \in 0..(call'.width - 1) :
                        /\ call'.offset + k < board'[call'.index]
                        /\ call'.val[k] = regs'[call'.index][call'.offset + k]
    BY DEF NamedBarIsRead
  <2>1. CASE SkipBar \/ FillBar \/ FillFails \/ Filled
    BY <2>1 DEF SkipBar, FillBar, FillFails, Filled, IndInv, Progress
  <2>2. CASE UNCHANGED vars
    <3>1. board' = board /\ regs' = regs /\ call' = call
      BY <2>2 DEF vars
    <3>2. Contiguous
      BY <3>1 DEF Contiguous
    <3> QED
      BY <3>1, <3>2 DEF NamedBarIsRead
  <2>3. ASSUME NEW i \in BarNum, NEW o \in Offset, NEW w \in Width,
               ReadRefused(i, o, w) \/ WriteRefused(i, o, w) \/ \E v \in Value : Write(i, o, w, v)
        PROVE  FALSE
    BY <2>3 DEF ReadRefused, WriteRefused, Write, Answer
  <2>4. ASSUME NEW i \in BarNum, NEW o \in Offset, NEW w \in Width, Read(i, o, w)
        PROVE  \A k \in 0..(call'.width - 1) :
                 /\ call'.offset + k < board'[call'.index]
                 /\ call'.val[k] = regs'[call'.index][call'.offset + k]
    <3>1. /\ call'.val = Loaded(bar_descs[i].userAddress + o, w)
          /\ call'.index = i /\ call'.offset = o /\ call'.width = w
          /\ UNCHANGED <<board, regs>>
      BY <2>4 DEF Read, Answer
    <3>2. Registers!Read(BarAt(i), o, w) /\ BarAt(i) \in BarNum
      BY <2>4, ReadStep
    <3>3. call'.val = [k \in 0..(w - 1) |-> regs[BarAt(i)][o + k]]
      BY <2>4, <3>2 DEF Registers!Read, Registers!Answer
    <3>4. BarAt(i) = i
      <4>1. Contiguous
        BY <3>1 DEF Contiguous
      <4>2. i < bar_count
        BY <3>2, BarAssumption DEF BarAt
      <4>3. i \in 0..(bar_count - 1)
        BY <4>2 DEF IndInv, TypeOK, BarNum
      <4> QED
        BY <4>1, <4>2, <4>3 DEF BarAt, Positions
    <3>5. o + w <= board[i] /\ o \in Nat /\ w \in 1..8 /\ board[i] \in Nat
      BY <3>2, <3>4, BarAssumption DEF Registers!Read, Width, IndInv, TypeOK
    <3>6. \A k \in 0..(w - 1) : o + k < board[i]
      BY <3>5
    <3>7. \A k \in 0..(w - 1) : call'.val[k] = regs[i][o + k]
      BY <3>3, <3>4
    <3>8. ASSUME NEW k \in 0..(call'.width - 1) PROVE k \in 0..(w - 1)
      BY <3>1, Zenon
    <3> QED
      BY <3>1, <3>6, <3>7, <3>8, Zenon
  <2> QED
    BY <2>1, <2>2, <2>3, <2>4 DEF Next
<1> QED
  BY <1>1, <1>2, PositionsInv, Invariance, PTL DEF Spec

=============================================================================
