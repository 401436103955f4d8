------------------------- MODULE SysfsConfigProofs -------------------------
(***************************************************************************)
(* Proofs about SysfsConfig: for every size of the config file, readable   *)
(* part of it and offsets, a transfer that is split or stops half-way has  *)
(* moved the first bytes of the word, each to its own place.               *)
(***************************************************************************)
EXTENDS SysfsConfig, TLAPS

LEMMA InitInv == Init => IndInv
<1> SUFFICES ASSUME Init PROVE IndInv
  OBVIOUS
<1>1. TypeOK
  BY DEF Init, TypeOK, Op, Size, Byte, Config, Blank, Untouched
<1>2. CursorsAgree /\ WordFits /\ WriteCompletes
  BY DEF Init, CursorsAgree, WordFits, WriteCompletes, Size
<1>3. ReadInPlace
  BY DEF Init, ReadInPlace, Blank, Byte, Size
<1>4. WriteInPlace
  BY DEF Init, WriteInPlace, Untouched
<1> QED
  BY <1>1, <1>2, <1>3, <1>4 DEF IndInv

-----------------------------------------------------------------------------
(* A call starts: nothing of an earlier one is left.                       *)

LEMMA CallStep == IndInv /\ Call => IndInv'
<1> SUFFICES ASSUME IndInv, Call PROVE IndInv'
  OBVIOUS
<1>1. ASSUME NEW o \in Op, NEW off \in Nat, Start(o, off),
             o = "read_vendor_device" => off = 0,
             \/ pc' = "done" /\ ret' = "ERROR"
             \/ ~Refused(o, off) /\ pc' = "open" /\ ret' = ret
      PROVE  IndInv'
  <2>1. TypeOK'
    BY <1>1 DEF IndInv, TypeOK, Start, Size, Byte, Config, Blank, Untouched
  <2>2. CursorsAgree' /\ WriteCompletes'
    BY <1>1 DEF Start, CursorsAgree, WriteCompletes, Size, IndInv, TypeOK
  <2>3. WordFits'
    BY <1>1, ConfigAssumption DEF Start, WordFits, Refused, Size
  <2>4. ReadInPlace'
    BY <1>1 DEF Start, ReadInPlace, Blank, Byte, Size
  <2>5. WriteInPlace'
    BY <1>1 DEF Start, WriteInPlace, Untouched
  <2> QED
    BY <2>1, <2>2, <2>3, <2>4, <2>5 DEF IndInv
<1>2. Offsets \subseteq Nat
  BY ConfigAssumption
<1> QED
  BY <1>1, <1>2 DEF Call, CallRefused, CallAccepted, Return, Op

-----------------------------------------------------------------------------
(* A call goes on.                                                         *)

\* The call moves on, or returns, and transfers nothing.
LEMMA ControlStep ==
  ASSUME IndInv, pc \in {"open", "loop"}, pc' \in {"loop", "done"},
         ret' \in {"SUCCESS", "ERROR"},
         pc' = "done" /\ ret' = "SUCCESS" /\ op = "PciWriteCfg32" => temp_size = 0,
         UNCHANGED <<op, dwOffset, temp_size, offset, data_bytes, val, config>>
  PROVE  IndInv'
<1>1. TypeOK'
  BY DEF IndInv, TypeOK
<1>2. CursorsAgree' /\ WordFits' /\ ReadInPlace' /\ WriteInPlace' /\ WriteCompletes'
  BY DEF IndInv, CursorsAgree, WordFits, ReadInPlace, WriteInPlace, WriteCompletes
<1> QED
  BY <1>1, <1>2 DEF IndInv

\* The end of the file never cuts a write short: its word fits.
LEMMA EndOfFileStep == IndInv /\ EndOfFile => IndInv'
<1> SUFFICES ASSUME IndInv, EndOfFile PROVE IndInv'
  OBVIOUS
<1>1. op # "PciWriteCfg32"
  <2> SUFFICES ASSUME op = "PciWriteCfg32" PROVE FALSE
    OBVIOUS
  <2>1. dwOffset + 4 <= ConfigSize /\ ConfigSize - offset <= 0
    BY DEF EndOfFile, Available, IndInv, WordFits, Size
  <2>2. temp_size > 0 /\ temp_size = 4 - data_bytes /\ offset = dwOffset + data_bytes
    BY DEF EndOfFile, IndInv, CursorsAgree, Size
  <2> QED
    BY <2>1, <2>2, ConfigAssumption DEF IndInv, TypeOK, Size
<1> QED
  BY <1>1, ControlStep DEF EndOfFile, Return

\* What one pread64 or pwrite64 moves is the bytes that follow those moved.
LEMMA TransferStep == IndInv /\ Transfer => IndInv'
<1> SUFFICES ASSUME IndInv, Transfer PROVE IndInv'
  OBVIOUS
<1> USE DEF Size, Byte, Config
<1>1. PICK bytes \in 1..Least(temp_size, Available) :
        /\ Advance(bytes)
        /\ \/ /\ op = "PciWriteCfg32"
              /\ config' = [i \in Config |->
                   IF i \in offset..(offset + bytes - 1)
                     THEN data_bytes + (i - offset) ELSE config[i]]
              /\ UNCHANGED val
           \/ /\ op # "PciWriteCfg32"
              /\ val' = [k \in Byte |->
                   IF k \in data_bytes..(data_bytes + bytes - 1)
                     THEN offset + (k - data_bytes) ELSE val[k]]
              /\ UNCHANGED config
  BY DEF Transfer
<1>2. pc = "loop" /\ UNCHANGED <<pc, op, dwOffset, ret>>
  BY DEF Transfer
<1>3. /\ temp_size \in 0..4 /\ data_bytes \in 0..4 /\ dwOffset \in Nat /\ offset \in Nat
      /\ temp_size = 4 - data_bytes /\ offset = dwOffset + data_bytes
      /\ ConfigSize \in Nat /\ Readable \in Nat /\ Readable <= ConfigSize
  BY ConfigAssumption DEF IndInv, TypeOK, CursorsAgree
<1>4. /\ bytes \in Nat /\ bytes > 0 /\ bytes <= temp_size
      /\ offset + bytes <= ConfigSize
  BY <1>1, <1>3 DEF Least, Available
<1>5. /\ temp_size' = temp_size - bytes
      /\ offset' = offset + bytes
      /\ data_bytes' = data_bytes + bytes
  BY <1>1 DEF Advance
<1>6. CursorsAgree' /\ WordFits' /\ WriteCompletes'
  BY <1>2, <1>3, <1>4, <1>5 DEF IndInv, CursorsAgree, WordFits, WriteCompletes
<1>7. temp_size' \in 0..4 /\ data_bytes' \in 0..4 /\ offset' \in Nat
  BY <1>3, <1>4, <1>5
<1>8. CASE op = "PciWriteCfg32"
  <2>1. /\ val' = val
        /\ config' = [i \in Config |->
             IF i \in offset..(offset + bytes - 1)
               THEN data_bytes + (i - offset) ELSE config[i]]
    BY <1>1, <1>8
  <2>2. config' \in [Config -> Byte \cup {UNSET}]
    <3>1. \A i \in Config : i \in offset..(offset + bytes - 1) => data_bytes + (i - offset) \in Byte
      BY <1>3, <1>4
    <3>2. \A i \in Config : config[i] \in Byte \cup {UNSET}
      BY DEF IndInv, TypeOK
    <3> QED
      BY <2>1, <3>1, <3>2
  <2>3. TypeOK'
    BY <1>2, <1>7, <2>1, <2>2 DEF IndInv, TypeOK
  <2>4. ReadInPlace'
    BY <1>2, <1>8 DEF ReadInPlace
  <2>5. \A i \in Config :
          (IF i \in offset..(offset + bytes - 1) THEN data_bytes + (i - offset) ELSE config[i])
            = (IF i \in dwOffset..(dwOffset + data_bytes + bytes - 1) THEN i - dwOffset ELSE UNSET)
    <3>1. \A i \in Config :
            config[i] = IF i \in dwOffset..(dwOffset + data_bytes - 1) THEN i - dwOffset ELSE UNSET
      BY <1>8 DEF IndInv, WriteInPlace
    <3> QED
      BY <1>3, <1>4, <3>1
  <2>6. WriteInPlace'
    <3>1. config' = [i \in Config |->
            IF i \in dwOffset..(dwOffset + (data_bytes + bytes) - 1) THEN i - dwOffset ELSE UNSET]
      BY <1>3, <1>4, <2>1, <2>5
    <3> QED
      BY <1>2, <1>5, <1>8, <3>1 DEF WriteInPlace
  <2> QED
    BY <1>6, <2>3, <2>4, <2>6 DEF IndInv
<1>9. CASE op # "PciWriteCfg32"
  <2>1. /\ config' = config
        /\ val' = [k \in Byte |->
             IF k \in data_bytes..(data_bytes + bytes - 1)
               THEN offset + (k - data_bytes) ELSE val[k]]
    BY <1>1, <1>9
  <2>2. val' \in [Byte -> Config \cup {UNSET}]
    <3>1. \A k \in Byte : k \in data_bytes..(data_bytes + bytes - 1) => offset + (k - data_bytes) \in Config
      BY <1>3, <1>4
    <3>2. \A k \in Byte : val[k] \in Config \cup {UNSET}
      BY DEF IndInv, TypeOK
    <3> QED
      BY <2>1, <3>1, <3>2
  <2>3. TypeOK'
    BY <1>2, <1>7, <2>1, <2>2 DEF IndInv, TypeOK
  <2>4. WriteInPlace'
    <3>1. config = [i \in Config |-> UNSET]
      BY <1>9 DEF IndInv, WriteInPlace
    <3> QED
      BY <1>2, <1>9, <2>1, <3>1 DEF WriteInPlace
  <2>5. \A k \in Byte :
          (IF k \in data_bytes..(data_bytes + bytes - 1) THEN offset + (k - data_bytes) ELSE val[k])
            = (IF k < data_bytes + bytes THEN dwOffset + k ELSE UNSET)
    <3>1. \A k \in Byte : val[k] = IF k < data_bytes THEN dwOffset + k ELSE UNSET
      BY <1>9 DEF IndInv, ReadInPlace
    <3> QED
      BY <1>3, <1>4, <3>1
  <2>6. ReadInPlace'
    <3>1. val' = [k \in Byte |-> IF k < data_bytes + bytes THEN dwOffset + k ELSE UNSET]
      BY <2>1, <2>5
    <3> QED
      BY <1>2, <1>5, <3>1 DEF ReadInPlace
  <2> QED
    BY <1>6, <2>3, <2>4, <2>6 DEF IndInv
<1> QED
  BY <1>8, <1>9

-----------------------------------------------------------------------------

LEMMA StepInv == IndInv /\ [Next]_vars => IndInv'
<1> SUFFICES ASSUME IndInv, [Next]_vars PROVE IndInv'
  OBVIOUS
<1>1. CASE UNCHANGED vars
  BY <1>1 DEF vars, IndInv, TypeOK, CursorsAgree, WordFits, ReadInPlace, WriteInPlace,
              WriteCompletes
<1>2. CASE OpenConfig \/ OpenConfigFails \/ Complete \/ TransferFails
  <2>1. /\ pc \in {"open", "loop"} /\ pc' \in {"loop", "done"}
        /\ ret' \in {"SUCCESS", "ERROR"}
        /\ pc' = "done" /\ ret' = "SUCCESS" => temp_size = 0
        /\ UNCHANGED <<op, dwOffset, temp_size, offset, data_bytes, val, config>>
    BY <1>2 DEF OpenConfig, OpenConfigFails, Complete, TransferFails, Return, IndInv, TypeOK
  <2> QED
    BY <2>1, ControlStep
<1> QED
  BY <1>1, <1>2, CallStep, TransferStep, EndOfFileStep DEF Next, Step

LEMMA Inductive == Spec => []IndInv
BY InitInv, StepInv, PTL DEF Spec

\* The locals stay within the word and its caller's value, and each byte of
\* the value and of the config space comes from where the other ends.
THEOREM TypeCorrect == Spec => []TypeOK
<1>1. IndInv => TypeOK
  BY DEF IndInv
<1> QED
  BY <1>1, Inductive, PTL

\* However a read is split and wherever it stops, it has filled the first bytes
\* of the value, each from its own offset.
THEOREM ReadsInPlace == Spec => []ReadInPlace
<1>1. IndInv => ReadInPlace
  BY DEF IndInv
<1> QED
  BY <1>1, Inductive, PTL

\* However a write is split and wherever it stops, it has changed the first
\* bytes of the word, each to its own byte of the value, and no other byte.
THEOREM WritesInPlace == Spec => []WriteInPlace
<1>1. IndInv => WriteInPlace
  BY DEF IndInv
<1> QED
  BY <1>1, Inductive, PTL

\* A write that returns success has written the whole word: the check before
\* it, and that its cursors move together, keep the end of the file out of its
\* way.
THEOREM WritesComplete == Spec => []WriteCompletes
<1>1. IndInv => WriteCompletes
  BY DEF IndInv
<1> QED
  BY <1>1, Inductive, PTL

-----------------------------------------------------------------------------
(* A reader that is served the whole file.                                 *)

LEMMA WholeFileStep ==
  ASSUME Readable = ConfigSize, Size <= ConfigSize
  PROVE  IndInv /\ SuccessIsComplete /\ [Next]_vars => SuccessIsComplete'
<1> SUFFICES ASSUME IndInv, SuccessIsComplete, [Next]_vars PROVE SuccessIsComplete'
  OBVIOUS
<1>1. ~ EndOfFile
  <2> SUFFICES ASSUME EndOfFile PROVE FALSE
    OBVIOUS
  <2>1. pc = "loop" /\ temp_size > 0 /\ ConfigSize - offset <= 0
    BY DEF EndOfFile, Available
  <2>2. dwOffset + 4 <= ConfigSize
    BY <2>1 DEF IndInv, WordFits, Size
  <2>3. temp_size = 4 - data_bytes /\ offset = dwOffset + data_bytes
    BY DEF IndInv, CursorsAgree, Size
  <2> QED
    BY <2>1, <2>2, <2>3, ConfigAssumption DEF IndInv, TypeOK, Size
<1> QED
  BY <1>1 DEF SuccessIsComplete, Next, Step, Call, CallRefused, CallAccepted, Return,
              OpenConfig, OpenConfigFails, Transfer, Complete, TransferFails, vars

\* Nothing but a file whose end the reader is not served makes a call return
\* success with part of the word: where all of it is readable, and it holds the
\* ids, success is the whole word, for reads and crono_read_vendor_device too.
THEOREM WholeFileIsComplete ==
  ASSUME Readable = ConfigSize, Size <= ConfigSize
  PROVE  Spec => []SuccessIsComplete
<1>1. Init => SuccessIsComplete
  BY DEF Init, SuccessIsComplete
<1> QED
  BY <1>1, WholeFileStep, Inductive, PTL DEF Spec

=============================================================================
