---------------------------- MODULE SysfsConfig ----------------------------
(***************************************************************************)
(* Configuration space access: CRONO_KERNEL_PciReadCfg32 / PciWriteCfg32   *)
(* of crono_kernel_interface.cpp and crono_read_vendor_device, over the    *)
(* transfer loops crono_read_config / crono_write_config of sysfs.cpp.     *)
(*                                                                         *)
(* A 4-byte transfer may be split by pread64 / pwrite64 in any way and may *)
(* fail half-way.  Bytes are told apart by where they come from: `val`     *)
(* holds the offset each of its bytes was read from, `config` the index in *)
(* `val` of each byte this call has written.                               *)
(***************************************************************************)
EXTENDS Integers

CONSTANTS
  ConfigSize,  \* st_size of the config file
  Readable,    \* how much of it pread serves (unprivileged readers get less)
  Offsets,     \* the values of dwOffset the clients use
  Faults,      \* which system calls may fail: "stat", "open", "io"
  UNSET        \* a byte no transfer has written

Size == 4  \* sizeof(uint32_t)

Least(m, n) == IF m < n THEN m ELSE n

ASSUME ConfigAssumption ==
  /\ ConfigSize \in Nat /\ Readable \in 0..ConfigSize
  /\ Offsets \subseteq Nat
  /\ UNSET \notin Nat
  /\ Faults \subseteq {"stat", "open", "io"}

VARIABLES
  pc,          \* where the call is
  op,          \* which call it is
  dwOffset,    \* its offset
  temp_size,   \* local: bytes left to transfer
  offset,      \* local: where the next transfer starts in the file
  data_bytes,  \* local: where it starts in the caller's value
  val,         \* the caller's value, as a read has filled it
  config,      \* the config space, as a write has changed it
  ret          \* the code the call returns

vars == <<pc, op, dwOffset, temp_size, offset, data_bytes, val, config, ret>>

Op == {"PciReadCfg32", "PciWriteCfg32", "read_vendor_device"}
Byte == 0..(Size - 1)
Config == 0..(ConfigSize - 1)

TypeOK ==
  /\ pc \in {"idle", "open", "loop", "done"}
  /\ op \in Op
  /\ dwOffset \in Nat
  /\ temp_size \in 0..Size
  /\ offset \in Nat
  /\ data_bytes \in 0..Size
  /\ val \in [Byte -> Config \cup {UNSET}]
  /\ config \in [Config -> Byte \cup {UNSET}]
  /\ ret \in {"SUCCESS", "ERROR"}

Blank == [k \in Byte |-> UNSET]
Untouched == [i \in Config |-> UNSET]

Init ==
  /\ pc = "idle"
  /\ op = "PciReadCfg32"
  /\ dwOffset = 0
  /\ temp_size = Size
  /\ offset = 0
  /\ data_bytes = 0
  /\ val = Blank
  /\ config = Untouched
  /\ ret = "SUCCESS"

Return(code) == pc' = "done" /\ ret' = code

-----------------------------------------------------------------------------

(* A definition whose name begins with Mutant is a slip the definition      *)
(* after it could have; no action uses it.                                 *)

\* The size of the word is left out of the check.
MutantRefused(o, off) ==
  /\ o # "read_vendor_device"
  /\ ConfigSize < off

\* A call starts.  PciReadCfg32 and PciWriteCfg32 refuse a word that does not
\* end within the config file; crono_read_vendor_device does not look.
Refused(o, off) ==
  /\ o # "read_vendor_device"
  /\ ConfigSize < off + Size

\* crono_get_config_space_size, which the same two call first, cannot stat the
\* file.
StatFails(o) == o # "read_vendor_device" /\ "stat" \in Faults

Start(o, off) ==
  /\ pc \in {"idle", "done"}
  /\ op' = o
  /\ dwOffset' = off
  /\ temp_size' = Size
  /\ offset' = off
  /\ data_bytes' = 0
  /\ val' = Blank
  /\ config' = Untouched

CallRefused(o, off) ==
  /\ Start(o, off)
  /\ StatFails(o) \/ Refused(o, off)
  /\ Return("ERROR")

CallAccepted(o, off) ==
  /\ Start(o, off)
  /\ ~Refused(o, off)
  /\ pc' = "open"
  /\ UNCHANGED ret

Call ==
  \/ \E o \in Op \ {"read_vendor_device"}, off \in Offsets :
       CallRefused(o, off) \/ CallAccepted(o, off)
  \/ CallAccepted("read_vendor_device", 0)

OpenConfig ==
  /\ pc = "open"
  /\ pc' = "loop"
  /\ UNCHANGED <<op, dwOffset, temp_size, offset, data_bytes, val, config, ret>>

OpenConfigFails ==
  /\ pc = "open"
  /\ "open" \in Faults
  /\ Return("ERROR")
  /\ UNCHANGED <<op, dwOffset, temp_size, offset, data_bytes, val, config>>

\* How much pread64 / pwrite64 can transfer at the current offset.
Available == (IF op = "PciWriteCfg32" THEN ConfigSize ELSE Readable) - offset

\* One of the three cursors is not moved.
MutantAdvanceKeepsSize(bytes) ==
  /\ offset' = offset + bytes
  /\ data_bytes' = data_bytes + bytes
  /\ UNCHANGED temp_size

MutantAdvanceKeepsOffset(bytes) ==
  /\ temp_size' = temp_size - bytes
  /\ data_bytes' = data_bytes + bytes
  /\ UNCHANGED offset

MutantAdvanceKeepsData(bytes) ==
  /\ temp_size' = temp_size - bytes
  /\ offset' = offset + bytes
  /\ UNCHANGED data_bytes

\* temp_size -= bytes; offset += bytes; data_bytes += bytes
Advance(bytes) ==
  /\ temp_size' = temp_size - bytes
  /\ offset' = offset + bytes
  /\ data_bytes' = data_bytes + bytes

\* One pread64 or pwrite64 that transfers some of what is left.
Transfer ==
  /\ pc = "loop"
  /\ temp_size > 0
  /\ \E bytes \in 1..Least(temp_size, Available) :
       /\ Advance(bytes)
       /\ \/ /\ op = "PciWriteCfg32"
             /\ config' = [i \in Config |->
                  IF i \in offset..(offset + bytes - 1)
                    THEN data_bytes + (i - offset) ELSE config[i]]
             /\ UNCHANGED val
          \/ /\ op # "PciWriteCfg32"
             /\ val' = [k \in Byte |->
                  IF k \in data_bytes..(data_bytes + bytes - 1)
                    THEN offset + (k - data_bytes) ELSE val[k]]
             /\ UNCHANGED config
  /\ UNCHANGED <<pc, op, dwOffset, ret>>

\* `if (bytes == 0) continue`
MutantEndOfFile ==
  /\ pc = "loop"
  /\ temp_size > 0
  /\ Available <= 0
  /\ UNCHANGED vars

\* The loop is left at the end of the file (bytes == 0) or with the word
\* complete; either way err is CRONO_SUCCESS and is what the caller returns.
EndOfFile ==
  /\ pc = "loop"
  /\ temp_size > 0
  /\ Available <= 0
  /\ Return("SUCCESS")
  /\ UNCHANGED <<op, dwOffset, temp_size, offset, data_bytes, val, config>>

Complete ==
  /\ pc = "loop"
  /\ temp_size = 0
  /\ Return("SUCCESS")
  /\ UNCHANGED <<op, dwOffset, temp_size, offset, data_bytes, val, config>>

TransferFails ==
  /\ pc = "loop"
  /\ temp_size > 0
  /\ "io" \in Faults
  /\ Return("ERROR")
  /\ UNCHANGED <<op, dwOffset, temp_size, offset, data_bytes, val, config>>

Step == OpenConfig \/ OpenConfigFails \/ Transfer \/ EndOfFile \/ Complete \/ TransferFails

Next == Call \/ Step

Spec == Init /\ [][Next]_vars

\* A call that has started runs on: it holds its caller's thread, and the
\* system calls on a sysfs file return.  That they fail is never relied on.
FairSpec == Spec /\ WF_vars(OpenConfig) /\ WF_vars(Transfer \/ EndOfFile \/ Complete)

-----------------------------------------------------------------------------
(* Properties.                                                             *)

\* However the transfer is split and wherever it stops, the bytes read so far
\* are the first bytes of the word, each from its own offset, and the others
\* are unset.
ReadInPlace ==
  op # "PciWriteCfg32" =>
    val = [k \in Byte |-> IF k < data_bytes THEN dwOffset + k ELSE UNSET]

\* A write that is split or stops half-way has changed exactly the bytes of
\* the word it has got to, each with its own byte of the value, and nothing
\* outside the word.
WriteInPlace ==
  config = [i \in Config |->
    IF op = "PciWriteCfg32" /\ i \in dwOffset..(dwOffset + data_bytes - 1)
      THEN i - dwOffset ELSE UNSET]

\* A call that returns success has transferred the whole word: "@return
\* `CRONO_SUCCESS` in case of no error", *pVendor "will contain the Vendor ID"
\* (crono_userspace.h:87-92).
SuccessIsComplete == pc = "done" /\ ret = "SUCCESS" => temp_size = 0

\* A word a call writes successfully lies within the config file.
WriteCompletes ==
  op = "PciWriteCfg32" /\ pc = "done" /\ ret = "SUCCESS" => temp_size = 0

\* Every call returns, whatever pread64 and pwrite64 answer: the loop makes
\* progress or ends.
CallReturns == (pc \in {"open", "loop"}) ~> (pc = "done")

-----------------------------------------------------------------------------
(* What makes them inductive.                                              *)

\* The three locals count the same bytes.
CursorsAgree ==
  /\ temp_size = Size - data_bytes
  /\ offset = dwOffset + data_bytes

\* The word of a call that is under way ends within the file, if the call has
\* looked; the ids that crono_read_vendor_device reads are the first word.
WordFits ==
  /\ pc \in {"open", "loop"} /\ op # "read_vendor_device" => dwOffset + Size <= ConfigSize
  /\ op = "read_vendor_device" => dwOffset = 0

IndInv == TypeOK /\ CursorsAgree /\ WordFits /\ ReadInPlace /\ WriteInPlace /\ WriteCompletes

=============================================================================
