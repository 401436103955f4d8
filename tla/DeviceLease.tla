---------------------------- MODULE DeviceLease ----------------------------
(***************************************************************************)
(* What crono_kernel_interface.h promises of Open and Close: opening a     *)
(* device leases it to the client under a fresh handle and gets it one     *)
(* file and one mapping of each of its BARs; closing the handle gives back *)
(* exactly those; a call that fails changes nothing.                       *)
(***************************************************************************)
EXTENDS Naturals

CONSTANTS Slot, BarNum, Bars, Ptr, NULL

VARIABLES
  lease,   \* the slot each handle leases, or NULL
  opened,  \* how many files of each slot are open
  mapped,  \* how many times each BAR of each slot is mapped
  reply,   \* what the last Open returned
  live     \* whether the library is loaded

vars == <<lease, opened, mapped, reply, live>>

Answer(code, h) == reply' = [ret |-> code, phDev |-> h]

Init ==
  /\ lease = [h \in Ptr |-> NULL]
  /\ opened = [s \in Slot |-> 0]
  /\ mapped = [s \in Slot |-> [b \in BarNum |-> 0]]
  /\ reply = [ret |-> "NONE", phDev |-> NULL]
  /\ live = TRUE

Acquire(h, s) ==
  /\ live
  /\ lease[h] = NULL
  /\ lease' = [lease EXCEPT ![h] = s]
  /\ opened' = [opened EXCEPT ![s] = @ + 1]
  /\ mapped' = [mapped EXCEPT ![s] =
                  [b \in BarNum |-> IF b \in Bars[s] THEN @[b] + 1 ELSE @[b]]]
  /\ Answer("SUCCESS", h)
  /\ UNCHANGED live

Refuse ==
  /\ live
  /\ \E code \in {"SUCCESS", "ERROR"} : Answer(code, NULL)
  /\ UNCHANGED <<lease, opened, mapped, live>>

Release(h) ==
  /\ live
  /\ lease[h] # NULL
  /\ lease' = [lease EXCEPT ![h] = NULL]
  /\ opened' = [opened EXCEPT ![lease[h]] = @ - 1]
  /\ mapped' = [mapped EXCEPT ![lease[h]] =
                  [b \in BarNum |-> IF b \in Bars[lease[h]] THEN @[b] - 1 ELSE @[b]]]
  /\ Answer("NONE", NULL)
  /\ UNCHANGED live

\* The library is unloaded: the files and mappings of the handles that are
\* still leased are left to the end of the process.
End ==
  /\ live
  /\ lease' = [h \in Ptr |-> NULL]
  /\ live' = FALSE
  /\ UNCHANGED <<opened, mapped, reply>>

Next ==
  \/ \E h \in Ptr, s \in Slot : Acquire(h, s)
  \/ Refuse
  \/ \E h \in Ptr : Release(h)
  \/ End

Spec == Init /\ [][Next]_vars

=============================================================================
