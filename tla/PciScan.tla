------------------------------ MODULE PciScan ------------------------------
(***************************************************************************)
(* CRONO_KERNEL_PciScanDevices of crono_kernel_interface.cpp: one pass over *)
(* /sys/bus/pci/devices, reading the ids of each function found and adding *)
(* those that match to the client's CRONO_KERNEL_PCI_SCAN_RESULT.          *)
(*                                                                         *)
(* The client may scan again and again, with the same result structure;    *)
(* between two scans boards come and go.                                   *)
(***************************************************************************)
EXTENDS Integers, FiniteSets

CONSTANTS
  Slot,         \* PCI functions
  Id,           \* Id[s]: the vendor and device id of s, a pair
  Query,        \* what clients scan for: pairs of ids, or ANY for either
  ANY,          \* PCI_ANY_ID
  PCI_CARDS,    \* length of the result arrays, CRONO_KERNEL_PCI_CARDS (100)
  ShortReads,   \* whether reading the ids may return success with too few bytes
  ClearsResult  \* whether the client zeroes its result before each scan

ASSUME ScanAssumption ==
  /\ PCI_CARDS \in Nat
  /\ IsFiniteSet(Slot)
  /\ ShortReads \in BOOLEAN
  /\ ClearsResult \in BOOLEAN

VARIABLES
  pc,               \* "idle", "scan", "done", or "overrun" (arrays exceeded)
  query,            \* dwVendorId and dwDeviceId
  present,          \* the functions on the bus
  unread,           \* those readdir has still to return
  skipped,          \* those whose ids could not be read
  ids,              \* locals vendor_id and device_id
  index_in_result,  \* local: how many matches so far
  dwNumDevices,     \* the result: its count
  found             \* the result: slot and ids of each match, by index

vars == <<pc, query, present, unread, skipped, ids, index_in_result, dwNumDevices, found>>

Ids == {Id[s] : s \in Slot}
Entry == [slot : Slot, id : Ids]
NoEntry == [i \in {} |-> 0]

TypeOK ==
  /\ pc \in {"idle", "scan", "done", "overrun"}
  /\ query \in Query
  /\ present \subseteq Slot
  /\ unread \subseteq present
  /\ skipped \subseteq present
  /\ ids \in Ids
  /\ index_in_result \in 0..PCI_CARDS
  /\ dwNumDevices \in 0..PCI_CARDS
  /\ DOMAIN found = 0..(index_in_result - 1)
  /\ \A i \in DOMAIN found : found[i] \in Entry

Init ==
  /\ pc = "idle"
  /\ query \in Query
  /\ present \in SUBSET Slot
  /\ unread = {}
  /\ skipped = {}
  /\ ids \in Ids
  /\ index_in_result = 0
  /\ dwNumDevices = 0
  /\ found = NoEntry

(* A definition whose name begins with Mutant is a slip the definition      *)
(* after it could have; no action uses it.                                 *)

\* The device ids are not compared.
MutantMatches(id, q) == id[1] = q[1] \/ q[1] = ANY

Matches(id, q) ==
  /\ id[1] = q[1] \/ q[1] = ANY
  /\ id[2] = q[2] \/ q[2] = ANY

\* A scan starts.  The function never writes the count before its first match;
\* of what an earlier scan left in the arrays only dwNumDevices is modelled.
Start(q) ==
  /\ pc \in {"idle", "done"}
  /\ pc' = "scan"
  /\ query' = q
  /\ present' \in SUBSET Slot
  /\ unread' = present'
  /\ skipped' = {}
  /\ ids' \in Ids
  /\ index_in_result' = 0
  /\ dwNumDevices' = IF ClearsResult THEN 0 ELSE dwNumDevices
  /\ found' = NoEntry

\* crono_read_vendor_device returns success; after a short read it has not
\* written the ids, and they are those of the entry before.
ReadIds(s) == ids' \in {Id[s]} \cup (IF ShortReads THEN {ids} ELSE {})

\* deviceId[++index_in_result]
MutantAddAbove(s) ==
  /\ found' = [i \in DOMAIN found \cup {index_in_result + 1} |->
                 IF i = index_in_result + 1 THEN [slot |-> s, id |-> ids'] ELSE found[i]]
  /\ index_in_result' = index_in_result + 1
  /\ dwNumDevices' = index_in_result'

\* dwNumDevices = index_in_result++
MutantAddCount(s) ==
  /\ found' = [i \in 0..index_in_result |->
                 IF i = index_in_result THEN [slot |-> s, id |-> ids'] ELSE found[i]]
  /\ index_in_result' = index_in_result + 1
  /\ dwNumDevices' = index_in_result

Add(s) ==
  /\ found' = [i \in 0..index_in_result |->
                 IF i = index_in_result THEN [slot |-> s, id |-> ids'] ELSE found[i]]
  /\ index_in_result' = index_in_result + 1
  /\ dwNumDevices' = index_in_result'

\* The `continue` after a failed read is missing: the ids of the entry before
\* are compared.
MutantSkip(s) ==
  /\ pc = "scan"
  /\ s \in unread
  /\ Matches(ids, query)
  /\ index_in_result < PCI_CARDS
  /\ UNCHANGED ids
  /\ Add(s)
  /\ unread' = unread \ {s}
  /\ skipped' = skipped \cup {s}
  /\ UNCHANGED <<pc, query, present>>

\* The ids of s cannot be read: the entry is skipped.
Skip(s) ==
  /\ pc = "scan"
  /\ s \in unread
  /\ unread' = unread \ {s}
  /\ skipped' = skipped \cup {s}
  /\ UNCHANGED <<pc, query, present, ids, index_in_result, dwNumDevices, found>>

Match(s) ==
  /\ pc = "scan"
  /\ s \in unread
  /\ ReadIds(s)
  /\ Matches(ids', query)
  /\ index_in_result < PCI_CARDS
  /\ Add(s)
  /\ unread' = unread \ {s}
  /\ UNCHANGED <<pc, query, present, skipped>>

\* One match more than the arrays hold is written past their end.
Overrun(s) ==
  /\ pc = "scan"
  /\ s \in unread
  /\ ReadIds(s)
  /\ Matches(ids', query)
  /\ index_in_result = PCI_CARDS
  /\ pc' = "overrun"
  /\ UNCHANGED <<query, present, unread, skipped, index_in_result, dwNumDevices, found>>

NoMatch(s) ==
  /\ pc = "scan"
  /\ s \in unread
  /\ ReadIds(s)
  /\ ~Matches(ids', query)
  /\ unread' = unread \ {s}
  /\ UNCHANGED <<pc, query, present, skipped, index_in_result, dwNumDevices, found>>

\* readdir has no more entries.
Finish ==
  /\ pc = "scan"
  /\ unread = {}
  /\ pc' = "done"
  /\ UNCHANGED <<query, present, unread, skipped, ids, index_in_result, dwNumDevices, found>>

Next ==
  \/ \E q \in Query : Start(q)
  \/ \E s \in Slot : Skip(s) \/ Match(s) \/ Overrun(s) \/ NoMatch(s)
  \/ Finish

Spec == Init /\ [][Next]_vars

-----------------------------------------------------------------------------
(* Properties.                                                             *)

Wanted(s) == \A k \in 1..2 : query[k] \in {ANY, Id[s][k]}

\* A scan that has returned lists, once each and under its own ids, the
\* functions on the bus that match, but for those it could not read; whatever
\* order readdir returns them in and whichever are skipped.
ScanExact ==
  pc = "done" =>
    /\ \A i, j \in DOMAIN found : found[i].slot = found[j].slot => i = j
    /\ {found[i] : i \in DOMAIN found} =
         {[slot |-> s, id |-> Id[s]] :
            s \in {t \in present \ skipped : Wanted(t)}}

\* dwNumDevices is the "Number of matching devices" of the scan that has just
\* returned (crono_kernel_interface.h:249).
CountExact ==
  pc = "done" => dwNumDevices = Cardinality(DOMAIN found)

\* The code writes deviceId[index_in_result] without a check.  That it writes
\* past the arrays takes more matching functions than CRONO_KERNEL_PCI_CARDS on
\* the bus of that very scan: earlier scans, functions that do not match and
\* entries that are skipped use up none of the room.
OverrunNeedsMatches ==
  pc = "overrun" =>
    Cardinality({s \in present \ skipped : Wanted(s)}) > PCI_CARDS

-----------------------------------------------------------------------------
(* What makes them inductive.                                              *)

\* The entries readdir has returned and the scan could read.
Scanned == present \ (unread \cup skipped)

\* An entry that was skipped has been returned by readdir.
ReadOnce == unread \cap skipped = {}

\* Half-way through a scan, the result lists what has been scanned so far.
FoundSoFar ==
  /\ \A i, j \in DOMAIN found : found[i].slot = found[j].slot => i = j
  /\ \A i \in DOMAIN found : /\ found[i].id = Id[found[i].slot]
                             /\ found[i].slot \in Scanned
                             /\ Wanted(found[i].slot)
  /\ pc # "idle" =>
       \A s \in Scanned : Wanted(s) => \E i \in DOMAIN found : found[i].slot = s

\* A client that zeroes its result has the count right at every step.
CountSoFar == dwNumDevices = index_in_result

\* At an overrun the arrays are full and one more function matches.
OneTooMany ==
  pc = "overrun" => index_in_result = PCI_CARDS /\ \E s \in unread : Wanted(s)

\* No more matches than entries returned.
RoomSoFar == index_in_result <= Cardinality(present \ unread)

=============================================================================
