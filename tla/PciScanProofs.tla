--------------------------- MODULE PciScanProofs ---------------------------
(***************************************************************************)
(* Proofs about PciScan: for every bus, set of ids and order of readdir,   *)
(* what a scan lists and counts, and when its arrays are long enough.      *)
(***************************************************************************)
EXTENDS PciScan, FiniteSetTheorems, TLAPS

\* Comparing the ids of a function, and what the client asked for.
LEMMA MatchesWanted == ASSUME NEW s \in Slot PROVE Matches(Id[s], query) <=> Wanted(s)
BY DEF Matches, Wanted

\* An entry is put after those there are, which stay as they are.
LEMMA AddAppends ==
  ASSUME TypeOK, NEW s \in Slot, Add(s)
  PROVE  /\ index_in_result' = index_in_result + 1
         /\ dwNumDevices' = index_in_result + 1
         /\ DOMAIN found' = 0..index_in_result
         /\ DOMAIN found' = DOMAIN found \cup {index_in_result}
         /\ index_in_result \notin DOMAIN found
         /\ found'[index_in_result] = [slot |-> s, id |-> ids']
         /\ \A i \in DOMAIN found : found'[i] = found[i]
<1>1. index_in_result \in Nat /\ DOMAIN found = 0..(index_in_result - 1)
  BY ScanAssumption DEF TypeOK
<1>2. DOMAIN found' = 0..index_in_result
  BY DEF Add
<1>3. 0..index_in_result = DOMAIN found \cup {index_in_result} /\ index_in_result \notin DOMAIN found
  BY <1>1
<1>4. /\ found'[index_in_result] = [slot |-> s, id |-> ids']
      /\ \A i \in DOMAIN found : found'[i] = found[i]
  BY <1>1, <1>3 DEF Add
<1> QED
  BY <1>2, <1>3, <1>4 DEF Add

-----------------------------------------------------------------------------
(* Types.                                                                  *)

LEMMA ReadIdsType == ASSUME TypeOK, NEW s \in Slot, ReadIds(s) PROVE ids' \in Ids
BY DEF TypeOK, ReadIds, Ids

LEMMA InitTypeOK == Init => TypeOK
<1> SUFFICES ASSUME Init PROVE TypeOK
  OBVIOUS
<1>1. DOMAIN found = {} /\ 0..(index_in_result - 1) = {}
  BY DEF Init, NoEntry
<1> QED
  BY <1>1, ScanAssumption DEF Init, TypeOK

LEMMA StartTypeOK == ASSUME TypeOK, NEW q \in Query, Start(q) PROVE TypeOK'
<1>1. DOMAIN found' = {} /\ index_in_result' = 0
  BY DEF Start, NoEntry
<1>2. DOMAIN found' = 0..(index_in_result' - 1)
  <2>1. 0..(0 - 1) = {}
    OBVIOUS
  <2> QED
    BY <1>1, <2>1, Zenon
<1> QED
  BY <1>1, <1>2, ScanAssumption DEF Start, TypeOK

LEMMA MatchTypeOK == ASSUME TypeOK, NEW s \in Slot, Match(s) PROVE TypeOK'
<1>1. ids' \in Ids
  BY ReadIdsType DEF Match
<1>2. index_in_result \in 0..PCI_CARDS /\ index_in_result < PCI_CARDS /\ Add(s)
  BY DEF Match, TypeOK
<1>3. /\ index_in_result' = index_in_result + 1
      /\ dwNumDevices' = index_in_result + 1
      /\ DOMAIN found' = 0..index_in_result
      /\ DOMAIN found' = DOMAIN found \cup {index_in_result}
      /\ found'[index_in_result] = [slot |-> s, id |-> ids']
      /\ \A i \in DOMAIN found : found'[i] = found[i]
  BY <1>2, AddAppends, Zenon
<1>4. index_in_result' \in 0..PCI_CARDS /\ dwNumDevices' \in 0..PCI_CARDS
  BY <1>2, <1>3, ScanAssumption
<1>5. DOMAIN found' = 0..(index_in_result' - 1)
  <2>1. index_in_result' - 1 = index_in_result
    BY <1>2, <1>3
  <2> QED
    BY <1>3, <2>1
<1>6. \A i \in DOMAIN found' : found'[i] \in Entry
  BY <1>1, <1>3 DEF TypeOK, Entry
<1> QED
  BY <1>1, <1>4, <1>5, <1>6 DEF Match, TypeOK

LEMMA StepTypeOK == TypeOK /\ [Next]_vars => TypeOK'
<1> SUFFICES ASSUME TypeOK, [Next]_vars PROVE TypeOK'
  OBVIOUS
<1>1. CASE UNCHANGED vars
  BY <1>1 DEF TypeOK, vars
<1>2. ASSUME NEW s \in Slot, Skip(s) PROVE TypeOK'
  BY <1>2 DEF Skip, TypeOK
<1>3. ASSUME NEW s \in Slot, NoMatch(s) \/ Overrun(s) PROVE TypeOK'
  BY <1>3, ReadIdsType DEF NoMatch, Overrun, TypeOK
<1>4. CASE Finish
  BY <1>4 DEF Finish, TypeOK
<1> QED
  BY <1>1, <1>2, <1>3, <1>4, StartTypeOK, MatchTypeOK DEF Next

\* The variables keep their types up to the overrun at which the model stops.
\* That the index stays within the arrays until then is no merit of the code,
\* which does not check it: NoOverrunWhenFew and OverrunsOnlyWhenMany say when
\* the arrays are exceeded.
THEOREM TypeCorrect == Spec => []TypeOK
BY InitTypeOK, StepTypeOK, PTL DEF Spec

-----------------------------------------------------------------------------
(* What is listed.                                                         *)

ScanInv == TypeOK /\ ReadOnce /\ FoundSoFar

LEMMA ScanInitInv == Init => ScanInv
<1> SUFFICES ASSUME Init PROVE ScanInv
  OBVIOUS
<1>1. DOMAIN found = {}
  BY DEF Init, NoEntry
<1> QED
  BY <1>1, InitTypeOK DEF Init, ScanInv, ReadOnce, FoundSoFar

LEMMA ScanStart == ASSUME NEW q \in Query, Start(q) PROVE ReadOnce' /\ FoundSoFar'
<1>1. DOMAIN found' = {} /\ Scanned' = {} /\ skipped' = {}
  BY DEF Start, NoEntry, Scanned
<1> QED
  BY <1>1 DEF ReadOnce, FoundSoFar

\* An entry that is read moves from unread to scanned; nothing else changes.
LEMMA ScannedGrows ==
  ASSUME ScanInv, NEW s \in unread, unread' = unread \ {s}, UNCHANGED <<present, skipped>>
  PROVE  Scanned' = Scanned \cup {s} /\ s \notin Scanned /\ ReadOnce'
BY DEF ScanInv, TypeOK, ReadOnce, Scanned

LEMMA ScanSkip == ASSUME ScanInv, NEW s \in Slot, Skip(s) PROVE ReadOnce' /\ FoundSoFar'
<1>1. s \in unread /\ unread' = unread \ {s} /\ skipped' = skipped \cup {s}
      /\ UNCHANGED <<pc, query, present, found>>
  BY DEF Skip
<1>2. Scanned' = Scanned /\ ReadOnce'
  BY <1>1 DEF ScanInv, TypeOK, ReadOnce, Scanned
<1> QED
  BY <1>1, <1>2 DEF ScanInv, FoundSoFar, Wanted

LEMMA ScanNoMatch ==
  ASSUME ~ShortReads, ScanInv, NEW s \in Slot, NoMatch(s)
  PROVE  ReadOnce' /\ FoundSoFar'
<1>1. s \in unread /\ unread' = unread \ {s} /\ UNCHANGED <<pc, query, present, skipped, found>>
  BY DEF NoMatch
<1>2. ~ Wanted(s)
  BY MatchesWanted DEF NoMatch, ReadIds
<1>3. Scanned' = Scanned \cup {s} /\ ReadOnce'
  BY <1>1, ScannedGrows
<1>4. \A t : Wanted(t)' = Wanted(t)
  BY <1>1 DEF Wanted
<1> QED
  BY <1>1, <1>2, <1>3, <1>4 DEF ScanInv, FoundSoFar

LEMMA ScanMatch ==
  ASSUME ~ShortReads, ScanInv, NEW s \in Slot, Match(s)
  PROVE  ReadOnce' /\ FoundSoFar'
<1> DEFINE n == index_in_result
<1>1. /\ s \in unread /\ unread' = unread \ {s} /\ UNCHANGED <<pc, query, present, skipped>>
      /\ Add(s) /\ ids' = Id[s]
  BY DEF Match, ReadIds
<1>2. Wanted(s)
  BY <1>1, MatchesWanted DEF Match
<1>3. Scanned' = Scanned \cup {s} /\ s \notin Scanned /\ ReadOnce'
  BY <1>1, ScannedGrows
<1>4. \A t : Wanted(t)' = Wanted(t)
  BY <1>1 DEF Wanted
<1>5. /\ DOMAIN found' = DOMAIN found \cup {n} /\ n \notin DOMAIN found
      /\ found'[n].slot = s /\ found'[n].id = Id[s]
      /\ \A i \in DOMAIN found : found'[i] = found[i]
  <2>1. TypeOK
    BY DEF ScanInv
  <2>2. /\ DOMAIN found' = DOMAIN found \cup {n} /\ n \notin DOMAIN found
        /\ found'[n] = [slot |-> s, id |-> ids']
        /\ \A i \in DOMAIN found : found'[i] = found[i]
    BY <1>1, <2>1, AddAppends, Zenon
  <2> QED
    BY <1>1, <2>2
<1> HIDE DEF n
<1>6. \A i \in DOMAIN found : found[i].slot # s
  BY <1>3 DEF ScanInv, FoundSoFar
<1>7. \A i, j \in DOMAIN found' : found'[i].slot = found'[j].slot => i = j
  BY <1>5, <1>6 DEF ScanInv, FoundSoFar
<1>8. \A i \in DOMAIN found' : /\ found'[i].id = Id[found'[i].slot]
                               /\ found'[i].slot \in Scanned'
                               /\ Wanted(found'[i].slot)
  BY <1>2, <1>3, <1>5 DEF ScanInv, FoundSoFar
<1>9. pc # "idle" =>
        \A t \in Scanned' : Wanted(t) => \E i \in DOMAIN found' : found'[i].slot = t
  BY <1>3, <1>5 DEF ScanInv, FoundSoFar
<1> QED
  BY <1>1, <1>3, <1>4, <1>7, <1>8, <1>9 DEF FoundSoFar

LEMMA ScanStepInv == ASSUME ~ShortReads PROVE ScanInv /\ [Next]_vars => ScanInv'
<1> SUFFICES ASSUME ScanInv, [Next]_vars PROVE ReadOnce' /\ FoundSoFar'
  BY StepTypeOK DEF ScanInv
<1>1. ASSUME UNCHANGED <<query, present, unread, skipped, found>>,
             pc' = "idle" => pc = "idle", pc = "idle" => pc' = "idle"
      PROVE  ReadOnce' /\ FoundSoFar'
  BY <1>1 DEF ScanInv, ReadOnce, FoundSoFar, Scanned, Wanted
<1>2. CASE UNCHANGED vars \/ Finish
  BY <1>1, <1>2 DEF vars, Finish
<1>3. ASSUME NEW s \in Slot, Overrun(s) PROVE ReadOnce' /\ FoundSoFar'
  BY <1>1, <1>3 DEF Overrun
<1> QED
  BY <1>2, <1>3, ScanStart, ScanSkip, ScanNoMatch, ScanMatch DEF Next

\* Whatever order readdir returns the functions in, and whichever are skipped,
\* the scan lists exactly the matching ones it could read, once each, if a read
\* of the ids that returns success has written them.
THEOREM ListsExactly == ASSUME ~ShortReads PROVE Spec => []ScanExact
<1>1. ScanInv /\ (pc = "done" => unread = {}) => ScanExact
  <2> SUFFICES ASSUME ScanInv, pc = "done", unread = {}
               PROVE  /\ \A i, j \in DOMAIN found : found[i].slot = found[j].slot => i = j
                      /\ {found[i] : i \in DOMAIN found} =
                           {[slot |-> s, id |-> Id[s]] :
                              s \in {t \in present \ skipped : Wanted(t)}}
    BY DEF ScanExact
  <2>1. Scanned = present \ skipped
    BY DEF Scanned
  <2>2. \A i \in DOMAIN found :
          /\ found[i].slot \in {t \in present \ skipped : Wanted(t)}
          /\ found[i] = [slot |-> found[i].slot, id |-> Id[found[i].slot]]
    BY <2>1 DEF ScanInv, FoundSoFar, TypeOK, Entry
  <2>3. \A t \in {t \in present \ skipped : Wanted(t)} :
          \E i \in DOMAIN found : found[i].slot = t
    BY <2>1 DEF ScanInv, FoundSoFar
  <2>4. {found[i] : i \in DOMAIN found} =
          {[slot |-> s, id |-> Id[s]] : s \in {t \in present \ skipped : Wanted(t)}}
    BY <2>2, <2>3
  <2> QED
    BY <2>4 DEF ScanInv, FoundSoFar
<1>2. Init => (pc = "done" => unread = {})
  BY DEF Init
<1>3. (pc = "done" => unread = {}) /\ [Next]_vars => (pc = "done" => unread = {})'
  BY DEF Next, Start, Skip, Match, Overrun, NoMatch, Finish, vars
<1> QED
  BY <1>1, <1>2, <1>3, ScanInitInv, ScanStepInv, PTL DEF Spec

-----------------------------------------------------------------------------
(* What is counted.                                                        *)

\* For a client that zeroes its result before each scan, the count a scan
\* returns is that of the entries it lists: zero when none matches.
THEOREM CountsExactly == ASSUME ClearsResult PROVE Spec => []CountExact
<1>1. Init => CountSoFar
  BY DEF Init, CountSoFar
<1>2. TypeOK /\ CountSoFar /\ [Next]_vars => CountSoFar'
  <2> SUFFICES ASSUME TypeOK, CountSoFar, [Next]_vars PROVE CountSoFar'
    OBVIOUS
  <2>1. ASSUME NEW q \in Query, Start(q) PROVE CountSoFar'
    BY <2>1 DEF Start, CountSoFar
  <2>2. ASSUME NEW s \in Slot, Match(s) PROVE CountSoFar'
    BY <2>2 DEF Match, Add, CountSoFar
  <2>3. CASE UNCHANGED <<index_in_result, dwNumDevices>>
    BY <2>3 DEF CountSoFar
  <2> QED
    BY <2>1, <2>2, <2>3 DEF Next, Skip, Overrun, NoMatch, Finish, vars
<1>3. TypeOK /\ CountSoFar => CountExact
  <2> SUFFICES ASSUME TypeOK, CountSoFar PROVE dwNumDevices = Cardinality(DOMAIN found)
    BY DEF CountExact
  <2>1. index_in_result \in Nat /\ DOMAIN found = 0..(index_in_result - 1)
    BY ScanAssumption DEF TypeOK
  <2>2. Cardinality(0..(index_in_result - 1)) = index_in_result
    BY <2>1, FS_Interval
  <2> QED
    BY <2>1, <2>2 DEF CountSoFar
<1> QED
  BY <1>1, <1>2, <1>3, TypeCorrect, PTL DEF Spec

-----------------------------------------------------------------------------
(* When the arrays are long enough.                                        *)

\* Where a read of the ids that returns success has written them, the arrays
\* are exceeded only by a scan of a bus with more matching functions than they
\* have entries.
THEOREM OverrunsOnlyWhenMany == ASSUME ~ShortReads PROVE Spec => []OverrunNeedsMatches
<1>1. Init => OneTooMany
  BY DEF Init, OneTooMany
<1>2. OneTooMany /\ [Next]_vars => OneTooMany'
  <2> SUFFICES ASSUME OneTooMany, [Next]_vars PROVE OneTooMany'
    OBVIOUS
  <2>1. CASE UNCHANGED vars
    BY <2>1 DEF vars, OneTooMany, Wanted
  <2>2. ASSUME NEW s \in Slot, Overrun(s) PROVE OneTooMany'
    <3>1. ids' = Id[s] /\ Matches(ids', query) /\ s \in unread
      BY <2>2 DEF Overrun, ReadIds
    <3>2. Wanted(s)
      BY <3>1, MatchesWanted
    <3> QED
      BY <2>2, <3>1, <3>2 DEF Overrun, OneTooMany, Wanted
  <2>3. pc' = "overrun" => UNCHANGED vars \/ \E s \in Slot : Overrun(s)
    BY DEF Next, Start, Skip, Match, NoMatch, Finish, vars
  <2> QED
    BY <2>1, <2>2, <2>3 DEF OneTooMany
<1>3. ScanInv /\ OneTooMany => OverrunNeedsMatches
  <2> DEFINE M == {t \in present \ skipped : Wanted(t)}
  <2> SUFFICES ASSUME ScanInv, OneTooMany, pc = "overrun" PROVE Cardinality(M) > PCI_CARDS
    BY DEF OverrunNeedsMatches
  <2>1. TypeOK /\ ReadOnce /\ FoundSoFar /\ PCI_CARDS \in Nat
    BY ScanAssumption DEF ScanInv
  <2>2. PICK s \in unread : Wanted(s)
    BY DEF OneTooMany
  <2>3. DOMAIN found = 0..(PCI_CARDS - 1)
    BY <2>1 DEF OneTooMany, TypeOK
  <2>4. s \in M
    BY <2>1, <2>2 DEF ReadOnce, TypeOK
  <2>5. \A i \in 0..(PCI_CARDS - 1) : found[i].slot \in M /\ found[i].slot # s
    BY <2>1, <2>2, <2>3 DEF FoundSoFar, Scanned
  <2>6. \A i, j \in 0..(PCI_CARDS - 1) : found[i].slot = found[j].slot => i = j
    BY <2>1, <2>3 DEF FoundSoFar
  <2> DEFINE f == [i \in 0..PCI_CARDS |-> IF i < PCI_CARDS THEN found[i].slot ELSE s]
  <2> HIDE DEF M
  <2>7. f \in [0..PCI_CARDS -> M]
    BY <2>1, <2>4, <2>5
  <2>8. \A i, j \in 0..PCI_CARDS : f[i] = f[j] => i = j
    BY <2>1, <2>5, <2>6
  <2>9. f \in Injection(0..PCI_CARDS, M)
    <3> HIDE DEF f
    <3>1. DOMAIN f = 0..PCI_CARDS
      BY <2>7
    <3> QED
      BY <2>7, <2>8, <3>1 DEF Injection, IsInjective
  <2>10. IsFiniteSet(M)
    <3>1. M \in SUBSET Slot
      BY <2>1 DEF M, TypeOK
    <3> QED
      BY <3>1, ScanAssumption, FS_Subset
  <2>11. Cardinality(0..PCI_CARDS) <= Cardinality(M)
    <3> HIDE DEF f
    <3> QED
      BY <2>9, <2>10, FS_Injection
  <2>12. Cardinality(0..PCI_CARDS) = PCI_CARDS + 1
    BY <2>1, FS_Interval
  <2>13. Cardinality(M) \in Nat
    BY <2>10, FS_CardinalityType
  <2> QED
    BY <2>1, <2>11, <2>12, <2>13
<1> QED
  BY <1>1, <1>2, <1>3, ScanInitInv, ScanStepInv, PTL DEF Spec

RoomInv == TypeOK /\ RoomSoFar /\ pc # "overrun"

\* On a bus of no more functions than the result has entries (PCI_CARDS), no
\* scan writes past the arrays, whatever it reads of the ids.
THEOREM NoOverrunWhenFew ==
  ASSUME Cardinality(Slot) <= PCI_CARDS
  PROVE  Spec => [](pc # "overrun")
<1>1. TypeOK => /\ IsFiniteSet(present \ unread)
                /\ Cardinality(present \ unread) \in Nat
                /\ IsFiniteSet(present) /\ Cardinality(present) <= PCI_CARDS
  <2> SUFFICES ASSUME TypeOK
               PROVE  /\ IsFiniteSet(present \ unread)
                      /\ Cardinality(present \ unread) \in Nat
                      /\ IsFiniteSet(present) /\ Cardinality(present) <= PCI_CARDS
    OBVIOUS
  <2>1. present \in SUBSET Slot /\ present \ unread \in SUBSET Slot
    BY DEF TypeOK
  <2>2. IsFiniteSet(present \ unread) /\ IsFiniteSet(present)
        /\ Cardinality(present) <= Cardinality(Slot)
    BY <2>1, ScanAssumption, FS_Subset
  <2>3. /\ Cardinality(present \ unread) \in Nat /\ Cardinality(present) \in Nat
        /\ Cardinality(Slot) \in Nat
    BY <2>2, ScanAssumption, FS_CardinalityType
  <2> QED
    BY <2>2, <2>3, ScanAssumption
<1>2. Init => RoomInv
  <2> SUFFICES ASSUME Init PROVE RoomInv
    OBVIOUS
  <2>1. TypeOK
    BY InitTypeOK
  <2> QED
    BY <1>1, <2>1 DEF Init, RoomInv, RoomSoFar
<1>3. RoomInv /\ [Next]_vars => RoomInv'
  <2> SUFFICES ASSUME RoomInv, [Next]_vars PROVE RoomSoFar' /\ pc' # "overrun"
    BY StepTypeOK DEF RoomInv
  <2>1. TypeOK /\ TypeOK'
    BY StepTypeOK DEF RoomInv
  <2>2. ASSUME NEW s \in unread, unread' = unread \ {s}, present' = present
        PROVE  Cardinality((present \ unread)') = Cardinality(present \ unread) + 1
    <3>1. (present \ unread)' = (present \ unread) \cup {s} /\ s \notin present \ unread
      BY <2>1, <2>2 DEF TypeOK
    <3> QED
      BY <1>1, <2>1, <3>1, FS_AddElement
  <2>3. ASSUME NEW s \in unread PROVE index_in_result < PCI_CARDS
    <3>1. s \in present /\ s \notin present \ unread
      BY <2>1 DEF TypeOK
    <3>2. Cardinality(present \ unread) <= Cardinality(present)
          /\ Cardinality(present \ unread) # Cardinality(present)
      BY <1>1, <2>1, <3>1, FS_Subset
    <3>3. Cardinality(present) \in Nat
      BY <1>1, <2>1, FS_CardinalityType
    <3> QED
      BY <1>1, <2>1, <3>2, <3>3, ScanAssumption DEF RoomInv, RoomSoFar, TypeOK
  <2>4. ASSUME NEW q \in Query, Start(q) PROVE RoomSoFar' /\ pc' # "overrun"
    <3>1. index_in_result' = 0 /\ present' \ unread' = {} /\ pc' = "scan"
      BY <2>4 DEF Start
    <3>2. Cardinality({}) = 0
      BY FS_EmptySet
    <3> QED
      BY <3>1, <3>2 DEF RoomSoFar
  <2>5. ASSUME NEW s \in Slot, Skip(s) \/ NoMatch(s) PROVE RoomSoFar' /\ pc' # "overrun"
    <3>1. s \in unread /\ unread' = unread \ {s}
          /\ UNCHANGED <<pc, present, index_in_result>>
      BY <2>5 DEF Skip, NoMatch
    <3>2. Cardinality((present \ unread)') = Cardinality(present \ unread) + 1
      BY <2>2, <3>1
    <3> QED
      BY <1>1, <2>1, <3>1, <3>2, ScanAssumption DEF RoomInv, RoomSoFar, TypeOK
  <2>6. ASSUME NEW s \in Slot, Match(s) PROVE RoomSoFar' /\ pc' # "overrun"
    <3>1. s \in unread /\ unread' = unread \ {s} /\ Add(s) /\ UNCHANGED <<pc, present>>
      BY <2>6 DEF Match
    <3>2. Cardinality((present \ unread)') = Cardinality(present \ unread) + 1
      BY <2>2, <3>1
    <3>3. index_in_result' = index_in_result + 1
      BY <3>1 DEF Add
    <3> QED
      BY <1>1, <2>1, <3>1, <3>2, <3>3, ScanAssumption DEF RoomInv, RoomSoFar, TypeOK
  <2>7. ASSUME NEW s \in Slot PROVE ~ Overrun(s)
    BY <2>3 DEF Overrun, RoomInv, TypeOK
  <2>8. CASE Finish \/ UNCHANGED vars
    BY <2>8 DEF Finish, vars, RoomInv, RoomSoFar
  <2> QED
    BY <2>4, <2>5, <2>6, <2>7, <2>8 DEF Next
<1>4. RoomInv => pc # "overrun"
  BY DEF RoomInv
<1> QED
  BY <1>2, <1>3, <1>4, PTL DEF Spec

=============================================================================
