--------------------------- MODULE HostListProofs ---------------------------
(***************************************************************************)
(* Proofs about HostList: types, the addresses of the list, the names of   *)
(* the groups, and what a scan may lose.                                   *)
(***************************************************************************)
EXTENDS HostList, ListsProofs, FiniteSetTheorems

-----------------------------------------------------------------------------
(* The searches of the list.                                               *)

\* A key that finds a row finds one of the list.
LEMMA FoundIsRow ==
    ASSUME NEW hs \in Seq(Entry), NEW key, FindHost(hs, key) # 0
    PROVE  FindHost(hs, key) \in DOMAIN hs
  <1> DEFINE I == {j \in 1 .. Len(hs) : hs[j].host = key}
             J == {j \in 1 .. Len(hs) : hs[j].mac = key}
  <1>1. I \in SUBSET Nat /\ J \in SUBSET Nat /\ I \subseteq DOMAIN hs /\ J \subseteq DOMAIN hs
    OBVIOUS
  <1>2. FindHost(hs, key) = IF key \in Addresses(hs) THEN IF I # {} THEN Min(I) ELSE 0
                                                     ELSE IF J # {} THEN Min(J) ELSE 0
    BY DEF FindHost, SelectInSeq
  <1> HIDE DEF I, J
  <1>3. FindHost(hs, key) \in I \cup J
    BY <1>1, <1>2, MinIsLeast
  <1>4. QED
    BY <1>1, <1>3

\* The last row with a MAC has that MAC.
LEMMA LastWithMac ==
    ASSUME NEW hs \in Seq(Entry), NEW m, LastRowOf(hs, m) # 0
    PROVE  LastRowOf(hs, m) \in DOMAIN hs /\ hs[LastRowOf(hs, m)].mac = m
  <1> DEFINE I == {j \in 1 .. Len(hs) : hs[j].mac = m}
  <1>1. Len(hs) \in Nat /\ I \in SUBSET (0 .. Len(hs)) /\ \A j \in I : j \in DOMAIN hs /\ hs[j].mac = m
    OBVIOUS
  <1>2. LastRowOf(hs, m) = IF I # {} THEN Max(I) ELSE 0
    BY DEF LastRowOf, SelectLastInSeq
  <1> HIDE DEF I
  <1>3. QED
    BY <1>1, <1>2, MaxIsGreatest

-----------------------------------------------------------------------------
(* Adding devices.                                                         *)

LEMMA NewEntryAdded ==
    ASSUME NEW hs \in Seq(Entry), NEW e \in NewEntry, NEW heard \in SUBSET Macs
    PROVE  /\ Add(hs, e, heard) \in Seq(Entry)
           /\ \A but : Unique(hs, but) => Unique(Add(hs, e, heard), but)
  <1> DEFINE row == [e EXCEPT !.name = IF @ # None THEN @ ELSE SuggestedName(e.mac, heard)]
  <1>1. row \in Entry
    BY DEF NewEntry, Entry, Names, SuggestedName
  <1>2. row.host = e.host
    BY DEF NewEntry
  <1> HIDE DEF row
  <1>3. ASSUME NEW but, Unique(hs, but), e.host \notin Addresses(hs) PROVE Unique(Append(hs, row), but)
    <2>1. \A i \in DOMAIN hs : hs[i].host = e.host => e.host = None
      BY <1>3 DEF Addresses
    <2>2. /\ DOMAIN Append(hs, row) = DOMAIN hs \cup {Len(hs) + 1}
          /\ \A i \in DOMAIN hs : Append(hs, row)[i] = hs[i]
          /\ Append(hs, row)[Len(hs) + 1] = row
      BY <1>1
    <2>3. QED
      BY <1>2, <1>3, <2>1, <2>2 DEF Unique
  <1>4. Append(hs, row) \in Seq(Entry)
    BY <1>1
  <1>5. Add(hs, e, heard) \in {hs, Append(hs, row)}
        /\ (Add(hs, e, heard) # hs => e.host \notin Addresses(hs) /\ Add(hs, e, heard) = Append(hs, row))
    BY DEF Add, row
  <1>6. QED
    BY <1>3, <1>4, <1>5

\* A whole batch, by induction over its devices.
LEMMA BatchAdded ==
    ASSUME NEW hs \in Seq(Entry), NEW batch \in BoundedSeq(NewEntry, MaxBatch), NEW heard \in Hearings
    PROVE  /\ Listed(hs, batch, heard) \in Seq(Entry)
           /\ \A but : Unique(hs, but) => Unique(Listed(hs, batch, heard), but)
  <1> DEFINE listed[n \in 0 .. Len(batch)] ==
                 IF n = 0 THEN hs ELSE Add(listed[n - 1], batch[n], heard)
             step == [n \in 1 .. Len(batch) |-> [p \in Seq(Entry) |-> Add(p, batch[n], heard)]]
             N == Len(batch)
  <1>1. batch \in Seq(NewEntry) /\ heard \in SUBSET Macs
    BY HostListAssumption DEF BoundedSeq, SeqOf
  <1>2. \A n \in 1 .. Len(batch) : batch[n] \in NewEntry
    BY <1>1
  <1>3. step \in StepFunctions(Seq(Entry), N)
    BY <1>1, <1>2, NewEntryAdded DEF StepFunctions
  <1>4. /\ N \in Nat /\ 0 \in 0 .. N /\ N \in 0 .. N /\ hs \in Seq(Entry)
        /\ \A n \in 1 .. N : n \in 0 .. N /\ n - 1 \in 0 .. N /\ n # 0
        /\ \A n \in 0 .. N : n = 0 \/ n \in 1 .. N
    BY <1>1
  <1> HIDE DEF listed
  <1>5. PICK f : IsRecursive(f, hs, step, Seq(Entry), N)
    <2> HIDE DEF step, N
    <2> QED
      BY <1>3, <1>4, RecursionExists
  <1>6. f = [n \in 0 .. N |-> IF n = 0 THEN hs ELSE Add(f[n - 1], batch[n], heard)]
    <2>1. f \in [0 .. N -> Seq(Entry)] /\ f[0] = hs /\ \A n \in 1 .. N : f[n] = step[n][f[n - 1]]
      BY <1>5 DEF IsRecursive
    <2>2. \A n \in 1 .. N : f[n] = Add(f[n - 1], batch[n], heard)
      BY <1>4, <2>1
    <2> HIDE DEF step, N
    <2>3. QED
      BY <1>4, <2>1, <2>2
  <1>7. listed = [n \in 0 .. N |-> IF n = 0 THEN hs ELSE Add(listed[n - 1], batch[n], heard)]
    BY <1>6, Zenon DEF listed
  <1>8. listed[0] = hs /\ \A n \in 1 .. N : listed[n] = Add(listed[n - 1], batch[n], heard)
    <2> HIDE DEF step, N
    <2> QED
      BY <1>4, <1>7
  <1> DEFINE T == {n \in 0 .. N : listed[n] \in Seq(Entry) /\ \A but : Unique(hs, but) => Unique(listed[n], but)}
  <1>9. 0 \in T
    BY <1>4, <1>8
  <1>10. ASSUME NEW n \in 1 .. N, n - 1 \in T PROVE n \in T
    BY <1>1, <1>2, <1>4, <1>8, <1>10, NewEntryAdded
  <1>11. \A n \in 0 .. N : n \in T
    <2> HIDE DEF T, N
    <2> QED
      BY <1>4, <1>9, <1>10, InductionUpTo
  <1>12. Listed(hs, batch, heard) = listed[N]
    BY Zenon DEF Listed, listed
  <1>13. QED
    BY <1>4, <1>11, <1>12

-----------------------------------------------------------------------------
(* The steps of a scan, row by row.                                        *)

\* The rows of ys are those of xs, up to their fields.
SameRows(xs, ys) == ys \in Seq(Entry) /\ Len(ys) = Len(xs) /\ DOMAIN ys = DOMAIN xs

LEMMA EntryFields ==
    /\ \A e \in Entry :
         /\ e.host \in IPs \cup {None} /\ e.mac \in Macs \cup {None} /\ e.name \in Names
         /\ \A m \in Macs \cup {None} : [e EXCEPT !.mac = m] \in Entry
         /\ \A n \in Names : [e EXCEPT !.name = n] \in Entry
         /\ \A ip \in IPs \cup {None} : [e EXCEPT !.host = ip] \in Entry
    /\ \A m \in Macs, heard \in SUBSET Macs : SuggestedName(m, heard) \in Names
    /\ \A m \in Macs : HostName(m) \in Names
    /\ \A l \in Labels : Label(l) \in Names
  BY DEF Entry, SuggestedName, Names

LEMMA RowsMapped ==
    ASSUME NEW hs \in Seq(Entry), NEW f \in [DOMAIN hs -> Entry]
    PROVE  SameRows(hs, f)
  BY DEF SameRows

LEMMA SweepFields ==
    ASSUME NEW found \in Sweep, NEW ip \in IPs
    PROVE  /\ found[ip].macs \in SUBSET Macs /\ found[ip].last \in Macs \cup {None}
           /\ found[ip].macs # {} => found[ip].last \in found[ip].macs
           /\ found[ip].macs # {} => found[ip] # Silence
  BY DEF Sweep, Answers, Silence

LEMMA LastAnswers ==
    ASSUME NEW found \in Sweep, NEW ip \in IPs, NEW m, m # None, m \notin found[ip].macs
    PROVE  found[ip].last # m
  BY DEF Sweep, Answers

LEMMA FilledRows ==
    ASSUME NEW hs \in Seq(Entry), NEW found \in Sweep
    PROVE  /\ SameRows(hs, Filled(hs, found))
           /\ \A i \in DOMAIN hs :
                /\ Filled(hs, found)[i].host = hs[i].host
                /\ Filled(hs, found)[i].name = hs[i].name
                /\ ~(ByIp(hs, i) /\ hs[i].mac = None) => Filled(hs, found)[i] = hs[i]
                /\ ByIp(hs, i) /\ hs[i].mac = None => Filled(hs, found)[i].mac = found[hs[i].host].last
  <1>1. \A i \in DOMAIN hs : hs[i] \in Entry
    OBVIOUS
  <1>2. \A i \in DOMAIN hs : ByIp(hs, i) => found[hs[i].host].last \in Macs \cup {None}
    BY <1>1, EntryFields, SweepFields DEF ByIp
  <1>3. Filled(hs, found) \in [DOMAIN hs -> Entry]
    BY <1>1, <1>2, EntryFields DEF Filled
  <1>4. SameRows(hs, Filled(hs, found))
    BY <1>3, RowsMapped
  <1>5. QED
    BY <1>1, <1>4 DEF Filled, Entry

LEMMA ReplacedRows ==
    ASSUME NEW hs \in Seq(Entry), NEW found \in Sweep, NEW heard \in SUBSET Macs
    PROVE  /\ SameRows(hs, Replaced(hs, found, heard))
           /\ \A i \in DOMAIN hs :
                /\ Replaced(hs, found, heard)[i].host = hs[i].host
                /\ ~Swapped(hs, i, found) => Replaced(hs, found, heard)[i] = hs[i]
                /\ Swapped(hs, i, found) =>
                     /\ hs[i].host # None
                     /\ Replaced(hs, found, heard)[i].mac = found[hs[i].host].last
                     /\ Replaced(hs, found, heard)[i].mac \in found[hs[i].host].macs
  <1>1. \A i \in DOMAIN hs : hs[i] \in Entry
    OBVIOUS
  <1>2. \A i \in DOMAIN hs : Swapped(hs, i, found) =>
            /\ hs[i].host # None
            /\ found[hs[i].host].last \in Macs /\ found[hs[i].host].last \in found[hs[i].host].macs
    <2>1. \A i \in DOMAIN hs : Swapped(hs, i, found) =>
              hs[i].host \in IPs /\ hs[i].host # None /\ found[hs[i].host].macs # {}
      BY <1>1, EntryFields DEF Swapped, ByIp
    <2>2. QED
      BY <2>1, SweepFields
  <1>3. ASSUME NEW i \in DOMAIN hs, Swapped(hs, i, found)
        PROVE  [hs[i] EXCEPT !.mac = found[hs[i].host].last,
                             !.name = SuggestedName(found[hs[i].host].last, heard)] \in Entry
    <2>1. SuggestedName(found[hs[i].host].last, heard) \in Names
      BY <1>2, <1>3, EntryFields
    <2>2. QED
      BY <1>1, <1>2, <1>3, <2>1 DEF Entry
  <1>4. Replaced(hs, found, heard) \in [DOMAIN hs -> Entry]
    BY <1>1, <1>3 DEF Replaced
  <1>5. SameRows(hs, Replaced(hs, found, heard))
    BY <1>4, RowsMapped
  <1>6. ASSUME NEW i \in DOMAIN hs
        PROVE  Replaced(hs, found, heard)[i] =
                   IF Swapped(hs, i, found)
                   THEN [hs[i] EXCEPT !.mac = found[hs[i].host].last,
                                      !.name = SuggestedName(found[hs[i].host].last, heard)]
                   ELSE hs[i]
    BY DEF Replaced
  <1>7. QED
    BY <1>1, <1>2, <1>5, <1>6 DEF Entry

LEMMA MovedRows ==
    ASSUME NEW hs \in Seq(Entry), NEW found \in Sweep, NEW taken, NEW spot \in Spots(found, taken)
    PROVE  /\ SameRows(hs, Moved(hs, found, taken, spot))
           /\ \A i \in DOMAIN hs :
                /\ Moved(hs, found, taken, spot)[i].mac = hs[i].mac
                /\ Moved(hs, found, taken, spot)[i].name = hs[i].name
                /\ Moves(hs, i, found, taken) =>
                     /\ hs[i].mac \in Macs
                     /\ Moved(hs, found, taken, spot)[i].host \in IPs \ taken
                     /\ hs[i].mac \in found[Moved(hs, found, taken, spot)[i].host].macs
                /\ ~Moves(hs, i, found, taken) => Moved(hs, found, taken, spot)[i] = hs[i]
  <1>1. \A i \in DOMAIN hs : hs[i] \in Entry /\ hs[i].mac \in Macs \cup {None}
    BY EntryFields
  <1>2. \A i \in DOMAIN hs : Moves(hs, i, found, taken) =>
            /\ hs[i].mac \in Macs
            /\ spot[hs[i].mac] \in IPs \ taken
            /\ hs[i].mac \in found[spot[hs[i].mac]].macs
    BY <1>1 DEF Moves, Spots, FreeSpots
  <1>3. Moved(hs, found, taken, spot) \in [DOMAIN hs -> Entry]
    BY <1>1, <1>2, EntryFields DEF Moved
  <1>4. SameRows(hs, Moved(hs, found, taken, spot))
    BY <1>3, RowsMapped
  <1> HIDE DEF Moves
  <1>5. ASSUME NEW i \in DOMAIN hs
        PROVE  Moved(hs, found, taken, spot)[i] =
                   IF Moves(hs, i, found, taken) THEN [hs[i] EXCEPT !.host = spot[hs[i].mac]] ELSE hs[i]
    BY DEF Moved
  <1>6. QED
    BY <1>1, <1>2, <1>4, <1>5 DEF Entry

Tellings == [Macs -> Macs \cup {None}]

LEMMA UpgradedRows ==
    ASSUME NEW hs \in Seq(Entry), NEW heard \in SUBSET Macs, NEW told \in Tellings
    PROVE  /\ SameRows(hs, Upgraded(hs, heard, told))
           /\ \A i \in DOMAIN hs :
                /\ Upgraded(hs, heard, told)[i].host = hs[i].host
                /\ Upgraded(hs, heard, told)[i].mac = hs[i].mac
                /\ ~IsAutoName(hs[i].name) => Upgraded(hs, heard, told)[i] = hs[i]
  <1>1. \A i \in DOMAIN hs : hs[i] \in Entry
    OBVIOUS
  <1>2. ASSUME NEW i \in DOMAIN hs
        PROVE  /\ Upgraded(hs, heard, told)[i] \in Entry
               /\ Upgraded(hs, heard, told)[i].host = hs[i].host
               /\ Upgraded(hs, heard, told)[i].mac = hs[i].mac
               /\ ~IsAutoName(hs[i].name) => Upgraded(hs, heard, told)[i] = hs[i]
    <2> DEFINE m == hs[i].mac
    <2>1. m \in Macs \cup {None} /\ hs[i] \in Entry
      BY <1>1, EntryFields
    <2>2. /\ m \in heard => HostName(m) \in Names
          /\ m # None /\ told[m] # None => HostName(told[m]) \in Names
      BY <2>1, EntryFields DEF Tellings
    <2>3. \/ Upgraded(hs, heard, told)[i] = hs[i]
          \/ /\ IsAutoName(hs[i].name)
             /\ \E n \in Names : Upgraded(hs, heard, told)[i] = [hs[i] EXCEPT !.name = n]
      BY <2>2 DEF Upgraded
    <2>4. QED
      BY <2>1, <2>3 DEF Entry
  <1>3. Upgraded(hs, heard, told) \in [DOMAIN hs -> Entry]
    <2>1. \A i \in DOMAIN hs : Upgraded(hs, heard, told)[i] \in Entry
      BY <1>2
    <2>2. DOMAIN Upgraded(hs, heard, told) = DOMAIN hs
          /\ Upgraded(hs, heard, told) = [i \in DOMAIN hs |-> Upgraded(hs, heard, told)[i]]
      BY DEF Upgraded
    <2>3. QED
      BY <2>1, <2>2
  <1>4. SameRows(hs, Upgraded(hs, heard, told))
    BY <1>3, RowsMapped
  <1>5. QED
    BY <1>2, <1>4

\* What the scan comes to is reached by those steps.
ComesTo(upgraded, filled, found, heard, taken) ==
    \E spot \in Spots(found, taken), told \in Tellings :
        upgraded = Upgraded(Moved(Replaced(filled, found, heard), found, taken, spot), heard, told)

LEMMA ReconciledSteps ==
    ASSUME NEW filled \in Seq(Entry), NEW found \in Sweep, NEW heard \in SUBSET Macs, NEW taken,
           NEW upgraded \in Reconciled(filled, found, heard, taken)
    PROVE  ComesTo(upgraded, filled, found, heard, taken)
  <1>1. PICK spot \in Spots(found, taken), told \in Told(found) :
             upgraded = Upgraded(Moved(Replaced(filled, found, heard), found, taken, spot), heard, told)
    BY DEF Reconciled
  <1>2. told \in Tellings
    BY DEF Told, Tellings
  <1>3. QED
    BY <1>1, <1>2 DEF ComesTo

\* Rows that move go to free addresses, and to different ones but where several
\* machines answer: only the first row of a MAC moves.
LEMMA MovedUnique ==
    ASSUME NEW hs \in Seq(Entry), NEW found \in Sweep, NEW but,
           NEW taken, NEW spot \in Spots(found, taken), Addresses(hs) \subseteq taken, Unique(hs, but),
           Doubles(found, taken) \subseteq but
    PROVE  Unique(Moved(hs, found, taken, spot), but)
  <1> DEFINE ys == Moved(hs, found, taken, spot)
  <1>1. DOMAIN ys = DOMAIN hs
    BY MovedRows DEF SameRows
  <1>2. \A k \in DOMAIN hs : hs[k].host # None => hs[k].host \in taken
    BY DEF Addresses
  <1>3. \A k \in DOMAIN hs : Moves(hs, k, found, taken) =>
            ys[k].host \in IPs \ taken /\ hs[k].mac \in found[ys[k].host].macs
    BY MovedRows
  <1>4. \A k \in DOMAIN hs : ~Moves(hs, k, found, taken) => ys[k].host = hs[k].host
    BY MovedRows
  <1> HIDE DEF ys
  <1>5. ASSUME NEW i \in DOMAIN hs, NEW j \in DOMAIN hs, i < j, ys[i].host = ys[j].host
        PROVE  ys[i].host \in but \cup {None}
    <2>1. CASE Moves(hs, i, found, taken) /\ Moves(hs, j, found, taken)
      <3>1. i \in 1 .. j - 1
        BY <1>5
      <3>2. hs[i].mac # hs[j].mac
        BY <2>1, <3>1 DEF Moves
      <3>3. ys[i].host \in Doubles(found, taken)
        BY <1>3, <1>5, <2>1, <3>2 DEF Doubles
      <3>4. QED
        BY <3>3
    <2>2. CASE ~Moves(hs, i, found, taken) /\ ~Moves(hs, j, found, taken)
      BY <1>4, <1>5, <2>2 DEF Unique
    <2>3. QED
      BY <1>2, <1>3, <1>4, <1>5, <2>1, <2>2
  <1>6. \A i, j \in DOMAIN hs : i # j => i < j \/ j < i
    OBVIOUS
  <1>7. Unique(ys, but)
    BY <1>1, <1>5, <1>6 DEF Unique
  <1>8. QED
    BY <1>7 DEF ys

\* The list a scan comes to has the rows of the list it read, with addresses
\* that stay unique.
LEMMA ReconciledRows ==
    ASSUME NEW hs \in Seq(Entry), NEW found \in Sweep, NEW heard \in SUBSET Macs,
           NEW upgraded \in Reconciled(Filled(hs, found), found, heard, Addresses(hs)), NEW but
    PROVE  /\ SameRows(hs, upgraded)
           /\ Unique(hs, but) /\ Doubles(found, Addresses(hs)) \subseteq but => Unique(upgraded, but)
  <1> DEFINE filled   == Filled(hs, found)
             replaced == Replaced(filled, found, heard)
             taken    == Addresses(hs)
  <1>1. SameRows(hs, filled) /\ \A i \in DOMAIN hs : filled[i].host = hs[i].host
    BY FilledRows
  <1>2. filled \in Seq(Entry)
    BY <1>1 DEF SameRows
  <1> HIDE DEF filled
  <1>3. SameRows(filled, replaced) /\ \A i \in DOMAIN filled : replaced[i].host = filled[i].host
    BY <1>2, ReplacedRows
  <1>4. replaced \in Seq(Entry) /\ DOMAIN replaced = DOMAIN hs /\ Len(replaced) = Len(hs)
    BY <1>1, <1>3 DEF SameRows
  <1>5. \A i \in DOMAIN hs : replaced[i].host = hs[i].host
    BY <1>1, <1>3 DEF SameRows
  <1>6. PICK spot \in Spots(found, taken), told \in Tellings :
             upgraded = Upgraded(Moved(replaced, found, taken, spot), heard, told)
    <2>1. upgraded \in Reconciled(filled, found, heard, taken)
      BY DEF filled
    <2>2. ComesTo(upgraded, filled, found, heard, taken)
      BY <1>2, <2>1, ReconciledSteps
    <2>3. QED
      BY <2>2 DEF ComesTo
  <1> DEFINE moved == Moved(replaced, found, taken, spot)
  <1> HIDE DEF replaced
  <1>7. SameRows(replaced, moved)
    BY <1>4, <1>6, MovedRows
  <1>8. Unique(hs, but) /\ Doubles(found, taken) \subseteq but => Unique(moved, but)
    <2>1. Addresses(replaced) \subseteq taken
      BY <1>4, <1>5 DEF Addresses
    <2>2. Unique(hs, but) => Unique(replaced, but)
      BY <1>4, <1>5 DEF Unique
    <2>3. QED
      BY <1>4, <1>6, <2>1, <2>2, MovedUnique
  <1> HIDE DEF moved
  <1>9. SameRows(moved, upgraded) /\ \A i \in DOMAIN moved : upgraded[i].host = moved[i].host
    BY <1>6, <1>7, UpgradedRows DEF moved, SameRows
  <1>10. Unique(hs, but) /\ Doubles(found, taken) \subseteq but => Unique(upgraded, but)
    BY <1>8, <1>9 DEF Unique, SameRows
  <1>11. SameRows(hs, upgraded)
    BY <1>4, <1>7, <1>9 DEF SameRows
  <1>12. QED
    BY <1>10, <1>11

\* Removing duplicates keeps rows as they are, and no address twice.
LEMMA DeduplicatedRows ==
    ASSUME NEW hs \in Seq(Entry), NEW found
    PROVE  /\ Deduplicated(hs, found) \in Seq(Entry)
           /\ \A but : Unique(hs, but) => Unique(Deduplicated(hs, found), but)
           /\ \A i \in DOMAIN hs :
                (hs[i].mac # None => i \in Winners(hs, hs[i].mac, found))
                    => hs[i] \in ToSet(Deduplicated(hs, found))
           /\ ToSet(Deduplicated(hs, found)) \subseteq ToSet(hs)
  <1> DEFINE keep == {i \in DOMAIN hs : hs[i].mac # None => i \in Winners(hs, hs[i].mac, found)}
             ys == Picked(hs, keep)
  <1>1. Deduplicated(hs, found) = ys
    BY DEF Deduplicated
  <1>2. \A i \in DOMAIN hs : (hs[i].mac # None => i \in Winners(hs, hs[i].mac, found)) => i \in keep
    OBVIOUS
  <1> HIDE DEF keep
  <1>3. PICK at : ys \in Seq(Entry) /\ Gathers(ys, at, hs, keep, Len(hs))
    BY PickedGathers
  <1> HIDE DEF ys
  <1>4. DOMAIN ys = 1 .. Len(ys) /\ DOMAIN hs = 1 .. Len(hs)
    BY <1>3
  <1>5. /\ \A k \in DOMAIN ys : at[k] \in DOMAIN hs /\ ys[k] = hs[at[k]]
        /\ \A k, l \in DOMAIN ys : k < l => at[k] < at[l]
        /\ \A i \in DOMAIN hs : i \in keep => \E k \in DOMAIN ys : at[k] = i
    BY <1>3, <1>4 DEF Gathers
  <1>6. \A k, l \in DOMAIN ys : k # l => at[k] # at[l]
    <2>1. \A k, l \in DOMAIN ys : k # l => k < l \/ l < k
      BY <1>4
    <2>2. \A k \in DOMAIN ys : at[k] \in Nat
      BY <1>4, <1>5
    <2>3. QED
      BY <1>5, <2>1, <2>2
  <1>7. \A but : Unique(hs, but) => Unique(ys, but)
    BY <1>5, <1>6 DEF Unique
  <1>8. \A i \in DOMAIN hs : i \in keep => hs[i] \in ToSet(ys)
    BY <1>5 DEF ToSet
  <1>9. ToSet(ys) \subseteq ToSet(hs)
    BY <1>5 DEF ToSet
  <1>10. QED
    BY <1>1, <1>2, <1>3, <1>7, <1>8, <1>9

-----------------------------------------------------------------------------
(* Types.                                                                  *)

\* The arm that awaits holds a row of the list it has read.
ListInv ==
    /\ TypeOK
    /\ arm.busy => arm.target \in DOMAIN arm.hosts

LEMMA InitTyped ==
    ASSUME Init
    PROVE  ListInv
  BY HostListAssumption DEF Init, ListInv, TypeOK, NoScan, NoArm, Sweep, Answers, Silence

LEMMA RememberedTyped ==
    ASSUME TypeOK, NEW m \in Macs, NEW name \in Names, NEW source \in {"manual", "auto"}
    PROVE  Remember(m, name, source) \in [Macs -> GroupName \cup {None}]
  BY DEF TypeOK, Remember, GroupName

LEMMA CapturedTyped ==
    ASSUME TypeOK, NEW m \in Macs \cup {None}, NEW name \in Names, Captured(m, name)
    PROVE  groups' \in [Macs -> GroupName \cup {None}]
  <1>1. CASE m # None /\ groups' = Remember(m, name, "auto")
    BY <1>1, RememberedTyped
  <1>2. CASE UNCHANGED groups
    BY <1>2 DEF TypeOK
  <1>3. QED
    BY <1>1, <1>2 DEF Captured

LEMMA FaultTyped ==
    ASSUME TypeOK
    PROVE  /\ \A kind \in FaultKinds : Fault(kind) => faults' \in [FaultKinds -> Nat]
           /\ Dies => /\ faults' \in [FaultKinds -> Nat]
                      /\ scan' = NoScan /\ arm' = NoArm
           /\ Request => requests' \in Nat
  BY DEF TypeOK, Fault, Dies, Request, FaultKinds

LEMMA NothingTyped ==
    /\ NoScan \in [busy : BOOLEAN, found : Sweep, hosts : Seq(Entry), heard : SUBSET Macs]
    /\ NoArm \in [busy : BOOLEAN, hosts : Seq(Entry), target : Nat]
    /\ ~NoArm.busy
  BY DEF NoScan, NoArm, Sweep, Answers, Silence

LEMMA StepTyped ==
    ASSUME ListInv, [Next]_vars
    PROVE  ListInv'
  <1> USE DEF ListInv
  <1>1. CASE AddHosts
    <2>1. hosts' \in Seq(Entry)
      BY <1>1, BatchAdded DEF AddHosts, TypeOK
    <2>2. QED
      BY <1>1, <2>1, FaultTyped DEF AddHosts, TypeOK
  <1>2. CASE ScanLoad
    BY <1>2, FaultTyped, HostListAssumption DEF ScanLoad, TypeOK, Doubles
  <1>3. CASE ScanFinish
    <2>1. PICK upgraded \in Reconciled(Filled(scan.hosts, scan.found), scan.found, scan.heard,
                                       Addresses(scan.hosts)) :
             hosts' \in {Deduplicated(upgraded, scan.found), hosts}
      BY <1>3 DEF ScanFinish
    <2>2. upgraded \in Seq(Entry)
      BY <2>1, ReconciledRows DEF TypeOK, SameRows
    <2>3. hosts' \in Seq(Entry)
      BY <2>1, <2>2, DeduplicatedRows DEF TypeOK
    <2>4. QED
      BY <1>3, <2>3, NothingTyped DEF ScanFinish, TypeOK
  <1>4. CASE ScanFails
    BY <1>4, NothingTyped, FaultTyped DEF ScanFails, TypeOK, FaultKinds
  <1>5. CASE ArmFinish
    <2> DEFINE row == arm.hosts[arm.target]
    <2>1. row \in Entry /\ arm.hosts \in Seq(Entry)
      BY <1>5 DEF ArmFinish, TypeOK
    <2>2. PICK m \in (IF row.mac # None THEN {row.mac} ELSE Macs \cup {None}) :
             /\ hosts' = IF row.mac = None /\ m # None
                         THEN [arm.hosts EXCEPT ![arm.target].mac = m] ELSE hosts
             /\ Captured(m, row.name)
      BY <1>5 DEF ArmFinish
    <2>3. m \in Macs \cup {None} /\ row.name \in Names
      BY <2>1, <2>2, EntryFields
    <2>4. groups' \in [Macs -> GroupName \cup {None}]
      BY <2>2, <2>3, CapturedTyped
    <2>5. hosts' \in Seq(Entry)
      BY <1>5, <2>1, <2>2, <2>3, EntryFields DEF TypeOK, ArmFinish
    <2>6. QED
      BY <1>5, <2>4, <2>5, NothingTyped DEF ArmFinish, TypeOK
  <1>6. CASE TornSave
    BY <1>6, NothingTyped, FaultTyped DEF TornSave, TypeOK, FaultKinds
  <1>7. ASSUME NEW key \in Keys, RemoveHost(key) PROVE ListInv'
    <2>1. FindHost(hosts, key) \in DOMAIN hosts
      BY <1>7, FoundIsRow DEF RemoveHost, TypeOK
    <2>2. hosts' \in Seq(Entry)
      BY <1>7, <2>1, RemoveAtShifts DEF RemoveHost, TypeOK
    <2>3. QED
      BY <1>7, <2>2, FaultTyped DEF RemoveHost, TypeOK
  <1>8. ASSUME NEW key \in Keys, ArmByMac(key) PROVE ListInv'
    <2>1. FindHost(hosts, key) \in DOMAIN hosts
      BY <1>8, FoundIsRow DEF ArmByMac, TypeOK
    <2>2. hosts[FindHost(hosts, key)].mac \in Macs \cup {None} /\ hosts[FindHost(hosts, key)].name \in Names
      BY <2>1, EntryFields DEF TypeOK
    <2>3. groups' \in [Macs -> GroupName \cup {None}]
      BY <1>8, <2>2, CapturedTyped DEF ArmByMac
    <2>4. QED
      BY <1>8, <2>3, FaultTyped DEF ArmByMac, TypeOK
  <1>9. ASSUME NEW key \in Keys, ArmLoad(key) PROVE ListInv'
    <2>1. FindHost(hosts, key) \in DOMAIN hosts
      BY <1>9, FoundIsRow DEF ArmLoad, TypeOK
    <2>2. QED
      BY <1>9, <2>1, FaultTyped DEF ArmLoad, TypeOK
  <1>10. ASSUME NEW key \in Keys, NEW l \in Labels, UpdateName(key, Label(l)) PROVE ListInv'
    <2> DEFINE i == FindHost(hosts, key)
    <2>1. i \in DOMAIN hosts
      BY <1>10, FoundIsRow DEF UpdateName, TypeOK
    <2>2. hosts[i].mac \in Macs \cup {None} /\ Label(l) \in Names
      BY <2>1, EntryFields DEF TypeOK
    <2> HIDE DEF i
    <2>3. hosts' = [hosts EXCEPT ![i].name = Label(l)]
      BY <1>10 DEF UpdateName, i
    <2>4. hosts' \in Seq(Entry)
      BY <2>1, <2>2, <2>3, EntryFields DEF TypeOK
    <2>5. hosts[i].mac # None =>
             /\ Remember(hosts[i].mac, Label(l), "manual") \in [Macs -> GroupName \cup {None}]
             /\ [chosen EXCEPT ![hosts[i].mac] = Label(l)] \in [Macs -> Names \cup {None}]
      BY <2>2, RememberedTyped DEF TypeOK
    <2>6. groups' \in [Macs -> GroupName \cup {None}] /\ chosen' \in [Macs -> Names \cup {None}]
      BY <1>10, <2>5 DEF UpdateName, TypeOK, i
    <2>7. requests' \in Nat /\ faults' \in [FaultKinds -> Nat] /\ doubled' = doubled
      BY <1>10, FaultTyped DEF UpdateName, TypeOK, FaultKinds
    <2>8. <<scan, arm>>' = <<scan, arm>> \/ (scan' = NoScan /\ arm' = NoArm)
      BY <1>10, FaultTyped DEF UpdateName
    <2>9. QED
      BY <2>4, <2>6, <2>7, <2>8, NothingTyped DEF TypeOK
  <1>11. ASSUME NEW m \in Macs, NEW l \in Labels, UpdateMachineName(m, Label(l)) PROVE ListInv'
    <2> DEFINE renamed == [i \in DOMAIN hosts |->
                             IF hosts[i].mac = m THEN [hosts[i] EXCEPT !.name = Label(l)] ELSE hosts[i]]
    <2>1. Label(l) \in Names
      BY EntryFields
    <2>2. renamed \in Seq(Entry)
      <3>1. renamed \in [DOMAIN hosts -> Entry]
        BY <2>1, EntryFields DEF TypeOK
      <3>2. QED
        BY <3>1, RowsMapped DEF TypeOK, SameRows
    <2>3. hosts' \in {renamed, hosts, <<>>}
      BY <1>11 DEF UpdateMachineName
    <2> HIDE DEF renamed
    <2>4. hosts' \in Seq(Entry)
      <3>1. <<>> \in Seq(Entry)
        OBVIOUS
      <3>2. QED
        BY <2>2, <2>3, <3>1, Zenon DEF TypeOK
    <2>5. groups' \in [Macs -> GroupName \cup {None}] /\ chosen' \in [Macs -> Names \cup {None}]
      BY <1>11, <2>1 DEF UpdateMachineName, TypeOK, GroupName
    <2>6. requests' \in Nat /\ faults' \in [FaultKinds -> Nat] /\ doubled' = doubled
      BY <1>11, FaultTyped DEF UpdateMachineName, TypeOK, FaultKinds
    <2>7. <<scan, arm>>' = <<scan, arm>> \/ (scan' = NoScan /\ arm' = NoArm)
      BY <1>11, FaultTyped DEF UpdateMachineName
    <2>8. QED
      BY <2>4, <2>5, <2>6, <2>7, NothingTyped DEF TypeOK
  <1>12. ASSUME NEW macs \in SUBSET Macs, ApiImages(macs) PROVE ListInv'
    <2>1. \A m \in Macs : LastRowOf(hosts, m) # 0 => hosts[LastRowOf(hosts, m)] \in Entry
      BY LastWithMac DEF TypeOK
    <2>2. groups' = [m \in Macs |->
             IF m \in macs /\ groups[m] = None /\ LastRowOf(hosts, m) # 0
             THEN [name |-> hosts[LastRowOf(hosts, m)].name, source |-> "auto"] ELSE groups[m]]
      BY <1>12 DEF ApiImages
    <2>3. groups' \in [Macs -> GroupName \cup {None}]
      BY <2>1, <2>2, EntryFields DEF TypeOK, GroupName
    <2>4. QED
      BY <1>12, <2>3, FaultTyped DEF ApiImages, TypeOK
  <1>13. CASE UNCHANGED vars
    BY <1>13 DEF vars, TypeOK
  <1>14. QED
    BY <1>1, <1>2, <1>3, <1>4, <1>5, <1>6, <1>7, <1>8, <1>9, <1>10, <1>11, <1>12, <1>13 DEF Next

LEMMA ListInvariant == Spec => []ListInv
  <1>1. Init => ListInv
    BY InitTyped
  <1>2. ListInv /\ [Next]_vars => ListInv'
    BY StepTyped
  <1>3. QED
    BY <1>1, <1>2, PTL DEF Spec

\* Every row, whatever handler wrote it, is an address, a MAC and a name of
\* some machine, and the copies that suspended handlers hold are such lists.
THEOREM TypeCorrect == Spec => []TypeOK
  <1>1. ListInv => TypeOK
    BY DEF ListInv
  <1>2. QED
    BY <1>1, ListInvariant, PTL

-----------------------------------------------------------------------------
(* Addresses.                                                              *)

\* What hosts.yml holds when the program starts is written by hand: that no
\* two of its rows share an address is its author's part.
UniqueStart == \A hs \in InitialHosts : Unique(hs, {})

AllUnique ==
    Unique(hosts, doubled) /\ Unique(scan.hosts, doubled) /\ Unique(arm.hosts, doubled)

\* The copies that suspended handlers will write are unique as well, and the
\* free addresses at which a sweep saw several machines have been noted.
AddressInv == ListInv /\ AllUnique /\ Doubles(scan.found, Addresses(scan.hosts)) \subseteq doubled

LEMMA EmptyUnique ==
    /\ \A but : Unique(<<>>, but) /\ Unique(NoScan.hosts, but) /\ Unique(NoArm.hosts, but)
    /\ \A taken : Doubles(NoScan.found, taken) = {}
  BY DEF Unique, NoScan, NoArm, Doubles, Silence

\* Other fields than the address do not matter.
LEMMA SameAddresses ==
    ASSUME NEW xs, NEW ys, DOMAIN ys = DOMAIN xs, \A i \in DOMAIN xs : ys[i].host = xs[i].host,
           NEW but, Unique(xs, but)
    PROVE  Unique(ys, but)
  BY DEF Unique

\* The more addresses are excepted, the better.
LEMMA UniqueBut ==
    ASSUME NEW hs, NEW but, NEW more, Unique(hs, but), but \subseteq more
    PROVE  Unique(hs, more)
  BY DEF Unique

LEMMA StepUnique ==
    ASSUME AddressInv, [Next]_vars
    PROVE  AllUnique'
  <1> USE DEF AddressInv, ListInv, AllUnique
  <1>1. CASE AddHosts
    <2>1. Unique(hosts', doubled)
      BY <1>1, BatchAdded DEF AddHosts, TypeOK
    <2>2. QED
      BY <1>1, <2>1 DEF AddHosts
  <1>2. CASE ScanLoad
    <2>1. doubled \subseteq doubled' /\ scan'.hosts = hosts /\ UNCHANGED <<hosts, arm>>
      BY <1>2 DEF ScanLoad
    <2>2. Unique(hosts, doubled') /\ Unique(arm.hosts, doubled')
      BY <2>1, UniqueBut
    <2>3. QED
      BY <2>1, <2>2 DEF Unique
  <1>3. CASE ScanFinish
    <2>1. PICK upgraded \in Reconciled(Filled(scan.hosts, scan.found), scan.found, scan.heard,
                                       Addresses(scan.hosts)) :
             hosts' \in {Deduplicated(upgraded, scan.found), hosts}
      BY <1>3 DEF ScanFinish
    <2>2. upgraded \in Seq(Entry) /\ Unique(upgraded, doubled)
      BY <2>1, ReconciledRows DEF TypeOK, SameRows
    <2>3. Unique(hosts', doubled)
      BY <2>1, <2>2, DeduplicatedRows
    <2>4. QED
      BY <1>3, <2>3, EmptyUnique DEF ScanFinish
  <1>4. CASE ScanFails
    BY <1>4, EmptyUnique DEF ScanFails
  <1>5. CASE ArmFinish
    <2> DEFINE row == arm.hosts[arm.target]
    <2>1. PICK m : hosts' = IF row.mac = None /\ m # None
                            THEN [arm.hosts EXCEPT ![arm.target].mac = m] ELSE hosts
      BY <1>5 DEF ArmFinish
    <2>2. \A i \in DOMAIN arm.hosts : arm.hosts[i] \in Entry
      BY DEF TypeOK
    <2>3. Unique([arm.hosts EXCEPT ![arm.target].mac = m], doubled)
      BY <2>2, SameAddresses DEF Entry
    <2>4. Unique(hosts', doubled)
      BY <2>1, <2>3
    <2>5. QED
      BY <1>5, <2>4, EmptyUnique DEF ArmFinish
  <1>6. CASE TornSave
    BY <1>6, EmptyUnique DEF TornSave, Dies
  <1>7. ASSUME NEW key \in Keys, RemoveHost(key)
        PROVE  AllUnique'
    <2> DEFINE i == FindHost(hosts, key)
    <2>1. i \in DOMAIN hosts /\ hosts \in Seq(Entry) /\ DOMAIN hosts = 1 .. Len(hosts) /\ Len(hosts) \in Nat
      BY <1>7, FoundIsRow DEF RemoveHost, TypeOK
    <2>2. hosts' = RemoveAt(hosts, i)
      BY <1>7 DEF RemoveHost
    <2> HIDE DEF i
    <2>3. /\ DOMAIN hosts' = 1 .. Len(hosts) - 1
          /\ \A k \in 1 .. Len(hosts) - 1 : hosts'[k] = hosts[IF k < i THEN k ELSE k + 1]
      <3>1. /\ hosts' \in Seq(Entry) /\ Len(hosts') = Len(hosts) - 1
            /\ \A k \in 1 .. Len(hosts) - 1 : hosts'[k] = hosts[IF k < i THEN k ELSE k + 1]
        BY <2>1, <2>2, RemoveAtShifts
      <3>2. DOMAIN hosts' = 1 .. Len(hosts')
        BY <3>1
      <3>3. QED
        BY <3>1, <3>2
    <2> DEFINE old(k) == IF k < i THEN k ELSE k + 1
    <2>4. \A k, l \in 1 .. Len(hosts) - 1 :
             old(k) \in DOMAIN hosts /\ old(l) \in DOMAIN hosts /\ (k # l => old(k) # old(l))
      BY <2>1
    <2>5. \A k \in 1 .. Len(hosts) - 1 : hosts'[k] = hosts[old(k)]
      BY <2>3
    <2> HIDE DEF old
    <2>6. Unique(hosts', doubled)
      BY <2>3, <2>4, <2>5 DEF Unique
    <2>7. QED
      BY <1>7, <2>6 DEF RemoveHost
  <1>8. ASSUME NEW key \in Keys, ArmByMac(key) \/ ArmLoad(key)
        PROVE  AllUnique'
    BY <1>8 DEF ArmByMac, ArmLoad
  <1>9. ASSUME NEW key \in Keys, NEW l \in Labels, UpdateName(key, Label(l))
        PROVE  AllUnique'
    <2> DEFINE i == FindHost(hosts, key)
    <2>1. hosts' = [hosts EXCEPT ![i].name = Label(l)]
      BY <1>9 DEF UpdateName
    <2>2. \A k \in DOMAIN hosts : hosts[k] \in Entry
      BY DEF TypeOK
    <2> HIDE DEF i
    <2>3. DOMAIN hosts' = DOMAIN hosts /\ \A k \in DOMAIN hosts : hosts'[k].host = hosts[k].host
      BY <2>1, <2>2 DEF Entry
    <2> HIDE DEF ListInv
    <2>4. Unique(hosts', doubled)
      BY <2>3, SameAddresses
    <2>5. QED
      BY <1>9, <2>4, EmptyUnique DEF UpdateName, Dies
  <1>10. ASSUME NEW m \in Macs, NEW l \in Labels, UpdateMachineName(m, Label(l))
         PROVE  AllUnique'
    <2> DEFINE renamed == [i \in DOMAIN hosts |->
                             IF hosts[i].mac = m THEN [hosts[i] EXCEPT !.name = Label(l)] ELSE hosts[i]]
    <2>1. \A i \in DOMAIN hosts : hosts[i] \in Entry
      BY DEF TypeOK
    <2>2. Unique(renamed, doubled)
      BY <2>1, SameAddresses DEF Entry
    <2>3. hosts' \in {renamed, hosts, <<>>}
      BY <1>10 DEF UpdateMachineName
    <2> HIDE DEF renamed
    <2>4. Unique(hosts', doubled)
      BY <2>2, <2>3, EmptyUnique
    <2>5. QED
      BY <1>10, <2>4, EmptyUnique DEF UpdateMachineName, Dies
  <1>11. ASSUME NEW macs \in SUBSET Macs, ApiImages(macs)
         PROVE  AllUnique'
    BY <1>11 DEF ApiImages
  <1>12. CASE UNCHANGED vars
    BY <1>12 DEF vars
  <1>13. QED
    BY <1>1, <1>2, <1>3, <1>4, <1>5, <1>6, <1>7, <1>8, <1>9, <1>10, <1>11, <1>12 DEF Next

LEMMA StepDoubles ==
    ASSUME AddressInv, [Next]_vars
    PROVE  (Doubles(scan.found, Addresses(scan.hosts)) \subseteq doubled)'
  <1>1. CASE ScanLoad
    BY <1>1 DEF ScanLoad
  <1>2. ASSUME doubled' = doubled, scan' \in {scan, NoScan}
        PROVE  (Doubles(scan.found, Addresses(scan.hosts)) \subseteq doubled)'
    BY <1>2, EmptyUnique DEF AddressInv
  <1>3. QED
    BY <1>1, <1>2
       DEF Next, AddHosts, ScanFinish, ScanFails, ArmFinish, TornSave, Dies, RemoveHost, ArmByMac, ArmLoad,
           UpdateName, UpdateMachineName, ApiImages, vars

\* An address names one row unless a sweep saw several machines there while no
\* row had it, whatever lists read before an await are written over newer ones
\* and wherever the machines move.
THEOREM AddressTheorem ==
    ASSUME UniqueStart
    PROVE  Spec => []UniqueAddresses
  <1>1. Init => AddressInv
    <2> SUFFICES ASSUME Init PROVE AddressInv
      OBVIOUS
    <2>1. AllUnique /\ Doubles(scan.found, Addresses(scan.hosts)) \subseteq doubled
      BY EmptyUnique DEF Init, UniqueStart, AllUnique
    <2>2. QED
      BY <2>1, InitTyped DEF AddressInv
  <1>2. AddressInv /\ [Next]_vars => AddressInv'
    BY StepTyped, StepUnique, StepDoubles DEF AddressInv
  <1>3. AddressInv => UniqueAddresses
    BY DEF AddressInv, AllUnique, UniqueAddresses
  <1>4. QED
    BY <1>1, <1>2, <1>3, PTL DEF Spec

-----------------------------------------------------------------------------
(* Names.                                                                  *)

LEMMA StepRemembered ==
    ASSUME ListInv, NameRemembered, [Next]_vars
    PROVE  NameRemembered'
  <1> USE DEF ListInv, TypeOK
  <1>1. None \notin GroupName
    BY HostListAssumption
  <1>2. \A kind \in FaultKinds : Fault(kind) =>
           faults'["disk"] = IF kind = "disk" THEN faults["disk"] + 1 ELSE faults["disk"]
    BY DEF Fault, FaultKinds
  <1>3. /\ faults["disk"] \in Nat
        /\ Fault("disk") => faults'["disk"] # 0
        /\ Dies => faults'["disk"] = faults["disk"]
    BY <1>2 DEF Dies, FaultKinds
  <1>4. ASSUME NEW m, NEW name, Captured(m, name), UNCHANGED <<chosen, faults>>, m \in Macs \cup {None}
        PROVE  NameRemembered'
    <2>1. \A x \in Macs : groups[x] # None /\ groups[x].source = "manual" => groups'[x] = groups[x]
      <3>1. CASE m # None /\ groups' = Remember(m, name, "auto")
        BY <1>4, <3>1 DEF Remember
      <3>2. QED
        BY <1>4, <3>1 DEF Captured
    <2>2. \A x \in Macs : chosen[x] # None => [name |-> chosen[x], source |-> "manual"] # None
      BY <1>1 DEF GroupName
    <2>3. QED
      BY <1>4, <2>1, <2>2 DEF NameRemembered
  <1>5. ASSUME UNCHANGED <<groups, chosen>>,
               faults' = faults \/ Fault("disk") \/ Dies
        PROVE  NameRemembered'
    BY <1>3, <1>5 DEF NameRemembered
  <1>6. CASE AddHosts \/ ScanLoad \/ ScanFinish \/ ScanFails \/ TornSave
    BY <1>5, <1>6 DEF AddHosts, ScanLoad, ScanFinish, ScanFails, TornSave
  <1>7. CASE ArmFinish
    <2> DEFINE row == arm.hosts[arm.target]
    <2>1. row \in Entry
      BY <1>7 DEF ArmFinish
    <2>2. row.mac \in Macs \cup {None}
      BY <2>1, EntryFields
    <2> HIDE DEF row
    <2>3. PICK m \in (IF row.mac # None THEN {row.mac} ELSE Macs \cup {None}) : Captured(m, row.name)
      BY <1>7 DEF ArmFinish, row
    <2>4. m \in Macs \cup {None} /\ UNCHANGED <<chosen, faults>>
      BY <1>7, <2>2, <2>3 DEF ArmFinish
    <2>5. QED
      BY <1>4, <2>3, <2>4
  <1>8. ASSUME NEW key \in Keys, ArmByMac(key) PROVE NameRemembered'
    <2>1. FindHost(hosts, key) \in DOMAIN hosts
      BY <1>8, FoundIsRow DEF ArmByMac
    <2>2. hosts[FindHost(hosts, key)].mac \in Macs \cup {None}
      BY <2>1, EntryFields
    <2>3. QED
      BY <1>4, <1>8, <2>2 DEF ArmByMac
  <1>9. ASSUME NEW key \in Keys, RemoveHost(key) \/ ArmLoad(key) PROVE NameRemembered'
    BY <1>5, <1>9 DEF RemoveHost, ArmLoad
  <1>10. ASSUME NEW key \in Keys, NEW l \in Labels, UpdateName(key, Label(l)) PROVE NameRemembered'
    <2> DEFINE m == hosts[FindHost(hosts, key)].mac
    <2>1. m \in Macs \cup {None}
      <3>1. FindHost(hosts, key) \in DOMAIN hosts
        BY <1>10, FoundIsRow DEF UpdateName
      <3>2. QED
        BY <3>1, EntryFields
    <2>2. \/ UNCHANGED <<groups, chosen>> /\ (faults' = faults \/ Dies)
          \/ /\ m # None /\ faults' = faults
             /\ groups' = Remember(m, Label(l), "manual")
             /\ chosen' = [chosen EXCEPT ![m] = Label(l)]
          \/ Fault("disk")
      BY <1>10 DEF UpdateName
    <2> HIDE DEF m
    <2>3. QED
      BY <1>3, <1>5, <2>1, <2>2 DEF NameRemembered, Remember
  <1>11. ASSUME NEW m \in Macs, NEW l \in Labels, UpdateMachineName(m, Label(l)) PROVE NameRemembered'
    <2>1. /\ groups' = [groups EXCEPT ![m] = [name |-> Label(l), source |-> "manual"]]
          /\ chosen' = [chosen EXCEPT ![m] = Label(l)]
          /\ faults' = faults \/ Fault("disk") \/ Dies
      BY <1>11 DEF UpdateMachineName
    <2>2. QED
      BY <1>3, <2>1 DEF NameRemembered
  <1>12. ASSUME NEW macs \in SUBSET Macs, ApiImages(macs) PROVE NameRemembered'
    <2>1. \A m \in Macs : groups[m] # None => groups'[m] = groups[m]
      BY <1>12 DEF ApiImages
    <2>2. chosen' = chosen /\ faults' = faults
      BY <1>12 DEF ApiImages
    <2>3. \A n : [name |-> n, source |-> "manual"] = None => n \notin Names
      BY <1>1 DEF GroupName
    <2>4. QED
      BY <2>1, <2>2, <2>3 DEF NameRemembered
  <1>13. CASE UNCHANGED vars
    BY <1>13 DEF vars, NameRemembered
  <1>14. QED
    BY <1>6, <1>7, <1>8, <1>9, <1>10, <1>11, <1>12, <1>13 DEF Next

\* A manual rename is never overwritten by a capture or a scan, however many
\* handlers are suspended with the old name.
THEOREM NamesTheorem == Spec => []NameRemembered
  <1>1. Init => NameRemembered
    BY DEF Init, NameRemembered
  <1>2. ListInv /\ NameRemembered /\ [Next]_vars => NameRemembered'
    BY StepRemembered
  <1>3. QED
    BY <1>1, <1>2, ListInvariant, PTL DEF Spec

\* A capture labels a group with a name that a row of its own MAC carries.
LEMMA CapturedOwn ==
    ASSUME NEW m \in Macs \cup {None}, NEW name, Captured(m, name), TypeOK,
           NEW x \in Macs, groups'[x] # groups[x]
    PROVE  m = x /\ m # None /\ groups'[x].name = name
  BY DEF Captured, Remember, TypeOK

\* A group never takes the name of another machine, though rows move between
\* machines while an arm holds an older list.
THEOREM LabelTheorem == Spec => LabelIsOwn
  <1> DEFINE Own == \A m \in Macs :
                        groups'[m] # groups[m] =>
                            \/ groups'[m].name = chosen'[m]
                            \/ \E row \in ToSet(hosts) \cup ToSet(hosts') \cup ToSet(arm.hosts) :
                                  row.mac = m /\ row.name = groups'[m].name
  <1>1. ListInv /\ [Next]_vars => [Own]_vars
    <2> SUFFICES ASSUME ListInv, Next, NEW x \in Macs, groups'[x] # groups[x]
                 PROVE  \/ groups'[x].name = chosen'[x]
                        \/ \E row \in ToSet(hosts) \cup ToSet(hosts') \cup ToSet(arm.hosts) :
                              row.mac = x /\ row.name = groups'[x].name
      OBVIOUS
    <2> USE DEF ListInv
    <2>1. CASE ArmFinish
      <3> DEFINE row == arm.hosts[arm.target]
      <3>1. row \in Entry /\ row \in ToSet(arm.hosts) /\ arm.target \in DOMAIN arm.hosts
        BY <2>1 DEF ArmFinish, TypeOK, ToSet
      <3>2. PICK m \in (IF row.mac # None THEN {row.mac} ELSE Macs \cup {None}) :
               /\ hosts' = IF row.mac = None /\ m # None
                           THEN [arm.hosts EXCEPT ![arm.target].mac = m] ELSE hosts
               /\ Captured(m, row.name)
        BY <2>1 DEF ArmFinish
      <3>3. m \in Macs \cup {None}
        BY <3>1, <3>2, EntryFields
      <3>4. m = x /\ m # None /\ groups'[x].name = row.name
        BY <3>2, <3>3, CapturedOwn
      <3>5. CASE row.mac # None
        BY <3>1, <3>2, <3>4, <3>5
      <3>6. CASE row.mac = None
        <4>1. hosts' = [arm.hosts EXCEPT ![arm.target].mac = m] /\ arm.hosts \in Seq(Entry)
          BY <3>2, <3>4, <3>6 DEF TypeOK
        <4>2. hosts'[arm.target] \in ToSet(hosts')
          BY <3>1, <4>1 DEF ToSet
        <4>3. hosts'[arm.target].mac = x /\ hosts'[arm.target].name = groups'[x].name
          BY <3>1, <3>4, <4>1 DEF Entry
        <4>4. QED
          BY <4>2, <4>3
      <3>7. QED
        BY <3>5, <3>6
    <2>2. ASSUME NEW key \in Keys, ArmByMac(key)
          PROVE  \E row \in ToSet(hosts) : row.mac = x /\ row.name = groups'[x].name
      <3> DEFINE i == FindHost(hosts, key)
      <3>1. i \in DOMAIN hosts
        BY <2>2, FoundIsRow DEF ArmByMac, TypeOK
      <3>2. Captured(hosts[i].mac, hosts[i].name)
        BY <2>2 DEF ArmByMac
      <3> HIDE DEF i
      <3>3. hosts[i].mac \in Macs \cup {None} /\ hosts[i] \in ToSet(hosts)
        BY <3>1, EntryFields DEF TypeOK, ToSet
      <3>4. QED
        BY <3>2, <3>3, CapturedOwn
    <2>3. ASSUME NEW macs \in SUBSET Macs, ApiImages(macs)
          PROVE  \E row \in ToSet(hosts) : row.mac = x /\ row.name = groups'[x].name
      <3> DEFINE i == LastRowOf(hosts, x)
      <3>1. i # 0 /\ groups'[x].name = hosts[i].name
        BY <2>3 DEF ApiImages
      <3>2. i \in DOMAIN hosts /\ hosts[i].mac = x
        BY <3>1, LastWithMac DEF TypeOK
      <3>3. QED
        BY <3>1, <3>2 DEF ToSet
    <2>4. ASSUME NEW key \in Keys, NEW l \in Labels, UpdateName(key, Label(l))
          PROVE  groups'[x].name = chosen'[x]
      <3> DEFINE m == hosts[FindHost(hosts, key)].mac
      <3>1. m \in Macs \cup {None}
        <4>1. FindHost(hosts, key) \in DOMAIN hosts
          BY <2>4, FoundIsRow DEF UpdateName, TypeOK
        <4>2. QED
          BY <4>1, EntryFields DEF TypeOK
      <3>2. m # None /\ groups' = Remember(m, Label(l), "manual") /\ chosen' = [chosen EXCEPT ![m] = Label(l)]
        BY <2>4 DEF UpdateName
      <3> HIDE DEF m
      <3>3. QED
        BY <3>1, <3>2 DEF Remember, TypeOK
    <2>5. ASSUME NEW m \in Macs, NEW l \in Labels, UpdateMachineName(m, Label(l))
          PROVE  groups'[x].name = chosen'[x]
      BY <2>5 DEF UpdateMachineName, TypeOK
    <2>6. CASE groups' = groups
      BY <2>6
    <2>7. QED
      BY <2>1, <2>2, <2>3, <2>4, <2>5, <2>6
         DEF Next, AddHosts, ScanLoad, ScanFinish, ScanFails, TornSave, RemoveHost, ArmLoad
  <1>2. QED
    BY <1>1, ListInvariant, PTL DEF Spec, LabelIsOwn

-----------------------------------------------------------------------------
(* What a scan may lose.                                                   *)

\* The row with the only manual name of its MAC wins, and where several have
\* one, all stay.
LEMMA NamedWins ==
    ASSUME NEW hs, NEW found, NEW i \in DOMAIN hs, ~IsAutoName(hs[i].name)
    PROVE  i \in Winners(hs, hs[i].mac, found)
  BY DEF Winners

\* A row whose MAC no other row has wins if it is online.
LEMMA OnlyWins ==
    ASSUME NEW hs, NEW found, NEW i \in DOMAIN hs, Online(hs[i], found),
           \A j \in DOMAIN hs : hs[j].mac = hs[i].mac => j = i
    PROVE  i \in Winners(hs, hs[i].mac, found)
  <1> DEFINE twins == {j \in DOMAIN hs : hs[j].mac = hs[i].mac}
             named == {j \in twins : ~IsAutoName(hs[j].name)}
             live  == {j \in twins : Online(hs[j], found)}
  <1>1. twins = {i} /\ live = {i}
    OBVIOUS
  <1>2. named = {} \/ named = {i}
    OBVIOUS
  <1>3. Cardinality({}) = 0
    BY FS_EmptySet
  <1>4. Winners(hs, hs[i].mac, found) = IF Cardinality(named) = 1 THEN named
                                        ELSE IF named = {} /\ Cardinality(live) = 1 THEN live
                                        ELSE twins
    BY DEF Winners
  <1> HIDE DEF twins, named, live
  <1>5. QED
    BY <1>1, <1>2, <1>3, <1>4

LEMMA NamedKept ==
    ASSUME NEW filled \in Seq(Entry), NEW found \in Sweep, NEW heard \in SUBSET Macs, NEW taken,
           NEW upgraded \in Reconciled(filled, found, heard, taken),
           NEW i \in DOMAIN filled, ~IsAutoName(filled[i].name), ~Swapped(filled, i, found)
    PROVE  \E row \in ToSet(Deduplicated(upgraded, found)) :
               row.mac = filled[i].mac /\ row.name = filled[i].name
  <1>1. PICK spot \in Spots(found, taken), told \in Tellings :
             upgraded = Upgraded(Moved(Replaced(filled, found, heard), found, taken, spot), heard, told)
    <2>1. ComesTo(upgraded, filled, found, heard, taken)
      BY ReconciledSteps
    <2>2. QED
      BY <2>1 DEF ComesTo
  <1> DEFINE replaced == Replaced(filled, found, heard)
             moved    == Moved(replaced, found, taken, spot)
  <1>2. replaced \in Seq(Entry) /\ DOMAIN replaced = DOMAIN filled /\ replaced[i] = filled[i]
    BY ReplacedRows DEF SameRows
  <1> HIDE DEF replaced
  <1>3. /\ moved \in Seq(Entry) /\ DOMAIN moved = DOMAIN replaced
        /\ moved[i].mac = filled[i].mac /\ moved[i].name = filled[i].name
    BY <1>2, MovedRows DEF SameRows
  <1> HIDE DEF moved
  <1>4. upgraded \in Seq(Entry) /\ DOMAIN upgraded = DOMAIN moved /\ upgraded[i] = moved[i]
    BY <1>1, <1>2, <1>3, UpgradedRows DEF SameRows, moved, replaced
  <1>5. i \in DOMAIN upgraded /\ ~IsAutoName(upgraded[i].name)
    BY <1>2, <1>3, <1>4
  <1>6. upgraded[i] \in ToSet(Deduplicated(upgraded, found))
    BY <1>4, <1>5, NamedWins, DeduplicatedRows
  <1>7. QED
    BY <1>3, <1>4, <1>6

\* Only its own last step ends a scan, but for a fault.
LEMMA ScanEndsBy ==
    ASSUME ListInv, Next, ScanEnds
    PROVE  ScanFinish
  <1>1. \A kind \in FaultKinds : ~Fault(kind)
    BY DEF ListInv, TypeOK, ScanEnds, Fault
  <1>2. ~Fault("disk") /\ ~Dies
    BY <1>1 DEF Dies, FaultKinds
  <1>3. QED
    BY <1>2 DEF Next, ScanEnds, AddHosts, ScanLoad, ScanFails, ArmFinish, TornSave, RemoveHost, ArmByMac,
                ArmLoad, UpdateName, UpdateMachineName, ApiImages

\* The removal of duplicates takes no manual name away from a machine.
THEOREM NamedTheorem == Spec => NamedSurvivesDedup
  <1> DEFINE Kept == ScanEnds /\ hosts' # hosts =>
                         LET filled == Filled(scan.hosts, scan.found) IN
                         \A i \in DOMAIN filled :
                             ~IsAutoName(filled[i].name) /\ ~Swapped(filled, i, scan.found)
                             => \E row \in ToSet(hosts') :
                                   row.mac = filled[i].mac /\ row.name = filled[i].name
  <1>1. ListInv /\ [Next]_vars => [Kept]_vars
    <2> SUFFICES ASSUME ListInv, Next, ScanEnds, hosts' # hosts PROVE Kept
      OBVIOUS
    <2>1. ScanFinish
      BY ScanEndsBy
    <2>2. PICK upgraded \in Reconciled(Filled(scan.hosts, scan.found), scan.found, scan.heard,
                                       Addresses(scan.hosts)) :
             hosts' = Deduplicated(upgraded, scan.found)
      BY <2>1 DEF ScanFinish
    <2>3. scan.hosts \in Seq(Entry) /\ scan.found \in Sweep /\ scan.heard \in SUBSET Macs
      BY DEF ListInv, TypeOK
    <2>4. Filled(scan.hosts, scan.found) \in Seq(Entry)
      BY <2>3, FilledRows DEF SameRows
    <2>5. QED
      BY <2>2, <2>3, <2>4, NamedKept
  <1>2. QED
    BY <1>1, ListInvariant, PTL DEF Spec, NamedSurvivesDedup

\* Row i is known by a MAC that no other row has, and that MAC answers, at
\* addresses that no row has.
Alone(hs, i, found) ==
    /\ i \in DOMAIN hs /\ hs[i].mac # None /\ hs[i].host = None
    /\ \A j \in DOMAIN hs \ {i} : hs[j].mac # hs[i].mac
    /\ \A ip \in Addresses(hs) : hs[i].mac \notin found[ip].macs
    /\ \E ip \in IPs : hs[i].mac \in found[ip].macs

\* A row that is known by its MAC alone moves to where that MAC answers, and
\* survives: no other row has its MAC then.
LEMMA AloneFilled ==
    ASSUME NEW hs \in Seq(Entry), NEW found \in Sweep, NEW heard \in SUBSET Macs,
           NEW upgraded \in Reconciled(Filled(hs, found), found, heard, Addresses(hs)),
           NEW i, Alone(hs, i, found)
    PROVE  /\ \E row \in ToSet(Deduplicated(upgraded, found)) :
                  row.mac = hs[i].mac /\ row.host # None /\ hs[i].mac \in found[row.host].macs
           /\ \A row \in ToSet(Filled(hs, found)) : row.mac = hs[i].mac => row.host = None
  <1> DEFINE m        == hs[i].mac
             taken    == Addresses(hs)
             filled   == Filled(hs, found)
             replaced == Replaced(filled, found, heard)
  <1>0. /\ i \in DOMAIN hs /\ m # None /\ hs[i].host = None
        /\ \A j \in DOMAIN hs \ {i} : hs[j].mac # m
        /\ \A ip \in taken : m \notin found[ip].macs
        /\ \E ip \in IPs : m \in found[ip].macs
    BY DEF Alone
  <1>1. \A j \in DOMAIN hs : hs[j].host # None => hs[j].host \in taken /\ m \notin found[hs[j].host].macs
    BY <1>0 DEF Addresses
  <1>2. filled \in Seq(Entry) /\ DOMAIN filled = DOMAIN hs /\ filled[i] = hs[i]
    BY <1>0, FilledRows DEF SameRows
  <1>3. \A j \in DOMAIN hs \ {i} : filled[j].mac # m /\ filled[j].host = hs[j].host
    <2>1. ASSUME NEW j \in DOMAIN hs \ {i} PROVE filled[j].mac # m /\ filled[j].host = hs[j].host
      <3>1. CASE ~(ByIp(hs, j) /\ hs[j].mac = None)
        BY <1>0, <3>1, FilledRows
      <3>2. CASE ByIp(hs, j) /\ hs[j].mac = None
        <4>1. hs[j].host \in IPs /\ m \notin found[hs[j].host].macs
          BY <1>1, <3>2, EntryFields DEF ByIp
        <4>2. found[hs[j].host].last # m
          BY <1>0, <4>1, LastAnswers
        <4>3. QED
          BY <3>2, <4>2, FilledRows
      <3>3. QED
        BY <3>1, <3>2
    <2>2. QED
      BY <2>1
  <1>4. \A row \in ToSet(filled) : row.mac = m => row.host = None
    BY <1>0, <1>2, <1>3 DEF ToSet
  <1>5. PICK spot \in Spots(found, taken), told \in Tellings :
             upgraded = Upgraded(Moved(replaced, found, taken, spot), heard, told)
    <2>1. upgraded \in Reconciled(filled, found, heard, taken)
      OBVIOUS
    <2>2. ComesTo(upgraded, filled, found, heard, taken)
      BY <1>2, <2>1, ReconciledSteps
    <2>3. QED
      BY <2>2 DEF ComesTo
  <1> HIDE DEF filled
  <1>6. replaced \in Seq(Entry) /\ DOMAIN replaced = DOMAIN hs /\ replaced[i] = hs[i]
    BY <1>0, <1>2, ReplacedRows DEF SameRows, Swapped, ByIp
  <1>7. \A j \in DOMAIN hs \ {i} : replaced[j].mac # m
    <2>1. ASSUME NEW j \in DOMAIN hs \ {i} PROVE replaced[j].mac # m
      <3>1. CASE Swapped(filled, j, found)
        BY <1>1, <1>2, <1>3, <3>1, ReplacedRows
      <3>2. CASE ~Swapped(filled, j, found)
        BY <1>2, <1>3, <3>2, ReplacedRows
      <3>3. QED
        BY <3>1, <3>2
    <2>2. QED
      BY <2>1
  <1> DEFINE moved == Moved(replaced, found, taken, spot)
  <1> HIDE DEF replaced
  <1>8. Moves(replaced, i, found, taken)
    <2>1. PICK ip \in IPs : m \in found[ip].macs
      BY <1>0
    <2>2. ip \in FreeSpots(m, found, taken)
      BY <1>0, <2>1 DEF FreeSpots
    <2>3. \A j \in 1 .. i - 1 : j \in DOMAIN hs \ {i}
      BY <1>0
    <2>4. QED
      BY <1>0, <1>6, <1>7, <2>2, <2>3 DEF Moves
  <1>9. /\ moved \in Seq(Entry) /\ DOMAIN moved = DOMAIN hs
        /\ moved[i].mac = m /\ moved[i].host \in IPs /\ m \in found[moved[i].host].macs
        /\ \A j \in DOMAIN hs \ {i} : moved[j].mac # m
    BY <1>0, <1>6, <1>7, <1>8, MovedRows DEF SameRows
  <1> HIDE DEF moved
  <1>10. /\ upgraded \in Seq(Entry) /\ DOMAIN upgraded = DOMAIN hs
         /\ \A j \in DOMAIN hs : upgraded[j].mac = moved[j].mac /\ upgraded[j].host = moved[j].host
    BY <1>5, <1>6, <1>9, UpgradedRows DEF SameRows, moved
  <1>11. upgraded[i].mac = m /\ upgraded[i].host # None /\ m \in found[upgraded[i].host].macs
    BY <1>0, <1>9, <1>10, HostListAssumption
  <1>12. i \in Winners(upgraded, upgraded[i].mac, found)
    <2>1. Online(upgraded[i], found)
      BY <1>0, <1>11 DEF Online, Silence
    <2>2. \A j \in DOMAIN upgraded : upgraded[j].mac = upgraded[i].mac => j = i
      BY <1>0, <1>9, <1>10
    <2>3. QED
      BY <1>0, <1>10, <2>1, <2>2, OnlyWins
  <1>13. upgraded[i] \in ToSet(Deduplicated(upgraded, found))
    BY <1>0, <1>10, <1>12, DeduplicatedRows
  <1>14. QED
    BY <1>4, <1>11, <1>13 DEF filled

\* A device added by its MAC alone gets the address at which a scan sees it,
\* and the scan saves it.
THEOREM AddressFilledTheorem == Spec => AddressFilled
  <1> DEFINE Fills == ScanEnds =>
                 \A i \in DOMAIN scan.hosts :
                     LET m == scan.hosts[i].mac IN
                     /\ m # None /\ scan.hosts[i].host = None
                     /\ \A j \in DOMAIN scan.hosts \ {i} : scan.hosts[j].mac # m
                     /\ \A ip \in Addresses(scan.hosts) : m \notin scan.found[ip].macs
                     /\ \E ip \in IPs : m \in scan.found[ip].macs
                     => \E row \in ToSet(hosts') :
                           row.mac = m /\ row.host # None /\ m \in scan.found[row.host].macs
  <1>1. ListInv /\ [Next]_vars => [Fills]_vars
    <2> SUFFICES ASSUME ListInv, Next, ScanEnds PROVE Fills
      OBVIOUS
    <2> DEFINE filled == Filled(scan.hosts, scan.found)
    <2>1. ScanFinish
      BY ScanEndsBy
    <2>2. PICK upgraded \in Reconciled(filled, scan.found, scan.heard, Addresses(scan.hosts)) :
             Deduplicated(upgraded, scan.found) # filled => hosts' = Deduplicated(upgraded, scan.found)
      BY <2>1 DEF ScanFinish, WorthSaving
    <2>3. scan.hosts \in Seq(Entry) /\ scan.found \in Sweep /\ scan.heard \in SUBSET Macs
      BY DEF ListInv, TypeOK
    <2>4. ASSUME NEW i, Alone(scan.hosts, i, scan.found)
          PROVE  \E row \in ToSet(hosts') :
                     /\ row.mac = scan.hosts[i].mac /\ row.host # None
                     /\ scan.hosts[i].mac \in scan.found[row.host].macs
      <3>1. /\ \E row \in ToSet(Deduplicated(upgraded, scan.found)) :
                  /\ row.mac = scan.hosts[i].mac /\ row.host # None
                  /\ scan.hosts[i].mac \in scan.found[row.host].macs
            /\ \A row \in ToSet(filled) : row.mac = scan.hosts[i].mac => row.host = None
        BY <2>3, <2>4, AloneFilled
      <3>2. Deduplicated(upgraded, scan.found) # filled
        BY <3>1
      <3>3. QED
        BY <2>2, <3>1, <3>2
    <2>5. QED
      BY <2>4 DEF Alone
  <1>2. QED
    BY <1>1, ListInvariant, PTL DEF Spec, AddressFilled
=============================================================================
