---------------------------- MODULE BackupsProofs ----------------------------
(***************************************************************************)
(* Proofs about Backups, for any number of groups, images, answers under   *)
(* way and clicks: its type, the order of the versions, whose images a     *)
(* restore offers, and whose name is saved.                                *)
(***************************************************************************)
EXTENDS Backups, ListsProofs

-----------------------------------------------------------------------------
(* Types.                                                                  *)

Requests == [what : {"rename"}, mac : Macs, text : Macs] \cup [what : {"delete"}, image : Image]

Openings == [host : Macs, preset : Image \cup {None}, asked : BOOLEAN,
             selected : Image \cup {None}, clicked : BOOLEAN]

Elements(n) == [shown : BOOLEAN, enabled : BOOLEAN, list : 0 .. n, onclick : 0 .. n]

Listing == {list \in Seq(Image) : IsInjective(list)}

\* The ids on both drives are of images begun; what is copied is of the old one.
StoreTyped ==
    /\ store \in Listing /\ old \in Listing
    /\ begun \in 0 .. MaxImages
    /\ \A img \in ToSet(store) \cup ToSet(old) : img.id <= begun
    /\ writing \subseteq Image /\ deleting \subseteq damaged /\ damaged \subseteq Image
    /\ todo \subseteq ToSet(old) /\ copying \in ToSet(old) \cup {None} /\ partial \subseteq Image

NamesTyped == label \in [Macs -> Macs \cup {None}] /\ sent \subseteq Requests

RowsTyped ==
    /\ table \in Listing /\ fetches \in Seq(Listing)
    /\ editor \in Groups(table) \cup {None}
    /\ renaming \in Macs \cup {None}

\* The elements of the dialog belong to an opening, of which there are no more
\* than clicks.
PickerTyped ==
    /\ openings \in Seq(Openings)
    /\ clicks \in 0 .. MaxClicks /\ Len(openings) <= clicks
    /\ dialog \in Elements(Len(openings))

BackupsTyped == StoreTyped /\ NamesTyped /\ RowsTyped /\ PickerTyped

LEMMA Listed ==
    ASSUME NEW list \in Listing
    PROVE  /\ list \in Seq(Image) /\ IsInjective(list)
           /\ \A img \in ToSet(list) : img \in Image /\ img.mac \in Macs /\ img.id \in Nat
  <1>1. list \in Seq(Image) /\ IsInjective(list)
    BY DEF Listing
  <1>2. \A img \in ToSet(list) : img \in Image
    BY <1>1 DEF ToSet
  <1>3. \A img \in Image : img.mac \in Macs /\ img.id \in Nat
    BY BackupsAssumption DEF Image
  <1>4. QED
    BY <1>1, <1>2, <1>3

LEMMA ElementsGrow ==
    ASSUME NEW n \in Nat, NEW d \in Elements(n)
    PROVE  d \in Elements(n + 1)
  <1>1. 0 .. n \subseteq 0 .. n + 1
    OBVIOUS
  <1>2. QED
    BY <1>1 DEF Elements

LEMMA ElementsKept ==
    ASSUME NEW n \in Nat, NEW d \in Elements(n)
    PROVE  /\ [d EXCEPT !.shown = FALSE] \in Elements(n)
           /\ [d EXCEPT !.enabled = TRUE] \in Elements(n)
           /\ [d EXCEPT !.list = 0] \in Elements(n)
           /\ [d EXCEPT !.shown = TRUE, !.enabled = FALSE, !.list = 0] \in Elements(n)
           /\ d.list # 0 => d.list \in 1 .. n
           /\ \A o \in 0 .. n :
                /\ [d EXCEPT !.list = 0, !.onclick = o] \in Elements(n)
                /\ [d EXCEPT !.list = o, !.onclick = o] \in Elements(n)
                /\ [d EXCEPT !.list = o, !.onclick = o, !.enabled = TRUE] \in Elements(n)
  <1>0. ASSUME NEW o \in 0 .. n, NEW p \in 0 .. n, NEW b \in BOOLEAN, NEW c \in BOOLEAN
        PROVE  [d EXCEPT !.shown = b, !.enabled = c, !.list = o] \in Elements(n)
    BY DEF Elements
  <1>1. [d EXCEPT !.shown = FALSE] \in Elements(n)
    BY DEF Elements
  <1>2. [d EXCEPT !.enabled = TRUE] \in Elements(n)
    BY DEF Elements
  <1>3. [d EXCEPT !.list = 0] \in Elements(n)
    BY DEF Elements
  <1>4. d.list # 0 => d.list \in 1 .. n
    BY DEF Elements
  <1>5. 0 \in 0 .. n
    OBVIOUS
  <1>6. [d EXCEPT !.shown = TRUE, !.enabled = FALSE, !.list = 0] \in Elements(n)
    BY <1>0, <1>5
  <1>7. ASSUME NEW o \in 0 .. n
        PROVE  [d EXCEPT !.list = 0, !.onclick = o] \in Elements(n)
    <2>1. [d EXCEPT !.list = 0, !.onclick = o] = [[d EXCEPT !.list = 0] EXCEPT !.onclick = o]
      BY DEF Elements
    <2>2. QED
      BY <1>3, <2>1 DEF Elements
  <1>8. ASSUME NEW o \in 0 .. n
        PROVE  [d EXCEPT !.list = o, !.onclick = o] \in Elements(n)
    BY DEF Elements
  <1>9. ASSUME NEW o \in 0 .. n
        PROVE  [d EXCEPT !.list = o, !.onclick = o, !.enabled = TRUE] \in Elements(n)
    BY DEF Elements
  <1>10. QED
    BY <1>1, <1>2, <1>3, <1>4, <1>6, <1>7, <1>8, <1>9

LEMMA Unchanged ==
    ASSUME BackupsTyped
    PROVE  /\ UNCHANGED <<images, copies>> => StoreTyped'
           /\ UNCHANGED <<label, sent>> => NamesTyped'
           /\ UNCHANGED rows => RowsTyped'
           /\ UNCHANGED <<picker, clicks>> => PickerTyped'
  <1>1. UNCHANGED <<images, copies>> => StoreTyped'
    BY DEF images, copies, BackupsTyped, StoreTyped
  <1>2. UNCHANGED <<label, sent>> => NamesTyped'
    BY DEF BackupsTyped, NamesTyped
  <1>3. UNCHANGED rows => RowsTyped'
    BY DEF rows, BackupsTyped, RowsTyped
  <1>4. UNCHANGED <<picker, clicks>> => PickerTyped'
    BY DEF picker, BackupsTyped, PickerTyped
  <1>5. QED
    BY <1>1, <1>2, <1>3, <1>4

LEMMA TypedIsTypeOK ==
    ASSUME BackupsTyped
    PROVE  TypeOK
  <1> USE DEF BackupsTyped, StoreTyped, NamesTyped, RowsTyped, PickerTyped, Listing
  <1>1. \A q \in sent : q.what \in {"rename", "delete"}
    BY DEF Requests
  <1>2. \A list \in {table} \cup ToSet(fetches) : list \in Seq(Image) /\ IsInjective(list)
    BY DEF ToSet
  <1>3. \A o \in DOMAIN openings :
            /\ openings[o].host \in Macs
            /\ openings[o].preset \in Image \cup {None}
            /\ openings[o].selected \in Image \cup {None}
    <2>1. \A o \in DOMAIN openings : openings[o] \in Openings
      OBVIOUS
    <2>2. QED
      BY <2>1 DEF Openings
  <1>4. 0 .. Len(openings) \subseteq Ids
    BY BackupsAssumption DEF Ids
  <1>5. dialog \in [shown : BOOLEAN, enabled : BOOLEAN, list : Ids, onclick : Ids]
    BY <1>4 DEF Elements
  <1>6. QED
    BY <1>1, <1>2, <1>3, <1>5 DEF TypeOK

LEMMA InitTyped ==
    ASSUME Init
    PROVE  BackupsTyped
  <1> DEFINE first == [mac |-> CHOOSE m \in Macs : TRUE, id |-> 1]
  <1>1. first \in Image
    BY BackupsAssumption DEF Image
  <1>2. store = <<first>> /\ first.id = 1
    BY DEF Init
  <1> HIDE DEF first
  <1>3. store \in Listing /\ \A img \in ToSet(store) : img.id <= 1
    BY <1>1, <1>2 DEF Listing, IsInjective, ToSet
  <1>4. /\ <<>> \in Listing /\ <<>> \in Seq(Listing) /\ <<>> \in Seq(Openings)
        /\ ToSet(<<>>) = {}
    BY DEF Listing, IsInjective, ToSet
  <1>5. QED
    BY <1>3, <1>4, BackupsAssumption DEF Init, BackupsTyped, StoreTyped, NamesTyped, RowsTyped, PickerTyped, Elements

\* What keeps the store a listing of images begun.
LEMMA TouchedTyped ==
    ASSUME StoreTyped, NEW img \in ToSet(store) \cup ToSet(old)
    PROVE  /\ Touched(img) \in Listing
           /\ ToSet(Touched(img)) = ToSet(store) \cup {img}
           /\ img \in Image
  <1>1. store \in Seq(Image) /\ IsInjective(store) /\ old \in Seq(Image)
    BY DEF StoreTyped, Listing
  <1>2. img \in Image
    BY <1>1 DEF ToSet
  <1>3. /\ Without(store, img) \in Seq(Image)
        /\ IsInjective(Without(store, img))
        /\ ToSet(Without(store, img)) = ToSet(store) \ {img}
    BY <1>1, WithoutKeeps
  <1>4. /\ Touched(img) \in Seq(Image)
        /\ ToSet(Touched(img)) = (ToSet(store) \ {img}) \cup {img}
        /\ IsInjective(Touched(img))
    BY <1>2, <1>3, AppendAdds DEF Touched
  <1>5. QED
    BY <1>2, <1>4 DEF Listing

LEMMA StoreShrinks ==
    ASSUME StoreTyped, NEW img
    PROVE  /\ Without(store, img) \in Listing
           /\ ToSet(Without(store, img)) = ToSet(store) \ {img}
  <1>1. store \in Seq(Image) /\ IsInjective(store)
    BY DEF StoreTyped, Listing
  <1>2. QED
    BY <1>1, WithoutKeeps DEF Listing

\* After a copy the images with their old times stand first, in the order of
\* the old drive, and the others follow in the order of the store.
Copied == Picked(old, {i \in DOMAIN old : old[i] \in Dated})
Others == Picked(store, {i \in DOMAIN store : store[i] \notin Dated})

LEMMA CopiedTyped ==
    ASSUME StoreTyped
    PROVE  /\ Copied \in Seq(Image) /\ IsInjective(Copied)
           /\ \A k \in DOMAIN Copied : Copied[k] \in Dated
           /\ \A k, l \in DOMAIN Copied : k < l =>
                \E i, j \in DOMAIN old : i < j /\ Copied[k] = old[i] /\ Copied[l] = old[j]
           /\ Others \in Seq(Image) /\ IsInjective(Others)
           /\ \A k \in DOMAIN Others : Others[k] \in ToSet(store) \ Dated
           /\ \A k, l \in DOMAIN Others : k < l =>
                \E i, j \in DOMAIN store : i < j /\ Others[k] = store[i] /\ Others[l] = store[j]
  <1> DEFINE kept == {i \in DOMAIN old : old[i] \in Dated}
             rest == {i \in DOMAIN store : store[i] \notin Dated}
  <1>1. /\ old \in Seq(Image) /\ IsInjective(old)
        /\ store \in Seq(Image) /\ IsInjective(store)
    BY DEF StoreTyped, Listing
  <1>2. /\ kept \in SUBSET DOMAIN old /\ \A i \in kept : old[i] \in Dated
        /\ rest \in SUBSET DOMAIN store /\ \A i \in rest : store[i] \in ToSet(store) \ Dated
    BY DEF ToSet
  <1>3. Copied = Picked(old, kept) /\ Others = Picked(store, rest)
    BY DEF Copied, Others
  <1> HIDE DEF kept, rest
  <1>4. /\ Copied \in Seq(Image) /\ IsInjective(Copied)
        /\ \A k \in DOMAIN Copied : \E i \in kept : Copied[k] = old[i]
        /\ \A k, l \in DOMAIN Copied : k < l =>
             \E i, j \in kept : i < j /\ Copied[k] = old[i] /\ Copied[l] = old[j]
    BY <1>1, <1>2, <1>3, PickedKeeps, PickedInjective
  <1>5. /\ Others \in Seq(Image) /\ IsInjective(Others)
        /\ \A k \in DOMAIN Others : \E i \in rest : Others[k] = store[i]
        /\ \A k, l \in DOMAIN Others : k < l =>
             \E i, j \in rest : i < j /\ Others[k] = store[i] /\ Others[l] = store[j]
    BY <1>1, <1>2, <1>3, PickedKeeps, PickedInjective
  <1>6. QED
    BY <1>2, <1>4, <1>5

LEMMA JoinedTyped ==
    ASSUME NEW first \in Seq(Image), NEW second \in Seq(Image), IsInjective(first), IsInjective(second),
           \A k \in DOMAIN first, l \in DOMAIN second : first[k] # second[l]
    PROVE  /\ first \o second \in Listing
           /\ ToSet(first \o second) = ToSet(first) \cup ToSet(second)
           /\ \A i \in DOMAIN (first \o second) :
                \/ i \in DOMAIN first /\ (first \o second)[i] = first[i]
                \/ /\ i > Len(first) /\ i - Len(first) \in DOMAIN second
                   /\ (first \o second)[i] = second[i - Len(first)]
  <1> DEFINE both == first \o second
             n    == Len(first)
  <1>1. /\ both \in Seq(Image) /\ n \in Nat /\ DOMAIN first = 1 .. n
        /\ DOMAIN both = 1 .. n + Len(second)
        /\ \A i \in 1 .. n : both[i] = first[i]
        /\ \A i \in 1 .. Len(second) : both[n + i] = second[i]
    OBVIOUS
  <1>2. \A i \in DOMAIN both :
            \/ i \in DOMAIN first /\ both[i] = first[i]
            \/ i > n /\ i - n \in DOMAIN second /\ both[i] = second[i - n]
    OBVIOUS
  <1>3. \A i \in DOMAIN second : n + i \in DOMAIN both /\ both[n + i] = second[i]
    BY <1>1
  <1>4. \A i \in DOMAIN first : i \in DOMAIN both /\ both[i] = first[i]
    BY <1>1
  <1>5. DOMAIN both \subseteq Nat
    BY <1>1
  <1> HIDE DEF both, n
  <1>6. IsInjective(both)
    <2>1. SUFFICES ASSUME NEW i \in DOMAIN both, NEW j \in DOMAIN both, both[i] = both[j]
                   PROVE  i = j
      BY DEF IsInjective
    <2>2. CASE i \in DOMAIN first /\ both[i] = first[i] /\ j \in DOMAIN first /\ both[j] = first[j]
      BY <2>1, <2>2 DEF IsInjective
    <2>3. CASE /\ i - n \in DOMAIN second /\ both[i] = second[i - n]
               /\ j - n \in DOMAIN second /\ both[j] = second[j - n]
      <3>1. i - n = j - n
        BY <2>1, <2>3 DEF IsInjective
      <3>2. QED
        BY <1>1, <1>5, <3>1
    <2>4. QED
      BY <1>2, <2>1, <2>2, <2>3
  <1>7. ToSet(both) = ToSet(first) \cup ToSet(second)
    BY <1>2, <1>3, <1>4 DEF ToSet
  <1>8. QED
    BY <1>1, <1>2, <1>6, <1>7 DEF both, n, Listing

LEMMA CopyEndsTyped ==
    ASSUME StoreTyped
    PROVE  /\ Copied \o Others \in Listing
           /\ ToSet(Copied \o Others) \subseteq ToSet(store)
           /\ \A i \in DOMAIN (Copied \o Others) :
                \/ i \in DOMAIN Copied /\ (Copied \o Others)[i] = Copied[i]
                \/ /\ i > Len(Copied) /\ i - Len(Copied) \in DOMAIN Others
                   /\ (Copied \o Others)[i] = Others[i - Len(Copied)]
  <1> DEFINE first == Copied
             second == Others
             both == first \o second
  <1>1. /\ first \in Seq(Image) /\ second \in Seq(Image) /\ IsInjective(first) /\ IsInjective(second)
        /\ \A k \in DOMAIN first : first[k] \in Dated
        /\ \A k \in DOMAIN second : second[k] \in ToSet(store) \ Dated
    BY CopiedTyped
  <1> HIDE DEF first, second
  <1>2. /\ both \in Listing /\ ToSet(both) = ToSet(first) \cup ToSet(second)
        /\ \A i \in DOMAIN both :
             \/ i \in DOMAIN first /\ both[i] = first[i]
             \/ i > Len(first) /\ i - Len(first) \in DOMAIN second /\ both[i] = second[i - Len(first)]
    BY <1>1, JoinedTyped
  <1>3. ToSet(first) \subseteq ToSet(store) /\ ToSet(second) \subseteq ToSet(store)
    BY <1>1 DEF ToSet, Dated
  <1>4. QED
    BY <1>2, <1>3 DEF first, second

LEMMA OpeningTyped ==
    ASSUME PickerTyped, NEW o \in DOMAIN openings, NEW img \in Image \cup {None}
    PROVE  /\ Selected(o, img, TRUE) \in Seq(Openings)
           /\ Len(Selected(o, img, TRUE)) = Len(openings)
           /\ Selected(o, img, FALSE) \in Seq(Openings)
           /\ Len(Selected(o, img, FALSE)) = Len(openings)
           /\ [openings EXCEPT ![o].asked = FALSE] \in Seq(Openings)
           /\ Len([openings EXCEPT ![o].asked = FALSE]) = Len(openings)
  <1> DEFINE answered == [openings[o] EXCEPT !.asked = FALSE]
             clicked  == [openings[o] EXCEPT !.selected = img, !.asked = FALSE, !.clicked = @ \/ TRUE]
             preset   == [openings[o] EXCEPT !.selected = img, !.asked = FALSE, !.clicked = @ \/ FALSE]
  <1>1. openings \in Seq(Openings) /\ openings[o] \in Openings
    BY DEF PickerTyped
  <1>2. answered \in Openings /\ clicked \in Openings /\ preset \in Openings
    BY <1>1 DEF Openings
  <1>3. /\ Selected(o, img, TRUE) = [openings EXCEPT ![o] = clicked]
        /\ Selected(o, img, FALSE) = [openings EXCEPT ![o] = preset]
        /\ [openings EXCEPT ![o].asked = FALSE] = [openings EXCEPT ![o] = answered]
    BY <1>1 DEF Selected
  <1> HIDE DEF answered, clicked, preset
  <1>4. /\ [openings EXCEPT ![o] = clicked] \in Seq(Openings)
        /\ Len([openings EXCEPT ![o] = clicked]) = Len(openings)
    BY <1>1, <1>2
  <1>5. /\ [openings EXCEPT ![o] = preset] \in Seq(Openings)
        /\ Len([openings EXCEPT ![o] = preset]) = Len(openings)
    BY <1>1, <1>2
  <1>6. /\ [openings EXCEPT ![o] = answered] \in Seq(Openings)
        /\ Len([openings EXCEPT ![o] = answered]) = Len(openings)
    BY <1>1, <1>2
  <1>7. QED
    BY <1>3, <1>4, <1>5, <1>6

\* What an opening selects beforehand is an image of its store.
LEMMA PresetTyped ==
    ASSUME StoreTyped, NEW o \in DOMAIN openings, Preset(o) # {}
    PROVE  (CHOOSE img \in Preset(o) : TRUE) \in ToSet(store) \cap Image
  <1> DEFINE keep == {i \in DOMAIN store : store[i].mac = openings[o].host}
             own == Picked(store, keep)
  <1>1. store \in Seq(Image)
    BY DEF StoreTyped, Listing
  <1>2. /\ keep \in SUBSET DOMAIN store
        /\ own \in Seq(Image) /\ \A k \in DOMAIN own : \E i \in keep : own[k] = store[i]
    <2>1. keep \in SUBSET DOMAIN store
      OBVIOUS
    <2> HIDE DEF keep
    <2>2. QED
      BY <1>1, <2>1, PickedKeeps
  <1>3. own # <<>> => Last(own) \in ToSet(store)
    <2> HIDE DEF own
    <2>1. own # <<>> => Len(own) \in DOMAIN own
      BY <1>2
    <2>2. QED
      BY <1>2, <2>1 DEF Last, ToSet
  <1>4. Of(openings[o].host, store) = own
    BY DEF Of
  <1> HIDE DEF own
  <1>5. Preset(o) \subseteq ToSet(store)
    BY <1>3, <1>4 DEF Preset
  <1>6. ToSet(store) \subseteq Image
    BY <1>1 DEF ToSet
  <1>7. QED
    BY <1>5, <1>6

LEMMA StoreStep ==
    ASSUME BackupsTyped, [Next]_vars
    PROVE  StoreTyped'
  <1>0. StoreTyped
    BY DEF BackupsTyped
  <1>1. ASSUME NEW m \in Macs, Begin(m) PROVE StoreTyped'
    <2> DEFINE img == [mac |-> m, id |-> begun + 1]
    <2>1. begun' = begun + 1 /\ begun' \in 0 .. MaxImages /\ img \in Image
      BY <1>0, <1>1, BackupsAssumption DEF Begin, StoreTyped, Image
    <2>2. store' = Append(store, img) /\ writing' = {w \in writing : w.mac # m} \cup {img}
      BY <1>1 DEF Begin
    <2>3. img.id = begun + 1
      OBVIOUS
    <2> HIDE DEF img
    <2>4. store \in Seq(Image) /\ IsInjective(store)
      BY <1>0 DEF StoreTyped, Listing
    <2>5. \A s \in ToSet(store) \cup ToSet(old) : s.id <= begun /\ s.id \in Nat
      BY <1>0, Listed DEF StoreTyped
    <2>6. begun \in Nat
      BY <1>0 DEF StoreTyped
    <2>7. img \notin ToSet(store)
      BY <2>3, <2>5, <2>6
    <2>8. store' \in Listing /\ ToSet(store') = ToSet(store) \cup {img}
      BY <2>1, <2>2, <2>4, <2>7, AppendAdds DEF Listing
    <2>9. \A s \in ToSet(store') \cup ToSet(old) : s.id <= begun'
      BY <2>1, <2>3, <2>5, <2>6, <2>8
    <2>10. writing' \subseteq Image
      BY <1>0, <2>1, <2>2 DEF StoreTyped
    <2>11. UNCHANGED <<deleting, damaged, old, todo, copying, partial>>
      BY <1>1 DEF Begin, copies
    <2>12. QED
      BY <1>0, <2>1, <2>8, <2>9, <2>10, <2>11 DEF StoreTyped
  <1>2. ASSUME NEW img, Write(img) PROVE StoreTyped'
    BY <1>0, <1>2, TouchedTyped DEF Write, copies, StoreTyped
  <1>3. ASSUME NEW img, Removed(img) PROVE StoreTyped'
    BY <1>0, <1>3, StoreShrinks DEF Removed, copies, StoreTyped
  <1>4. ASSUME NEW r \in sent, Serve(r) PROVE StoreTyped'
    <2>1. CASE ServeRename(r)
      BY <2>1, Unchanged DEF ServeRename
    <2>2. CASE ServeDelete(r)
      <3>1. /\ store' \in Listing /\ ToSet(store') \subseteq ToSet(store)
            /\ deleting' \subseteq damaged' /\ damaged' \subseteq Image
        BY <1>0, <2>2, StoreShrinks, TouchedTyped DEF ServeDelete, StoreTyped
      <3>2. QED
        BY <1>0, <2>2, <3>1 DEF ServeDelete, copies, StoreTyped
    <2>3. QED
      BY <1>4, <2>1, <2>2 DEF Serve
  <1>5. CASE UNCHANGED <<images, copies>>
    BY <1>5, Unchanged
  <1>6. ASSUME NEW chosen \in Selections, NewDrive(chosen) PROVE StoreTyped'
    <2>1. <<>> \in Listing /\ ToSet(<<>>) = {}
      BY DEF Listing, IsInjective, ToSet
    <2>2. chosen \subseteq ToSet(store)
      BY DEF Selections
    <2>3. QED
      BY <1>0, <1>6, <2>1, <2>2 DEF NewDrive, StoreTyped
  <1>7. ASSUME NEW img \in todo, CopyStarts(img) PROVE StoreTyped'
    <2>1. img \in ToSet(old)
      BY <1>0 DEF StoreTyped
    <2>2. Touched(img) \in Listing /\ ToSet(Touched(img)) = ToSet(store) \cup {img}
      BY <1>0, <2>1, TouchedTyped
    <2>3. QED
      BY <1>0, <1>7, <2>1, <2>2 DEF CopyStarts, StoreTyped
  <1>8. CASE CopyEnds
    <2>1. store' = Copied \o Others
      BY <1>8 DEF CopyEnds, Copied, Others
    <2>2. store' \in Listing /\ ToSet(store') \subseteq ToSet(store)
      BY <1>0, <2>1, CopyEndsTyped
    <2>3. QED
      BY <1>0, <1>8, <2>2 DEF CopyEnds, StoreTyped
  <1>9. CASE CopyStops
    <2>1. \A img \in ToSet(old) : img \in Image
      BY <1>0, Listed DEF StoreTyped
    <2>2. QED
      BY <1>0, <1>9, <2>1 DEF CopyStops, images, StoreTyped
  <1>10. QED
    BY <1>1, <1>2, <1>3, <1>4, <1>5, <1>6, <1>7, <1>8, <1>9
       DEF Next, StartRename, OpenPicker, Render, DeleteImage, Choose, PickerAnswer, PickerFails, Confirm,
           Poll, SaveRename, CancelRename, Cancel, server, vars

LEMMA NamesStep ==
    ASSUME BackupsTyped, [Next]_vars
    PROVE  NamesTyped'
  <1>0. NamesTyped /\ RowsTyped
    BY DEF BackupsTyped
  <1>2. \A img \in ToSet(table) : img \in Image /\ img.mac \in Macs
    BY <1>0, Listed DEF RowsTyped
  <1>3. ASSUME NEW r \in sent, Serve(r) PROVE NamesTyped'
    <2>1. CASE ServeRename(r)
      <3>1. r.mac \in Macs /\ r.text \in Macs
        BY <1>0, <2>1 DEF ServeRename, NamesTyped, Requests
      <3>2. QED
        BY <1>0, <1>3, <2>1, <3>1 DEF Serve, ServeRename, NamesTyped
    <2>2. CASE ServeDelete(r)
      BY <1>0, <1>3, <2>2 DEF Serve, ServeDelete, NamesTyped
    <2>3. QED
      BY <1>3, <2>1, <2>2 DEF Serve
  <1>4. CASE SaveRename
    <2>1. editor \in Macs
      BY <1>0, <1>2, <1>4 DEF SaveRename, RowsTyped, Groups
    <2>2. [what |-> "rename", mac |-> editor, text |-> editor] \in Requests
      BY <2>1 DEF Requests
    <2>3. QED
      BY <1>0, <1>4, <2>2 DEF SaveRename, NamesTyped, server
  <1>5. ASSUME NEW img \in ToSet(table), DeleteImage(img) PROVE NamesTyped'
    <2>1. [what |-> "delete", image |-> img] \in Requests
      BY <1>2 DEF Requests
    <2>2. QED
      BY <1>0, <1>5, <2>1 DEF DeleteImage, NamesTyped, server
  <1>6. CASE UNCHANGED <<label, sent>>
    BY <1>6, Unchanged
  <1>7. QED
    BY <1>3, <1>4, <1>5, <1>6
       DEF Next, Begin, StartRename, OpenPicker, Write, Removed, NewDrive, CopyStarts, CopyEnds, CopyStops,
           Render, Choose, PickerAnswer, PickerFails, Confirm, Poll, CancelRename, Cancel, server, vars

LEMMA RowsStep ==
    ASSUME BackupsTyped, [Next]_vars
    PROVE  RowsTyped'
  <1>0. RowsTyped /\ store \in Listing
    BY DEF BackupsTyped, StoreTyped
  <1>1. Asks => fetches' \in Seq(Listing)
    BY <1>0 DEF Asks, RowsTyped
  <1>2. ASSUME NEW i \in DOMAIN fetches, Render(i) PROVE RowsTyped'
    <2>1. fetches \in Seq(Listing) /\ i \in 1 .. Len(fetches) /\ fetches[i] \in Listing
      BY <1>0 DEF RowsTyped
    <2>2. fetches' \in Seq(Listing)
      BY <1>2, <2>1, RemoveAtShifts DEF Render
    <2>3. QED
      BY <1>0, <1>2, <2>1, <2>2 DEF Render, RowsTyped
  <1>3. CASE Poll
    BY <1>0, <1>1, <1>3 DEF Poll, RowsTyped
  <1>4. ASSUME NEW m \in Macs, StartRename(m) PROVE RowsTyped'
    BY <1>0, <1>1, <1>4 DEF StartRename, RowsTyped
  <1>5. CASE CancelRename
    BY <1>0, <1>1, <1>5 DEF CancelRename, RowsTyped
  <1>6. CASE SaveRename
    BY <1>0, <1>6 DEF SaveRename, RowsTyped
  <1>7. CASE UNCHANGED rows
    BY <1>7, Unchanged
  <1>8. QED
    BY <1>2, <1>3, <1>4, <1>5, <1>6, <1>7
       DEF Next, Begin, OpenPicker, Write, Removed, NewDrive, CopyStarts, CopyEnds, CopyStops, Serve,
           DeleteImage, Choose, PickerAnswer, PickerFails, Confirm, Cancel, rows, vars

LEMMA PickerStep ==
    ASSUME BackupsTyped, [Next]_vars
    PROVE  PickerTyped'
  <1> DEFINE N == Len(openings)
             bounds == clicks' \in 0 .. MaxClicks /\ N <= clicks'
  <1>0. PickerTyped /\ StoreTyped
    BY DEF BackupsTyped
  <1>1. openings \in Seq(Openings) /\ N \in Nat /\ DOMAIN openings = 1 .. N
    BY <1>0 DEF PickerTyped
  <1>a. N \in Nat /\ dialog \in Elements(N)
    BY <1>0 DEF PickerTyped
  <1>2. /\ Clicks => clicks' \in 0 .. MaxClicks /\ clicks' = clicks + 1 /\ N + 1 <= clicks' /\ N <= clicks'
        /\ UNCHANGED clicks => bounds
    BY <1>0, <1>1, BackupsAssumption DEF Clicks, PickerTyped
  <1>3. ASSUME openings' \in Seq(Openings), Len(openings') = N, dialog' \in Elements(N), bounds
        PROVE  PickerTyped'
    BY <1>3 DEF PickerTyped
  <1>4. UNCHANGED openings => openings' \in Seq(Openings) /\ Len(openings') = N
    BY <1>1
  <1>5. \A o \in DOMAIN openings : o \in 0 .. N
    BY <1>1
  <1> HIDE DEF N
  <1>6. ASSUME NEW m \in Macs, NEW preset \in Image \cup {None}, OpenPicker(m, preset)
        PROVE  PickerTyped'
    <2> DEFINE opening == [host |-> m, preset |-> preset, asked |-> TRUE, selected |-> None, clicked |-> FALSE]
    <2>1. opening \in Openings
      BY DEF Openings
    <2>2. openings' = Append(openings, opening)
      BY <1>6 DEF OpenPicker
    <2> HIDE DEF opening
    <2>3. openings' \in Seq(Openings) /\ Len(openings') = N + 1
      BY <1>1, <2>1, <2>2 DEF N
    <2>4. dialog' = [dialog EXCEPT !.shown = TRUE, !.enabled = FALSE, !.list = 0]
      BY <1>6 DEF OpenPicker
    <2>5. dialog' \in Elements(N)
      BY <1>a, <2>4, ElementsKept
    <2>6. dialog' \in Elements(N + 1)
      BY <1>a, <2>5, ElementsGrow
    <2>7. QED
      BY <1>2, <1>6, <2>3, <2>6 DEF OpenPicker, PickerTyped
  <1>7. CASE Cancel
    <2>1. dialog' \in Elements(N)
      BY <1>a, <1>7, ElementsKept DEF Cancel
    <2>2. QED
      BY <1>2, <1>3, <1>4, <1>7, <2>1 DEF Cancel
  <1>8. ASSUME NEW o \in DOMAIN openings, PickerAnswer(o) PROVE PickerTyped'
    <2> DEFINE img == CHOOSE i \in Preset(o) : TRUE
    <2>1. Preset(o) # {} => img \in Image
      BY <1>0, PresetTyped
    <2>2. \/ openings' = [openings EXCEPT ![o].asked = FALSE]
          \/ Preset(o) # {} /\ openings' = Selected(o, img, FALSE)
      BY <1>8 DEF PickerAnswer
    <2> HIDE DEF img
    <2>3. openings' \in Seq(Openings) /\ Len(openings') = N
      <3>1. CASE openings' = [openings EXCEPT ![o].asked = FALSE]
        BY <1>0, <3>1, OpeningTyped DEF N
      <3>2. CASE Preset(o) # {} /\ openings' = Selected(o, img, FALSE)
        <4>1. img \in Image \cup {None}
          BY <2>1, <3>2
        <4>2. QED
          BY <1>0, <3>2, <4>1, OpeningTyped DEF N
      <3>3. QED
        BY <2>2, <3>1, <3>2
    <2>4. \/ dialog' = [dialog EXCEPT !.list = 0]
          \/ dialog' = [dialog EXCEPT !.list = o, !.onclick = o]
          \/ dialog' = [dialog EXCEPT !.list = o, !.onclick = o, !.enabled = TRUE]
      BY <1>8 DEF PickerAnswer
    <2>5. dialog' \in Elements(N)
      <3>1. CASE dialog' = [dialog EXCEPT !.list = 0]
        BY <1>a, <3>1, ElementsKept
      <3>2. CASE dialog' = [dialog EXCEPT !.list = o, !.onclick = o]
        BY <1>a, <1>5, <3>2, ElementsKept
      <3>3. CASE dialog' = [dialog EXCEPT !.list = o, !.onclick = o, !.enabled = TRUE]
        BY <1>a, <1>5, <3>3, ElementsKept
      <3>4. QED
        BY <2>4, <3>1, <3>2, <3>3
    <2>6. QED
      BY <1>2, <1>3, <1>8, <2>3, <2>5 DEF PickerAnswer
  <1>9. ASSUME NEW o \in DOMAIN openings, PickerFails(o) PROVE PickerTyped'
    <2>1. openings' \in Seq(Openings) /\ Len(openings') = N
      BY <1>0, <1>9, OpeningTyped DEF PickerFails, N
    <2>2. dialog' = [dialog EXCEPT !.list = 0, !.onclick = o]
      BY <1>9 DEF PickerFails
    <2>3. dialog' \in Elements(N)
      BY <1>a, <1>5, <2>2, ElementsKept
    <2>4. QED
      BY <1>2, <1>3, <1>9, <2>1, <2>3 DEF PickerFails
  <1>10. ASSUME NEW img \in ToSet(store), Choose(img) PROVE PickerTyped'
    <2>1. img \in Image
      BY <1>0, TouchedTyped
    <2>2. dialog.list # 0 /\ dialog' = [dialog EXCEPT !.enabled = TRUE]
      BY <1>10 DEF Choose
    <2>3. dialog.list \in DOMAIN openings /\ dialog' \in Elements(N)
      BY <1>1, <1>a, <2>2, ElementsKept
    <2>4. openings' \in Seq(Openings) /\ Len(openings') = N
      BY <1>0, <1>10, <2>1, <2>3, OpeningTyped DEF Choose, N
    <2>5. QED
      BY <1>2, <1>3, <1>10, <2>3, <2>4 DEF Choose
  <1>11. ASSUME NEW o \in DOMAIN openings, Confirm(o) PROVE PickerTyped'
    <2>1. dialog' \in Elements(N)
      BY <1>a, <1>11, ElementsKept DEF Confirm
    <2>2. QED
      BY <1>2, <1>3, <1>4, <1>11, <2>1 DEF Confirm
  <1>12. ASSUME Clicks \/ UNCHANGED clicks, UNCHANGED picker PROVE PickerTyped'
    BY <1>a, <1>2, <1>3, <1>4, <1>12 DEF picker
  <1>13. ASSUME NEW img \in ToSet(table), OpenPicker(img.mac, img) PROVE PickerTyped'
    <2>1. img \in Image /\ img.mac \in Macs
      BY Listed DEF BackupsTyped, RowsTyped
    <2>2. QED
      BY <1>6, <1>13, <2>1
  <1>14. ASSUME NEW m \in Macs, OpenPicker(m, None) PROVE PickerTyped'
    BY <1>6, <1>14
  <1>15. ASSUME NEW chosen, NewDrive(chosen) PROVE PickerTyped'
    <2>1. bounds /\ UNCHANGED picker
      BY <1>0, <1>1, <1>15, BackupsAssumption DEF NewDrive, picker, PickerTyped, N
    <2>2. QED
      BY <1>a, <1>3, <1>4, <2>1 DEF picker
  <1>16. QED
    BY <1>7, <1>8, <1>9, <1>10, <1>11, <1>12, <1>13, <1>14, <1>15
       DEF Next, Begin, StartRename, Write, Removed, CopyStarts, CopyEnds, CopyStops, Serve, Render,
           DeleteImage, Poll, SaveRename, CancelRename, vars

LEMMA StepTyped ==
    ASSUME BackupsTyped, [Next]_vars
    PROVE  BackupsTyped'
  BY StoreStep, NamesStep, RowsStep, PickerStep DEF BackupsTyped

LEMMA TypedAlways == Spec => []BackupsTyped
  <1>1. Init => BackupsTyped
    BY InitTyped
  <1>2. BackupsTyped /\ [Next]_vars => BackupsTyped'
    BY StepTyped
  <1>3. QED
    BY <1>1, <1>2, PTL DEF Spec

\* The store, the table and every answer under way are listings without
\* repetitions, and the editor is that of a group in the table.
THEOREM TypeCorrect == Spec => []TypeOK
  <1>1. BackupsTyped => TypeOK
    BY TypedIsTypeOK
  <1>2. QED
    BY <1>1, TypedAlways, PTL

-----------------------------------------------------------------------------
(* Versions.                                                               *)

\* Two images of a machine stand in the order in which they were begun.
InOrder(list, but) ==
    \A i, j \in DOMAIN list :
        i < j /\ list[i].mac = list[j].mac /\ list[i] \notin but /\ list[j] \notin but
            => list[i].id < list[j].id

\* Not dated by their backup: images that a deletion has begun to take apart,
\* and copies that stopped half-way.
Undated == damaged \cup partial

\* Both drives are in order but for those and the image being copied.  What is
\* on the new drive only was begun after everything on the old one, and what
\* may still be written is the newest image of its machine.
OrderInv ==
    /\ InOrder(store, Undated \cup {copying}) /\ InOrder(old, Undated)
    /\ \A s \in ToSet(store) \ ToSet(old), o \in ToSet(old) : o.id < s.id
    /\ \A w \in writing :
         /\ \A s \in ToSet(store) : s.mac = w.mac => s.id <= w.id
         /\ \A o \in ToSet(old) : o.id < w.id

LEMMA OrderLess ==
    ASSUME NEW list, NEW but, NEW more, InOrder(list, but), but \subseteq more
    PROVE  InOrder(list, more)
  BY DEF InOrder

\* Taking an image out of the store leaves the others in order.
LEMMA OrderWithout ==
    ASSUME StoreTyped, NEW but, InOrder(store, but), NEW img
    PROVE  InOrder(Without(store, img), but)
  <1> DEFINE rest == Without(store, img)
  <1>1. store \in Seq(Image)
    BY DEF StoreTyped, Listing
  <1>2. \A k, l \in DOMAIN rest : k < l =>
            \E i, j \in DOMAIN store : i < j /\ rest[k] = store[i] /\ rest[l] = store[j]
    BY <1>1, WithoutKeeps
  <1> HIDE DEF rest
  <1>3. InOrder(rest, but)
    BY <1>2 DEF InOrder
  <1>4. QED
    BY <1>3 DEF rest

\* An image put at the end of a list is in order there if it is the newest of
\* its machine, or excepted.
LEMMA OrderAppend ==
    ASSUME NEW list \in Seq(Image), NEW but, InOrder(list, but), NEW img \in Image,
           \/ img \in but
           \/ \A s \in ToSet(list) : s.mac = img.mac => s.id < img.id
    PROVE  InOrder(Append(list, img), but)
  <1> DEFINE more == Append(list, img)
             n    == Len(list) + 1
  <1>1. /\ DOMAIN more = DOMAIN list \cup {n} /\ more[n] = img
        /\ \A i \in DOMAIN list : more[i] = list[i] /\ i < n
    BY AppendAdds
  <1>2. n \in Nat /\ DOMAIN list \subseteq Nat
    OBVIOUS
  <1>3. \A i \in DOMAIN list : list[i] \in ToSet(list)
    BY DEF ToSet
  <1> HIDE DEF more, n
  <1>4. ASSUME NEW i \in DOMAIN more, NEW j \in DOMAIN more, i < j, more[i].mac = more[j].mac,
               more[i] \notin but, more[j] \notin but
        PROVE  more[i].id < more[j].id
    <2>1. i \in DOMAIN list
      BY <1>1, <1>2, <1>4
    <2>2. CASE j \in DOMAIN list
      BY <1>1, <1>4, <2>1, <2>2 DEF InOrder
    <2>3. CASE j = n
      BY <1>1, <1>3, <1>4, <2>1, <2>3
    <2>4. QED
      BY <1>1, <2>2, <2>3
  <1>5. InOrder(more, but)
    BY <1>4 DEF InOrder
  <1>6. QED
    BY <1>5 DEF more

\* The same for an image whose times are not those of its backup any more.
LEMMA OrderTouched ==
    ASSUME StoreTyped, NEW but, NEW more, InOrder(store, but), but \subseteq more,
           NEW img \in ToSet(store) \cup ToSet(old), img \in more
    PROVE  InOrder(Touched(img), more)
  <1>1. Without(store, img) \in Seq(Image)
    BY WithoutKeeps DEF StoreTyped, Listing
  <1>2. InOrder(Without(store, img), more)
    BY OrderLess, OrderWithout
  <1>3. img \in Image
    BY TouchedTyped
  <1>4. QED
    BY <1>1, <1>2, <1>3, OrderAppend DEF Touched

\* When a copy ends the dated ones are in the order of the old drive, and the
\* others are newer than they are or excepted.
LEMMA OrderCopied ==
    ASSUME StoreTyped, OrderInv, copying \in ToSet(store)
    PROVE  InOrder(Copied \o Others, Undated)
  <1> DEFINE both   == Copied \o Others
             first  == Copied
             second == Others
             n      == Len(Copied)
  <1>1. /\ \A k \in DOMAIN first : first[k] \in Dated
        /\ \A k, l \in DOMAIN first : k < l =>
             \E i, j \in DOMAIN old : i < j /\ first[k] = old[i] /\ first[l] = old[j]
        /\ \A k \in DOMAIN second : second[k] \in ToSet(store) \ Dated
        /\ \A k, l \in DOMAIN second : k < l =>
             \E i, j \in DOMAIN store : i < j /\ second[k] = store[i] /\ second[l] = store[j]
    BY CopiedTyped
  <1>2. \A i \in DOMAIN both :
            \/ i \in DOMAIN first /\ both[i] = first[i]
            \/ i > n /\ i - n \in DOMAIN second /\ both[i] = second[i - n]
    BY CopyEndsTyped
  <1>3. /\ first \in Seq(Image) /\ second \in Seq(Image)
        /\ DOMAIN both \subseteq Nat /\ n \in Nat /\ \A i \in DOMAIN first : i <= n
    BY CopiedTyped
  <1>4. deleting \subseteq Undated /\ Dated \subseteq ToSet(old)
    BY DEF StoreTyped, Undated, Dated
  <1>5. \A s \in ToSet(store) \ Dated : s \notin Undated => s \notin ToSet(old) /\ s # copying
    <2>1. copying # None
      BY Listed, BackupsAssumption DEF StoreTyped
    <2>2. copying \in ToSet(old)
      BY <2>1 DEF StoreTyped
    <2>3. QED
      BY <1>4, <2>2 DEF Dated
  <1> HIDE DEF both, first, second, n
  <1>6. SUFFICES ASSUME NEW i \in DOMAIN both, NEW j \in DOMAIN both, i < j, both[i].mac = both[j].mac,
                        both[i] \notin Undated, both[j] \notin Undated
                 PROVE  both[i].id < both[j].id
    BY DEF InOrder, both
  <1>7. CASE i \in DOMAIN first /\ both[i] = first[i] /\ j \in DOMAIN first /\ both[j] = first[j]
    <2>1. InOrder(old, Undated)
      BY DEF OrderInv
    <2>2. PICK k, l \in DOMAIN old : k < l /\ first[i] = old[k] /\ first[j] = old[l]
      BY <1>1, <1>6, <1>7
    <2>3. QED
      BY <1>6, <1>7, <2>1, <2>2 DEF InOrder
  <1>8. CASE /\ i \in DOMAIN first /\ both[i] = first[i]
             /\ j - n \in DOMAIN second /\ both[j] = second[j - n]
    <2>1. both[i] \in ToSet(old)
      BY <1>1, <1>4, <1>8
    <2>2. both[j] \in ToSet(store) \ ToSet(old)
      BY <1>1, <1>5, <1>6, <1>8
    <2>3. QED
      BY <2>1, <2>2 DEF OrderInv
  <1>9. CASE /\ i - n \in DOMAIN second /\ both[i] = second[i - n]
             /\ j - n \in DOMAIN second /\ both[j] = second[j - n]
    <2>1. InOrder(store, Undated \cup {copying})
      BY DEF OrderInv
    <2>2. i - n < j - n
      BY <1>3, <1>6
    <2>3. PICK k, l \in DOMAIN store : k < l /\ both[i] = store[k] /\ both[j] = store[l]
      BY <1>1, <1>9, <2>2
    <2>4. both[i] # copying /\ both[j] # copying
      BY <1>1, <1>5, <1>6, <1>9
    <2>5. QED
      BY <1>6, <2>1, <2>3, <2>4 DEF InOrder
  <1>10. CASE i > n /\ j \in DOMAIN first
    BY <1>3, <1>6, <1>10
  <1>11. QED
    BY <1>2, <1>7, <1>8, <1>9, <1>10

\* What OrderInv needs of a step that touches neither the copies nor what is
\* being written.
LEMMA OrderKept ==
    ASSUME OrderInv, UNCHANGED <<old, copying, writing>>, ToSet(store') \subseteq ToSet(store),
           Undated \subseteq Undated', InOrder(store', Undated' \cup {copying})
    PROVE  OrderInv'
  <1>1. InOrder(old, Undated')
    BY OrderLess DEF OrderInv
  <1>2. QED
    BY <1>1 DEF OrderInv, InOrder

LEMMA OrderStep ==
    ASSUME BackupsTyped, OrderInv, [Next]_vars
    PROVE  OrderInv'
  <1> DEFINE but == Undated \cup {copying}
  <1>0. /\ StoreTyped /\ store \in Seq(Image) /\ IsInjective(store)
        /\ InOrder(store, but) /\ InOrder(old, Undated)
    BY Listed DEF BackupsTyped, StoreTyped, OrderInv
  <1>1. ASSUME NEW m \in Macs, Begin(m) PROVE OrderInv'
    <2> DEFINE img == [mac |-> m, id |-> begun + 1]
    <2>1. img \in Image /\ img.mac = m /\ img.id = begun + 1 /\ begun \in Nat
      BY <1>0, <1>1, BackupsAssumption DEF Begin, StoreTyped, Image
    <2>2. /\ store' = Append(store, img) /\ writing' = {w \in writing : w.mac # m} \cup {img}
          /\ UNCHANGED <<damaged, partial, copying, old>>
      BY <1>1 DEF Begin, copies
    <2> HIDE DEF img
    <2>3. \A s \in ToSet(store) \cup ToSet(old) : s.id <= begun /\ s.id \in Nat
      BY <1>0, Listed DEF StoreTyped
    <2>4. \A s \in ToSet(store) \cup ToSet(old) : s.id < img.id
      BY <2>1, <2>3
    <2>5. InOrder(Append(store, img), but)
      BY <1>0, <2>1, <2>4, OrderAppend
    <2>6. ToSet(store') = ToSet(store) \cup {img}
      BY <1>0, <2>1, <2>2, AppendAdds
    <2>7. \A w \in writing', s \in ToSet(store') : s.mac = w.mac => s.id <= w.id
      BY <2>1, <2>2, <2>3, <2>4, <2>6 DEF OrderInv
    <2>8. \A w \in writing', o \in ToSet(old) : o.id < w.id
      BY <2>2, <2>4 DEF OrderInv
    <2>9. \A s \in ToSet(store') \ ToSet(old), o \in ToSet(old) : o.id < s.id
      BY <2>4, <2>6 DEF OrderInv
    <2>10. Undated' = Undated
      BY <2>2 DEF Undated
    <2>11. QED
      BY <1>0, <2>2, <2>5, <2>7, <2>8, <2>9, <2>10 DEF OrderInv, InOrder
  <1>2. ASSUME NEW img \in writing, Write(img) PROVE OrderInv'
    <2>1. img \in ToSet(store) /\ img \in Image /\ ToSet(Touched(img)) = ToSet(store)
      BY <1>0, <1>2, TouchedTyped DEF Write
    <2>2. /\ Without(store, img) \in Seq(Image)
          /\ ToSet(Without(store, img)) = ToSet(store) \ {img}
      BY <1>0, WithoutKeeps
    <2>3. \A s \in ToSet(store) \ {img} : s.mac = img.mac => s.id < img.id
      <3>1. \A s \in ToSet(store) : s.mac = img.mac => s.id <= img.id
        BY DEF OrderInv
      <3>2. \A s \in Image : s.mac = img.mac /\ s.id = img.id => s = img
        BY <2>1 DEF Image
      <3>3. \A s \in ToSet(store) : s \in Image /\ s.id \in Nat
        BY <1>0, Listed DEF StoreTyped
      <3>4. img.id \in Nat
        BY <2>1, <3>3
      <3>5. QED
        BY <3>1, <3>2, <3>3, <3>4
    <2>4. InOrder(Touched(img), but)
      BY <1>0, <2>1, <2>2, <2>3, OrderWithout, OrderAppend DEF Touched
    <2>5. store' = Touched(img) /\ UNCHANGED <<damaged, partial, copying, old, writing>>
      BY <1>2 DEF Write, copies
    <2>6. Undated' = Undated
      BY <2>5 DEF Undated
    <2>7. QED
      BY <2>1, <2>4, <2>5, <2>6, OrderKept
  <1>3. ASSUME NEW img, store' = Without(store, img), UNCHANGED <<damaged, partial, copying, old, writing>>
        PROVE  OrderInv'
    <2>1. ToSet(store') \subseteq ToSet(store) /\ InOrder(store', but)
      BY <1>0, <1>3, StoreShrinks, OrderWithout
    <2>2. Undated' = Undated
      BY <1>3 DEF Undated
    <2>3. QED
      BY <1>3, <2>1, <2>2, OrderKept
  <1>4. ASSUME NEW img \in deleting, Removed(img) PROVE OrderInv'
    BY <1>3, <1>4 DEF Removed, copies
  <1>5. ASSUME NEW r \in sent, Serve(r) PROVE OrderInv'
    <2>1. CASE ServeRename(r)
      BY <1>5, <2>1 DEF ServeRename, images, copies, OrderInv, InOrder, Undated
    <2>2. CASE ServeDelete(r) /\ store' = Without(store, r.image) /\ UNCHANGED damaged
      BY <1>3, <2>2 DEF ServeDelete, copies
    <2>3. CASE /\ ServeDelete(r) /\ r.image \in ToSet(store)
               /\ store' = Touched(r.image) /\ damaged' = damaged \cup {r.image}
      <3>1. UNCHANGED <<partial, copying, old, writing>>
        BY <2>3 DEF ServeDelete, copies
      <3>2. ToSet(store') = ToSet(store)
        BY <1>0, <2>3, TouchedTyped
      <3>3. Undated' = Undated \cup {r.image}
        BY <2>3, <3>1 DEF Undated
      <3>4. InOrder(Touched(r.image), Undated' \cup {copying})
        BY <1>0, <2>3, <3>3, OrderTouched
      <3>5. QED
        BY <2>3, <3>1, <3>2, <3>3, <3>4, OrderKept
    <2>4. QED
      BY <1>5, <2>1, <2>2, <2>3 DEF Serve, ServeDelete
  <1>6. ASSUME NEW chosen \in Selections, NewDrive(chosen) PROVE OrderInv'
    <2>1. /\ old' = store /\ store' = <<>> /\ writing' = {} /\ copying = None
          /\ UNCHANGED <<damaged, copying, partial>>
      BY <1>6 DEF NewDrive
    <2>2. \A i \in DOMAIN store : store[i] # None
      BY <1>0, BackupsAssumption
    <2>3. InOrder(store, Undated)
      BY <1>0, <2>1, <2>2 DEF InOrder
    <2>4. ToSet(<<>>) = {} /\ InOrder(<<>>, but)
      BY DEF ToSet, InOrder
    <2>5. Undated' = Undated
      BY <2>1 DEF Undated
    <2>6. QED
      BY <2>1, <2>3, <2>4, <2>5 DEF OrderInv, InOrder
  <1>7. ASSUME NEW img \in todo, CopyStarts(img) PROVE OrderInv'
    <2>1. /\ copying = None /\ copying' = img /\ store' = Touched(img)
          /\ UNCHANGED <<damaged, partial, old, writing>>
      BY <1>7 DEF CopyStarts
    <2>2. img \in ToSet(old) /\ Undated' = Undated
      BY <1>0, <2>1 DEF StoreTyped, Undated
    <2>3. ToSet(store') = ToSet(store) \cup {img}
      BY <1>0, <2>1, <2>2, TouchedTyped
    <2>4. InOrder(store, Undated \cup {img})
      <3>1. \A i \in DOMAIN store : store[i] # None
        BY <1>0, BackupsAssumption
      <3>2. InOrder(store, Undated)
        BY <1>0, <2>1, <3>1 DEF InOrder
      <3>3. QED
        BY <3>2, OrderLess
    <2>5. InOrder(Touched(img), Undated \cup {img})
      BY <1>0, <2>2, <2>4, OrderTouched
    <2>6. \A w \in writing, s \in ToSet(store') : s.mac = w.mac => s.id <= w.id
      <3>1. \A w \in writing : img.id < w.id /\ w.id \in Nat /\ img.id \in Nat
        <4>1. img \in Image /\ writing \subseteq Image
          BY <1>0, <2>2, TouchedTyped DEF StoreTyped
        <4>2. QED
          BY <2>2, <4>1, BackupsAssumption DEF OrderInv, Image
      <3>2. QED
        BY <2>3, <3>1 DEF OrderInv
    <2>7. QED
      BY <2>1, <2>2, <2>3, <2>5, <2>6 DEF OrderInv, InOrder
  <1>8. CASE CopyEnds
    <2>1. /\ store' = Copied \o Others /\ copying \in ToSet(store) /\ copying' = None
          /\ UNCHANGED <<damaged, partial, old, writing>>
      BY <1>8 DEF CopyEnds, Copied, Others
    <2>2. ToSet(store') \subseteq ToSet(store) /\ InOrder(store', Undated)
      BY <1>0, <2>1, CopyEndsTyped, OrderCopied
    <2>3. Undated' = Undated /\ InOrder(store', Undated \cup {None})
      BY <2>1, <2>2, OrderLess DEF Undated
    <2>4. QED
      BY <2>1, <2>2, <2>3 DEF OrderInv, InOrder
  <1>9. CASE CopyStops
    <2>1. /\ copying' = None /\ partial' = partial \cup ({copying} \ {None})
          /\ UNCHANGED <<store, damaged, old, writing>>
      BY <1>9 DEF CopyStops, images
    <2>2. Undated \subseteq Undated' /\ but \subseteq Undated' \cup {None}
      BY <2>1 DEF Undated
    <2>3. InOrder(store, Undated' \cup {None}) /\ InOrder(old, Undated')
      BY <1>0, <2>2, OrderLess
    <2>4. QED
      BY <2>1, <2>3 DEF OrderInv, InOrder
  <1>10. CASE UNCHANGED <<images, copies>>
    BY <1>10 DEF images, copies, OrderInv, InOrder, Undated
  <1>11. QED
    BY <1>1, <1>2, <1>4, <1>5, <1>6, <1>7, <1>8, <1>9, <1>10
       DEF Next, StartRename, OpenPicker, Render, DeleteImage, Choose, PickerAnswer, PickerFails, Confirm,
           Poll, SaveRename, CancelRename, Cancel, server, vars

\* In a listing in order the later image has the higher version.
LEMMA VersionsOrdered ==
    ASSUME NEW list \in Listing, NEW but, InOrder(list, but),
           NEW v \in ToSet(list) \ but, NEW w \in ToSet(list) \ but, v.mac = w.mac, v.id < w.id
    PROVE  Version(v, list) < Version(w, list)
  <1> DEFINE keep == {i \in DOMAIN list : list[i].mac = v.mac}
             own  == Picked(list, keep)
  <1>1. /\ list \in Seq(Image) /\ IsInjective(list)
        /\ v \in Image /\ w \in Image /\ v.id \in Nat /\ w.id \in Nat
    BY Listed
  <1>2. keep \in SUBSET DOMAIN list /\ Of(v.mac, list) = own
    BY DEF Of
  <1>3. PICK i, j \in keep : list[i] = v /\ list[j] = w
    BY DEF ToSet
  <1> HIDE DEF keep
  <1>4. /\ own \in Seq(Image) /\ IsInjective(own)
        /\ \A n \in keep : \E k \in DOMAIN own : own[k] = list[n]
        /\ \A k, l \in DOMAIN own : k < l =>
             \E n, o \in keep : n < o /\ own[k] = list[n] /\ own[l] = list[o]
    BY <1>1, <1>2, PickedKeeps, PickedInjective
  <1> HIDE DEF own
  <1>5. PICK k \in DOMAIN own : own[k] = v
    BY <1>3, <1>4
  <1>6. PICK l \in DOMAIN own : own[l] = w
    BY <1>3, <1>4
  <1>7. \A n \in DOMAIN own : (own[n] = v => n = k) /\ (own[n] = w => n = l)
    BY <1>4, <1>5, <1>6 DEF IsInjective
  <1>8. Version(v, list) = k /\ Version(w, list) = l
    BY <1>2, <1>5, <1>6, <1>7 DEF Version
  <1>9. ~(l < k)
    <2>1. SUFFICES ASSUME l < k PROVE FALSE
      OBVIOUS
    <2>2. PICK n, o \in keep : n < o /\ w = list[n] /\ v = list[o]
      BY <1>4, <1>5, <1>6, <2>1
    <2>3. w.id < v.id
      BY <1>2, <2>2 DEF InOrder
    <2>4. QED
      BY <1>1, <2>3
  <1>10. k # l
    BY <1>1, <1>5, <1>6
  <1>11. k \in Nat /\ l \in Nat
    BY <1>4
  <1>12. QED
    BY <1>8, <1>9, <1>10, <1>11

\* The numbers of the versions follow the order in which the images of a
\* machine were begun, whatever machines write and whatever is copied to a new
\* drive, but for the images VersionsFollowTime excepts.
THEOREM VersionsTheorem == Spec => []VersionsFollowTime
  <1>1. Init => OrderInv
    BY DEF Init, OrderInv, InOrder, ToSet
  <1>2. BackupsTyped /\ OrderInv /\ [Next]_vars => OrderInv'
    BY OrderStep
  <1>3. BackupsTyped /\ OrderInv => VersionsFollowTime
    BY VersionsOrdered DEF BackupsTyped, StoreTyped, OrderInv, Undated, VersionsFollowTime
  <1>4. QED
    BY <1>1, <1>2, <1>3, TypedAlways, PTL DEF Spec

-----------------------------------------------------------------------------
(* The choice of a restore.                                                *)

\* The version an opening was asked for is of its machine, and so is what it
\* has selected, unless that was clicked in its list.
ChosenInv ==
    \A o \in DOMAIN openings :
        /\ openings[o].preset # None => openings[o].preset.mac = openings[o].host
        /\ openings[o].selected # None => openings[o].clicked \/ openings[o].selected.mac = openings[o].host

LEMMA PresetIsOwn ==
    ASSUME StoreTyped, ChosenInv, NEW o \in DOMAIN openings, Preset(o) # {}
    PROVE  (CHOOSE img \in Preset(o) : TRUE).mac = openings[o].host
  <1> DEFINE keep == {i \in DOMAIN store : store[i].mac = openings[o].host}
             own == Picked(store, keep)
  <1>1. store \in Seq(Image)
    BY DEF StoreTyped, Listing
  <1>2. keep \in SUBSET DOMAIN store /\ \A i \in keep : store[i].mac = openings[o].host
    OBVIOUS
  <1>3. Of(openings[o].host, store) = own
    BY DEF Of
  <1> HIDE DEF keep
  <1>4. own \in Seq(Image) /\ \A k \in DOMAIN own : own[k].mac = openings[o].host
    BY <1>1, <1>2, PickedKeeps
  <1> HIDE DEF own
  <1>5. own # <<>> => Last(own).mac = openings[o].host
    <2>1. own # <<>> => Len(own) \in DOMAIN own
      BY <1>4
    <2>2. QED
      BY <1>4, <2>1 DEF Last
  <1>6. \A img \in Preset(o) : img.mac = openings[o].host
    BY <1>3, <1>5 DEF Preset, ChosenInv
  <1>7. QED
    BY <1>6

LEMMA ChosenStep ==
    ASSUME BackupsTyped, ChosenInv, [Next]_vars
    PROVE  ChosenInv'
  <1>0. StoreTyped /\ openings \in Seq(Openings)
    BY DEF BackupsTyped, PickerTyped
  <1>1. ASSUME NEW m, NEW preset, preset # None => preset.mac = m, OpenPicker(m, preset)
        PROVE  ChosenInv'
    <2> DEFINE opening == [host |-> m, preset |-> preset, asked |-> TRUE, selected |-> None, clicked |-> FALSE]
    <2>1. /\ opening.preset # None => opening.preset.mac = opening.host
          /\ opening.selected = None
      BY <1>1
    <2>2. openings' = Append(openings, opening)
      BY <1>1 DEF OpenPicker
    <2> HIDE DEF opening
    <2>3. \A o \in DOMAIN openings' :
              (o \in DOMAIN openings /\ openings'[o] = openings[o]) \/ openings'[o] = opening
      BY <1>0, <2>2
    <2>4. QED
      BY <2>1, <2>3 DEF ChosenInv
  <1>2. ASSUME NEW o \in DOMAIN openings, openings' = [openings EXCEPT ![o].asked = FALSE]
        PROVE  ChosenInv'
    <2>1. openings[o] \in Openings
      BY <1>0
    <2>2. /\ openings'[o].host = openings[o].host /\ openings'[o].preset = openings[o].preset
          /\ openings'[o].selected = openings[o].selected /\ openings'[o].clicked = openings[o].clicked
      BY <1>0, <1>2, <2>1 DEF Openings
    <2>3. DOMAIN openings' = DOMAIN openings /\ \A p \in DOMAIN openings : p # o => openings'[p] = openings[p]
      BY <1>0, <1>2
    <2>4. QED
      BY <2>2, <2>3 DEF ChosenInv
  <1>3. ASSUME NEW o \in DOMAIN openings, NEW img, NEW click \in BOOLEAN,
               openings' = Selected(o, img, click), click \/ img.mac = openings[o].host
        PROVE  ChosenInv'
    <2>1. openings[o] \in Openings
      BY <1>0
    <2>2. /\ openings'[o].host = openings[o].host /\ openings'[o].preset = openings[o].preset
          /\ openings'[o].selected = img /\ openings'[o].clicked = (openings[o].clicked \/ click)
      BY <1>0, <1>3, <2>1 DEF Openings, Selected
    <2>3. DOMAIN openings' = DOMAIN openings /\ \A p \in DOMAIN openings : p # o => openings'[p] = openings[p]
      BY <1>0, <1>3 DEF Selected
    <2>4. QED
      BY <1>3, <2>2, <2>3 DEF ChosenInv
  <1>4. ASSUME NEW o \in DOMAIN openings, PickerAnswer(o) PROVE ChosenInv'
    <2>1. \/ openings' = [openings EXCEPT ![o].asked = FALSE]
          \/ Preset(o) # {} /\ openings' = Selected(o, CHOOSE i \in Preset(o) : TRUE, FALSE)
      BY <1>4 DEF PickerAnswer
    <2>2. Preset(o) # {} => (CHOOSE i \in Preset(o) : TRUE).mac = openings[o].host
      BY <1>0, PresetIsOwn
    <2>3. QED
      BY <1>2, <1>3, <2>1, <2>2
  <1>5. ASSUME NEW o \in DOMAIN openings, PickerFails(o) PROVE ChosenInv'
    BY <1>2, <1>5 DEF PickerFails
  <1>6. ASSUME NEW img, Choose(img) PROVE ChosenInv'
    <2>1. dialog.list \in DOMAIN openings
      <3>1. dialog \in Elements(Len(openings)) /\ Len(openings) \in Nat
        BY DEF BackupsTyped, PickerTyped
      <3>2. dialog.list \in 1 .. Len(openings)
        BY <1>6, <3>1, ElementsKept DEF Choose
      <3>3. QED
        BY <1>0, <3>2
    <2>2. openings' = Selected(dialog.list, img, TRUE)
      BY <1>6 DEF Choose
    <2>3. QED
      BY <1>3, <2>1, <2>2
  <1>7. CASE UNCHANGED openings
    BY <1>7 DEF ChosenInv
  <1>8. QED
    BY <1>1, <1>4, <1>5, <1>6, <1>7
       DEF Next, Begin, StartRename, Write, Removed, NewDrive, CopyStarts, CopyEnds, CopyStops, Serve, Render,
           DeleteImage, Confirm, Poll, SaveRename, CancelRename, Cancel, picker, vars

\* A restore is confirmed with an image of another machine only if that was
\* clicked in the list of its own opening, however many openings overlap.
THEOREM ChosenTheorem == Spec => []ChosenForHost
  <1>1. Init => ChosenInv
    BY DEF Init, ChosenInv
  <1>2. BackupsTyped /\ ChosenInv /\ [Next]_vars => ChosenInv'
    BY ChosenStep
  <1>3. ChosenInv => ChosenForHost
    BY DEF ChosenInv, ChosenForHost, Confirmable
  <1>4. QED
    BY <1>1, <1>2, <1>3, TypedAlways, PTL DEF Spec

-----------------------------------------------------------------------------
(* Names.                                                                  *)

\* A request to rename carries the group of its editor from the moment it is
\* sent, however long it is under way.
RenameInv ==
    /\ label = [m \in Macs |-> label[m]]
    /\ \A m \in Macs : label[m] \in {m, None}
    /\ \A r \in sent : r.what = "rename" => r.text = r.mac

LEMMA RenameStep ==
    ASSUME RenameInv, [Next]_vars
    PROVE  RenameInv'
  <1>1. ASSUME NEW r \in sent, Serve(r) PROVE RenameInv'
    <2>1. CASE ServeRename(r)
      BY <1>1, <2>1 DEF Serve, ServeRename, RenameInv
    <2>2. CASE ServeDelete(r)
      BY <1>1, <2>2 DEF Serve, ServeDelete, RenameInv
    <2>3. QED
      BY <1>1, <2>1, <2>2 DEF Serve
  <1>2. CASE SaveRename
    BY <1>2 DEF SaveRename, RenameInv, server, images
  <1>3. ASSUME NEW img, DeleteImage(img) PROVE RenameInv'
    BY <1>3 DEF DeleteImage, RenameInv, server, images
  <1>4. CASE UNCHANGED <<label, sent>>
    BY <1>4 DEF RenameInv
  <1>5. QED
    BY <1>1, <1>2, <1>3, <1>4
       DEF Next, Begin, StartRename, OpenPicker, Write, Removed, NewDrive, CopyStarts, CopyEnds, CopyStops,
           Render, Choose, PickerAnswer, PickerFails, Confirm, Poll, CancelRename, Cancel, server, images, vars

\* A name is saved for the group in whose editor it was typed: commitRename
\* closes over its group, whatever is drawn, opened or answered meanwhile.
THEOREM RenameTheorem == Spec => []RenamesTheTyped
  <1>1. Init => RenameInv
    BY DEF Init, RenameInv
  <1>2. RenameInv /\ [Next]_vars => RenameInv'
    BY RenameStep
  <1>3. RenameInv => RenamesTheTyped
    BY DEF RenameInv, RenamesTheTyped
  <1>4. QED
    BY <1>1, <1>2, <1>3, PTL DEF Spec
=============================================================================
