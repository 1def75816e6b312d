------------------------------ MODULE Backups ------------------------------
(***************************************************************************)
(* The backups table, its name editor and the restore dialog of the page,  *)
(* against the image store.                                                *)
(*                                                                         *)
(* refreshBackups has no guard: polls and clicks ask for /api/images while *)
(* earlier answers are still under way, and each answer replaces the       *)
(* table.  The restore dialog is one set of elements for all its openings: *)
(* an opening that was cancelled still gets its answer and fills the list, *)
(* and the confirm button, under the header of a later one.                *)
(*                                                                         *)
(* Meanwhile machines write backups, deletions go on after they were given *)
(* up, and a change of drive gives the interface an empty drive and copies *)
(* images of the old one to it.                                            *)
(*                                                                         *)
(* An image is its machine and its number among all images, in the order   *)
(* of their time stamps; the store lists them by modification time.        *)
(***************************************************************************)
EXTENDS Lists, FiniteSets, SequencesExt

CONSTANTS
    Macs, None,
    MaxImages,  \* bound on the images ever begun
    MaxFetches, \* bound on the answers under way
    MaxClicks   \* bound on what the operator does, on the page and at the terminal

Image == [mac : Macs, id : 1 .. MaxImages]

ASSUME BackupsAssumption ==
    /\ Macs # {} /\ None \notin Macs \cup Image
    /\ MaxImages \in Nat \ {0} /\ MaxFetches \in Nat \ {0} /\ MaxClicks \in Nat

VARIABLES
    store,    \* the images, the one modified last at the end
    begun,    \* the images begun so far
    writing,  \* the images a job is writing
    deleting, \* the images of this drive that a deletion has begun to take apart
    damaged,  \* those and the ones it had begun with on an earlier drive
    old,      \* the images of the drive before, the one modified last at the end
    todo,     \* those of them still to be copied
    copying,  \* the one that is being copied, or None
    partial,  \* the images whose copy has stopped half-way
    label,    \* machine_names.json: in which group's editor its name was typed
    sent,     \* the renames and deletions under way
    table,    \* what the table shows
    editor,   \* the group whose name cell is an editor, or None
    renaming, \* renamingMac
    fetches,  \* the answers under way
    openings, \* the openings of the restore dialog, with their closures
    dialog,   \* its elements: shown, confirm enabled, whose list, whose onclick
    clicks

images == <<store, begun, writing, deleting, damaged>>
copies == <<old, todo, copying, partial>>
server == <<images, copies, label>>
rows   == <<table, editor, renaming, fetches>>
picker == <<openings, dialog>>
vars   == <<server, sent, rows, picker, clicks>>

Ids   == 0 .. 1 + MaxClicks \* an opening, or 0

Of(m, list) == Picked(list, {i \in DOMAIN list : list[i].mac = m})
Groups(list) == {img.mac : img \in ToSet(list)}

TypeOK ==
    /\ store \in Seq(Image) /\ IsInjective(store)
    /\ begun \in 0 .. MaxImages
    /\ writing \subseteq Image /\ deleting \subseteq damaged /\ damaged \subseteq Image
    /\ old \in Seq(Image) /\ IsInjective(old)
    /\ todo \subseteq ToSet(old) /\ copying \in ToSet(old) \cup {None} /\ partial \subseteq Image
    /\ label \in [Macs -> Macs \cup {None}]
    /\ \A q \in sent : q.what \in {"rename", "delete"}
    /\ \A list \in {table} \cup ToSet(fetches) : list \in Seq(Image) /\ IsInjective(list)
    /\ editor \in Groups(table) \cup {None}
    /\ renaming \in Macs \cup {None}
    /\ \A o \in DOMAIN openings :
         /\ openings[o].host \in Macs
         /\ openings[o].preset \in Image \cup {None}
         /\ openings[o].selected \in Image \cup {None}
    /\ dialog \in [shown : BOOLEAN, enabled : BOOLEAN, list : Ids, onclick : Ids]

\* One machine has a backup already.
Init ==
    /\ store = <<[mac |-> CHOOSE m \in Macs : TRUE, id |-> 1]>>
    /\ begun = 1 /\ writing = {} /\ deleting = {} /\ damaged = {}
    /\ old = <<>> /\ todo = {} /\ copying = None /\ partial = {}
    /\ label = [m \in Macs |-> None]
    /\ sent = {}
    /\ table = <<>>
    /\ editor = None /\ renaming = None /\ fetches = <<>>
    /\ openings = <<>>
    /\ dialog = [shown |-> FALSE, enabled |-> FALSE, list |-> 0, onclick |-> 0]
    /\ clicks = 0

-----------------------------------------------------------------------------
(* The image store.                                                        *)

\* A machine writes one image at a time; one that hung may be written no more.
Begin(m) ==
    /\ begun < MaxImages /\ begun' = begun + 1
    /\ LET img == [mac |-> m, id |-> begun + 1] IN
         /\ store' = Append(store, img)
         /\ writing' = {w \in writing : w.mac # m} \cup {img}
    /\ UNCHANGED <<deleting, damaged, copies, label, sent, rows, picker, clicks>>

\* Nobody tells when a job has ended: it just writes no more.
Touched(img) == Append(Without(store, img), img)

Write(img) ==
    /\ img \in writing /\ img \in ToSet(store)
    /\ store' = Touched(img)
    /\ UNCHANGED <<begun, writing, deleting, damaged, copies, label, sent, rows, picker, clicks>>

\* A deletion that went on after its timeout ends.
Removed(img) ==
    /\ img \in deleting /\ img \in ToSet(store)
    /\ store' = Without(store, img)
    /\ UNCHANGED <<begun, writing, deleting, damaged, copies, label, sent, rows, picker, clicks>>

\* What the operator chooses to copy: everything, one image or nothing.
Selections == {ToSet(store), {}} \cup {{img} : img \in ToSet(store)}

\* recovery-change-storage from stopping the interface to the choice: it serves
\* an empty drive now; jobs and deletions that were under way are cut off.  The
\* operator has answered two questions.
NewDrive(chosen) ==
    /\ clicks + 2 <= MaxClicks /\ clicks' = clicks + 2
    /\ todo = {} /\ copying = None
    /\ old' = store /\ store' = <<>>
    /\ todo' = chosen
    /\ writing' = {} /\ deleting' = {}
    /\ UNCHANGED <<begun, damaged, copying, partial, label, sent, rows, picker>>

\* rsync -a, one image after the other; what it writes is modified now.
CopyStarts(img) ==
    /\ copying = None /\ copying' = img
    /\ todo' = todo \ {img}
    /\ store' = Touched(img)
    /\ UNCHANGED <<begun, writing, deleting, damaged, old, partial, label, sent, rows, picker, clicks>>

\* Mutation: the copy keeps the time it was made at (rsync -r).
CopyEndsUndated ==
    /\ copying \in ToSet(store) /\ copying' = None
    /\ UNCHANGED <<images, old, todo, partial, label, sent, rows, picker, clicks>>

\* The copies that have their old times again, which are before those of
\* everything else on the drive, unless a deletion has touched them.
Dated == {img \in ToSet(store) \cap ToSet(old) : img \notin deleting}

\* At the end of a copy its time is set to that of the original.
CopyEnds ==
    /\ copying \in ToSet(store) /\ copying' = None
    /\ store' = Picked(old, {i \in DOMAIN old : old[i] \in Dated})
                  \o Picked(store, {i \in DOMAIN store : store[i] \notin Dated})
    /\ UNCHANGED <<begun, writing, deleting, damaged, old, todo, partial, label, sent, rows, picker,
                   clicks>>

\* An error of rsync or the operator's interrupt ends the whole change.
CopyStops ==
    /\ todo # {} \/ copying # None
    /\ todo' = {} /\ copying' = None
    /\ partial' = partial \cup ({copying} \ {None})
    /\ UNCHANGED <<images, old, label, sent, rows, picker, clicks>>

\* Version numbers are derived from the modification times.
Version(img, list) ==
    LET own == Of(img.mac, list) IN CHOOSE n \in DOMAIN own : own[n] = img

-----------------------------------------------------------------------------
(* The interface's answers to the operator's requests.                     *)

ServeRename(r) ==
    /\ r.what = "rename"
    /\ label' = [label EXCEPT ![r.mac] = r.text]
    /\ UNCHANGED <<images, copies>>

\* recovery-rmimage: the image is gone; or it was gone before, which is an
\* error; or the helper is given up after 60 s while it goes on deleting, which
\* makes the image the one modified last.
ServeDelete(r) ==
    /\ r.what = "delete"
    /\ \/ /\ store' = Without(store, r.image)
          /\ UNCHANGED <<deleting, damaged>>
       \/ /\ r.image \in ToSet(store)
          /\ store' = Touched(r.image)
          /\ deleting' = deleting \cup {r.image} /\ damaged' = damaged \cup {r.image}
    /\ UNCHANGED <<begun, writing, copies, label>>

\* The answers to "rename" and "delete" make the page refresh, as Poll may.
Serve(r) ==
    /\ ServeRename(r) \/ ServeDelete(r)
    /\ sent' = sent \ {r}
    /\ UNCHANGED <<rows, picker, clicks>>

-----------------------------------------------------------------------------
(* The table.                                                              *)

\* The store is read when it is asked for; reading it later is asking later.
Asks ==
    /\ Len(fetches) < MaxFetches
    /\ fetches' = Append(fetches, store)

\* The timer skips while a name is being edited.
Poll ==
    /\ renaming = None
    /\ Asks
    /\ UNCHANGED <<server, sent, table, editor, renaming, picker, clicks>>

\* Mutation: the table is drawn again only if the number of images changed.
RenderOnChange(i) ==
    /\ table' = IF Len(fetches[i]) = Len(table) THEN table ELSE fetches[i]
    /\ editor' = IF renaming \in Groups(table') THEN renaming ELSE None
    /\ fetches' = RemoveAt(fetches, i)
    /\ UNCHANGED <<server, sent, renaming, picker, clicks>>

\* Mutation: the editor is drawn whether or not its group is there.
RenderEditor(i) ==
    /\ table' = fetches[i]
    /\ editor' = renaming
    /\ fetches' = RemoveAt(fetches, i)
    /\ UNCHANGED <<server, sent, renaming, picker, clicks>>

\* The answers arrive in any order; a request that fails changes nothing.
Render(i) ==
    /\ table' = fetches[i]
    /\ editor' = IF renaming \in Groups(fetches[i]) THEN renaming ELSE None
    /\ fetches' = RemoveAt(fetches, i)
    /\ UNCHANGED <<server, sent, renaming, picker, clicks>>

Clicks == clicks < MaxClicks /\ clicks' = clicks + 1

\* A group with the editor open offers save and cancel instead.
StartRename(m) ==
    /\ Clicks /\ ~dialog.shown
    /\ m \in Groups(table) /\ m # editor
    /\ renaming' = m
    /\ Asks
    /\ UNCHANGED <<server, sent, table, editor, picker>>

CancelRename ==
    /\ editor # None
    /\ renaming' = None
    /\ Asks
    /\ UNCHANGED <<server, sent, table, editor, picker, clicks>>

\* Mutation: the name goes to the group that is being renamed now.
SaveRenameOfNow ==
    /\ editor # None
    /\ sent' = sent \cup {[what |-> "rename", mac |-> IF renaming = None THEN editor ELSE renaming,
                           text |-> editor]}
    /\ renaming' = None
    /\ UNCHANGED <<server, table, editor, fetches, picker, clicks>>

\* commitRename, which closed over its group when the editor was rendered.
SaveRename ==
    /\ editor # None
    /\ sent' = sent \cup {[what |-> "rename", mac |-> editor, text |-> editor]}
    /\ renaming' = None
    /\ UNCHANGED <<server, table, editor, fetches, picker, clicks>>

DeleteImage(img) ==
    /\ Clicks /\ ~dialog.shown
    /\ img \in ToSet(table)
    /\ sent' = sent \cup {[what |-> "delete", image |-> img]}
    /\ UNCHANGED <<server, rows, picker>>

-----------------------------------------------------------------------------
(* The restore dialog.                                                     *)

\* openRestorePicker, from a device row or with the version clicked.
OpenPicker(m, preset) ==
    /\ Clicks /\ ~dialog.shown
    /\ openings' = Append(openings, [host |-> m, preset |-> preset, asked |-> TRUE,
                                     selected |-> None, clicked |-> FALSE])
    /\ dialog' = [dialog EXCEPT !.shown = TRUE, !.enabled = FALSE, !.list = 0]
    /\ UNCHANGED <<server, sent, rows>>

Cancel ==
    /\ dialog.shown /\ dialog' = [dialog EXCEPT !.shown = FALSE]
    /\ UNCHANGED <<server, sent, rows, openings, clicks>>

\* Mutation: the selection is one variable of the page.
SelectedShared(o, img, click) ==
    [p \in DOMAIN openings |-> [openings[p] EXCEPT !.selected = img, !.asked = @ /\ p # o,
                                                   !.clicked = @ \/ (click /\ p = o)]]

\* select(): the selection belongs to the opening.
Selected(o, img, click) ==
    [openings EXCEPT ![o].selected = img, ![o].asked = FALSE, ![o].clicked = @ \/ click]

\* What is selected beforehand: the version asked for if it is still there, or
\* the newest image of the machine.
Preset(o) ==
    LET own == Of(openings[o].host, store) IN
    IF openings[o].preset # None
    THEN {openings[o].preset} \cap ToSet(store)
    ELSE IF own = <<>> THEN {} ELSE {Last(own)}

\* With images the list, the selection and the handler are those of this
\* opening; without any the button is left as it is.
PickerAnswer(o) ==
    /\ openings[o].asked
    /\ IF store = <<>>
       THEN /\ openings' = [openings EXCEPT ![o].asked = FALSE]
            /\ dialog' = [dialog EXCEPT !.list = 0]
       ELSE IF Preset(o) = {}
       THEN /\ openings' = [openings EXCEPT ![o].asked = FALSE]
            /\ dialog' = [dialog EXCEPT !.list = o, !.onclick = o]
       ELSE /\ openings' = Selected(o, CHOOSE img \in Preset(o) : TRUE, FALSE)
            /\ dialog' = [dialog EXCEPT !.list = o, !.onclick = o, !.enabled = TRUE]
    /\ UNCHANGED <<server, sent, rows, clicks>>

PickerFails(o) ==
    /\ openings[o].asked
    /\ openings' = [openings EXCEPT ![o].asked = FALSE]
    /\ dialog' = [dialog EXCEPT !.list = 0, !.onclick = o]
    /\ UNCHANGED <<server, sent, rows, clicks>>

Choose(img) ==
    /\ Clicks /\ dialog.shown /\ dialog.list # 0
    /\ img \in ToSet(store)
    /\ openings' = Selected(dialog.list, img, TRUE)
    /\ dialog' = [dialog EXCEPT !.enabled = TRUE]
    /\ UNCHANGED <<server, sent, rows>>

\* The handler and the selection are those of the opening that set onclick.
Confirmable(o) == dialog.shown /\ dialog.enabled /\ dialog.onclick = o /\ openings[o].selected # None

\* The final question names host and image of that opening, and arms it.
Confirm(o) ==
    /\ Confirmable(o)
    /\ dialog' = [dialog EXCEPT !.shown = FALSE]
    /\ UNCHANGED <<server, sent, rows, openings, clicks>>

-----------------------------------------------------------------------------

Next ==
    \/ \E m \in Macs : Begin(m) \/ StartRename(m) \/ OpenPicker(m, None)
    \/ \E img \in writing : Write(img)
    \/ \E img \in deleting : Removed(img)
    \/ \E chosen \in Selections : NewDrive(chosen)
    \/ \E img \in todo : CopyStarts(img)
    \/ CopyEnds \/ CopyStops
    \/ \E r \in sent : Serve(r)
    \/ \E i \in DOMAIN fetches : Render(i)
    \/ \E img \in ToSet(table) : DeleteImage(img) \/ OpenPicker(img.mac, img)
    \/ \E img \in ToSet(store) : Choose(img)
    \/ \E o \in DOMAIN openings : PickerAnswer(o) \/ PickerFails(o) \/ Confirm(o)
    \/ Poll \/ SaveRename \/ CancelRename \/ Cancel

Spec == Init /\ [][Next]_vars

\* The timer polls and the answers arrive; the operator may do nothing more.
FairSpec ==
    Spec /\ WF_vars(Poll) /\ WF_vars(\E i \in DOMAIN fetches : Render(i))

-----------------------------------------------------------------------------
(* Properties.                                                             *)

\* The versions of a machine are numbered in the order they were taken in, so
\* that "latest" is the newest backup, whatever is written, deleted and copied
\* to another drive.  Excepted are the images whose modification time is not
\* that of the backup: one that a deletion has begun to take apart, one that is
\* being copied and one whose copy stopped half-way, which come out latest.
VersionsFollowTime ==
    \A v, w \in ToSet(store) \ (damaged \cup partial \cup {copying}) :
        v.mac = w.mac /\ v.id < w.id => Version(v, store) < Version(w, store)

\* A name is saved for the group in whose editor it was typed, also when the
\* operator has meanwhile opened another one or the table was drawn again.
RenamesTheTyped == \A m \in Macs : label[m] \in {m, None}

\* A restore is confirmed with an image of another machine only if that was
\* clicked in the list of its own opening, however the answers of overlapping
\* openings arrive.
ChosenForHost ==
    \A o \in DOMAIN openings : Confirmable(o) =>
        openings[o].clicked \/ openings[o].selected.mac = openings[o].host

\* The table comes to show the images there are, unless a name is being edited,
\* although answers may overtake each other.
TableCatchesUp == <>[](table = store \/ renaming # None)
=============================================================================
