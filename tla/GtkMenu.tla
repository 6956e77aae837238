-------------------------------- MODULE GtkMenu --------------------------------
(***************************************************************************)
(* The profile selector of the GTK shell (src/gtk_shell/profile.rs): a     *)
(* list of widgets that is rebuilt when the profiles or the active one     *)
(* change, and whose rows speak to the reducer over the message bus, so    *)
(* that the profiles may have moved by the time a message is read. What    *)
(* the reducer makes of it is state.rs.                                    *)
(***************************************************************************)
EXTENDS Sequences, SequencesExt

CONSTANTS
  Name,      \* names a profile can have
  NoProfile, \* no active profile
  MaxPosted  \* bound: messages on the bus

VARIABLES
  profiles, active,  \* the reducer's
  rows,      \* the labels of the list's rows
  names,     \* the vector the rows' indices are looked up in
  checked,   \* the profile whose row has the check, which the button is named for
  carried,   \* the name a drag carries
  posted,    \* messages on the bus, oldest first
  creating   \* whether the reducer has the create dialog open

gtkMenuVars == <<profiles, active, rows, names, checked, carried, posted, creating>>

-----------------------------------------------------------------------------
Distinct(ps) == \A i, j \in DOMAIN ps : ps[i] = ps[j] => i = j

GtkMenuInit ==
  /\ profiles \in {ps \in UNION {[1 .. n -> Name] : n \in 1 .. 2} : Distinct(ps)}
  /\ active = profiles[1]
  /\ rows = profiles /\ names = profiles /\ checked = active
  /\ carried = NoProfile /\ posted = <<>> /\ creating = FALSE

\* Broken variant of Sync: a list of the same rows is left alone, whichever is
\* active.
SyncNames ==
  IF rows = profiles' THEN UNCHANGED <<rows, names, checked>>
  ELSE rows' = profiles' /\ names' = profiles' /\ checked' = active'

\* ProfileSelector.sync: what neither names nor the active one have moved for is
\* left alone.
Sync ==
  IF rows = profiles' /\ checked = active' THEN UNCHANGED <<rows, names, checked>>
  ELSE rows' = profiles' /\ names' = profiles' /\ checked' = active'

Posts(message) ==
  /\ Len(posted) < MaxPosted
  /\ posted' = Append(posted, message)

\* A row is activated: a profile, the row that makes one, or the rule between the
\* two, which never is.
ActivateRow(index) ==
  /\ index \in 1 .. Len(rows) + 2
  /\ \/ index \in DOMAIN names /\ Posts([op |-> "apply", name |-> names[index]])
     \/ index = Len(names) + 2 /\ Posts([op |-> "create"])
  /\ UNCHANGED <<profiles, active, rows, names, checked, carried, creating>>

\* A drag takes the name its row was built with, and keeps it while rows go.
DragRow(index) ==
  /\ index \in DOMAIN rows
  /\ carried = NoProfile
  /\ carried' = rows[index]
  /\ UNCHANGED <<profiles, active, rows, names, checked, posted, creating>>

\* It is dropped on one half of a row, or nowhere.
DropOn(index, before) ==
  /\ carried # NoProfile
  /\ index \in DOMAIN rows
  /\ carried' = NoProfile
  /\ IF rows[index] = carried THEN UNCHANGED posted
     ELSE Posts([op |-> "reorder", name |-> carried, target |-> rows[index], before |-> before])
  /\ UNCHANGED <<profiles, active, rows, names, checked, creating>>

DragEnds ==
  /\ carried # NoProfile
  /\ carried' = NoProfile
  /\ UNCHANGED <<profiles, active, rows, names, checked, posted, creating>>

-----------------------------------------------------------------------------
(* The reducer's part.                                                     *)

\* Broken variant of Moved: the place is the one before the name was taken out.
MovedInPlace(name, target, before) ==
  LET rest == SelectSeq(profiles, LAMBDA n : n # name)
      at   == CHOOSE i \in DOMAIN profiles : profiles[i] = target
      to   == IF before THEN at ELSE at + 1
  IN InsertAt(rest, IF to > Len(rest) + 1 THEN Len(rest) + 1 ELSE to, name)

Moved(name, target, before) ==
  LET rest == SelectSeq(profiles, LAMBDA n : n # name)
      at   == CHOOSE i \in DOMAIN rest : rest[i] = target
  IN InsertAt(rest, IF before THEN at ELSE at + 1, name)

\* The bus is read: one message, and the list follows before the next callback.
ReadPosted ==
  /\ posted # <<>>
  /\ posted' = Tail(posted)
  /\ LET m == Head(posted) IN
       CASE m.op = "apply" ->
              /\ active' = IF Contains(profiles, m.name) THEN m.name ELSE active
              /\ UNCHANGED <<profiles, creating>>
         [] m.op = "create" -> creating' = TRUE /\ UNCHANGED <<profiles, active>>
         [] m.op = "reorder" ->
              /\ profiles' = IF Contains(profiles, m.name) /\ Contains(profiles, m.target)
                             THEN Moved(m.name, m.target, m.before) ELSE profiles
              /\ UNCHANGED <<active, creating>>
  /\ UNCHANGED carried
  /\ Sync

\* The dialogs create, rename and delete a profile.
CreateProfile(name) ==
  /\ creating
  /\ profiles' = IF Contains(profiles, name) THEN profiles ELSE Append(profiles, name)
  /\ active' = name
  /\ creating' = FALSE
  /\ UNCHANGED <<carried, posted>>
  /\ Sync

RenameProfile(old, name) ==
  /\ Contains(profiles, old) /\ ~Contains(profiles, name)
  /\ profiles' = ReplaceAll(profiles, old, name)
  /\ active' = IF active = old THEN name ELSE active
  /\ UNCHANGED <<carried, posted, creating>>
  /\ Sync

DeleteProfile(name) ==
  /\ Contains(profiles, name) /\ Len(profiles) > 1
  /\ profiles' = SelectSeq(profiles, LAMBDA n : n # name)
  /\ active' = IF active = name THEN profiles'[1] ELSE active
  /\ UNCHANGED <<carried, posted, creating>>
  /\ Sync

GtkMenuNext ==
  \/ \E index \in 1 .. Len(rows) + 2 : ActivateRow(index)
  \/ \E index \in DOMAIN rows : DragRow(index)
  \/ \E index \in DOMAIN rows, before \in BOOLEAN : DropOn(index, before)
  \/ DragEnds
  \/ ReadPosted
  \/ \E name \in Name : CreateProfile(name) \/ DeleteProfile(name)
  \/ \E old, name \in Name : RenameProfile(old, name)

GtkMenuSpec == GtkMenuInit /\ [][GtkMenuNext]_gtkMenuVars

-----------------------------------------------------------------------------
(* Properties.                                                             *)

\* "so an activated row maps back to a profile": whenever GTK can call back, the
\* list shows the profiles there are with the check on the active one, and a row
\* stands for the profile it is labelled with.
MenuIsOfNow == rows = profiles /\ names = rows /\ checked = active

\* "Which half of the target it lands on decides the side": when a drop is read,
\* whatever has been moved since it was made, the name stands beside its target
\* on that side, and the others stay as they were to each other.
DropsLand ==
  [][\A m \in {posted[i] : i \in DOMAIN posted} :
       m.op = "reorder" /\ m = Head(posted) /\ posted' = Tail(posted)
       /\ Contains(profiles, m.name) /\ Contains(profiles, m.target)
         => /\ \E i \in 1 .. Len(profiles') - 1 :
                 IF m.before THEN profiles'[i] = m.name /\ profiles'[i + 1] = m.target
                             ELSE profiles'[i] = m.target /\ profiles'[i + 1] = m.name
            /\ SelectSeq(profiles', LAMBDA n : n # m.name)
                 = SelectSeq(profiles, LAMBDA n : n # m.name)]_gtkMenuVars

=============================================================================
