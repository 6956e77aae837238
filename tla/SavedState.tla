------------------------------ MODULE SavedState -----------------------------
(***************************************************************************)
(* What store.rs promises: the file holds a whole document or is not       *)
(* there, a save puts the document it was given in its place at one        *)
(* moment, and a session starts from what the file holds. A file nobody    *)
(* can read is unreadable until it is moved out of the way. A power cut    *)
(* may take the file back to what it held since the disk last settled.     *)
(***************************************************************************)
CONSTANTS
  Doc,          \* the documents a session can hold
  Fresh,        \* the one it starts from without a file
  Restored(_),  \* what a session makes of a document it reads
  Absent,       \* no file
  Unreadable,   \* a file that does not decode
  Nothing       \* no session, no save under way

VARIABLES
  kept,     \* what the file holds
  earlier,  \* what a power cut may leave of it
  mem,      \* the session's document
  saving    \* the document of the save under way

TypeOK ==
  /\ kept \in Doc \cup {Absent, Unreadable}
  /\ earlier \subseteq Doc \cup {Absent, Unreadable}
  /\ mem \in Doc \cup {Nothing}
  /\ saving \in Doc \cup {Nothing}

\* A session starts from the file, or from scratch if it is absent or cannot
\* be read. Then the file is moved away, or not.
Start ==
  /\ mem = Nothing
  /\ UNCHANGED saving
  /\ \/ kept \in Doc /\ mem' = Restored(kept) /\ UNCHANGED <<kept, earlier>>
     \/ kept = Absent /\ mem' = Fresh /\ UNCHANGED <<kept, earlier>>
     \/ /\ kept # Absent
        /\ mem' = Fresh
        /\ \/ kept' = Absent /\ earlier' = earlier \cup {Absent}
           \/ UNCHANGED <<kept, earlier>>

Change == mem # Nothing /\ mem' \in Doc /\ UNCHANGED <<kept, earlier, saving>>

Begin == mem # Nothing /\ saving' = Restored(mem) /\ UNCHANGED <<kept, earlier, mem>>

Commit ==
  /\ saving # Nothing
  /\ kept' = saving /\ earlier' = earlier \cup {saving} /\ saving' = Nothing
  /\ UNCHANGED mem

Fail == saving' = Nothing /\ UNCHANGED <<kept, earlier, mem>>

Stop == mem' = Nothing /\ saving' = Nothing /\ UNCHANGED <<kept, earlier>>

\* The disk has caught up.
Settle == earlier' = {kept} /\ UNCHANGED <<kept, mem, saving>>

PowerCut ==
  /\ kept' \in earlier /\ earlier' = {kept'}
  /\ mem' = Nothing /\ saving' = Nothing

Init == kept \in Doc \cup {Absent, Unreadable} /\ earlier = {kept} /\ mem = Nothing /\ saving = Nothing

Next == Start \/ Change \/ Begin \/ Commit \/ Fail \/ Stop \/ Settle \/ PowerCut

Spec == Init /\ [][Next]_<<kept, earlier, mem, saving>>

=============================================================================
