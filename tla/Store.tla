-------------------------------- MODULE Store --------------------------------
(***************************************************************************)
(* The state file on the disk: store.rs's load, quarantine and save,       *)
(* atomic_write of lib.rs and boot_from of state.rs, a system call a step, *)
(* among kills and power cuts.                                             *)
(*                                                                         *)
(* The file system is external: names lead to inodes; what a process reads *)
(* is what was written last; a power cut leaves of an inode that was not   *)
(* synced the front of its contents, and undoes the last of the directory  *)
(* operations that are not on the disk yet, in the order they were made.   *)
(***************************************************************************)
EXTENDS Codec, FiniteSets

CONSTANTS
  Proc,       \* the processes that may run on one directory
  Inode,
  DocSet,     \* the documents a session's edits come to
  FirstFile,  \* what the file may hold at first, None if there is none
  Absent, Unreadable,
  Chunk,      \* bound: fields that one write call takes
  MaxSaves,   \* bound: saves begun
  MaxCuts     \* bound: kills and power cuts

VARIABLES
  dir,      \* name -> inode or None, as processes see it
  journal,  \* the directories a power cut may come back to, oldest first
  data,     \* inode -> its contents and whether they are on the disk
  pc,       \* process -> where it is
  mem,      \* process -> its document
  dirty,    \* process -> whether the document has edits no save has taken
  out,      \* process -> the bytes it is saving
  tmp,      \* process -> the inode it has open
  saves, cuts,
  unread    \* what was on the disk and was set aside last, None once it could be read

storeVars == <<dir, journal, data, pc, mem, dirty, out, tmp, saves, cuts, unread>>

disk == <<dir, journal, data>>

Name == {"state", "tmp", "bad"}

\* A session without a file: one profile, the default window.
FreshDoc ==
  [width |-> 560, height |-> 720, maximized |-> FALSE, fitted |-> FALSE, active |-> "Default",
   pages |-> <<[name |-> "Default", default_sink |-> None, sinks |-> <<>>, apps |-> <<>>,
                default_source |-> None, sources |-> <<>>,
                filter |-> <<TRUE, TRUE, TRUE>>]>>]

\* What stands for nothing is no document and no inode.
ASSUME StoreAssumption ==
  /\ Chunk \in Nat \ {0}
  /\ None \notin Inode \cup DocSet \cup {FreshDoc}
  /\ Absent \notin {None, Unreadable}

Contents(name) == data[dir[name]].is

Moved(d, from, to) == [d EXCEPT ![to] = d[from], ![from] = None]

Enter(d) == dir' = d /\ journal' = Append(journal, d)

At(p, where) == pc' = [pc EXCEPT ![p] = where]

-----------------------------------------------------------------------------
(* Booting.                                                                *)

\* The file is read at once: it is absent, it decodes, or it is trouble,
\* which a failing read is too.
Load(p) ==
  /\ pc[p] = "off"
  /\ UNCHANGED <<disk, out, tmp, saves, cuts>>
  /\ dirty' = [dirty EXCEPT ![p] = FALSE]
  /\ \/ /\ dir["state"] = None
        /\ mem' = [mem EXCEPT ![p] = FreshDoc] /\ At(p, "run") /\ UNCHANGED unread
     \/ /\ dir["state"] # None
        /\ Decode(Contents("state")) # None
        /\ mem' = [mem EXCEPT ![p] = Decode(Contents("state"))] /\ At(p, "run")
        /\ unread' = IF unread = Contents("state") THEN None ELSE unread
     \/ /\ dir["state"] # None
        /\ mem' = [mem EXCEPT ![p] = FreshDoc] /\ At(p, "aside") /\ UNCHANGED unread

\* Broken variant of Quarantine: the file is deleted.
QuarantineDeleting(p) ==
  /\ pc[p] = "aside"
  /\ At(p, "run")
  /\ UNCHANGED <<data, mem, dirty, out, tmp, saves, cuts>>
  /\ Enter([dir EXCEPT !["state"] = None])
  /\ unread' = IF dir["state"] = None THEN unread ELSE Contents("state")

\* What could not be read is moved aside, or that fails and it stays.
Quarantine(p) ==
  /\ pc[p] = "aside"
  /\ At(p, "run")
  /\ UNCHANGED <<data, mem, dirty, out, tmp, saves, cuts>>
  /\ \/ /\ dir["state"] # None
        /\ Enter(Moved(dir, "state", "bad"))
        /\ unread' = IF journal[1]["state"] = dir["state"] THEN Contents("state") ELSE None
     \/ UNCHANGED <<dir, journal>> /\ unread' = None

Edit(p, doc) ==
  /\ pc[p] = "run" /\ mem[p] # doc
  /\ mem' = [mem EXCEPT ![p] = doc]
  /\ dirty' = [dirty EXCEPT ![p] = TRUE]
  /\ UNCHANGED <<disk, pc, out, tmp, saves, cuts, unread>>

-----------------------------------------------------------------------------
(* Saving. The marks go first, whatever becomes of the save.               *)

Save(p) ==
  /\ pc[p] = "run" /\ dirty[p] /\ saves < MaxSaves
  /\ saves' = saves + 1
  /\ dirty' = [dirty EXCEPT ![p] = FALSE]
  /\ IF Encodes(mem[p])
     THEN out' = [out EXCEPT ![p] = Encode(mem[p])] /\ At(p, "create")
     ELSE UNCHANGED <<out, pc>>
  /\ UNCHANGED <<disk, mem, tmp, cuts, unread>>

\* A temporary file that was left behind is truncated and used again.
Create(p) ==
  /\ pc[p] = "create"
  /\ At(p, "write")
  /\ \E i \in Inode :
       /\ IF dir["tmp"] # None THEN i = dir["tmp"]
          ELSE \A n \in Name : dir[n] # i /\ \A k \in DOMAIN journal : journal[k][n] # i
       /\ IF dir["tmp"] # None THEN UNCHANGED <<dir, journal>> ELSE Enter([dir EXCEPT !["tmp"] = i])
       /\ data' = [data EXCEPT ![i] = [is |-> <<>>, safe |-> FALSE]]
       /\ tmp' = [tmp EXCEPT ![p] = i]
  /\ UNCHANGED <<mem, dirty, out, saves, cuts, unread>>

Write(p) ==
  /\ pc[p] = "write"
  /\ LET i    == tmp[p]
         so   == Len(data[i].is)
         upto == IF so + Chunk < Len(out[p]) THEN so + Chunk ELSE Len(out[p])
     IN /\ data' = [data EXCEPT ![i] = [is |-> SubSeq(out[p], 1, upto), safe |-> FALSE]]
        /\ IF upto = Len(out[p]) THEN At(p, "sync") ELSE UNCHANGED pc
  /\ UNCHANGED <<dir, journal, mem, dirty, out, tmp, saves, cuts, unread>>

\* Broken variant of Sync: nothing waits for the disk.
SyncSkipped(p) ==
  /\ pc[p] = "sync"
  /\ At(p, "rename")
  /\ UNCHANGED <<dir, journal, data, mem, dirty, out, tmp, saves, cuts, unread>>

Sync(p) ==
  /\ pc[p] = "sync"
  /\ At(p, "rename")
  /\ data' = [data EXCEPT ![tmp[p]] = [is |-> @.is, safe |-> TRUE]]
  /\ UNCHANGED <<dir, journal, mem, dirty, out, tmp, saves, cuts, unread>>

Rename(p) ==
  /\ pc[p] = "rename" /\ dir["tmp"] # None
  /\ At(p, "run")
  /\ Enter(Moved(dir, "tmp", "state"))
  /\ out' = [out EXCEPT ![p] = <<>>]
  /\ tmp' = [tmp EXCEPT ![p] = None]
  /\ UNCHANGED <<data, mem, dirty, saves, cuts, unread>>

\* Any step of a save may fail, which leaves things where they are.
Fail(p) ==
  /\ pc[p] \in {"create", "write", "sync", "rename"}
  /\ At(p, "run")
  /\ out' = [out EXCEPT ![p] = <<>>]
  /\ tmp' = [tmp EXCEPT ![p] = None]
  /\ UNCHANGED <<disk, mem, dirty, saves, cuts, unread>>

-----------------------------------------------------------------------------
(* Ending.                                                                 *)

Off(p) ==
  /\ pc'    = [pc EXCEPT ![p] = "off"]
  /\ mem'   = [mem EXCEPT ![p] = None]
  /\ dirty' = [dirty EXCEPT ![p] = FALSE]
  /\ out'   = [out EXCEPT ![p] = <<>>]
  /\ tmp'   = [tmp EXCEPT ![p] = None]

\* A session that ends has made its last save, or tried to.
Quit(p) ==
  /\ pc[p] = "run" /\ ~dirty[p]
  /\ Off(p)
  /\ UNCHANGED <<disk, saves, cuts, unread>>

Kill(p) ==
  /\ pc[p] # "off" /\ cuts < MaxCuts
  /\ cuts' = cuts + 1
  /\ Off(p)
  /\ UNCHANGED <<disk, saves, unread>>

\* The directory is on the disk.
Settle ==
  /\ Len(journal) > 1
  /\ journal' = <<dir>>
  /\ UNCHANGED <<dir, data, pc, mem, dirty, out, tmp, saves, cuts, unread>>

\* The front of unsynced contents, in the pieces they were written in.
Torn(i) ==
  IF data[i].safe THEN {data[i].is}
  ELSE {data[i].is} \cup {SubSeq(data[i].is, 1, n) : n \in {k \in 0 .. Len(data[i].is) : k % Chunk = 0}}

PowerCut ==
  /\ cuts < MaxCuts
  /\ cuts' = cuts + 1
  /\ \E k \in DOMAIN journal : dir' = journal[k] /\ journal' = <<journal[k]>>
  /\ \E i \in Inode : \E left \in Torn(i) :
       data' = [j \in Inode |-> IF j = i THEN [is |-> left, safe |-> TRUE]
                                ELSE [is |-> data[j].is, safe |-> TRUE]]
  /\ pc'    = [p \in Proc |-> "off"]
  /\ mem'   = [p \in Proc |-> None]
  /\ dirty' = [p \in Proc |-> FALSE]
  /\ out'   = [p \in Proc |-> <<>>]
  /\ tmp'   = [p \in Proc |-> None]
  /\ UNCHANGED <<saves, unread>>

-----------------------------------------------------------------------------

StoreInit ==
  /\ \E file \in FirstFile, i \in Inode :
       /\ i = CHOOSE x \in Inode : TRUE
       /\ dir = [n \in Name |-> IF n = "state" /\ file # None THEN i ELSE None]
       /\ data = [x \in Inode |-> [is |-> IF x = i /\ file # None THEN file ELSE <<>>, safe |-> TRUE]]
  /\ journal = <<dir>>
  /\ pc = [p \in Proc |-> "off"]
  /\ mem = [p \in Proc |-> None]
  /\ dirty = [p \in Proc |-> FALSE]
  /\ out = [p \in Proc |-> <<>>]
  /\ tmp = [p \in Proc |-> None]
  /\ saves = 0 /\ cuts = 0
  /\ unread = None

StoreNext ==
  \/ \E p \in Proc :
       \/ Load(p) \/ Quarantine(p) \/ Save(p) \/ Create(p) \/ Write(p) \/ Sync(p) \/ Rename(p)
       \/ Fail(p) \/ Quit(p) \/ Kill(p)
       \/ \E doc \in DocSet : Edit(p, doc)
  \/ Settle
  \/ PowerCut

StoreSpec == StoreInit /\ [][StoreNext]_storeVars

-----------------------------------------------------------------------------
(* Properties.                                                             *)

AnyDoc ==
  DocSet \cup {Kept(Version, d) : d \in DocSet} \cup {Decode(f) : f \in FirstFile \ {None}} \cup {FreshDoc}

\* Everything a file can hold, and what it reads as.
Fronts(file) == {SubSeq(file, 1, n) : n \in 0 .. Len(file)}

Reading ==
  [file \in (UNION {Fronts(Encode(d)) : d \in AnyDoc \ {None}}) \cup (FirstFile \ {None}) |-> Decode(file)]

\* The encodings of what a session may hold, and what a file may be.
Encoded == {Encode(d) : d \in {x \in AnyDoc \ {None} : Encodes(x)}}

WholeFile == Encoded \cup (FirstFile \ {None})

\* A document comes back from its file, and one that was read stays as it is.
CodecIsExact ==
  /\ \A d \in AnyDoc \ {None} : Encodes(d) =>
       /\ Encode(d) \in Seq(Range(Encode(d))) /\ Encode(d) # <<>>
       /\ Decode(Encode(d)) = Kept(Version, d) /\ Kept(Version, d) # None
  /\ \A file \in WholeFile : Decode(file) # None =>
       /\ Decode(file) \in AnyDoc \ {Absent}
       /\ Kept(Version, Decode(file)) = Decode(file)

\* What the file holds, as a session would find it.
Held(d) ==
  LET i == d["state"] IN
  CASE i = None                                  -> Absent
    [] i # None /\ Reading[data[i].is] = None   -> Unreadable
    [] OTHER                                     -> Reading[data[i].is]

\* With one process on the directory, the detailed file keeps the promise of
\* SavedState: whole documents, replaced at one moment.
Whose == CHOOSE p \in Proc : TRUE

Saved == INSTANCE SavedState WITH
  Doc <- AnyDoc \ {None},
  Fresh <- FreshDoc,
  Restored <- LAMBDA d : Kept(Version, d),
  Absent <- Absent, Unreadable <- Unreadable, Nothing <- None,
  kept <- Held(dir),
  earlier <- {Held(journal[k]) : k \in DOMAIN journal},
  mem <- IF pc[Whose] = "aside" THEN None ELSE mem[Whose],
  saving <- IF out[Whose] = <<>> THEN None ELSE Reading[out[Whose]]

FileIsWholeOrOld == Saved!Spec

\* What was on the disk, could not be read and was set aside is still there,
\* beside the file or, after a power cut, in its place, whatever sessions save
\* since, until other contents are set aside.
UnreadIsKept ==
  unread # None => \E n \in {"state", "bad"} : dir[n] # None /\ Contents(n) = unread

\* The document a save is about to write is what a boot makes of its file,
\* in this version's form or the one before; cut off anywhere, or with more
\* behind it, the file is refused as a whole.
OnlyWholeFilesRead ==
  \A p \in Proc : pc[p] = "create" =>
    /\ \A v \in {Version, PrevVersion} : \A file \in {Written(v, mem[p])} : Decode(file) = Kept(v, mem[p])
    /\ \A n \in 0 .. Len(out[p]) - 1 : \A file \in {SubSeq(out[p], 1, n)} : Decode(file) = None
    /\ \A file \in {Append(out[p], Num(0))} : Decode(file) = None

\* A boot takes a whole file for what it says and any other for nothing, and
\* what it takes for nothing is not lost.
NothingIsMisread == OnlyWholeFilesRead /\ UnreadIsKept

=============================================================================
