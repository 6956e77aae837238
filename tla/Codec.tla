-------------------------------- MODULE Codec --------------------------------
(***************************************************************************)
(* The state file's format: encode and decode of store.rs, and the window  *)
(* size's clamp of geometry.rs. A file is a sequence of fields, each a     *)
(* pair of what it is written as and its value: a number of whatever       *)
(* width, or a string with its length. A file cut off inside a field ends  *)
(* before it, for no read takes a part of one. The reader goes by          *)
(* positions, and position 0 is a reader that has failed.                  *)
(***************************************************************************)
EXTENDS Integers, SequencesExt

CONSTANTS
  MinDim, MaxDim,   \* bounds of a stored window size
  LongString,       \* strings too long for their length field
  None

Magic   == "BNKZ"
Version == 4
PrevVersion == 3

Num(n) == <<"num", n>>
Str(s) == <<"str", s>>
Bit(b) == Num(IF b THEN 1 ELSE 0)

-----------------------------------------------------------------------------
(* Writing. A row of fields is written kind by kind.                       *)

WriteOption(s) == IF s = None THEN <<Num(0)>> ELSE <<Num(1), Str(s)>>

WriteField(is, value) ==
  CASE is = "num"    -> <<Num(value)>>
    [] is = "flag"   -> <<Bit(value)>>
    [] is = "str"    -> <<Str(value)>>
    [] is = "option" -> WriteOption(value)

WriteRow(kinds, row) == FlattenSeq([i \in DOMAIN kinds |-> WriteField(kinds[i], row[i])])

\* A count, then the entries in key order.
WriteMany(rows, Write(_)) ==
  <<Num(Len(rows))>> \o FlattenSeq([i \in DOMAIN rows |-> Write(rows[i])])

WriteDevices(rows) == WriteMany(rows, LAMBDA r : WriteRow(<<"str", "num", "flag">>, r))

WriteApps(rows) == WriteMany(rows, LAMBDA r : WriteRow(<<"str", "num", "flag", "option">>, r))

WritePage(p) ==
  WriteRow(<<"str", "option">>, <<p.name, p.default_sink>>)
  \o WriteDevices(p.sinks) \o WriteApps(p.apps)
  \o WriteOption(p.default_source) \o WriteDevices(p.sources)
  \o WriteRow(<<"flag", "flag", "flag">>, p.filter)

\* What a version writes: the one before this one had no fit flag.
Written(version, doc) ==
  <<Str(Magic), Num(version), Num(doc.width), Num(doc.height), Bit(doc.maximized)>>
  \o (IF version = Version THEN <<Bit(doc.fitted)>> ELSE <<>>)
  \o WriteOption(doc.active) \o WriteMany(doc.pages, WritePage)

Encode(doc) == Written(Version, doc)

\* A string over the length field's range fails the whole encoding.
Encodes(doc) == \A s \in LongString : ~Contains(Encode(doc), Str(s))

-----------------------------------------------------------------------------
(* Reading. A read comes to a value and the position behind it.            *)

Got(value, at) == [value |-> value, at |-> at]

Refused == Got(None, 0)

\* The one member of a set: what a read came to, worked out once.
The(S) == CHOOSE x \in S : TRUE

Take(file, at, is) ==
  IF at \in DOMAIN file /\ file[at][1] = is THEN Got(file[at][2], at + 1) ELSE Refused

Flag(n) == IF n.at = 0 THEN n ELSE Got(n.value # 0, n.at)

\* Only 0 and 1 tell whether a string follows.
Option(file, tag) ==
  CASE tag.at # 0 /\ tag.value = 0 -> Got(None, tag.at)
    [] tag.at # 0 /\ tag.value = 1 -> Take(file, tag.at, "str")
    [] OTHER                       -> Refused

ReadField(file, at, is) ==
  CASE is \in {"num", "str"} -> Take(file, at, is)
    [] is = "flag"           -> Flag(Take(file, at, "num"))
    [] is = "option"         -> Option(file, Take(file, at, "num"))

\* One read after the other, from where the last one ended.
ReadAll(file, at, kinds, Read(_, _, _)) ==
  LET behind(so, one) == Got(Append(so.value, one.value), one.at)
      next(so, is)    == The({The({behind(s, one) : one \in {Read(file, s.at, is)}}) : s \in {so}})
  IN FoldLeft(next, Got(<<>>, at), kinds)

\* As many as the count says.
ReadMany(file, at, is, Read(_, _, _)) ==
  LET rows(count) == IF count.at = 0 THEN Refused
                     ELSE ReadAll(file, count.at, [i \in 1 .. count.value |-> is], Read)
  IN The({rows(count) : count \in {Take(file, at, "num")}})

ReadEntry(file, at, is) ==
  ReadAll(file, at, IF is = "device" THEN <<"str", "num", "flag">> ELSE <<"str", "num", "flag", "option">>,
          ReadField)

ReadColumn(file, at, is) ==
  IF is \in {"device", "app"} THEN ReadMany(file, at, is, ReadEntry) ELSE ReadField(file, at, is)

PageFields ==
  <<"str", "option", "device", "app", "option", "device", "flag", "flag", "flag">>

ReadPage(file, at, is) ==
  LET page(v) == [name |-> v[1], default_sink |-> v[2], sinks |-> v[3], apps |-> v[4],
                  default_source |-> v[5], sources |-> v[6], filter |-> SubSeq(v, 7, 9)]
  IN The({IF r.at = 0 THEN Refused ELSE Got(page(r.value), r.at) :
            r \in {ReadAll(file, at, PageFields, ReadColumn)}})

ReadHeader(file, at, is) ==
  IF is = "pages" THEN ReadMany(file, at, "page", ReadPage) ELSE ReadField(file, at, is)

\* The previous version has no fit flag.
HeaderFields(version) ==
  <<"num", "num", "flag">> \o (IF version = Version THEN <<"flag">> ELSE <<>>) \o <<"option", "pages">>

Clamped(n) == IF n < MinDim THEN MinDim ELSE IF n > MaxDim THEN MaxDim ELSE n

\* The window's size held to its bounds, and what a version lacks.
Document(version, v) ==
  LET fit == IF version = Version THEN v[4] ELSE FALSE
      at  == Len(v) - 1
  IN [width |-> Clamped(v[1]), height |-> Clamped(v[2]), maximized |-> v[3], fitted |-> fit,
      active |-> v[at], pages |-> v[at + 1]]

\* Broken variant of Decode: the file may go on behind the last page.
DecodeLoose(file) ==
  LET header == ReadAll(file, 1, <<"str", "num">>, ReadField)
      version == header.value[2]
      body    == ReadAll(file, header.at, HeaderFields(version), ReadHeader)
  IN CASE header.at = 0 \/ header.value[1] # Magic \/ version \notin {Version, PrevVersion} -> None
       [] OTHER -> The({IF r.at = 0 THEN None ELSE Document(version, r.value) : r \in {body}})

\* The document in a file, or None. Nothing may follow the last page.
Decode(file) ==
  LET header  == ReadAll(file, 1, <<"str", "num">>, ReadField)
      version == header.value[2]
      body    == ReadAll(file, header.at, HeaderFields(version), ReadHeader)
  IN CASE header.at = 0 \/ header.value[1] # Magic \/ version \notin {Version, PrevVersion} -> None
       [] OTHER -> The({IF r.at # Len(file) + 1 THEN None ELSE Document(version, r.value) : r \in {body}})

\* What of a document comes back from a file of a version.
Kept(version, doc) ==
  [doc EXCEPT !.width = Clamped(@), !.height = Clamped(@), !.fitted = @ /\ version = Version]

=============================================================================
