----------------------------- MODULE MixerProofs -----------------------------
(***************************************************************************)
(* The reducer and the strip it is shown as, for any ids, streams,         *)
(* profiles and reports. The first sections are about the pure functions   *)
(* of MixerTypes, the next about the reducer's own messages, the last      *)
(* about the columns.                                                      *)
(***************************************************************************)
EXTENDS Projection, TLAPS, FiniteSetTheorems, WellFoundedInduction

-----------------------------------------------------------------------------
(* Least and greatest ids.                                                 *)

LessThan == {pair \in Nat \X Nat : pair[1] < pair[2]}

LEMMA LessThanWellFounded == IsWellFoundedOn(LessThan, Nat)
BY NatLessThanWellFounded DEF OpToRel, LessThan

\* A set of naturals that has a member has a least one.
LEMMA LeastExists ==
  ASSUME NEW S, S \subseteq Nat, S # {}
  PROVE  \E x \in S : \A y \in S : x <= y
<1>1. \E x \in S : \A y \in S : ~ (<<y, x>> \in LessThan)
  BY LessThanWellFounded, WFMin, Zenon
<1>2. \A x, y \in Nat : ~ (<<y, x>> \in LessThan) => x <= y
  BY DEF LessThan
<1> QED
  BY <1>1, <1>2

LEMMA MinIsLeast ==
  ASSUME NEW S, S \subseteq Nat, S # {}
  PROVE  /\ Min(S) \in S
         /\ \A y \in S : Min(S) <= y
BY LeastExists DEF Min

\* A set of naturals below a bound has a greatest member: the one whose
\* distance to the bound is least.
LEMMA MaxIsGreatest ==
  ASSUME NEW n \in Nat, NEW S, S \subseteq 0..n, S # {}
  PROVE  /\ Max(S) \in S
         /\ \A y \in S : Max(S) >= y
<1> DEFINE D == {n - x : x \in S}
<1>1. \A x \in S : x \in Nat /\ n - x \in Nat
  OBVIOUS
<1>0. D \subseteq Nat /\ D # {}
  BY <1>1
<1>2. PICK d \in D : \A e \in D : d <= e
  BY <1>0, LeastExists
<1>3. PICK x \in S : d = n - x
  OBVIOUS
<1>4. \A y \in S : x >= y
  BY <1>2, <1>3
<1> QED
  BY <1>4 DEF Max

-----------------------------------------------------------------------------
(* Streams.                                                                *)

Strip == [Id -> Stream \cup {Absent}]

LEMMA GainOfCubic == \A c \in Cubic : CubicToLinear(c) \in Gain
BY DEF Gain

LEMMA CubicOfGain == \A g \in Gain : LinearToCubic(g) \in Cubic
BY DEF Gain, LinearToCubic

LEMMA ProductMonotone ==
  \A a, b, x \in Nat : (a <= b => a * x <= b * x) /\ (a < b /\ 0 < x => a * x < b * x)
OBVIOUS

LEMMA ProductCommutes == \A a, b \in Nat : a * b = b * a /\ a * b \in Nat
OBVIOUS

\* The cube, and so the taper of a slider, is strictly monotone.
LEMMA CubeMonotone ==
  ASSUME NEW a \in Nat, NEW b \in Nat, a < b
  PROVE  CubicToLinear(a) < CubicToLinear(b)
<1> DEFINE aa == a * a
           bb == b * b
           ab == a * b
<1>1. aa \in Nat /\ bb \in Nat /\ ab \in Nat /\ aa * a \in Nat /\ bb * b \in Nat /\ bb * a \in Nat
  BY ProductCommutes
<1>2. aa <= ab
  BY ProductMonotone, ProductCommutes
<1>3. ab < bb
  BY ProductMonotone
<1>4. aa < bb
  BY <1>1, <1>2, <1>3
<1> HIDE DEF aa, bb, ab
<1>5. aa * a <= bb * a
  BY <1>1, <1>4, ProductMonotone
<1>6. bb * a < bb * b
  <2>1. bb > 0
    BY <1>1, <1>4
  <2>2. a * bb < b * bb
    BY <1>1, <2>1, ProductMonotone
  <2> QED
    BY <1>1, <2>2, ProductCommutes
<1>7. aa * a < bb * b
  BY <1>1, <1>5, <1>6
<1> QED
  BY <1>7 DEF CubicToLinear, aa, bb

\* A level set from a slider reads back as the slider's position.
LEMMA CubicRoundTrip ==
  ASSUME NEW c \in Cubic
  PROVE  LinearToCubic(CubicToLinear(c)) = c
<1>1. \A d \in Cubic : CubicToLinear(d) = CubicToLinear(c) => d = c
  <2> SUFFICES ASSUME NEW d \in Cubic, d # c
               PROVE  CubicToLinear(d) # CubicToLinear(c)
    OBVIOUS
  <2>1. c \in Nat /\ d \in Nat
    BY VolumeAssumption DEF Cubic
  <2>2. CubicToLinear(c) \in Nat /\ CubicToLinear(d) \in Nat
    BY <2>1, ProductCommutes DEF CubicToLinear
  <2>3. c < d \/ d < c
    BY <2>1
  <2> QED
    BY <2>1, <2>2, <2>3, CubeMonotone
<1> QED
  BY <1>1 DEF LinearToCubic

LEMMA DivBounds ==
  ASSUME NEW x \in Nat, NEW m \in Nat \ {0}
  PROVE  x \div m \in Nat /\ m * (x \div m) <= x /\ x < m * (x \div m) + m
OBVIOUS

LEMMA DivMonotone ==
  ASSUME NEW x \in Nat, NEW y \in Nat, NEW m \in Nat \ {0}, x <= y
  PROVE  x \div m <= y \div m
<1> DEFINE p == x \div m
           q == y \div m
<1>1. p \in Nat /\ q \in Nat /\ m * p <= x /\ y < m * q + m
  BY DivBounds
<1> HIDE DEF p, q
<1>2. m * p < m * (q + 1)
  BY <1>1
<1>3. ~(q + 1 <= p)
  <2>1. q + 1 <= p => m * (q + 1) <= m * p
    BY <1>1, ProductMonotone, ProductCommutes
  <2> QED
    BY <1>1, <1>2, <2>1, ProductCommutes
<1>4. p <= q
  BY <1>1, <1>3
<1> QED
  BY <1>4 DEF p, q

LEMMA DivOfProduct ==
  ASSUME NEW c \in Nat, NEW m \in Nat \ {0}
  PROVE  (m * c) \div m = c
<1> DEFINE q == (m * c) \div m
<1>1. q \in Nat /\ m * q <= m * c /\ m * c < m * q + m
  BY DivBounds, ProductCommutes
<1> HIDE DEF q
<1>2. ~(c < q)
  <2>1. c < q => m * c < m * q
    BY <1>1, ProductMonotone, ProductCommutes
  <2> QED
    BY <1>1, <2>1, ProductCommutes
<1>3. ~(q + 1 <= c)
  <2>1. q + 1 <= c => m * (q + 1) <= m * c
    BY <1>1, ProductMonotone, ProductCommutes
  <2>2. m * (q + 1) = m * q + m
    BY <1>1
  <2> QED
    BY <1>1, <2>1, <2>2, ProductCommutes
<1>4. q = c
  BY <1>1, <1>2, <1>3
<1> QED
  BY <1>4 DEF q

LEMMA AbsentIsNoStream == Absent \notin Stream
BY DEF Absent, Stream, Kind, Device

LEMMA SettingsType ==
  ASSUME NEW s \in Stream
  PROVE  SettingsOf(s) \in Settings
BY DEF SettingsOf, Settings, Stream

LEMMA SettleType ==
  ASSUME NEW s \in Stream, NEW v \in Settings
  PROVE  /\ Settle(s, v) \in Stream
         /\ Settle(s, v).kind = s.kind
         /\ Settle(s, v).key = s.key
         /\ Settle(s, v).ephemeral = s.ephemeral
         /\ Settle(s, v).volume = v.volume
         /\ Settle(s, v).muted = v.muted
         /\ Settle(s, v).target = IF s.kind = "app" THEN v.target ELSE s.target
BY DEF Settle, Settings, Stream

LEMMA SlotType ==
  ASSUME NEW s \in Stream, s.key # None
  PROVE  SlotOf(s) \in Slot
BY DEF SlotOf, Slot, Stream

LEMMA CommandTypes ==
  /\ \A g \in Gain : SetVolume(g) \in Command
  /\ \A m \in BOOLEAN : SetMute(m) \in Command
  /\ \A k \in Key \cup {None} : SetStreamTarget(k) \in Command
BY DEF SetVolume, SetMute, SetStreamTarget, Command

LEMMA MuteCommandsType ==
  ASSUME NEW m \in BOOLEAN, NEW g \in Gain
  PROVE  MuteCommands(m, g) \in Seq(Command)
BY CommandTypes DEF MuteCommands

LEMMA SettleCommandsType ==
  ASSUME NEW kind \in Kind, NEW v \in Settings
  PROVE  SettleCommands(kind, v) \in Seq(Command)
<1>1. /\ SetVolume(v.volume) \in Command
      /\ SetMute(v.muted) \in Command
      /\ SetStreamTarget(v.target) \in Command
  BY CommandTypes DEF Settings
<1> QED
  BY <1>1 DEF SettleCommands

LEMMA ReplayCommandsType ==
  ASSUME NEW v \in Settings
  PROVE  ReplayCommands(v) \in Seq(Command)
<1>1. /\ SetVolume(v.volume) \in Command
      /\ SetMute(v.muted) \in Command
      /\ SetStreamTarget(v.target) \in Command
  BY CommandTypes DEF Settings
<1> QED
  BY <1>1 DEF ReplayCommands

-----------------------------------------------------------------------------
(* Snapshots.                                                              *)

\* The first and the last row of a slot that has one.
LEMMA MatchesEnds ==
  ASSUME NEW strip \in Strip, NEW slot \in Slot, Matches(strip, slot) # {}
  PROVE  /\ Min(Matches(strip, slot)) \in Matches(strip, slot)
         /\ Max(Matches(strip, slot)) \in Matches(strip, slot)
<1>1. Matches(strip, slot) \subseteq 0..TopId
  BY DEF Matches, Id
<1>2. Matches(strip, slot) \subseteq Nat
  BY <1>1, IdAssumption
<1> QED
  BY <1>1, <1>2, IdAssumption, MinIsLeast, MaxIsGreatest

LEMMA MatchesAreStreams ==
  ASSUME NEW strip \in Strip, NEW slot \in Slot, NEW i \in Matches(strip, slot)
  PROVE  i \in Id /\ strip[i] \in Stream /\ SlotOf(strip[i]) = slot
BY DEF Matches, Strip

LEMMA CurrentDefaultType ==
  ASSUME NEW strip \in Strip, NEW d \in Device
  PROVE  CurrentDefault(strip, d) \in Key \cup {None}
<1> DEFINE marked == {i \in Id : strip[i] # Absent /\ strip[i].kind = d /\ strip[i].isDefault}
<1>1. CASE marked = {}
  BY <1>1 DEF CurrentDefault
<1>2. CASE marked # {}
  <2>1. marked \subseteq Nat
    BY IdAssumption DEF Id
  <2>2. Min(marked) \in marked
    BY <1>2, <2>1, MinIsLeast
  <2>3. strip[Min(marked)] \in Stream
    BY <2>2 DEF Strip
  <2> QED
    BY <1>2, <2>3 DEF CurrentDefault, Stream
<1> QED
  BY <1>1, <1>2

LEMMA SnapshotType ==
  ASSUME NEW name \in Name, NEW strip \in Strip, NEW filter \in SUBSET Section
  PROVE  /\ Snapshot(name, strip, filter) \in Profile
         /\ Snapshot(name, strip, filter).name = name
         /\ Snapshot(name, strip, filter).filter = filter
<1> DEFINE E == [slot \in Slot |->
                   IF Matches(strip, slot) = {} THEN None
                   ELSE SettingsOf(strip[Max(Matches(strip, slot))])]
           D == [d \in Device |-> CurrentDefault(strip, d)]
<1>1. E \in Entries
  <2> SUFFICES ASSUME NEW slot \in Slot, Matches(strip, slot) # {}
               PROVE  SettingsOf(strip[Max(Matches(strip, slot))]) \in Settings
    BY DEF Entries
  <2> QED
    BY MatchesEnds, MatchesAreStreams, SettingsType
<1>2. D \in Defaults
  BY CurrentDefaultType DEF Defaults
<1> HIDE DEF E, D
<1>3. Snapshot(name, strip, filter)
        = [name |-> name, entries |-> E, defaults |-> D, filter |-> filter]
  BY DEF Snapshot, E, D
<1> QED
  BY <1>1, <1>2, <1>3 DEF Profile

LEMMA NothingTypes ==
  /\ NoEntries \in Entries
  /\ NoDefaults \in Defaults
  /\ NothingPending \in Pending
  /\ SeededProfile \in Profile
BY NameAssumption
   DEF NoEntries, NoDefaults, NothingPending, SeededProfile, Entries, Defaults, Pending, Profile

-----------------------------------------------------------------------------
(* The profile row. Each operation is described by the names it leaves and *)
(* by where the profiles of the old row went.                              *)

LEMMA HasNames ==
  ASSUME NEW ps \in Seq(Profile), NEW name
  PROVE  Has(ps, name) <=> name \in Names(ps)
BY DEF Has, Names

LEMMA IndexOfFinds ==
  ASSUME NEW ps \in Seq(Profile), NEW name, Has(ps, name)
  PROVE  /\ IndexOf(ps, name) \in 1..Len(ps)
         /\ ps[IndexOf(ps, name)].name = name
         /\ Find(ps, name) \in Profile
         /\ Find(ps, name).name = name
<1>1. /\ IndexOf(ps, name) \in DOMAIN ps
      /\ ps[IndexOf(ps, name)].name = name
  BY DEF Has, IndexOf
<1> QED
  BY <1>1 DEF Find

Unique(ps) == \A k, m \in DOMAIN ps : ps[k].name = ps[m].name => k = m

\* Inserting changes the profile of that name and no other.
LEMMA InsertOrReplaceType ==
  ASSUME NEW ps \in Seq(Profile), NEW p \in Profile
  PROVE  /\ InsertOrReplace(ps, p) \in Seq(Profile)
         /\ Has(InsertOrReplace(ps, p), p.name)
         /\ \A name : Has(ps, name) => Has(InsertOrReplace(ps, p), name)
         /\ \A name : Has(InsertOrReplace(ps, p), name) => name = p.name \/ Has(ps, name)
         /\ Unique(ps) => Unique(InsertOrReplace(ps, p))
<1> DEFINE at == IndexOf(ps, p.name)
<1>1. CASE Has(ps, p.name)
  <2>1. at \in 1..Len(ps) /\ ps[at].name = p.name
    BY <1>1, IndexOfFinds
  <2>2. InsertOrReplace(ps, p) = [ps EXCEPT ![at] = p]
    BY <1>1 DEF InsertOrReplace
  <2> HIDE DEF at
  <2> QED
    BY <2>1, <2>2 DEF Has, Unique
<1>2. CASE ~Has(ps, p.name)
  <2>1. InsertOrReplace(ps, p) = Append(ps, p)
    BY <1>2 DEF InsertOrReplace
  <2>2. \A k \in 1..Len(ps) : ps[k].name # p.name
    BY <1>2 DEF Has
  <2> QED
    BY <2>1, <2>2 DEF Has, Unique
<1> QED
  BY <1>1, <1>2

LEMMA RemoveType ==
  ASSUME NEW ps \in Seq(Profile), NEW name
  PROVE  /\ Remove(ps, name) \in Seq(Profile)
         /\ \A other : Has(Remove(ps, name), other) => Has(ps, other)
         /\ \A other : other # name /\ Has(ps, other) => Has(Remove(ps, name), other)
         /\ Unique(ps) => Unique(Remove(ps, name))
<1>1. CASE ~Has(ps, name)
  BY <1>1 DEF Remove
<1>2. CASE Has(ps, name)
  <2> DEFINE at == IndexOf(ps, name)
             R == [k \in 1..(Len(ps) - 1) |-> IF k < at THEN ps[k] ELSE ps[k + 1]]
  <2>1. at \in 1..Len(ps) /\ ps[at].name = name
    BY <1>2, IndexOfFinds
  <2>2. Remove(ps, name) = R
    BY <1>2 DEF Remove
  <2> HIDE DEF at
  <2>3. R \in Seq(Profile) /\ Len(R) = Len(ps) - 1 /\ DOMAIN R = 1..(Len(ps) - 1)
    BY <2>1
  <2>4. \A k \in 1..(Len(ps) - 1) : R[k] = IF k < at THEN ps[k] ELSE ps[k + 1]
    BY <2>1
  <2> HIDE DEF R
  <2>5. \A other : Has(R, other) => Has(ps, other)
    BY <2>1, <2>3, <2>4 DEF Has
  <2>6. ASSUME NEW other, other # name, Has(ps, other)
        PROVE  Has(R, other)
    <3>1. PICK k \in 1..Len(ps) : ps[k].name = other
      BY <2>6 DEF Has
    <3>2. CASE k < at
      BY <2>1, <2>3, <2>4, <3>1, <3>2 DEF Has
    <3>3. CASE k > at
      <4>1. k - 1 \in 1..(Len(ps) - 1) /\ R[k - 1] = ps[k]
        BY <2>1, <2>4, <3>1, <3>3
      <4> QED
        BY <2>3, <3>1, <4>1 DEF Has
    <3> QED
      BY <2>1, <2>6, <3>1, <3>2, <3>3
  <2>7. ASSUME Unique(ps), NEW k \in DOMAIN R, NEW m \in DOMAIN R, R[k].name = R[m].name
        PROVE  k = m
    <3> DEFINE was(n) == IF n < at THEN n ELSE n + 1
    <3>1. /\ was(k) \in DOMAIN ps /\ R[k] = ps[was(k)]
          /\ was(m) \in DOMAIN ps /\ R[m] = ps[was(m)]
      BY <2>1, <2>3, <2>4, <2>7
    <3>2. was(k) = was(m)
      BY <2>7, <3>1 DEF Unique
    <3> QED
      BY <2>1, <2>3, <3>2
  <2> QED
    BY <2>2, <2>3, <2>5, <2>6, <2>7 DEF Unique
<1> QED
  BY <1>1, <1>2

LEMMA RenameType ==
  ASSUME NEW ps \in Seq(Profile), NEW old \in Name, NEW new \in Name,
         Has(ps, old), ~Has(ps, new)
  PROVE  /\ Rename(ps, old, new) \in Seq(Profile)
         /\ Has(Rename(ps, old, new), new)
         /\ \A other : other # old /\ Has(ps, other) => Has(Rename(ps, old, new), other)
         /\ Unique(ps) => Unique(Rename(ps, old, new))
<1> DEFINE at == IndexOf(ps, old)
           p  == [ps[at] EXCEPT !.name = new]
<1>1. at \in 1..Len(ps) /\ ps[at].name = old
  BY IndexOfFinds
<1>2. Rename(ps, old, new) = [ps EXCEPT ![at] = p]
  BY <1>1 DEF Rename
<1> HIDE DEF at
<1>3. p \in Profile /\ p.name = new
  <2>1. ps[at] \in Profile
    BY <1>1
  <2> QED
    BY <2>1 DEF Profile
<1> HIDE DEF p
<1>4. \A k \in 1..Len(ps) : ps[k].name # new
  BY DEF Has
<1> QED
  BY <1>1, <1>2, <1>3, <1>4 DEF Has, Unique

LEMMA DropAtType ==
  ASSUME NEW ps \in Seq(Profile), NEW name, NEW target, NEW before \in BOOLEAN,
         Has(ps, name), Has(ps, target), name # target
  PROVE  DropAt(ps, name, target, before) \in 1..Len(ps)
<1> DEFINE from == IndexOf(ps, name)
           at   == IndexOf(ps, target)
<1>1. from \in 1..Len(ps) /\ at \in 1..Len(ps) /\ from # at
  BY IndexOfFinds
<1>2. DropAt(ps, name, target, before)
        = LET desired == at + (IF before THEN 0 ELSE 1)
          IN  IF from < desired THEN desired - 1 ELSE desired
  BY DEF DropAt
<1> HIDE DEF from, at
<1> QED
  BY <1>1, <1>2

\* A profile dropped elsewhere takes no other with it: the row holds the
\* same names after.
LEMMA ReorderType ==
  ASSUME NEW ps \in Seq(Profile), NEW name, NEW target, NEW before \in BOOLEAN,
         Has(ps, name), Has(ps, target), name # target
  PROVE  /\ Reorder(ps, name, target, before) \in Seq(Profile)
         /\ \A other : Has(ps, other) <=> Has(Reorder(ps, name, target, before), other)
         /\ Unique(ps) => Unique(Reorder(ps, name, target, before))
         /\ \A m \in DOMAIN ps : \E k \in DOMAIN Reorder(ps, name, target, before) :
              Reorder(ps, name, target, before)[k] = ps[m]
<1> DEFINE from == IndexOf(ps, name)
           to   == DropAt(ps, name, target, before)
           was(k) == IF k = to THEN from
                     ELSE IF from <= k /\ k < to THEN k + 1
                     ELSE IF to < k /\ k <= from THEN k - 1
                     ELSE k
           now(m) == IF m = from THEN to
                     ELSE IF from < m /\ m <= to THEN m - 1
                     ELSE IF to <= m /\ m < from THEN m + 1
                     ELSE m
           R == Reorder(ps, name, target, before)
<1>1. from \in 1..Len(ps) /\ to \in 1..Len(ps)
  BY IndexOfFinds, DropAtType
<1>2. R = [k \in 1..Len(ps) |->
             CASE k = to                -> ps[from]
               [] from <= k /\ k < to   -> ps[k + 1]
               [] to < k /\ k <= from   -> ps[k - 1]
               [] OTHER                 -> ps[k]]
  BY DEF Reorder
<1> HIDE DEF from, to, R
<1>3. \A k \in 1..Len(ps) : was(k) \in 1..Len(ps) /\ R[k] = ps[was(k)]
  BY <1>1, <1>2
<1>4. /\ \A m \in 1..Len(ps) : now(m) \in 1..Len(ps) /\ was(now(m)) = m
      /\ \A k, m \in 1..Len(ps) : was(k) = was(m) => k = m
  BY <1>1
<1>5. DOMAIN R = 1..Len(ps)
  BY <1>2
<1> HIDE DEF was, now
<1>6. R \in Seq(Profile) /\ Len(R) = Len(ps)
  <2>1. \A k \in 1..Len(ps) : R[k] \in Profile
    BY <1>3
  <2> QED
    BY <1>2, <2>1
<1>7. \A other : Has(R, other) => Has(ps, other)
  BY <1>3, <1>5 DEF Has
<1>8. ASSUME NEW other, Has(ps, other)
      PROVE  Has(R, other)
  <2>1. PICK m \in 1..Len(ps) : ps[m].name = other
    BY <1>8 DEF Has
  <2>2. now(m) \in DOMAIN R /\ R[now(m)] = ps[m]
    BY <1>3, <1>4, <1>5
  <2> QED
    BY <2>1, <2>2 DEF Has
<1>9. ASSUME Unique(ps), NEW k \in DOMAIN R, NEW m \in DOMAIN R, R[k].name = R[m].name
      PROVE  k = m
  <2>1. ps[was(k)].name = ps[was(m)].name /\ was(k) \in DOMAIN ps /\ was(m) \in DOMAIN ps
    BY <1>3, <1>5, <1>9
  <2>2. was(k) = was(m)
    BY <1>9, <2>1 DEF Unique
  <2> QED
    BY <1>4, <1>5, <2>2
<1>10. \A m \in DOMAIN ps : \E k \in DOMAIN R : R[k] = ps[m]
  <2> SUFFICES ASSUME NEW m \in DOMAIN ps
               PROVE  \E k \in DOMAIN R : R[k] = ps[m]
    OBVIOUS
  <2>1. now(m) \in DOMAIN R /\ R[now(m)] = ps[m]
    BY <1>3, <1>4, <1>5
  <2> QED
    BY <2>1
<1> QED
  BY <1>6, <1>7, <1>8, <1>9, <1>10 DEF R, Unique

-----------------------------------------------------------------------------
(* What each operation leaves of the profiles it is not about.             *)

LEMMA FindIs ==
  ASSUME NEW ps \in Seq(Profile), Unique(ps), NEW k \in DOMAIN ps
  PROVE  Find(ps, ps[k].name) = ps[k]
<1>1. Has(ps, ps[k].name)
  BY DEF Has
<1>2. IndexOf(ps, ps[k].name) \in DOMAIN ps /\ ps[IndexOf(ps, ps[k].name)].name = ps[k].name
  BY <1>1, IndexOfFinds
<1> QED
  BY <1>2 DEF Unique, Find

\* Rows of profiles that hold the same profile under a name agree on it.
LEMMA FindAgrees ==
  ASSUME NEW ps \in Seq(Profile), NEW name, Has(ps, name),
         NEW qs \in Seq(Profile), Unique(qs), NEW k \in DOMAIN qs, qs[k] = Find(ps, name)
  PROVE  Find(qs, name) = Find(ps, name)
<1>1. qs[k].name = name
  BY IndexOfFinds
<1> QED
  BY <1>1, FindIs

LEMMA FindInserted ==
  ASSUME NEW ps \in Seq(Profile), Unique(ps), NEW p \in Profile
  PROVE  /\ Find(InsertOrReplace(ps, p), p.name) = p
         /\ \A name : Has(ps, name) /\ name # p.name =>
              Find(InsertOrReplace(ps, p), name) = Find(ps, name)
<1> DEFINE qs == InsertOrReplace(ps, p)
           at == IndexOf(ps, p.name)
<1>1. qs \in Seq(Profile) /\ Unique(qs)
  BY InsertOrReplaceType
<1>2. \E k \in DOMAIN qs : qs[k] = p
  <2>1. CASE Has(ps, p.name)
    <3>1. at \in 1..Len(ps)
      BY <2>1, IndexOfFinds
    <3>2. qs = [ps EXCEPT ![at] = p]
      BY <2>1 DEF InsertOrReplace
    <3> HIDE DEF at, qs
    <3>3. at \in DOMAIN qs /\ qs[at] = p
      BY <3>1, <3>2
    <3> QED
      BY <3>3
  <2>2. CASE ~Has(ps, p.name)
    <3>1. qs = Append(ps, p)
      BY <2>2 DEF InsertOrReplace
    <3>2. Len(ps) + 1 \in DOMAIN qs /\ qs[Len(ps) + 1] = p
      BY <3>1
    <3> QED
      BY <3>2
  <2> QED
    BY <2>1, <2>2
<1>3. ASSUME NEW name, Has(ps, name), name # p.name
      PROVE  Find(qs, name) = Find(ps, name)
  <2> DEFINE k == IndexOf(ps, name)
  <2>1. k \in 1..Len(ps) /\ ps[k].name = name /\ ps[k] = Find(ps, name)
    BY <1>3, IndexOfFinds DEF Find
  <2>2. k \in DOMAIN qs /\ qs[k] = ps[k]
    <3>1. CASE Has(ps, p.name)
      <4>1. at \in 1..Len(ps) /\ ps[at].name = p.name
        BY <3>1, IndexOfFinds
      <4>2. qs = [ps EXCEPT ![at] = p]
        BY <3>1 DEF InsertOrReplace
      <4> HIDE DEF at, k, qs
      <4> QED
        BY <1>3, <2>1, <4>1, <4>2
    <3>2. CASE ~Has(ps, p.name)
      <4>1. qs = Append(ps, p)
        BY <3>2 DEF InsertOrReplace
      <4> HIDE DEF k, qs
      <4> QED
        BY <2>1, <4>1
    <3> QED
      BY <3>1, <3>2
  <2> QED
    BY <1>1, <1>3, <2>1, <2>2, FindAgrees
<1> HIDE DEF qs
<1>4. Find(qs, p.name) = p
  BY <1>1, <1>2, FindIs
<1> QED
  BY <1>3, <1>4 DEF qs

LEMMA FindRemoved ==
  ASSUME NEW ps \in Seq(Profile), Unique(ps), NEW name, NEW other,
         Has(ps, other), other # name
  PROVE  Find(Remove(ps, name), other) = Find(ps, other)
<1> DEFINE qs == Remove(ps, name)
           at == IndexOf(ps, name)
           k  == IndexOf(ps, other)
<1>1. qs \in Seq(Profile) /\ Unique(qs)
  BY RemoveType
<1>2. k \in 1..Len(ps) /\ ps[k].name = other /\ ps[k] = Find(ps, other)
  BY IndexOfFinds DEF Find
<1>3. CASE ~Has(ps, name)
  BY <1>3 DEF Remove
<1>4. CASE Has(ps, name)
  <2>1. at \in 1..Len(ps) /\ ps[at].name = name
    BY <1>4, IndexOfFinds
  <2>2. qs = [m \in 1..(Len(ps) - 1) |-> IF m < at THEN ps[m] ELSE ps[m + 1]]
    BY <1>4 DEF Remove
  <2> HIDE DEF at, k, qs
  <2>3. k # at
    BY <1>2, <2>1
  <2>4. CASE k < at
    <3>1. k \in DOMAIN qs /\ qs[k] = ps[k]
      BY <1>2, <2>1, <2>2, <2>4
    <3>2. Find(qs, other) = Find(ps, other)
      BY <1>1, <1>2, <3>1, FindAgrees
    <3> QED
      BY <3>2 DEF qs
  <2>5. CASE k > at
    <3>1. k - 1 \in DOMAIN qs /\ qs[k - 1] = ps[k]
      BY <1>2, <2>1, <2>2, <2>5
    <3>2. Find(qs, other) = Find(ps, other)
      BY <1>1, <1>2, <3>1, FindAgrees
    <3> QED
      BY <3>2 DEF qs
  <2> QED
    BY <1>2, <2>1, <2>3, <2>4, <2>5
<1> QED
  BY <1>3, <1>4

LEMMA RemovedIsGone ==
  ASSUME NEW ps \in Seq(Profile), Unique(ps), NEW name, Has(ps, name)
  PROVE  ~Has(Remove(ps, name), name)
<1> DEFINE at == IndexOf(ps, name)
<1>1. at \in 1..Len(ps) /\ ps[at].name = name
  BY IndexOfFinds
<1>2. Remove(ps, name) = [m \in 1..(Len(ps) - 1) |-> IF m < at THEN ps[m] ELSE ps[m + 1]]
  BY DEF Remove
<1> HIDE DEF at
<1>3. ASSUME NEW k \in DOMAIN Remove(ps, name)
      PROVE  Remove(ps, name)[k].name # name
  <2>1. k \in 1..(Len(ps) - 1)
    BY <1>2, <1>3
  <2>2. CASE k < at
    BY <1>1, <1>2, <2>1, <2>2 DEF Unique
  <2>3. CASE ~(k < at)
    <3>1. k + 1 \in DOMAIN ps /\ k + 1 # at /\ Remove(ps, name)[k] = ps[k + 1]
      BY <1>1, <1>2, <2>1, <2>3
    <3> QED
      BY <1>1, <3>1 DEF Unique
  <2> QED
    BY <2>2, <2>3
<1> QED
  BY <1>3 DEF Has

LEMMA FindRenamed ==
  ASSUME NEW ps \in Seq(Profile), Unique(ps), NEW old \in Name, NEW new \in Name,
         Has(ps, old), ~Has(ps, new), NEW other, Has(ps, other), other # old
  PROVE  Find(Rename(ps, old, new), other) = Find(ps, other)
<1> DEFINE qs == Rename(ps, old, new)
           at == IndexOf(ps, old)
           k  == IndexOf(ps, other)
<1>1. qs \in Seq(Profile) /\ Unique(qs)
  BY RenameType
<1>2. k \in 1..Len(ps) /\ ps[k].name = other /\ ps[k] = Find(ps, other)
  BY IndexOfFinds DEF Find
<1>3. at \in 1..Len(ps) /\ ps[at].name = old
  BY IndexOfFinds
<1>4. qs = [ps EXCEPT ![at] = [ps[at] EXCEPT !.name = new]]
  BY <1>3 DEF Rename
<1> HIDE DEF at, k, qs
<1>5. k \in DOMAIN qs /\ qs[k] = ps[k]
  BY <1>2, <1>3, <1>4
<1>6. Find(qs, other) = Find(ps, other)
  BY <1>1, <1>2, <1>5, FindAgrees
<1> QED
  BY <1>6 DEF qs

\* The name that was renamed away is gone.
LEMMA RenamedIsGone ==
  ASSUME NEW ps \in Seq(Profile), Unique(ps), NEW old \in Name, NEW new \in Name,
         Has(ps, old), ~Has(ps, new)
  PROVE  ~Has(Rename(ps, old, new), old)
<1> DEFINE at == IndexOf(ps, old)
<1>1. at \in 1..Len(ps) /\ ps[at].name = old
  BY IndexOfFinds
<1>2. Rename(ps, old, new) = [ps EXCEPT ![at] = [ps[at] EXCEPT !.name = new]]
  BY <1>1 DEF Rename
<1>3. ps[at] \in Profile /\ old # new
  BY <1>1
<1> HIDE DEF at
<1>4. [ps[at] EXCEPT !.name = new].name = new
  BY <1>3 DEF Profile
<1>5. ASSUME NEW k \in DOMAIN Rename(ps, old, new)
      PROVE  Rename(ps, old, new)[k].name # old
  <2>1. k \in 1..Len(ps)
    BY <1>2, <1>5
  <2>2. CASE k = at
    BY <1>1, <1>2, <1>3, <1>4, <2>2
  <2>3. CASE k # at
    BY <1>1, <1>2, <2>1, <2>3 DEF Unique
  <2> QED
    BY <2>2, <2>3
<1> QED
  BY <1>5 DEF Has

LEMMA FindReordered ==
  ASSUME NEW ps \in Seq(Profile), Unique(ps), NEW name, NEW target, NEW before \in BOOLEAN,
         Has(ps, name), Has(ps, target), name # target, NEW other, Has(ps, other)
  PROVE  Find(Reorder(ps, name, target, before), other) = Find(ps, other)
<1> DEFINE qs == Reorder(ps, name, target, before)
<1>1. IndexOf(ps, other) \in DOMAIN ps /\ ps[IndexOf(ps, other)] = Find(ps, other)
  BY IndexOfFinds DEF Find
<1>2. /\ qs \in Seq(Profile) /\ Unique(qs)
      /\ \E k \in DOMAIN qs : qs[k] = Find(ps, other)
  BY <1>1, ReorderType
<1> HIDE DEF qs
<1>3. Find(qs, other) = Find(ps, other)
  BY <1>2, FindAgrees
<1> QED
  BY <1>3 DEF qs

-----------------------------------------------------------------------------
(* Gestures. Every message about rows is an Edit of rows that are shown,   *)
(* which leaves what identifies a row alone and asks for what it shows.    *)

SoundEdit(new, commands) ==
  /\ DOMAIN new \subseteq Rows
  /\ \A i \in DOMAIN new :
       /\ new[i] \in Stream
       /\ new[i].kind = streams[i].kind
       /\ new[i].key = streams[i].key
       /\ new[i].ephemeral = streams[i].ephemeral
       /\ commands[i] \in Seq(Command)
       /\ Shown(commands[i], new[i])

LEMMA RowsAreStreams ==
  ASSUME RowTypes, NEW i \in Rows
  PROVE  i \in Id /\ streams[i] \in Stream
BY DEF RowTypes, Rows

LEMMA AppRowsAreRows ==
  ASSUME RowTypes, NEW id \in AppRows
  PROVE  /\ id \in Rows
         /\ id \in RowOf(id)
         /\ RowOf(id) \subseteq Rows
BY DEF AppRows, RowOf

LEMMA DivType == \A x \in Nat, y \in Nat \ {0} : x \div y \in Nat
OBVIOUS

LEMMA RescaledType ==
  ASSUME RowTypes, NEW id \in AppRows, NEW i \in RowOf(id), NEW c \in Cubic
  PROVE  Rescaled(i, RowOf(id), c) \in Cubic
<1> DEFINE level(j) == LinearToCubic(streams[j].volume)
           levels   == {level(j) : j \in RowOf(id)}
           q        == (level(i) * c) \div Max(levels)
<1>1. \A j \in RowOf(id) : level(j) \in 0..MaxVolume
  BY AppRowsAreRows, RowsAreStreams, CubicOfGain DEF Stream, Cubic
<1>2. levels # {} /\ levels \subseteq 0..MaxVolume
  BY <1>1
<1> HIDE DEF level
<1>3. Max(levels) \in 0..MaxVolume
  BY <1>2, MaxIsGreatest, VolumeAssumption
<1>4. CASE Max(levels) = 0
  BY <1>4 DEF Rescaled, level
<1>5. CASE Max(levels) # 0
  <2>1. level(i) * c \in Nat
    BY <1>1, VolumeAssumption DEF Cubic
  <2>2. q \in Nat
    BY <1>3, <1>5, <2>1, DivType, VolumeAssumption
  <2>3. Min({MaxVolume, q}) \in {MaxVolume, q} /\ Min({MaxVolume, q}) <= MaxVolume
    BY <2>2, VolumeAssumption, MinIsLeast
  <2>4. Min({MaxVolume, q}) \in Cubic
    BY <2>2, <2>3, VolumeAssumption DEF Cubic
  <2> QED
    BY <1>5, <2>4 DEF Rescaled, level
<1> QED
  BY <1>4, <1>5

-----------------------------------------------------------------------------
(* What rows show of the commands sent about them.                         *)

LEMMA OneShown ==
  ASSUME NEW c, NEW s, Agrees(c, s)
  PROVE  Shown(<<c>>, s)
BY DEF Shown

LEMMA AgreeingShown ==
  ASSUME NEW S, NEW commands \in Seq(S), NEW s,
         \A k \in DOMAIN commands : Agrees(commands[k], s)
  PROVE  Shown(commands, s)
BY DEF Shown

LEMMA CommandsAgree ==
  ASSUME NEW s
  PROVE  /\ Agrees(SetVolume(s.volume), s)
         /\ Agrees(SetMute(s.muted), s)
         /\ Agrees(SetStreamTarget(s.target), s)
BY DEF Agrees, SetVolume, SetMute, SetStreamTarget

LEMMA MuteShown ==
  ASSUME NEW s
  PROVE  Shown(MuteCommands(s.muted, s.volume), s)
BY CommandsAgree DEF MuteCommands, Shown

LEMMA SettleShown ==
  ASSUME NEW s \in Stream, NEW v \in Settings
  PROVE  Shown(SettleCommands(s.kind, v), Settle(s, v))
<1> DEFINE new == Settle(s, v)
<1>1. /\ Agrees(SetVolume(v.volume), new)
      /\ Agrees(SetMute(v.muted), new)
      /\ s.kind = "app" => Agrees(SetStreamTarget(v.target), new)
  BY CommandsAgree, SettleType
<1> QED
  BY <1>1 DEF SettleCommands, Shown

LEMMA ReplayShown ==
  ASSUME NEW s \in Stream, s.kind = "app", NEW v \in Settings
  PROVE  Shown(ReplayCommands(v), Settle(s, v))
<1> DEFINE new == Settle(s, v)
<1>1. /\ Agrees(SetVolume(v.volume), new)
      /\ Agrees(SetMute(v.muted), new)
      /\ Agrees(SetStreamTarget(v.target), new)
  BY CommandsAgree, SettleType
<1> QED
  BY <1>1 DEF ReplayCommands, Shown

-----------------------------------------------------------------------------
(* Each gesture is a sound edit.                                           *)

LEMMA VolumeIsSound ==
  ASSUME RowTypes, NEW rows \in SUBSET Rows, NEW gain \in [rows -> Gain]
  PROVE  SoundEdit([i \in rows |-> [streams[i] EXCEPT !.volume = gain[i]]],
                   [i \in rows |-> <<SetVolume(gain[i])>>])
<1> SUFFICES ASSUME NEW i \in rows
             PROVE  LET new == [streams[i] EXCEPT !.volume = gain[i]] IN
                    /\ new \in Stream
                    /\ new.kind = streams[i].kind
                    /\ new.key = streams[i].key
                    /\ new.ephemeral = streams[i].ephemeral
                    /\ <<SetVolume(gain[i])>> \in Seq(Command)
                    /\ Shown(<<SetVolume(gain[i])>>, new)
  BY DEF SoundEdit
<1> DEFINE new == [streams[i] EXCEPT !.volume = gain[i]]
<1>1. streams[i] \in Stream /\ gain[i] \in Gain
  BY RowsAreStreams
<1>2. new \in Stream /\ new.volume = gain[i]
  BY <1>1 DEF Stream
<1>3. new.kind = streams[i].kind /\ new.key = streams[i].key /\ new.ephemeral = streams[i].ephemeral
  BY <1>1 DEF Stream
<1> HIDE DEF new
<1>4. SetVolume(gain[i]) \in Command /\ Agrees(SetVolume(gain[i]), new)
  BY <1>1, <1>2, CommandTypes, CommandsAgree
<1> QED
  BY <1>2, <1>3, <1>4, OneShown DEF new

LEMMA MuteIsSound ==
  ASSUME RowTypes, NEW rows \in SUBSET Rows, NEW mute \in BOOLEAN
  PROVE  SoundEdit([i \in rows |-> [streams[i] EXCEPT !.muted = mute]],
                   [i \in rows |-> MuteCommands(mute, streams[i].volume)])
<1> SUFFICES ASSUME NEW i \in rows
             PROVE  LET new == [streams[i] EXCEPT !.muted = mute] IN
                    /\ new \in Stream
                    /\ new.kind = streams[i].kind
                    /\ new.key = streams[i].key
                    /\ new.ephemeral = streams[i].ephemeral
                    /\ MuteCommands(mute, streams[i].volume) \in Seq(Command)
                    /\ Shown(MuteCommands(mute, streams[i].volume), new)
  BY DEF SoundEdit
<1> DEFINE new == [streams[i] EXCEPT !.muted = mute]
<1>1. streams[i] \in Stream
  BY RowsAreStreams
<1>2. new \in Stream /\ new.muted = mute /\ new.volume = streams[i].volume
  BY <1>1 DEF Stream
<1>3. new.kind = streams[i].kind /\ new.key = streams[i].key /\ new.ephemeral = streams[i].ephemeral
  BY <1>1 DEF Stream
<1>4. MuteCommands(mute, streams[i].volume) \in Seq(Command)
  BY <1>1, MuteCommandsType DEF Stream
<1> HIDE DEF new
<1>5. Shown(MuteCommands(mute, streams[i].volume), new)
  BY <1>2, MuteShown
<1> QED
  BY <1>2, <1>3, <1>4, <1>5 DEF new

LEMMA PinIsSound ==
  ASSUME RowTypes, NEW rows \in SUBSET Rows, NEW sink \in Key \cup {None}
  PROVE  SoundEdit([i \in rows |-> [streams[i] EXCEPT !.target = sink]],
                   [i \in rows |-> <<SetStreamTarget(sink)>>])
<1> SUFFICES ASSUME NEW i \in rows
             PROVE  LET new == [streams[i] EXCEPT !.target = sink] IN
                    /\ new \in Stream
                    /\ new.kind = streams[i].kind
                    /\ new.key = streams[i].key
                    /\ new.ephemeral = streams[i].ephemeral
                    /\ <<SetStreamTarget(sink)>> \in Seq(Command)
                    /\ Shown(<<SetStreamTarget(sink)>>, new)
  BY DEF SoundEdit
<1> DEFINE new == [streams[i] EXCEPT !.target = sink]
<1>1. streams[i] \in Stream
  BY RowsAreStreams
<1>2. new \in Stream /\ new.target = sink
  BY <1>1 DEF Stream
<1>3. new.kind = streams[i].kind /\ new.key = streams[i].key /\ new.ephemeral = streams[i].ephemeral
  BY <1>1 DEF Stream
<1> HIDE DEF new
<1>4. SetStreamTarget(sink) \in Command /\ Agrees(SetStreamTarget(sink), new)
  BY <1>2, CommandTypes, CommandsAgree
<1> QED
  BY <1>2, <1>3, <1>4, OneShown DEF new

Gesture == \E new, commands : SoundEdit(new, commands) /\ Edit(new, commands)

LEMMA MuteAsIsGesture ==
  ASSUME RowTypes, NEW rows \in SUBSET Rows, NEW mute \in BOOLEAN, MuteAs(rows, mute)
  PROVE  Gesture
BY MuteIsSound DEF MuteAs, Gesture

LEMMA PinIsGesture ==
  ASSUME RowTypes, NEW rows \in SUBSET Rows, NEW sink \in Key \cup {None}, Pin(rows, sink)
  PROVE  Gesture
BY PinIsSound DEF Pin, Gesture

LEMMA GesturesAreSound ==
  ASSUME RowTypes, RowStep
  PROVE  \/ Gesture
         \/ \E id \in Rows : MakeDefault(id)
         \/ \E section \in Section : ToggleSection(section)
<1>1. ASSUME NEW id \in Rows, NEW c \in Cubic, VolumeChanged(id, c)
      PROVE  Gesture
  <2> DEFINE gain == [i \in {id} |-> CubicToLinear(c)]
             new == [i \in {id} |-> [streams[i] EXCEPT !.volume = gain[i]]]
             commands == [i \in {id} |-> <<SetVolume(gain[i])>>]
  <2>1. gain \in [{id} -> Gain] /\ {id} \in SUBSET Rows
    BY <1>1, GainOfCubic
  <2>2. SoundEdit(new, commands)
    <3> HIDE DEF gain
    <3> QED  BY <2>1, VolumeIsSound
  <2>3. /\ new = [i \in {id} |-> [streams[i] EXCEPT !.volume = CubicToLinear(c)]]
        /\ commands = [i \in {id} |-> <<SetVolume(CubicToLinear(c))>>]
    OBVIOUS
  <2> HIDE DEF new, commands
  <2> QED
    BY <1>1, <2>2, <2>3 DEF VolumeChanged, Gesture
<1>2. ASSUME NEW id \in Rows, MuteToggled(id)
      PROVE  Gesture
  <2> DEFINE mute == ~streams[id].muted
  <2>1. mute \in BOOLEAN /\ {id} \in SUBSET Rows
    BY <1>2
  <2>2. MuteAs({id}, mute)
    <3>1. [i \in {id} |-> [streams[i] EXCEPT !.muted = ~@]]
            = [i \in {id} |-> [streams[i] EXCEPT !.muted = mute]]
      OBVIOUS
    <3>2. [i \in {id} |-> MuteCommands(~streams[i].muted, streams[i].volume)]
            = [i \in {id} |-> MuteCommands(mute, streams[i].volume)]
      OBVIOUS
    <3> QED
      BY <1>2, <3>1, <3>2 DEF MuteToggled, MuteAs
  <2> QED
    BY <2>1, <2>2, MuteAsIsGesture
<1>3. ASSUME NEW id \in AppRows, NEW c \in Cubic, GroupVolumeChanged(id, c)
      PROVE  Gesture
  <2> DEFINE rows == RowOf(id)
             gain == [i \in rows |-> CubicToLinear(Rescaled(i, RowOf(id), c))]
             new == [i \in rows |-> [streams[i] EXCEPT !.volume = gain[i]]]
             commands == [i \in rows |-> <<SetVolume(gain[i])>>]
  <2>1. gain \in [rows -> Gain] /\ rows \in SUBSET Rows
    BY <1>3, AppRowsAreRows, RescaledType, GainOfCubic
  <2>2. SoundEdit(new, commands)
    <3> HIDE DEF gain, rows
    <3> QED  BY <2>1, VolumeIsSound
  <2>3. /\ new = [i \in RowOf(id) |->
                    [streams[i] EXCEPT !.volume = CubicToLinear(Rescaled(i, RowOf(id), c))]]
        /\ commands = [i \in RowOf(id) |->
                         <<SetVolume(CubicToLinear(Rescaled(i, RowOf(id), c)))>>]
    OBVIOUS
  <2> HIDE DEF new, commands
  <2> QED
    BY <1>3, <2>2, <2>3 DEF GroupVolumeChanged, Gesture
<1>4. ASSUME NEW id \in AppRows, GroupMuteToggled(id)
      PROVE  Gesture
  BY <1>4, AppRowsAreRows, MuteAsIsGesture DEF GroupMuteToggled
<1>5. ASSUME MuteAllToggled
      PROVE  Gesture
  BY <1>5, MuteAsIsGesture DEF MuteAllToggled
<1>6. ASSUME NEW id \in AppRows, NEW sink \in Pinnable, SetTarget(id, sink) \/ GroupSetTarget(id, sink)
      PROVE  Gesture
  <2>1. sink \in Key
    BY RowsAreStreams DEF Pinnable, Stream
  <2> QED
    BY <1>6, <2>1, AppRowsAreRows, PinIsGesture DEF SetTarget, GroupSetTarget
<1>7. ASSUME NEW id \in AppRows, ClearTarget(id) \/ GroupClearTarget(id)
      PROVE  Gesture
  BY <1>7, AppRowsAreRows, PinIsGesture DEF ClearTarget, GroupClearTarget
<1>8. ASSUME ResetAllTargets
      PROVE  Gesture
  BY <1>8, AppRowsAreRows, PinIsGesture DEF ResetAllTargets
<1> QED
  BY <1>1, <1>2, <1>3, <1>4, <1>5, <1>6, <1>7, <1>8 DEF RowStep

-----------------------------------------------------------------------------
(* Types of the rows.                                                      *)

LEMMA InitRowTypes == Init => RowTypes
BY NothingTypes DEF Init, RowTypes

LEMMA QuietTypes ==
  ASSUME NoCommands
  PROVE  out' \in [Id -> Seq(Command)] /\ out_default' \in Defaults
BY NothingTypes DEF NoCommands

LEMMA EditRowTypes ==
  ASSUME RowTypes, Gesture
  PROVE  RowTypes'
<1>1. PICK new, commands : SoundEdit(new, commands) /\ Edit(new, commands)
  BY DEF Gesture
<1>2. streams' \in [Id -> Stream \cup {Absent}]
  BY <1>1 DEF SoundEdit, Edit, RowTypes
<1>3. out' \in [Id -> Seq(Command)]
  <2>1. \A i \in DOMAIN new : Told(i, commands[i]) \in Seq(Command)
    BY <1>1 DEF SoundEdit, Told
  <2> QED
    BY <1>1, <2>1 DEF Edit
<1> QED
  BY <1>1, <1>2, <1>3, NothingTypes DEF Edit, RowTypes

\* What arrives as settings for a stream: a preset, if one waits.
LEMMA PresetType ==
  ASSUME RowTypes, NEW s \in Stream
  PROVE  Preset(s) \in Settings \cup {None}
BY SlotType DEF Preset, RowTypes, Pending, Entries

LEMMA GhostsType ==
  ASSUME RowTypes, NEW id \in Id, NEW s \in Stream, NEW g \in Ghosts(id, s)
  PROVE  /\ g \in tombstoned /\ g \in Rows /\ g # id
         /\ streams[g] \in Stream /\ SettingsOf(streams[g]) \in Settings
         /\ s.kind = "app" /\ s.key # None /\ ~s.ephemeral
         /\ SlotOf(streams[g]) = SlotOf(s)
<1>1. /\ g \in tombstoned /\ g # id /\ streams[g] # Absent /\ SlotOf(streams[g]) = SlotOf(s)
      /\ s.kind = "app" /\ s.key # None /\ ~s.ephemeral
  BY DEF Ghosts
<1>2. g \in Rows
  BY <1>1 DEF RowTypes, Rows
<1> QED
  BY <1>1, <1>2, RowsAreStreams, SettingsType

\* The row a stream lands in, and what the server is told about it.
Landed(s, heir) == Inherited(IF Preset(s) = None THEN s ELSE Settle(s, Preset(s)), heir)

Asked(s, heir) ==
  (IF Preset(s) = None THEN <<>> ELSE SettleCommands(s.kind, Preset(s)))
    \o (IF heir = None THEN <<>> ELSE ReplayCommands(SettingsOf(streams[heir])))

LEMMA LandedType ==
  ASSUME RowTypes, NEW id \in Id, NEW s \in Stream, NEW heir \in Ghosts(id, s) \cup {None}
  PROVE  /\ Landed(s, heir) \in Stream
         /\ Landed(s, heir).kind = s.kind
         /\ Landed(s, heir).key = s.key
         /\ Landed(s, heir).ephemeral = s.ephemeral
         /\ Asked(s, heir) \in Seq(Command)
<1> DEFINE given == IF Preset(s) = None THEN s ELSE Settle(s, Preset(s))
<1>1. /\ given \in Stream /\ given.kind = s.kind
      /\ given.key = s.key /\ given.ephemeral = s.ephemeral
  BY PresetType, SettleType
<1> HIDE DEF given
<1>2. s.kind \in Kind
  BY DEF Stream
<1>3. (IF Preset(s) = None THEN <<>> ELSE SettleCommands(s.kind, Preset(s))) \in Seq(Command)
  BY <1>2, PresetType, SettleCommandsType
<1>4. CASE heir = None
  BY <1>1, <1>3, <1>4 DEF Landed, Inherited, Asked, given
<1>5. CASE heir # None
  <2>1. SettingsOf(streams[heir]) \in Settings
    BY <1>5, GhostsType
  <2>2. ReplayCommands(SettingsOf(streams[heir])) \in Seq(Command)
    BY <2>1, ReplayCommandsType
  <2>3. Landed(s, heir) = Settle(given, SettingsOf(streams[heir]))
    BY <1>5 DEF Landed, Inherited, given
  <2>4. Asked(s, heir) \in Seq(Command)
    BY <1>3, <1>5, <2>2 DEF Asked
  <2> QED
    BY <1>1, <2>1, <2>3, <2>4, SettleType
<1> QED
  BY <1>4, <1>5

\* What Arrive does to the rows, in the terms of the lemmas above.
LEMMA ArriveRows ==
  ASSUME NEW id \in Id, NEW s \in Stream, NEW heir, Arrive(id, s, heir)
  PROVE  /\ streams' = [i \in Id |-> IF i = id THEN Landed(s, heir)
                                     ELSE IF i \in Ghosts(id, s) THEN Absent ELSE streams[i]]
         /\ tombstoned' = tombstoned \ (Ghosts(id, s) \cup {id})
         /\ out' = [i \in Id |-> IF i # id THEN <<>> ELSE Asked(s, heir)]
BY DEF Arrive, Landed, Asked

LEMMA ArriveRowTypes ==
  ASSUME RowTypes, NEW id \in Id, NEW s \in Stream, NEW heir \in Ghosts(id, s) \cup {None},
         Arrive(id, s, heir)
  PROVE  RowTypes'
<1>1. streams' \in [Id -> Stream \cup {Absent}] /\ tombstoned' \subseteq Id
  BY ArriveRows, LandedType DEF RowTypes
<1>2. out' \in [Id -> Seq(Command)]
  <2>1. Asked(s, heir) \in Seq(Command) /\ <<>> \in Seq(Command)
    BY LandedType
  <2>2. out' = [i \in Id |-> IF i # id THEN <<>> ELSE Asked(s, heir)]
    BY ArriveRows
  <2> QED
    BY <2>1, <2>2
<1>3. app_seq' \in Nat
  BY DEF Arrive, RowTypes
<1>4. app_order' \in [Id -> Nat \cup {None}]
  <2>1. heir # None => heir \in Id
    BY GhostsType DEF Rows
  <2> QED
    BY <2>1 DEF Arrive, Mints, RowTypes
<1>5. pending' \in Pending
  <2>1. s.key # None => SlotOf(s) \in Slot
    BY SlotType
  <2> QED
    BY <2>1 DEF Arrive, RowTypes, Pending, Entries, Defaults
<1>6. out_default' \in Defaults
  <2>1. AwaitedDefault(s) => s.kind \in Device /\ s.key \in Key
    BY DEF AwaitedDefault, Stream
  <2> QED
    BY <2>1, NothingTypes DEF Arrive, Defaults
<1> QED
  BY <1>1, <1>2, <1>3, <1>4, <1>5, <1>6 DEF RowTypes

LEMMA StreamEventArrives ==
  ASSUME NEW id, NEW s, StreamEvent(id, s)
  PROVE  \E heir \in Ghosts(id, s) \cup {None} : Arrive(id, s, heir)
BY DEF StreamEvent

LEMMA RemovedRowTypes ==
  ASSUME RowTypes, NEW id \in Id, StreamRemoved(id)
  PROVE  RowTypes'
<1>1. out' \in [Id -> Seq(Command)] /\ out_default' \in Defaults
  BY QuietTypes DEF StreamRemoved
<1> QED
  BY <1>1 DEF StreamRemoved, RowTypes

LEMMA MakeDefaultRowTypes ==
  ASSUME RowTypes, NEW id \in Rows, MakeDefault(id)
  PROVE  RowTypes'
<1>1. streams[id].key \in Key
  BY RowsAreStreams DEF MakeDefault, Stream
<1>2. out_default' \in Defaults
  BY <1>1, NothingTypes DEF MakeDefault, Defaults
<1> QED
  BY <1>2 DEF MakeDefault, RowTypes, rowVars

\* Leaving a profile with edits saves it under its own name.
LEMMA WithSnapshotType ==
  ASSUME TypeOK, Has(profiles, active)
  PROVE  /\ WithSnapshot \in Seq(Profile)
         /\ \A name : Has(WithSnapshot, name) <=> Has(profiles, name)
         /\ Unique(profiles) => Unique(WithSnapshot)
<1>1. /\ Snapshot(active, streams, section_filter) \in Profile
      /\ Snapshot(active, streams, section_filter).name = active
  BY SnapshotType DEF TypeOK, RowTypes, ProfileTypes, Strip
<1> QED
  BY <1>1, InsertOrReplaceType DEF WithSnapshot, TypeOK, ProfileTypes

\* The profile a switch settles the rows by.
Switched(name) == IF Flushes(name) THEN WithSnapshot ELSE profiles

LEMMA SwitchedType ==
  ASSUME TypeOK, Has(profiles, active), NEW name \in Name, Has(profiles, name)
  PROVE  /\ Switched(name) \in Seq(Profile)
         /\ \A other : Has(Switched(name), other) <=> Has(profiles, other)
         /\ Unique(profiles) => Unique(Switched(name))
         /\ Find(Switched(name), name) \in Profile
         /\ Find(Switched(name), name).name = name
<1>1. /\ Switched(name) \in Seq(Profile)
      /\ \A other : Has(Switched(name), other) <=> Has(profiles, other)
      /\ Unique(profiles) => Unique(Switched(name))
  BY WithSnapshotType DEF Switched, TypeOK, ProfileTypes
<1> QED
  BY <1>1, IndexOfFinds

LEMMA TakenSettings ==
  ASSUME RowTypes, NEW p \in Profile, NEW i \in Id, Takes(i, p)
  PROVE  /\ streams[i] \in Stream
         /\ p.entries[SlotOf(streams[i])] \in Settings
<1>1. streams[i] \in Stream
  BY RowsAreStreams DEF Takes
<1>2. SlotOf(streams[i]) \in Slot
  BY <1>1, SlotType DEF Takes
<1> QED
  BY <1>1, <1>2 DEF Takes, Profile, Entries

LEMMA ApplyRows ==
  ASSUME NEW name, ApplyProfile(name)
  PROVE  LET p == Find(Switched(name), name)
             entry(i) == p.entries[SlotOf(streams[i])]
         IN  /\ streams' = [i \in Id |-> IF Takes(i, p) THEN Settle(streams[i], entry(i))
                                         ELSE streams[i]]
             /\ out' = [i \in Id |-> IF Takes(i, p)
                                     THEN Told(i, SettleCommands(streams[i].kind, entry(i)))
                                     ELSE <<>>]
             /\ out_default' = [d \in Device |-> IF Connected(d, p.defaults[d])
                                                 THEN p.defaults[d] ELSE None]
             /\ pending' = [entries  |-> [slot \in Slot |-> IF Matches(streams, slot) = {}
                                                            THEN p.entries[slot] ELSE None],
                            defaults |-> [d \in Device |-> IF Connected(d, p.defaults[d])
                                                           THEN None ELSE p.defaults[d]]]
             /\ UNCHANGED <<tombstoned, app_order, app_seq>>
BY DEF ApplyProfile, Switched

LEMMA ApplyRowTypes ==
  ASSUME TypeOK, Has(profiles, active), NEW name \in Name, ApplyProfile(name)
  PROVE  RowTypes'
<1> DEFINE p == Find(Switched(name), name)
<1>1. p \in Profile
  BY SwitchedType DEF ApplyProfile
<1> HIDE DEF p
<1>2. RowTypes
  BY DEF TypeOK
<1>3. ASSUME NEW i \in Id, Takes(i, p)
      PROVE  /\ Settle(streams[i], p.entries[SlotOf(streams[i])]) \in Stream
             /\ Told(i, SettleCommands(streams[i].kind, p.entries[SlotOf(streams[i])]))
                  \in Seq(Command)
  <2>1. streams[i] \in Stream /\ p.entries[SlotOf(streams[i])] \in Settings
    BY <1>1, <1>2, <1>3, TakenSettings
  <2>2. streams[i].kind \in Kind
    BY <2>1 DEF Stream
  <2> QED
    BY <2>1, <2>2, SettleType, SettleCommandsType DEF Told
<1>4. streams' \in [Id -> Stream \cup {Absent}]
  BY <1>2, <1>3, ApplyRows DEF RowTypes, p
<1>5. out' \in [Id -> Seq(Command)]
  <2>1. out' = [i \in Id |->
                 IF Takes(i, p)
                 THEN Told(i, SettleCommands(streams[i].kind, p.entries[SlotOf(streams[i])]))
                 ELSE <<>>]
    BY ApplyRows DEF p
  <2> QED
    BY <1>3, <2>1
<1>6. out_default' \in Defaults /\ pending' \in Pending
  <2>1. p.entries \in Entries /\ p.defaults \in Defaults
    BY <1>1 DEF Profile
  <2>2. /\ out_default' = [d \in Device |-> IF Connected(d, p.defaults[d])
                                            THEN p.defaults[d] ELSE None]
        /\ pending' = [entries  |-> [slot \in Slot |-> IF Matches(streams, slot) = {}
                                                       THEN p.entries[slot] ELSE None],
                       defaults |-> [d \in Device |-> IF Connected(d, p.defaults[d])
                                                      THEN None ELSE p.defaults[d]]]
    BY ApplyRows DEF p
  <2> QED
    BY <2>1, <2>2 DEF Entries, Defaults, Pending
<1> QED
  BY <1>2, <1>4, <1>5, <1>6, ApplyRows DEF RowTypes

\* The messages that leave every row alone.
LEMMA ProfileStepRowTypes ==
  ASSUME TypeOK, Has(profiles, active), ProfileStep
  PROVE  RowTypes'
<1>1. CASE \E name \in Name : ApplyProfile(name)
  BY <1>1, ApplyRowTypes
<1>2. ASSUME NoCommands, UNCHANGED rowVars, pending' \in {pending, NothingPending}
      PROVE  RowTypes'
  <2>1. out' \in [Id -> Seq(Command)] /\ out_default' \in Defaults
    BY <1>2, QuietTypes
  <2> QED
    BY <1>2, <2>1, NothingTypes DEF TypeOK, RowTypes, rowVars
<1>3. ASSUME NEW name, NEW target, NEW before, ReorderProfile(name, target, before)
      PROVE  RowTypes'
  BY <1>2, <1>3 DEF ReorderProfile
<1>4. ASSUME NEW m, Dialog(m)
      PROVE  RowTypes'
  BY <1>2, <1>4 DEF Dialog
<1>5. CASE OpenCreate \/ ModalDismiss
  BY <1>4, <1>5 DEF OpenCreate, ModalDismiss
<1>6. ASSUME NEW name, OpenRename(name) \/ OpenDelete(name) \/ ModalNameChanged(name)
      PROVE  RowTypes'
  BY <1>4, <1>6 DEF OpenRename, OpenDelete, ModalNameChanged
<1>7. CASE ConfirmCreate
  BY <1>2, <1>7 DEF ConfirmCreate
<1>8. CASE ConfirmRename
  BY <1>2, <1>8 DEF ConfirmRename
<1>9. CASE ConfirmDelete
  BY <1>2, <1>9 DEF ConfirmDelete, DeleteProfile
<1> QED
  BY <1>1, <1>3, <1>5, <1>6, <1>7, <1>8, <1>9 DEF ProfileStep

LEMMA SaveStepRowTypes ==
  ASSUME RowTypes, SaveStep
  PROVE  RowTypes'
<1>1. CASE AutoSaveTick
  BY <1>1, QuietTypes DEF AutoSaveTick, RowTypes, rowVars
<1>2. ASSUME NEW g \in Geometry, GeometryChanged(g)
      PROVE  RowTypes'
  BY <1>2, QuietTypes DEF GeometryChanged, RowTypes, rowVars
<1>3. CASE Restart
  BY <1>3, QuietTypes, NothingTypes DEF Restart, RowTypes
<1> QED
  BY <1>1, <1>2, <1>3 DEF SaveStep

LEMMA NextRowTypes ==
  ASSUME TypeOK, Has(profiles, active), Next
  PROVE  RowTypes'
<1>1. RowTypes
  BY DEF TypeOK
<1>2. CASE WorkerStep
  <2>1. ASSUME NEW r \in Report, StreamEvent(r.id, r.stream)
        PROVE  RowTypes'
    <3>1. r.id \in Id /\ r.stream \in Stream
      BY ReportAssumption
    <3> QED
      BY <1>1, <2>1, <3>1, StreamEventArrives, ArriveRowTypes
  <2> QED
    BY <1>1, <1>2, <2>1, RemovedRowTypes DEF WorkerStep
<1>3. CASE RowStep
  <2>1. ASSUME NEW section, ToggleSection(section)
        PROVE  RowTypes'
    BY <1>1, <2>1, QuietTypes DEF ToggleSection, RowTypes, rowVars
  <2> QED
    BY <1>1, <1>3, <2>1, GesturesAreSound, EditRowTypes, MakeDefaultRowTypes
<1> QED
  BY <1>1, <1>2, <1>3, ProfileStepRowTypes, SaveStepRowTypes DEF Next

-----------------------------------------------------------------------------
(* Profiles. What the file holds must be as sound as the session, or a     *)
(* restart would bring a broken row of profiles back.                      *)

SoundFile(file) == file \in Saved /\ Unique(file.profiles)

DiskSound == disk # None => SoundFile(disk)

ProfileInv == ProfileTypes /\ ProfilesSound /\ DiskSound

LEMMA ContentsSound ==
  ASSUME NEW ps \in Seq(Profile), Unique(ps), NEW a \in Name, NEW g \in Geometry
  PROVE  SoundFile(Contents(ps, a, g))
BY DEF SoundFile, Contents, Saved

LEMMA PersistSound ==
  ASSUME DiskSound, disk \in Saved \cup {None}, NEW file, SoundFile(file), Persist(file)
  PROVE  disk' \in Saved \cup {None} /\ DiskSound'
<1>1. disk' = file \/ disk' = disk
  BY DEF Persist
<1> QED
  BY <1>1 DEF DiskSound, SoundFile

LEMMA EnsureProfilesType ==
  ASSUME NEW ps \in Seq(Profile), Unique(ps)
  PROVE  /\ EnsureProfiles(ps) \in Seq(Profile)
         /\ EnsureProfiles(ps) # <<>>
         /\ Unique(EnsureProfiles(ps))
<1>1. CASE ps = <<>>
  <2>1. EnsureProfiles(ps) = <<SeededProfile>>
    BY <1>1 DEF EnsureProfiles
  <2> QED
    BY <2>1, NothingTypes DEF Unique
<1>2. CASE ps # <<>>
  BY <1>2 DEF EnsureProfiles
<1> QED
  BY <1>1, <1>2

LEMMA EnsureActiveType ==
  ASSUME NEW ps \in Seq(Profile), ps # <<>>, NEW a \in Name \cup {None}
  PROVE  EnsureActive(ps, a) \in Name /\ Has(ps, EnsureActive(ps, a))
<1>1. 1 \in DOMAIN ps /\ ps[1] \in Profile
  OBVIOUS
<1>2. ps[1].name \in Name
  BY <1>1 DEF Profile
<1> QED
  BY <1>1, <1>2 DEF EnsureActive, Has

LEMMA FilterType ==
  ASSUME NEW ps \in Seq(Profile), NEW name, Has(ps, name)
  PROVE  Find(ps, name).filter \in SUBSET Section
<1>1. Find(ps, name) \in Profile
  BY IndexOfFinds
<1> QED
  BY <1>1 DEF Profile

\* A boot from any sound file, or from none, is a sound session.
LEMMA BootSound ==
  ASSUME NEW file, file # None => SoundFile(file)
  PROVE  /\ BootProfiles(file) \in Seq(Profile)
         /\ Unique(BootProfiles(file))
         /\ BootActive(file) \in Name
         /\ Has(BootProfiles(file), BootActive(file))
         /\ BootFilter(file) \in SUBSET Section
         /\ BootGeometry(file) \in Geometry
<1>1. file # None => /\ file.profiles \in Seq(Profile) /\ Unique(file.profiles)
                     /\ file.active \in Name \cup {None} /\ file.geometry \in Geometry
  BY DEF SoundFile, Saved
<1>2. /\ BootProfiles(file) \in Seq(Profile)
      /\ BootProfiles(file) # <<>>
      /\ Unique(BootProfiles(file))
  <2>1. CASE file = None
    <3>1. <<>> \in Seq(Profile) /\ Unique(<<>>)
      BY DEF Unique
    <3> QED
      BY <2>1, <3>1, EnsureProfilesType DEF BootProfiles
  <2>2. CASE file # None
    BY <1>1, <2>2, EnsureProfilesType DEF BootProfiles
  <2> QED
    BY <2>1, <2>2
<1>3. BootActive(file) \in Name /\ Has(BootProfiles(file), BootActive(file))
  BY <1>1, <1>2, EnsureActiveType DEF BootActive
<1> QED
  BY <1>1, <1>2, <1>3, FilterType, GeometryAssumption DEF BootFilter, BootGeometry

LEMMA InitProfileInv == Init => ProfileInv
<1> SUFFICES ASSUME Init
             PROVE  ProfileInv
  OBVIOUS
<1>1. disk = None
  BY DEF Init
<1>2. ProfileTypes
  BY <1>1, BootSound DEF Init, ProfileTypes
<1> QED
  BY <1>1, <1>2, BootSound DEF Init, ProfileInv, ProfilesSound, DiskSound, Unique

\* What an action has to show of the profiles it leaves.
LEMMA ProfileInvFrom ==
  ASSUME profiles' \in Seq(Profile), Unique(profiles)', active' \in Name,
         Has(profiles', active'), section_filter' \in SUBSET Section,
         modal' \in Modal \cup {None}, dirty' \in BOOLEAN, geometry' \in Geometry,
         geometry_dirty' \in BOOLEAN, disk' \in Saved \cup {None}, DiskSound'
  PROVE  ProfileInv'
BY DEF ProfileInv, ProfileTypes, ProfilesSound, Unique

LEMMA ProfileInvGives ==
  ASSUME ProfileInv
  PROVE  /\ profiles \in Seq(Profile) /\ Unique(profiles) /\ active \in Name
         /\ Has(profiles, active) /\ section_filter \in SUBSET Section
         /\ modal \in Modal \cup {None} /\ dirty \in BOOLEAN /\ geometry \in Geometry
         /\ geometry_dirty \in BOOLEAN /\ disk \in Saved \cup {None} /\ DiskSound
BY DEF ProfileInv, ProfileTypes, ProfilesSound, Unique

LEMMA QuietProfileInv ==
  ASSUME ProfileInv, UNCHANGED <<profileVars, modal, windowVars>>,
         section_filter' \in SUBSET Section, dirty' \in BOOLEAN
  PROVE  ProfileInv'
BY DEF ProfileInv, ProfileTypes, ProfilesSound, DiskSound, SoundFile, profileVars, windowVars

LEMMA WorkerProfileInv ==
  ASSUME ProfileInv, WorkerStep
  PROVE  ProfileInv'
<1>1. UNCHANGED <<profileVars, section_filter, modal, dirty, windowVars>>
  BY StreamEventArrives DEF WorkerStep, Arrive, StreamRemoved
<1> QED
  BY <1>1, QuietProfileInv, ProfileInvGives

LEMMA RowProfileInv ==
  ASSUME RowTypes, ProfileInv, RowStep
  PROVE  ProfileInv'
<1>1. ASSUME Gesture
      PROVE  ProfileInv'
  BY <1>1, QuietProfileInv, ProfileInvGives DEF Gesture, Edit, MarkDirty
<1>2. ASSUME NEW id, MakeDefault(id)
      PROVE  ProfileInv'
  BY <1>2, QuietProfileInv, ProfileInvGives DEF MakeDefault, MarkDirty
<1>3. ASSUME NEW section \in Section, ToggleSection(section)
      PROVE  ProfileInv'
  <2>1. section_filter' \in SUBSET Section
    BY <1>3, ProfileInvGives DEF ToggleSection, SymDiff
  <2> QED
    BY <1>3, <2>1, QuietProfileInv, ProfileInvGives DEF ToggleSection, MarkDirty
<1> QED
  BY <1>1, <1>2, <1>3, GesturesAreSound

LEMMA ApplyProfileInv ==
  ASSUME TypeOK, ProfileInv, NEW name \in Name, ApplyProfile(name)
  PROVE  ProfileInv'
<1> DEFINE ps == Switched(name)
<1>1. /\ ps \in Seq(Profile) /\ Unique(ps) /\ Has(ps, name) /\ Has(ps, active)
      /\ Find(ps, name) \in Profile
  BY SwitchedType, ProfileInvGives DEF ApplyProfile
<1>2. /\ profiles' = ps /\ active' = name /\ section_filter' = Find(ps, name).filter
      /\ dirty' = FALSE /\ geometry_dirty' \in BOOLEAN /\ UNCHANGED <<modal, geometry>>
      /\ disk' \in {disk, Contents(ps, name, geometry), Contents(ps, active, geometry)}
  BY ProfileInvGives DEF ApplyProfile, Switched
<1> HIDE DEF ps
<1>3. SoundFile(Contents(ps, name, geometry)) /\ SoundFile(Contents(ps, active, geometry))
  BY <1>1, ContentsSound, ProfileInvGives
<1>4. disk' \in Saved \cup {None} /\ DiskSound'
  BY <1>2, <1>3, ProfileInvGives DEF DiskSound, SoundFile
<1>5. section_filter' \in SUBSET Section
  BY <1>1, <1>2, FilterType
<1> QED
  BY <1>1, <1>2, <1>4, <1>5, ProfileInvFrom, ProfileInvGives

LEMMA ReorderProfileInv ==
  ASSUME ProfileInv, NEW name, NEW target, NEW before \in BOOLEAN,
         ReorderProfile(name, target, before)
  PROVE  ProfileInv'
<1> DEFINE ps == Reorder(profiles, name, target, before)
<1>1. ps \in Seq(Profile) /\ Unique(ps) /\ Has(ps, active)
  BY ReorderType, ProfileInvGives DEF ReorderProfile
<1>2. profiles' = ps /\ Persist(Contents(ps, active, geometry))
  BY DEF ReorderProfile
<1> HIDE DEF ps
<1>3. disk' \in Saved \cup {None} /\ DiskSound'
  BY <1>1, <1>2, ContentsSound, PersistSound, ProfileInvGives
<1>4. UNCHANGED <<active, section_filter, modal, dirty, windowVars>>
  BY DEF ReorderProfile
<1> QED
  BY <1>1, <1>2, <1>3, <1>4, ProfileInvFrom, ProfileInvGives DEF windowVars

LEMMA DialogProfileInv ==
  ASSUME ProfileInv, NEW m \in Modal \cup {None}, Dialog(m)
  PROVE  ProfileInv'
BY ProfileInvGives DEF Dialog, ProfileInv, ProfileTypes, ProfilesSound, DiskSound, SoundFile,
   profileVars, windowVars

LEMMA DialogsProfileInv ==
  ASSUME ProfileInv,
         \/ OpenCreate
         \/ \E name \in Name : OpenRename(name)
         \/ \E name \in Name : OpenDelete(name)
         \/ \E typed \in Typed : ModalNameChanged(typed)
         \/ ModalDismiss
  PROVE  ProfileInv'
<1>1. CASE OpenCreate
  BY <1>1, DialogProfileInv DEF OpenCreate, Modal, Typed
<1>2. ASSUME NEW name \in Name, OpenRename(name)
      PROVE  ProfileInv'
  BY <1>2, DialogProfileInv DEF OpenRename, Modal, Typed
<1>3. ASSUME NEW name \in Name, OpenDelete(name)
      PROVE  ProfileInv'
  BY <1>3, DialogProfileInv DEF OpenDelete, Modal, Typed
<1>4. ASSUME NEW typed \in Typed, ModalNameChanged(typed)
      PROVE  ProfileInv'
  <2>1. modal \in Modal
    BY <1>4, ProfileInvGives DEF ModalNameChanged
  <2>2. [modal EXCEPT !.name = typed] \in Modal
    BY <2>1 DEF Modal
  <2> QED
    BY <1>4, <2>2, DialogProfileInv DEF ModalNameChanged
<1>5. CASE ModalDismiss
  BY <1>5, DialogProfileInv DEF ModalDismiss
<1> QED
  BY <1>1, <1>2, <1>3, <1>4, <1>5

LEMMA HasIsName ==
  ASSUME NEW ps \in Seq(Profile), NEW name, Has(ps, name)
  PROVE  name \in Name
BY IndexOfFinds DEF Profile

LEMMA CreateProfileInv ==
  ASSUME TypeOK, ProfileInv, ConfirmCreate
  PROVE  ProfileInv'
<1> DEFINE p  == Snapshot(modal.name, streams, section_filter)
           ps == InsertOrReplace(profiles, p)
<1>1. modal.name \in Name
  BY ProfileInvGives DEF ConfirmCreate, Modal, Typed
<1>2. p \in Profile /\ p.name = modal.name
  BY <1>1, SnapshotType, ProfileInvGives DEF TypeOK, RowTypes, Strip
<1> HIDE DEF p
<1>3. ps \in Seq(Profile) /\ Unique(ps) /\ Has(ps, modal.name)
  BY <1>2, InsertOrReplaceType, ProfileInvGives
<1>4. profiles' = ps /\ active' = modal.name /\ Persist(Contents(ps, modal.name, geometry))
  BY DEF ConfirmCreate, p
<1> HIDE DEF ps
<1>5. disk' \in Saved \cup {None} /\ DiskSound'
  BY <1>1, <1>3, <1>4, ContentsSound, PersistSound, ProfileInvGives
<1>6. modal' = None /\ dirty' = FALSE /\ UNCHANGED <<section_filter, windowVars>>
  BY DEF ConfirmCreate
<1> QED
  BY <1>1, <1>3, <1>4, <1>5, <1>6, ProfileInvFrom, ProfileInvGives DEF windowVars

LEMMA RenameProfileInv ==
  ASSUME ProfileInv, ConfirmRename
  PROVE  ProfileInv'
<1>1. modal.name \in Name
  BY ProfileInvGives DEF ConfirmRename, Modal, Typed
<1>2. modal' = None /\ UNCHANGED <<section_filter, dirty, windowVars>>
  BY DEF ConfirmRename
<1>3. CASE modal.name # modal.old /\ Has(profiles, modal.old)
  <2> DEFINE ps == Rename(profiles, modal.old, modal.name)
             a  == IF active = modal.old THEN modal.name ELSE active
  <2>1. modal.old \in Name /\ ~Has(profiles, modal.name)
    BY <1>3, HasIsName, ProfileInvGives DEF ConfirmRename
  <2>2. ps \in Seq(Profile) /\ Unique(ps) /\ Has(ps, a) /\ a \in Name
    BY <1>1, <1>3, <2>1, RenameType, ProfileInvGives
  <2>3. profiles' = ps /\ active' = a /\ Persist(Contents(ps, a, geometry))
    BY <1>3 DEF ConfirmRename
  <2> HIDE DEF ps, a
  <2>4. disk' \in Saved \cup {None} /\ DiskSound'
    BY <2>2, <2>3, ContentsSound, PersistSound, ProfileInvGives
  <2> QED
    BY <1>2, <2>2, <2>3, <2>4, ProfileInvFrom, ProfileInvGives DEF windowVars
<1>4. CASE ~(modal.name # modal.old /\ Has(profiles, modal.old))
  <2>1. UNCHANGED profileVars
    BY <1>4 DEF ConfirmRename
  <2> QED
    BY <1>2, <2>1, ProfileInvGives
    DEF ProfileInv, ProfileTypes, ProfilesSound, DiskSound, SoundFile, profileVars, windowVars
<1> QED
  BY <1>3, <1>4

LEMMA DeleteProfileInv ==
  ASSUME ProfileInv, ConfirmDelete
  PROVE  ProfileInv'
<1>1. modal' = None /\ UNCHANGED <<dirty, windowVars>>
  BY DEF ConfirmDelete
<1>2. CASE Has(profiles, modal.name)
  <2> DEFINE rest == Remove(profiles, modal.name)
             ps   == EnsureProfiles(rest)
             a    == EnsureActive(ps, IF active = modal.name THEN None ELSE active)
  <2>1. rest \in Seq(Profile) /\ Unique(rest)
    BY RemoveType, ProfileInvGives
  <2>2. ps \in Seq(Profile) /\ Unique(ps) /\ ps # <<>>
    BY <2>1, EnsureProfilesType
  <2>3. a \in Name /\ Has(ps, a)
    BY <2>2, EnsureActiveType, ProfileInvGives
  <2>4. /\ profiles' = ps /\ active' = a /\ section_filter' = Find(ps, a).filter
        /\ Persist(Contents(ps, a, geometry))
    BY <1>2 DEF ConfirmDelete, DeleteProfile
  <2> HIDE DEF ps, a
  <2>5. disk' \in Saved \cup {None} /\ DiskSound'
    BY <2>2, <2>3, <2>4, ContentsSound, PersistSound, ProfileInvGives
  <2>6. section_filter' \in SUBSET Section
    BY <2>2, <2>3, <2>4, FilterType
  <2> QED
    BY <1>1, <2>2, <2>3, <2>4, <2>5, <2>6, ProfileInvFrom, ProfileInvGives DEF windowVars
<1>3. CASE ~Has(profiles, modal.name)
  <2>1. UNCHANGED <<profileVars, pending, section_filter>>
    BY <1>3 DEF ConfirmDelete
  <2> QED
    BY <1>1, <2>1, ProfileInvGives
    DEF ProfileInv, ProfileTypes, ProfilesSound, DiskSound, SoundFile, profileVars, windowVars
<1> QED
  BY <1>2, <1>3

LEMMA AutoSaveProfileInv ==
  ASSUME TypeOK, ProfileInv, AutoSaveTick
  PROVE  ProfileInv'
<1> DEFINE ps == IF dirty /\ active # None THEN WithSnapshot ELSE profiles
<1>1. ps \in Seq(Profile) /\ Unique(ps) /\ Has(ps, active)
  BY WithSnapshotType, ProfileInvGives
<1>2. profiles' = ps /\ Persist(Contents(ps, active, geometry))
  BY DEF AutoSaveTick
<1> HIDE DEF ps
<1>3. disk' \in Saved \cup {None} /\ DiskSound'
  BY <1>1, <1>2, ContentsSound, PersistSound, ProfileInvGives
<1>4. dirty' = FALSE /\ geometry_dirty' = FALSE
      /\ UNCHANGED <<active, section_filter, modal, geometry>>
  BY DEF AutoSaveTick
<1> QED
  BY <1>1, <1>2, <1>3, <1>4, ProfileInvFrom, ProfileInvGives

LEMMA SaveStepProfileInv ==
  ASSUME TypeOK, ProfileInv, SaveStep
  PROVE  ProfileInv'
<1>1. CASE AutoSaveTick
  BY <1>1, AutoSaveProfileInv
<1>2. ASSUME NEW g \in Geometry, GeometryChanged(g)
      PROVE  ProfileInv'
  BY <1>2, ProfileInvGives
  DEF GeometryChanged, ProfileInv, ProfileTypes, ProfilesSound, DiskSound, SoundFile, profileVars
<1>3. CASE Restart
  <2>1. disk # None => SoundFile(disk)
    BY ProfileInvGives DEF DiskSound
  <2>2. /\ profiles' = BootProfiles(disk) /\ active' = BootActive(disk)
        /\ section_filter' = BootFilter(disk) /\ geometry' = BootGeometry(disk)
        /\ modal' = None /\ dirty' = FALSE /\ geometry_dirty' = FALSE /\ UNCHANGED disk
    BY <1>3 DEF Restart
  <2>3. DiskSound'
    BY <2>1, <2>2 DEF DiskSound, SoundFile
  <2> QED
    BY <2>1, <2>2, <2>3, BootSound, ProfileInvFrom, ProfileInvGives
<1> QED
  BY <1>1, <1>2, <1>3 DEF SaveStep

LEMMA NextProfileInv ==
  ASSUME TypeOK, ProfileInv, Next
  PROVE  ProfileInv'
<1>1. ASSUME ProfileStep
      PROVE  ProfileInv'
  BY <1>1, ApplyProfileInv, ReorderProfileInv, DialogsProfileInv, CreateProfileInv,
     RenameProfileInv, DeleteProfileInv DEF ProfileStep
<1> QED
  BY <1>1, WorkerProfileInv, RowProfileInv, SaveStepProfileInv DEF Next, TypeOK

-----------------------------------------------------------------------------
(* Rows. A gesture or a profile changes settings, never what a row is; only *)
(* arrivals and removals do.                                               *)

RowInv ==
  /\ GhostsAreIdleApps
  /\ RowOrderSound
  /\ PendingUnmatched
  /\ AskedIsShown
  /\ CommandsReachLiveRows

SameRows ==
  /\ \A i \in Id :
       \/ streams'[i] = streams[i]
       \/ /\ streams[i] \in Stream /\ streams'[i] \in Stream
          /\ streams'[i].kind = streams[i].kind
          /\ streams'[i].key = streams[i].key
          /\ streams'[i].ephemeral = streams[i].ephemeral
  /\ UNCHANGED <<tombstoned, app_order, app_seq>>

LEMMA SameRowsKeep ==
  ASSUME RowTypes, GhostsAreIdleApps, RowOrderSound, SameRows
  PROVE  /\ GhostsAreIdleApps' /\ RowOrderSound'
         /\ Rows' = Rows
         /\ \A slot : Matches(streams', slot) = Matches(streams, slot)
         /\ \A d, key : Connected(d, key)' <=> Connected(d, key)
<1>1. \A i \in Id : /\ streams'[i] = Absent <=> streams[i] = Absent
                    /\ streams[i] # Absent =>
                         /\ streams'[i].kind = streams[i].kind
                         /\ streams'[i].key = streams[i].key
                         /\ streams'[i].ephemeral = streams[i].ephemeral
  BY AbsentIsNoStream DEF SameRows
<1>2. UNCHANGED <<tombstoned, app_order, app_seq>>
  BY DEF SameRows
<1>3. Rows' = Rows /\ AppRows' = AppRows
  BY <1>1 DEF Rows, AppRows
<1>4. GhostsAreIdleApps'
  BY <1>1, <1>2 DEF GhostsAreIdleApps, RowTypes
<1>5. RowOrderSound'
  BY <1>1, <1>2, <1>3 DEF RowOrderSound
<1>6. \A slot : Matches(streams', slot) = Matches(streams, slot)
  BY <1>1 DEF Matches, SlotOf
<1>7. \A d, key : Connected(d, key)' <=> Connected(d, key)
  BY <1>1, <1>3 DEF Connected, Rows
<1> QED
  BY <1>3, <1>4, <1>5, <1>6, <1>7

LEMMA SilenceKeeps ==
  ASSUME \A i \in Id : out'[i] = <<>>
  PROVE  AskedIsShown' /\ CommandsReachLiveRows'
BY DEF AskedIsShown, CommandsReachLiveRows, Shown

LEMMA InitRowInv == Init => RowInv
<1> SUFFICES ASSUME Init
             PROVE  RowInv
  OBVIOUS
<1>1. PendingUnmatched
  BY DEF Init, PendingUnmatched, NothingPending, NoEntries, NoDefaults
<1>2. GhostsAreIdleApps /\ RowOrderSound
  BY DEF Init, GhostsAreIdleApps, RowOrderSound, AppRows, Rows
<1>3. AskedIsShown /\ CommandsReachLiveRows
  BY DEF Init, AskedIsShown, CommandsReachLiveRows, Shown
<1> QED
  BY <1>1, <1>2, <1>3 DEF RowInv

LEMMA GestureRowInv ==
  ASSUME RowTypes, RowInv, Gesture
  PROVE  RowInv'
<1>1. PICK new, commands : SoundEdit(new, commands) /\ Edit(new, commands)
  BY DEF Gesture
<1>2. \A i \in DOMAIN new : i \in Rows /\ i \in Id /\ streams[i] \in Stream /\ streams[i] # Absent
  BY <1>1, RowsAreStreams, AbsentIsNoStream DEF SoundEdit
<1>3. SameRows
  BY <1>1, <1>2 DEF SoundEdit, Edit, SameRows
<1>4. GhostsAreIdleApps' /\ RowOrderSound' /\ PendingUnmatched'
  BY <1>1, <1>3, SameRowsKeep DEF RowInv, PendingUnmatched, Edit
<1>5. AskedIsShown'
  <2> SUFFICES ASSUME NEW i \in Id
               PROVE  Shown(out'[i], streams'[i])
    BY DEF AskedIsShown
  <2>1. CASE i \in DOMAIN new /\ i \notin tombstoned
    BY <1>1, <2>1 DEF SoundEdit, Edit, Told
  <2>2. CASE ~(i \in DOMAIN new /\ i \notin tombstoned)
    <3>1. out'[i] = <<>>
      BY <1>1, <2>2 DEF Edit, Told
    <3> QED
      BY <3>1 DEF Shown
  <2> QED
    BY <2>1, <2>2
<1>6. CommandsReachLiveRows'
  <2>1. Rows' = Rows /\ tombstoned' = tombstoned
    BY <1>1, <1>3, SameRowsKeep DEF RowInv, Edit
  <2>2. \A i \in Id : out'[i] # <<>> => i \in DOMAIN new /\ i \notin tombstoned
    BY <1>1 DEF Edit, Told
  <2> QED
    BY <1>2, <2>1, <2>2 DEF CommandsReachLiveRows
<1> QED
  BY <1>4, <1>5, <1>6 DEF RowInv

\* The ghosts a stream evicts and a preset that waits for it exclude each
\* other, so an arrival has one source of settings at most.
LEMMA GhostOrPreset ==
  ASSUME RowTypes, PendingUnmatched, NEW id \in Id, NEW s \in Stream, NEW g \in Ghosts(id, s)
  PROVE  Preset(s) = None
<1>1. g \in Rows /\ SlotOf(streams[g]) = SlotOf(s) /\ s.key # None
  BY GhostsType
<1>2. SlotOf(s) \in Slot /\ g \in Matches(streams, SlotOf(s))
  BY <1>1, SlotType DEF Matches, Rows
<1> QED
  BY <1>2 DEF PendingUnmatched, Preset

LEMMA ArriveShown ==
  ASSUME RowTypes, PendingUnmatched, NEW id \in Id, NEW s \in Stream,
         NEW heir \in Ghosts(id, s) \cup {None}
  PROVE  Shown(Asked(s, heir), Landed(s, heir))
<1>1. s.kind \in Kind
  BY DEF Stream
<1>2. CASE heir = None /\ Preset(s) = None
  BY <1>2 DEF Asked, Shown
<1>3. CASE heir = None /\ Preset(s) # None
  <2>1. Preset(s) \in Settings
    BY <1>3, PresetType
  <2>2. SettleCommands(s.kind, Preset(s)) \in Seq(Command)
    BY <1>1, <2>1, SettleCommandsType
  <2>3. Asked(s, heir) = SettleCommands(s.kind, Preset(s))
    BY <1>3, <2>2 DEF Asked
  <2>4. Landed(s, heir) = Settle(s, Preset(s))
    BY <1>3 DEF Landed, Inherited
  <2> QED
    BY <2>1, <2>3, <2>4, SettleShown
<1>4. CASE heir # None
  <2> DEFINE legacy == SettingsOf(streams[heir])
  <2>1. Preset(s) = None /\ legacy \in Settings /\ s.kind = "app"
    BY <1>4, GhostsType, GhostOrPreset
  <2>2. ReplayCommands(legacy) \in Seq(Command)
    BY <2>1, ReplayCommandsType
  <2>3. Asked(s, heir) = ReplayCommands(legacy)
    BY <1>4, <2>1, <2>2 DEF Asked
  <2>4. Landed(s, heir) = Settle(s, legacy)
    BY <1>4, <2>1 DEF Landed, Inherited
  <2> HIDE DEF legacy
  <2> QED
    BY <2>1, <2>3, <2>4, ReplayShown
<1> QED
  BY <1>2, <1>3, <1>4

LEMMA ArriveRowInv ==
  ASSUME RowTypes, RowInv, NEW id \in Id, NEW s \in Stream,
         NEW heir \in Ghosts(id, s) \cup {None}, Arrive(id, s, heir)
  PROVE  RowInv'
<1> DEFINE gone == Ghosts(id, s)
           new  == Landed(s, heir)
<1>1. /\ new \in Stream /\ new # Absent
      /\ new.kind = s.kind /\ new.key = s.key /\ new.ephemeral = s.ephemeral
  BY LandedType, AbsentIsNoStream
<1>2. /\ streams' = [i \in Id |-> IF i = id THEN new
                                  ELSE IF i \in gone THEN Absent ELSE streams[i]]
      /\ tombstoned' = tombstoned \ (gone \cup {id})
      /\ out' = [i \in Id |-> IF i # id THEN <<>> ELSE Asked(s, heir)]
  BY ArriveRows
<1>3. id \notin gone /\ gone \subseteq Id
  BY GhostsType DEF Rows
<1>4. Shown(Asked(s, heir), new)
  BY ArriveShown DEF RowInv
<1> HIDE DEF new, gone
<1>5. GhostsAreIdleApps'
  <2> SUFFICES ASSUME NEW g \in tombstoned'
               PROVE  /\ streams'[g] # Absent
                      /\ streams'[g].kind = "app"
                      /\ ~streams'[g].ephemeral
    BY DEF GhostsAreIdleApps
  <2>1. g \in tombstoned /\ g # id /\ g \notin gone /\ g \in Id
    BY <1>2 DEF RowTypes
  <2> QED
    BY <1>2, <2>1 DEF RowInv, GhostsAreIdleApps
<1>6. RowOrderSound'
  <2> DEFINE fresh == s.kind = "app" /\ app_order[id] = None
             mints == fresh /\ Mints(heir)
  <2>1. /\ app_order' = [i \in Id |->
                           IF i \in gone THEN None
                           ELSE IF i # id \/ ~fresh THEN app_order[i]
                           ELSE IF mints THEN app_seq ELSE app_order[heir]]
        /\ app_seq' = IF mints THEN app_seq + 1 ELSE app_seq
    BY DEF Arrive, gone
  <2>2. app_seq \in Nat /\ \A i \in Id : app_order[i] # None => app_order[i] \in Nat
    BY DEF RowTypes
  <2>3. fresh /\ ~mints => heir \in gone /\ heir \in Id /\ app_order[heir] # None
    BY <1>3 DEF Mints, gone
  <2>4. /\ \A i \in Id : app_order[i] # None => streams[i] # Absent /\ app_order[i] < app_seq
        /\ \A i, j \in Id : app_order[i] # None /\ app_order[i] = app_order[j] => i = j
        /\ \A i \in AppRows : app_order[i] # None
    BY DEF RowInv, RowOrderSound
  <2>5. fresh /\ mints => app_order'[id] = app_seq /\ app_seq' = app_seq + 1
    BY <1>3, <2>1
  <2>6. fresh /\ ~mints => app_order'[id] = app_order[heir] /\ app_seq' = app_seq
    BY <1>3, <2>1
  <2>7. ~fresh => app_order'[id] = app_order[id] /\ app_seq' = app_seq
    BY <1>3, <2>1
  <2>8. \A i \in Id : i # id => app_order'[i] = IF i \in gone THEN None ELSE app_order[i]
    BY <2>1
  <2>9. s.kind = "app" => app_order'[id] # None
    BY <2>2, <2>3, <2>5, <2>6, <2>7, NoneAssumption
  <2> HIDE DEF fresh, mints
  <2>10. \A i \in AppRows' : app_order'[i] # None
    <3> SUFFICES ASSUME NEW i \in AppRows'
                 PROVE  app_order'[i] # None
      OBVIOUS
    <3>1. i \in Id /\ streams'[i] # Absent /\ streams'[i].kind = "app"
      BY DEF AppRows, Rows
    <3>2. CASE i = id
      BY <1>1, <1>2, <2>9, <3>1, <3>2
    <3>3. CASE i # id
      BY <1>2, <2>4, <2>8, <3>1, <3>3 DEF AppRows, Rows
    <3> QED
      BY <3>2, <3>3
  <2>11. \A i \in Id : app_order'[i] # None => streams'[i] # Absent /\ app_order'[i] < app_seq'
    <3> SUFFICES ASSUME NEW i \in Id, app_order'[i] # None
                 PROVE  streams'[i] # Absent /\ app_order'[i] < app_seq'
      OBVIOUS
    <3>1. CASE i = id
      BY <1>1, <1>2, <2>2, <2>3, <2>4, <2>5, <2>6, <2>7, <3>1
    <3>2. CASE i # id
      <4>1. i \notin gone /\ app_order'[i] = app_order[i] /\ streams'[i] = streams[i]
        BY <1>2, <2>8, <3>2
      <4> QED
        BY <2>2, <2>4, <2>5, <2>6, <2>7, <4>1
    <3> QED
      BY <3>1, <3>2
  <2>12. \A i, j \in Id : app_order'[i] # None /\ app_order'[i] = app_order'[j] => i = j
    <3>1. \A i \in Id : i # id /\ app_order'[i] # None => app_order'[i] # app_order'[id]
      BY <2>2, <2>3, <2>4, <2>5, <2>6, <2>7, <2>8
    <3> QED
      BY <2>4, <2>8, <3>1
  <2> QED
    BY <2>10, <2>11, <2>12 DEF RowOrderSound
<1>7. PendingUnmatched'
  <2>1. \A i \in Id : i # id => streams'[i] = streams[i] \/ streams'[i] = Absent
    BY <1>2
  <2>2. streams'[id] = new
    BY <1>2
  <2>3. ASSUME NEW slot \in Slot, pending'.entries[slot] # None
        PROVE  Matches(streams', slot) = {}
    <3>1. pending'.entries = IF s.key = None THEN pending.entries
                             ELSE [pending.entries EXCEPT ![SlotOf(s)] = None]
      BY DEF Arrive
    <3>2. pending.entries \in [Slot -> Settings \cup {None}]
      BY DEF RowTypes, Pending, Entries
    <3>3. s.key = None => SlotOf(s) # slot
      BY KeyAssumption DEF SlotOf, Slot
    <3>4. slot # SlotOf(s) /\ pending.entries[slot] # None
      BY <2>3, <3>1, <3>2, <3>3
    <3>5. Matches(streams, slot) = {}
      BY <3>4 DEF RowInv, PendingUnmatched
    <3>6. SlotOf(new) # slot
      BY <1>1, <3>4 DEF SlotOf
    <3> QED
      BY <2>1, <2>2, <3>5, <3>6 DEF Matches
  <2>4. ASSUME NEW d \in Device, pending'.defaults[d] # None
        PROVE  \A i \in Rows' : ~(streams'[i].kind = d /\ streams'[i].key = pending'.defaults[d])
    <3>1. pending'.defaults = IF AwaitedDefault(s)
                              THEN [pending.defaults EXCEPT ![s.kind] = None]
                              ELSE pending.defaults
      BY DEF Arrive
    <3>2. pending.defaults \in [Device -> Key \cup {None}]
      BY DEF RowTypes, Pending, Defaults
    <3>3. pending'.defaults[d] = pending.defaults[d] /\ ~(AwaitedDefault(s) /\ d = s.kind)
      BY <2>4, <3>1, <3>2
    <3>4. ~Connected(d, pending.defaults[d])
      BY <2>4, <3>3 DEF RowInv, PendingUnmatched
    <3>5. ~(new.kind = d /\ new.key = pending.defaults[d])
      BY <1>1, <2>4, <3>3 DEF AwaitedDefault
    <3> QED
      BY <2>1, <2>2, <3>3, <3>4, <3>5 DEF Connected, Rows
  <2> QED
    BY <2>3, <2>4 DEF PendingUnmatched, Connected
<1>8. AskedIsShown'
  <2>1. \A i \in Id : i # id => Shown(out'[i], streams'[i])
    BY <1>2 DEF Shown
  <2> QED
    BY <1>2, <1>4, <2>1 DEF AskedIsShown
<1>9. CommandsReachLiveRows'
  BY <1>1, <1>2 DEF CommandsReachLiveRows, Rows
<1> QED
  BY <1>5, <1>6, <1>7, <1>8, <1>9 DEF RowInv

LEMMA RemovedRowInv ==
  ASSUME RowTypes, RowInv, NEW id \in Id, StreamRemoved(id)
  PROVE  RowInv'
<1>1. AskedIsShown' /\ CommandsReachLiveRows'
  BY SilenceKeeps DEF StreamRemoved, NoCommands
<1>2. UNCHANGED <<app_seq, pending>>
  BY DEF StreamRemoved
<1>3. CASE Outlives(id)
  <2>1. tombstoned' = tombstoned \cup {id} /\ UNCHANGED <<streams, app_order>>
    BY <1>3 DEF StreamRemoved
  <2>2. streams[id] # Absent /\ streams[id].kind = "app" /\ ~streams[id].ephemeral
    BY <1>3 DEF Outlives, AppRows, Rows
  <2>3. GhostsAreIdleApps'
    BY <2>1, <2>2 DEF RowInv, GhostsAreIdleApps
  <2>4. RowOrderSound'
    BY <1>2, <2>1 DEF RowInv, RowOrderSound, AppRows, Rows
  <2>5. PendingUnmatched'
    BY <1>2, <2>1 DEF RowInv, PendingUnmatched, Connected, Rows
  <2> QED
    BY <1>1, <2>3, <2>4, <2>5 DEF RowInv
<1>4. CASE ~Outlives(id)
  <2>1. /\ streams' = [streams EXCEPT ![id] = Absent]
        /\ tombstoned' = tombstoned \ {id}
        /\ app_order' = [app_order EXCEPT ![id] = None]
    BY <1>4 DEF StreamRemoved
  <2>2. /\ streams'[id] = Absent /\ app_order'[id] = None
        /\ \A i \in Id : i # id => streams'[i] = streams[i] /\ app_order'[i] = app_order[i]
    BY <2>1 DEF RowTypes
  <2>3. GhostsAreIdleApps'
    BY <2>1, <2>2 DEF RowInv, GhostsAreIdleApps, RowTypes
  <2>4. RowOrderSound'
    <3>1. \A i \in AppRows' : i \in AppRows /\ i # id
      BY <2>2 DEF AppRows, Rows
    <3> QED
      BY <1>2, <2>2, <3>1 DEF RowInv, RowOrderSound, AppRows, Rows
  <2>5. PendingUnmatched'
    <3>1. \A slot : Matches(streams', slot) \subseteq Matches(streams, slot)
      BY <2>2 DEF Matches
    <3>2. \A i \in Rows' : i \in Rows /\ streams'[i] = streams[i]
      BY <2>2 DEF Rows
    <3> QED
      BY <1>2, <3>1, <3>2 DEF RowInv, PendingUnmatched, Connected
  <2> QED
    BY <1>1, <2>3, <2>4, <2>5 DEF RowInv
<1> QED
  BY <1>3, <1>4

LEMMA ApplyRowInv ==
  ASSUME TypeOK, Has(profiles, active), RowInv, NEW name \in Name, ApplyProfile(name)
  PROVE  RowInv'
<1> DEFINE p == Find(Switched(name), name)
           entry(i) == p.entries[SlotOf(streams[i])]
<1>1. p \in Profile
  BY SwitchedType DEF ApplyProfile
<1>2. /\ streams' = [i \in Id |-> IF Takes(i, p) THEN Settle(streams[i], entry(i))
                                  ELSE streams[i]]
      /\ out' = [i \in Id |-> IF Takes(i, p)
                              THEN Told(i, SettleCommands(streams[i].kind, entry(i)))
                              ELSE <<>>]
      /\ pending' = [entries  |-> [slot \in Slot |-> IF Matches(streams, slot) = {}
                                                     THEN p.entries[slot] ELSE None],
                     defaults |-> [d \in Device |-> IF Connected(d, p.defaults[d])
                                                    THEN None ELSE p.defaults[d]]]
      /\ UNCHANGED <<tombstoned, app_order, app_seq>>
  BY ApplyRows
<1> HIDE DEF p
<1>3. RowTypes
  BY DEF TypeOK
<1>4. \A i \in Id : Takes(i, p) =>
        /\ streams[i] \in Stream /\ streams[i] # Absent /\ entry(i) \in Settings
        /\ Settle(streams[i], entry(i)) \in Stream
        /\ Settle(streams[i], entry(i)).kind = streams[i].kind
        /\ Settle(streams[i], entry(i)).key = streams[i].key
        /\ Settle(streams[i], entry(i)).ephemeral = streams[i].ephemeral
  BY <1>1, <1>3, TakenSettings, SettleType, AbsentIsNoStream
<1>5. SameRows
  BY <1>2, <1>4 DEF SameRows
<1>6. /\ GhostsAreIdleApps' /\ RowOrderSound' /\ Rows' = Rows
      /\ \A slot : Matches(streams', slot) = Matches(streams, slot)
      /\ \A d, key : Connected(d, key)' <=> Connected(d, key)
  BY <1>3, <1>5, SameRowsKeep DEF RowInv
<1>7. PendingUnmatched'
  <2>1. \A slot \in Slot : pending'.entries[slot] # None => Matches(streams, slot) = {}
    BY <1>2
  <2>2. \A d \in Device : pending'.defaults[d] # None => ~Connected(d, pending'.defaults[d])
    BY <1>2
  <2>3. \A i \in Rows : streams'[i].kind = streams[i].kind /\ streams'[i].key = streams[i].key
    BY <1>2, <1>4 DEF Rows
  <2>4. \A d \in Device : pending'.defaults[d] # None =>
          ~ \E i \in Rows' : streams'[i].kind = d /\ streams'[i].key = pending'.defaults[d]
    BY <1>6, <2>2, <2>3 DEF Connected
  <2> QED
    BY <1>6, <2>1, <2>4 DEF PendingUnmatched, Connected
<1>8. AskedIsShown'
  <2> SUFFICES ASSUME NEW i \in Id
               PROVE  Shown(out'[i], streams'[i])
    BY DEF AskedIsShown
  <2>1. CASE Takes(i, p) /\ i \notin tombstoned
    <3>1. out'[i] = SettleCommands(streams[i].kind, entry(i))
      BY <1>2, <2>1 DEF Told
    <3>2. streams'[i] = Settle(streams[i], entry(i))
      BY <1>2, <2>1
    <3> QED
      BY <1>4, <2>1, <3>1, <3>2, SettleShown
  <2>2. CASE ~(Takes(i, p) /\ i \notin tombstoned)
    <3>1. out'[i] = <<>>
      BY <1>2, <2>2 DEF Told
    <3> QED
      BY <3>1 DEF Shown
  <2> QED
    BY <2>1, <2>2
<1>9. CommandsReachLiveRows'
  <2>1. \A i \in Id : out'[i] # <<>> => Takes(i, p) /\ i \notin tombstoned
    BY <1>2 DEF Told
  <2> QED
    BY <1>2, <1>6, <2>1 DEF CommandsReachLiveRows, Takes
<1> QED
  BY <1>6, <1>7, <1>8, <1>9 DEF RowInv

LEMMA QuietRowInv ==
  ASSUME RowInv, NoCommands, UNCHANGED rowVars, pending' \in {pending, NothingPending}
  PROVE  RowInv'
<1>1. AskedIsShown' /\ CommandsReachLiveRows'
  BY SilenceKeeps DEF NoCommands
<1>2. UNCHANGED <<streams, tombstoned, app_order, app_seq>>
  BY DEF rowVars
<1>3. GhostsAreIdleApps' /\ RowOrderSound'
  BY <1>2 DEF RowInv, GhostsAreIdleApps, RowOrderSound, AppRows, Rows
<1>4. PendingUnmatched'
  <2>1. CASE pending' = pending
    BY <1>2, <2>1 DEF RowInv, PendingUnmatched, Connected, Rows
  <2>2. CASE pending' = NothingPending
    BY <2>2 DEF PendingUnmatched, NothingPending, NoEntries, NoDefaults
  <2> QED
    BY <2>1, <2>2
<1> QED
  BY <1>1, <1>3, <1>4 DEF RowInv

LEMMA MakeDefaultRowInv ==
  ASSUME RowInv, NEW id, MakeDefault(id)
  PROVE  RowInv'
<1>1. AskedIsShown' /\ CommandsReachLiveRows'
  BY SilenceKeeps DEF MakeDefault
<1>2. UNCHANGED <<streams, tombstoned, app_order, app_seq, pending>>
  BY DEF MakeDefault, rowVars
<1> QED
  BY <1>1, <1>2
  DEF RowInv, GhostsAreIdleApps, RowOrderSound, PendingUnmatched, Connected, AppRows, Rows

LEMMA NextRowInv ==
  ASSUME TypeOK, Has(profiles, active), RowInv, Next
  PROVE  RowInv'
<1>1. RowTypes
  BY DEF TypeOK
<1>2. CASE WorkerStep
  <2>1. ASSUME NEW r \in Report, StreamEvent(r.id, r.stream)
        PROVE  RowInv'
    <3>1. r.id \in Id /\ r.stream \in Stream
      BY ReportAssumption
    <3> QED
      BY <1>1, <2>1, <3>1, StreamEventArrives, ArriveRowInv
  <2> QED
    BY <1>1, <1>2, <2>1, RemovedRowInv DEF WorkerStep
<1>3. CASE RowStep
  <2>1. ASSUME NEW section, ToggleSection(section)
        PROVE  RowInv'
    BY <2>1, QuietRowInv DEF ToggleSection
  <2> QED
    BY <1>1, <1>3, <2>1, GesturesAreSound, GestureRowInv, MakeDefaultRowInv
<1>4. CASE ProfileStep
  <2>1. ASSUME NEW name \in Name, ApplyProfile(name)
        PROVE  RowInv'
    BY <2>1, ApplyRowInv
  <2>2. ASSUME NEW name, NEW target, NEW before, ReorderProfile(name, target, before)
        PROVE  RowInv'
    BY <2>2, QuietRowInv DEF ReorderProfile
  <2>3. ASSUME NEW m, Dialog(m)
        PROVE  RowInv'
    BY <2>3, QuietRowInv DEF Dialog
  <2>4. CASE OpenCreate \/ ModalDismiss
    BY <2>3, <2>4 DEF OpenCreate, ModalDismiss
  <2>5. ASSUME NEW name, OpenRename(name) \/ OpenDelete(name) \/ ModalNameChanged(name)
        PROVE  RowInv'
    BY <2>3, <2>5 DEF OpenRename, OpenDelete, ModalNameChanged
  <2>6. CASE ConfirmCreate
    BY <2>6, QuietRowInv DEF ConfirmCreate
  <2>7. CASE ConfirmRename
    BY <2>7, QuietRowInv DEF ConfirmRename
  <2>8. CASE ConfirmDelete
    BY <2>8, QuietRowInv DEF ConfirmDelete, DeleteProfile
  <2> QED
    BY <1>4, <2>1, <2>2, <2>4, <2>5, <2>6, <2>7, <2>8 DEF ProfileStep
<1>5. CASE SaveStep
  <2>1. CASE AutoSaveTick
    BY <2>1, QuietRowInv DEF AutoSaveTick
  <2>2. ASSUME NEW g, GeometryChanged(g)
        PROVE  RowInv'
    BY <2>2, QuietRowInv DEF GeometryChanged
  <2>3. CASE Restart
    <3>1. AskedIsShown' /\ CommandsReachLiveRows'
      BY <2>3, SilenceKeeps DEF Restart, NoCommands
    <3>2. PendingUnmatched'
      BY <2>3 DEF Restart, PendingUnmatched, NothingPending, NoEntries, NoDefaults
    <3>3. GhostsAreIdleApps' /\ RowOrderSound'
      BY <2>3 DEF Restart, GhostsAreIdleApps, RowOrderSound, AppRows, Rows
    <3> QED
      BY <3>1, <3>2, <3>3 DEF RowInv
  <2> QED
    BY <1>5, <2>1, <2>2, <2>3 DEF SaveStep
<1> QED
  BY <1>2, <1>3, <1>4, <1>5 DEF Next

-----------------------------------------------------------------------------
(* The inductive invariant. The types need the active profile to exist, the *)
(* names of the row unique and the file as sound as the session; the        *)
(* commands need presets and ghosts to exclude each other.                  *)

IInv == TypeOK /\ ProfileInv /\ RowInv

LEMMA StutterIInv ==
  ASSUME IInv, UNCHANGED vars
  PROVE  IInv'
<1>1. TypeOK'
  BY DEF IInv, vars, TypeOK, RowTypes, ProfileTypes
<1>2. ProfileInv'
  BY <1>1 DEF IInv, vars, TypeOK, ProfileInv, ProfilesSound, DiskSound, SoundFile
<1>3. GhostsAreIdleApps' /\ RowOrderSound' /\ PendingUnmatched'
  BY DEF IInv, vars, RowInv, GhostsAreIdleApps, RowOrderSound, PendingUnmatched, Connected,
     AppRows, Rows
<1>4. AskedIsShown' /\ CommandsReachLiveRows'
  BY DEF IInv, vars, RowInv, AskedIsShown, CommandsReachLiveRows, Rows
<1> QED
  BY <1>1, <1>2, <1>3, <1>4 DEF IInv, RowInv

LEMMA InitIInv == Init => IInv
BY InitRowTypes, InitProfileInv, InitRowInv DEF IInv, ProfileInv, TypeOK

LEMMA NextIInv ==
  ASSUME IInv, [Next]_vars
  PROVE  IInv'
<1>1. TypeOK /\ ProfileInv /\ RowInv /\ Has(profiles, active)
  BY ProfileInvGives DEF IInv
<1>2. CASE Next
  <2>1. RowTypes'
    BY <1>1, <1>2, NextRowTypes
  <2>2. ProfileInv'
    BY <1>1, <1>2, NextProfileInv
  <2>3. RowInv'
    BY <1>1, <1>2, NextRowInv
  <2> QED
    BY <2>1, <2>2, <2>3 DEF IInv, TypeOK, ProfileInv
<1>3. CASE UNCHANGED vars
  BY <1>3, StutterIInv
<1> QED
  BY <1>2, <1>3

\* Every reachable state of the reducer satisfies the inductive invariant.
THEOREM Invariance == Spec => []IInv
<1>1. Init => IInv
  BY InitIInv
<1>2. IInv /\ [Next]_vars => IInv'
  BY NextIInv
<1> QED
  BY <1>1, <1>2, PTL DEF Spec

\* The App struct, the state file and the commands keep their types.
THEOREM TypeCorrect == Spec => []TypeOK
BY Invariance, PTL DEF IInv

\* Tombstones mark idle rows of apps and nothing else.
THEOREM GhostsHold == Spec => []GhostsAreIdleApps
BY Invariance, PTL DEF IInv, RowInv

\* First-seen numbers order the app rows strictly, through any inheritance.
THEOREM OrderHolds == Spec => []RowOrderSound
BY Invariance, PTL DEF IInv, RowInv

\* A preset never waits beside a row that could have taken it.
THEOREM PendingHolds == Spec => []PendingUnmatched
BY Invariance, PTL DEF IInv, RowInv

\* Commands go only to nodes that are there, and what was last asked of a node
\* is what its row shows.
THEOREM CommandsHold == Spec => []CommandsAreSound
BY Invariance, PTL DEF IInv, RowInv, CommandsAreSound

\* There is always an active profile, and names stay unique.
THEOREM ProfilesHold == Spec => []ProfilesSound
BY Invariance, PTL DEF IInv, ProfileInv

-----------------------------------------------------------------------------
(* What is on disk. While every save succeeds, the profiles of the session *)
(* are those of the file - or the seeded one, before there is a file - for *)
(* every message that changes one writes at once; the other parts of the   *)
(* session may be ahead of it only while a mark says so. The file has its  *)
(* active profile, so a boot reads back exactly what was written.          *)

ProfilesOnDisk ==
  /\ disk = None => profiles = <<SeededProfile>>
  /\ disk # None => disk.profiles = profiles /\ Has(disk.profiles, disk.active)

SavedInv == ProfilesOnDisk /\ UnsavedKnows

LEMMA InitSavedInv == Init => SavedInv
<1>1. <<>> = <<>>
  OBVIOUS
<1>2. Init => profiles = <<SeededProfile>> /\ disk = None
  BY <1>1 DEF Init, BootProfiles, EnsureProfiles
<1> QED
  BY <1>2 DEF SavedInv, ProfilesOnDisk, UnsavedKnows

LEMMA ContentsFields ==
  ASSUME NEW ps, NEW a, NEW g
  PROVE  /\ Contents(ps, a, g).profiles = ps
         /\ Contents(ps, a, g).active = a
         /\ Contents(ps, a, g).geometry = g
BY DEF Contents

\* A step that writes the session leaves the file equal to it.
LEMMA WrittenSavedInv ==
  ASSUME disk' = Contents(profiles', active', geometry'), disk' # None,
         Has(profiles', active')
  PROVE  SavedInv'
<1>1. disk'.profiles = profiles' /\ disk'.active = active'
  BY ContentsFields
<1>2. ProfilesOnDisk'
  BY <1>1 DEF ProfilesOnDisk
<1>3. UnsavedKnows'
  BY DEF UnsavedKnows
<1> QED
  BY <1>2, <1>3 DEF SavedInv

\* A step that writes nothing changes only what it marks.
LEMMA UnwrittenSavedInv ==
  ASSUME SavedInv, UNCHANGED <<profileVars, geometry>>,
         dirty => dirty', geometry_dirty => geometry_dirty'
  PROVE  SavedInv'
<1>1. UNCHANGED <<disk, profiles, active, geometry>>
  BY DEF profileVars
<1>2. ProfilesOnDisk'
  BY <1>1 DEF SavedInv, ProfilesOnDisk
<1>3. UnsavedKnows'
  BY <1>1 DEF SavedInv, UnsavedKnows
<1> QED
  BY <1>2, <1>3 DEF SavedInv

\* Of the writes that can fail, none does.
LEMMA PersistWrites ==
  ASSUME ~SaveMayFail, NEW file, Persist(file)
  PROVE  disk' = file
BY DEF Persist

LEMMA ApplySavedInv ==
  ASSUME ~SaveMayFail, NEW name \in Name, ApplyProfile(name)
  PROVE  disk' = Contents(profiles', active', geometry')
<1>1. disk' \in {Contents(profiles', name, geometry)} /\ active' = name /\ geometry' = geometry
  BY DEF ApplyProfile
<1> QED
  BY <1>1

LEMMA RowSavedInv ==
  ASSUME IInv, SavedInv, RowStep
  PROVE  SavedInv'
<1>1. dirty \in BOOLEAN
  BY DEF IInv, TypeOK, ProfileTypes
<1>2. ASSUME UNCHANGED <<profileVars, windowVars>>, MarkDirty
      PROVE  SavedInv'
  <2>1. dirty => dirty'
    BY <1>1, <1>2 DEF MarkDirty
  <2>2. UNCHANGED <<profileVars, geometry>> /\ (geometry_dirty => geometry_dirty')
    BY <1>2 DEF windowVars
  <2> QED
    BY <2>1, <2>2, UnwrittenSavedInv
<1>3. ASSUME Gesture
      PROVE  SavedInv'
  BY <1>2, <1>3 DEF Gesture, Edit
<1>4. ASSUME NEW id, MakeDefault(id)
      PROVE  SavedInv'
  BY <1>2, <1>4 DEF MakeDefault
<1>5. ASSUME NEW section, ToggleSection(section)
      PROVE  SavedInv'
  BY <1>2, <1>5 DEF ToggleSection
<1>6. RowTypes
  BY DEF IInv, TypeOK
<1> QED
  BY <1>3, <1>4, <1>5, <1>6, GesturesAreSound

LEMMA ProfileStepWrites ==
  ASSUME ~SaveMayFail, ProfileStep
  PROVE  \/ UNCHANGED <<profileVars, dirty, windowVars>>
         \/ disk' = Contents(profiles', active', geometry')
<1> DEFINE Goal == \/ UNCHANGED <<profileVars, dirty, windowVars>>
                   \/ disk' = Contents(profiles', active', geometry')
<1>1. ASSUME NEW name \in Name, ApplyProfile(name)
      PROVE  Goal
  BY <1>1, ApplySavedInv
<1>2. ASSUME NEW name \in Name, NEW target \in Name, NEW before \in BOOLEAN,
             ReorderProfile(name, target, before)
      PROVE  Goal
  <2>1. Persist(Contents(profiles', active, geometry)) /\ UNCHANGED <<active, geometry>>
    BY <1>2 DEF ReorderProfile, windowVars
  <2> QED
    BY <2>1, PersistWrites
<1>3. ASSUME NEW m, Dialog(m)
      PROVE  Goal
  BY <1>3 DEF Dialog
<1>4. CASE ConfirmCreate
  <2>1. /\ Persist(Contents(profiles', modal.name, geometry)) /\ active' = modal.name
        /\ geometry' = geometry
    BY <1>4 DEF ConfirmCreate, windowVars
  <2> QED
    BY <2>1, PersistWrites
<1>5. CASE ConfirmRename
  <2>1. \/ Persist(Contents(profiles', active', geometry)) /\ geometry' = geometry
        \/ UNCHANGED <<profileVars, dirty, windowVars>>
    BY <1>5 DEF ConfirmRename, windowVars
  <2> QED
    BY <2>1, PersistWrites
<1>6. CASE ConfirmDelete
  <2>1. CASE Has(profiles, modal.name)
    <3>1. Persist(Contents(profiles', active', geometry)) /\ geometry' = geometry
      BY <1>6, <2>1 DEF ConfirmDelete, DeleteProfile, windowVars
    <3> QED
      BY <3>1, PersistWrites
  <2>2. CASE ~Has(profiles, modal.name)
    BY <1>6, <2>2 DEF ConfirmDelete
  <2> QED
    BY <2>1, <2>2
<1>7. CASE OpenCreate
  BY <1>3, <1>7 DEF OpenCreate
<1>8. CASE \E name \in Name : OpenRename(name) \/ OpenDelete(name)
  BY <1>3, <1>8 DEF OpenRename, OpenDelete
<1>9. CASE \E typed \in Typed : ModalNameChanged(typed)
  BY <1>3, <1>9 DEF ModalNameChanged
<1>10. CASE ModalDismiss
  BY <1>3, <1>10 DEF ModalDismiss
<1> QED
  BY <1>1, <1>2, <1>4, <1>5, <1>6, <1>7, <1>8, <1>9, <1>10 DEF ProfileStep

\* What is read at a boot is what the file holds.
LEMMA BootReads ==
  ASSUME IInv, SavedInv, Restart, disk # None
  PROVE  disk' = Contents(profiles', active', geometry') /\ disk' # None
<1>1. disk \in Saved /\ Has(disk.profiles, disk.active) /\ disk' = disk
  BY ProfileInvGives DEF IInv, SavedInv, ProfilesOnDisk, Restart
<1>2. disk.profiles \in Seq(Profile) /\ disk = Contents(disk.profiles, disk.active, disk.geometry)
  BY <1>1 DEF Saved, Contents
<1>3. disk.active # None
  BY <1>1, <1>2, HasIsName, NameAssumption
<1>4. disk.profiles # <<>>
  BY <1>1 DEF Has
<1>5. /\ BootProfiles(disk) = disk.profiles
      /\ BootActive(disk) = disk.active
      /\ BootGeometry(disk) = disk.geometry
  BY <1>1, <1>3, <1>4 DEF BootProfiles, BootActive, BootGeometry, EnsureProfiles, EnsureActive
<1> QED
  BY <1>1, <1>2, <1>5 DEF Restart

LEMMA SaveStepSavedInv ==
  ASSUME ~SaveMayFail, IInv, SavedInv, SaveStep, Has(profiles', active'),
         disk' = Contents(profiles', active', geometry') => disk' # None
  PROVE  SavedInv'
<1>1. CASE AutoSaveTick
  <2>1. Persist(Contents(profiles', active, geometry)) /\ UNCHANGED <<active, geometry>>
    BY <1>1 DEF AutoSaveTick
  <2> QED
    BY <2>1, PersistWrites, WrittenSavedInv
<1>2. ASSUME NEW g, GeometryChanged(g)
      PROVE  SavedInv'
  <2>1. UNCHANGED <<disk, profiles, active>> /\ geometry_dirty' = TRUE
    BY <1>2 DEF GeometryChanged, profileVars
  <2>2. ProfilesOnDisk'
    BY <2>1 DEF SavedInv, ProfilesOnDisk
  <2> QED
    BY <2>1, <2>2 DEF SavedInv, UnsavedKnows
<1>3. CASE Restart
  <2>1. CASE disk = None
    <3>1. disk' = None /\ profiles' = <<SeededProfile>>
      BY <1>3, <2>1 DEF Restart, BootProfiles, EnsureProfiles
    <3> QED
      BY <3>1 DEF SavedInv, ProfilesOnDisk, UnsavedKnows
  <2>2. CASE disk # None
    BY <1>3, <2>2, BootReads, WrittenSavedInv
  <2> QED
    BY <2>1, <2>2
<1> QED
  BY <1>1, <1>2, <1>3 DEF SaveStep

LEMMA NextSavedInv ==
  ASSUME ~SaveMayFail, IInv, SavedInv, [Next]_vars, IInv'
  PROVE  SavedInv'
<1>1. Has(profiles', active')
  BY DEF IInv, ProfileInv, ProfilesSound
<1>2. disk' = Contents(profiles', active', geometry') => disk' # None
  <2>1. profiles' \in Seq(Profile) /\ active' \in Name /\ geometry' \in Geometry
    BY DEF IInv, TypeOK, ProfileTypes
  <2> QED
    BY <2>1, FileAssumption DEF Contents, Saved
<1>3. ASSUME UNCHANGED <<profileVars, dirty, windowVars>>
      PROVE  SavedInv'
  <2>1. dirty' = dirty /\ geometry_dirty' = geometry_dirty /\ UNCHANGED <<profileVars, geometry>>
    BY <1>3 DEF windowVars
  <2> QED
    BY <2>1, UnwrittenSavedInv
<1>4. CASE WorkerStep
  <2>1. UNCHANGED <<profileVars, dirty, windowVars>>
    BY <1>4, StreamEventArrives DEF WorkerStep, Arrive, StreamRemoved
  <2> QED
    BY <1>3, <2>1
<1>5. CASE RowStep
  BY <1>5, RowSavedInv
<1>6. CASE ProfileStep
  BY <1>1, <1>2, <1>3, <1>6, ProfileStepWrites, WrittenSavedInv
<1>7. CASE SaveStep
  BY <1>1, <1>2, <1>7, SaveStepSavedInv
<1>8. CASE UNCHANGED vars
  BY <1>3, <1>8 DEF vars, profileVars, windowVars
<1> QED
  BY <1>4, <1>5, <1>6, <1>7, <1>8 DEF Next

\* The invariant, while every save succeeds.
LEMMA SavedInvariance ==
  ASSUME ~SaveMayFail
  PROVE  Spec => []SavedInv
<1>1. Init => SavedInv
  BY InitSavedInv
<1>2. IInv /\ SavedInv /\ [Next]_vars /\ IInv' => SavedInv'
  BY NextSavedInv
<1> QED
  BY <1>1, <1>2, Invariance, PTL DEF Spec

\* As long as every save succeeds, a session without a mark is what the
\* state file holds: nothing that was changed is lost unmarked, a boot
\* included (Shell::unsaved).
THEOREM UnsavedHolds == ~SaveMayFail => (Spec => []UnsavedKnows)
<1> SUFFICES ASSUME ~SaveMayFail
             PROVE  Spec => []UnsavedKnows
  OBVIOUS
<1>1. SavedInv => UnsavedKnows
  BY DEF SavedInv
<1> QED
  BY <1>1, SavedInvariance, PTL

-----------------------------------------------------------------------------
(* What a step leaves of the profiles, and what a switch keeps.            *)

\* What a step may not do to profile `name` of the row.
Spares(name) == Has(profiles', name) => Find(profiles', name) = Find(profiles, name)

LEMMA ActiveSnapshot ==
  ASSUME IInv
  PROVE  LET p == Snapshot(active, streams, section_filter)
         IN  p \in Profile /\ p.name = active /\ p.filter = section_filter
BY SnapshotType DEF IInv, TypeOK, RowTypes, ProfileTypes, Strip

LEMMA SnapshotSpares ==
  ASSUME IInv, NEW name, Has(profiles, name), name # active
  PROVE  Find(WithSnapshot, name) = Find(profiles, name)
BY ActiveSnapshot, FindInserted, ProfileInvGives DEF IInv, WithSnapshot

LEMMA DeleteSpares ==
  ASSUME IInv, ConfirmDelete, NEW name, Has(profiles, name), name # active
  PROVE  Spares(name)
<1> DEFINE rest == Remove(profiles, modal.name)
<1>1. profiles \in Seq(Profile) /\ Unique(profiles) /\ Has(profiles, active)
  BY ProfileInvGives DEF IInv
<1>2. rest \in Seq(Profile) /\ Unique(rest)
      /\ \A other : other # modal.name /\ Has(profiles, other) => Has(rest, other)
  BY <1>1, RemoveType
<1>3. CASE ~Has(profiles, modal.name)
  BY <1>3 DEF ConfirmDelete, Spares, profileVars
<1>4. CASE Has(profiles, modal.name)
  <2>1. profiles' = EnsureProfiles(rest)
    BY <1>4 DEF ConfirmDelete, DeleteProfile
  <2>2. rest # <<>>
    <3>1. Has(rest, name) \/ Has(rest, active)
      BY <1>1, <1>2
    <3> HIDE DEF rest
    <3> QED
      BY <3>1 DEF Has
  <2>3. profiles' = rest
    BY <2>1, <2>2 DEF EnsureProfiles
  <2>4. CASE name = modal.name
    <3>1. ~Has(rest, name)
      BY <1>1, <1>4, <2>4, RemovedIsGone
    <3> QED
      BY <2>3, <3>1 DEF Spares
  <2>5. CASE name # modal.name
    BY <1>1, <2>3, <2>5, FindRemoved DEF Spares
  <2> QED
    BY <2>4, <2>5
<1> QED
  BY <1>3, <1>4

LEMMA RenameSpares ==
  ASSUME IInv, ConfirmRename, NEW name, Has(profiles, name), name # active
  PROVE  Spares(name)
<1>1. profiles \in Seq(Profile) /\ Unique(profiles)
  BY ProfileInvGives DEF IInv
<1>2. CASE modal.name # modal.old /\ Has(profiles, modal.old)
  <2>1. modal.name \in Name /\ modal.old \in Name /\ ~Has(profiles, modal.name)
    BY <1>2, ProfileInvGives, HasIsName DEF IInv, ConfirmRename, Modal, Typed
  <2>2. profiles' = Rename(profiles, modal.old, modal.name)
    BY <1>2 DEF ConfirmRename
  <2>3. CASE name = modal.old
    BY <1>1, <1>2, <2>1, <2>2, <2>3, RenamedIsGone DEF Spares
  <2>4. CASE name # modal.old
    BY <1>1, <1>2, <2>1, <2>2, <2>4, FindRenamed DEF Spares
  <2> QED
    BY <2>3, <2>4
<1>3. CASE ~(modal.name # modal.old /\ Has(profiles, modal.old))
  BY <1>3 DEF ConfirmRename, Spares, profileVars
<1> QED
  BY <1>2, <1>3

LEMMA RestartSpares ==
  ASSUME IInv, SavedInv, Restart
  PROVE  profiles' = profiles
<1>1. CASE disk = None
  BY <1>1 DEF Restart, SavedInv, ProfilesOnDisk, BootProfiles, EnsureProfiles
<1>2. CASE disk # None
  <2>1. disk.profiles = profiles /\ profiles # <<>>
    BY <1>2, ProfileInvGives DEF IInv, SavedInv, ProfilesOnDisk, Has
  <2> QED
    BY <1>2, <2>1 DEF Restart, BootProfiles, EnsureProfiles
<1> QED
  BY <1>1, <1>2

LEMMA NextSpares ==
  ASSUME IInv, SavedInv, [Next]_vars, ~ConfirmCreate,
         NEW name, Has(profiles, name), name # active
  PROVE  Spares(name)
<1>1. profiles \in Seq(Profile) /\ Unique(profiles) /\ Has(profiles, active)
  BY ProfileInvGives DEF IInv
<1>2. ASSUME UNCHANGED profiles
      PROVE  Spares(name)
  BY <1>2 DEF Spares
<1>3. ASSUME NEW other \in Name, ApplyProfile(other)
      PROVE  Spares(name)
  <2>1. profiles' = WithSnapshot \/ profiles' = profiles
    BY <1>3 DEF ApplyProfile
  <2> QED
    BY <1>2, <2>1, SnapshotSpares DEF Spares
<1>4. ASSUME NEW moved \in Name, NEW target \in Name, NEW before \in BOOLEAN,
             ReorderProfile(moved, target, before)
      PROVE  Spares(name)
  BY <1>1, <1>4, FindReordered DEF ReorderProfile, Spares
<1>5. ASSUME NEW m, Dialog(m)
      PROVE  Spares(name)
  BY <1>2, <1>5 DEF Dialog, profileVars
<1>6. CASE ProfileStep
  BY <1>3, <1>4, <1>5, <1>6, DeleteSpares, RenameSpares
  DEF ProfileStep, OpenCreate, OpenRename, OpenDelete, ModalNameChanged, ModalDismiss
<1>7. CASE WorkerStep
  <2>1. UNCHANGED profileVars
    BY <1>7, StreamEventArrives DEF WorkerStep, Arrive, StreamRemoved
  <2> QED
    BY <1>2, <2>1 DEF profileVars
<1>8. CASE RowStep
  <2>1. RowTypes
    BY DEF IInv, TypeOK
  <2>2. ASSUME UNCHANGED profileVars
        PROVE  Spares(name)
    BY <1>2, <2>2 DEF profileVars
  <2>3. ASSUME Gesture
        PROVE  Spares(name)
    BY <2>2, <2>3 DEF Gesture, Edit
  <2>4. ASSUME NEW id, MakeDefault(id)
        PROVE  Spares(name)
    BY <2>2, <2>4 DEF MakeDefault
  <2>5. ASSUME NEW section, ToggleSection(section)
        PROVE  Spares(name)
    BY <2>2, <2>5 DEF ToggleSection
  <2> QED
    BY <1>8, <2>1, <2>3, <2>4, <2>5, GesturesAreSound
<1>9. CASE SaveStep
  <2>1. CASE AutoSaveTick
    <3>1. profiles' = WithSnapshot \/ profiles' = profiles
      BY <2>1 DEF AutoSaveTick
    <3> QED
      BY <1>2, <3>1, SnapshotSpares DEF Spares
  <2>2. ASSUME NEW g, GeometryChanged(g)
        PROVE  Spares(name)
    BY <1>2, <2>2 DEF GeometryChanged, profileVars
  <2> QED
    BY <1>2, <1>9, <2>1, <2>2, RestartSpares DEF SaveStep
<1>10. CASE UNCHANGED vars
  BY <1>2, <1>10 DEF vars
<1> QED
  BY <1>6, <1>7, <1>8, <1>9, <1>10 DEF Next

\* As long as every save succeeds, only the active profile is ever rewritten,
\* save by the dialog that creates one over a name in use: no reorder, rename,
\* delete, switch or boot changes what another profile holds.
THEOREM OnlyActiveHolds == ~SaveMayFail => (Spec => OnlyActiveRewritten)
<1> SUFFICES ASSUME ~SaveMayFail
             PROVE  Spec => OnlyActiveRewritten
  OBVIOUS
<1>1. ASSUME IInv, SavedInv, [Next]_vars
      PROVE  ~ConfirmCreate =>
               \A name \in (Names(profiles) \cap Names(profiles')) \ {active} :
                 Find(profiles', name) = Find(profiles, name)
  <2> SUFFICES ASSUME ~ConfirmCreate,
                      NEW name \in (Names(profiles) \cap Names(profiles')) \ {active}
               PROVE  Find(profiles', name) = Find(profiles, name)
    OBVIOUS
  <2>1. Has(profiles, name) /\ Has(profiles', name)
    BY DEF Has, Names
  <2> QED
    BY <1>1, <2>1, NextSpares DEF Spares
<1> QED
  BY <1>1, Invariance, SavedInvariance, PTL DEF Spec, OnlyActiveRewritten

\* What the snapshot of a row holds under the slot of its only stream.
LEMMA SnapshotHolds ==
  ASSUME NEW strip \in Strip, NEW name, NEW filter, NEW slot \in Slot, NEW i \in Id,
         Matches(strip, slot) = {i}
  PROVE  Snapshot(name, strip, filter).entries[slot] = SettingsOf(strip[i])
<1>1. Max({i}) = i
  <2>1. Matches(strip, slot) # {}
    OBVIOUS
  <2> QED
    BY <2>1, MatchesEnds
<1> QED
  BY <1>1 DEF Snapshot

\* Switching profiles flushes the one that is left: its entry of every app or
\* device with one stream holds what the row showed, and the file holds it too.
THEOREM SwitchHolds == Spec => SwitchKeepsEdits
<1> DEFINE Kept(name) ==
      LET left == Find(profiles', active)
      IN  /\ left.filter = section_filter
          /\ \A slot \in Slot, i \in Id :
               Matches(streams, slot) = {i} => left.entries[slot] = SettingsOf(streams[i])
          /\ SaveMayFail \/ disk'.profiles = profiles'
<1>1. ASSUME IInv, NEW name \in Name \ {active}, dirty, ApplyProfile(name)
      PROVE  Kept(name)
  <2> DEFINE p == Snapshot(active, streams, section_filter)
  <2>1. active # None
    BY <1>1, NameAssumption, ProfileInvGives DEF IInv
  <2>2. Flushes(name)
    BY <1>1, <2>1 DEF Flushes
  <2>3. profiles' = InsertOrReplace(profiles, p)
    BY <1>1, <2>2 DEF ApplyProfile, WithSnapshot
  <2>4. p \in Profile /\ p.name = active /\ p.filter = section_filter
    BY <1>1, ActiveSnapshot
  <2>5. Find(profiles', active) = p
    BY <1>1, <2>3, <2>4, FindInserted, ProfileInvGives DEF IInv
  <2>6. \A slot \in Slot, i \in Id :
          Matches(streams, slot) = {i} => p.entries[slot] = SettingsOf(streams[i])
    <3>1. streams \in Strip
      BY <1>1 DEF IInv, TypeOK, RowTypes, Strip
    <3> QED
      BY <3>1, SnapshotHolds
  <2>7. SaveMayFail \/ disk'.profiles = profiles'
    BY <1>1, ApplySavedInv, ContentsFields
  <2> QED
    BY <2>4, <2>5, <2>6, <2>7
<1>2. ASSUME IInv
      PROVE  \A name \in Name \ {active} : dirty /\ ApplyProfile(name) => Kept(name)
  BY <1>1, <1>2
<1> QED
  BY <1>2, Invariance, PTL DEF SwitchKeepsEdits

-----------------------------------------------------------------------------
(* The slider of an app with several streams.                              *)

LEMMA RescaledKeeps ==
  ASSUME RowTypes, NEW id \in AppRows, NEW c \in Cubic
  PROVE  LET level(i) == LinearToCubic(streams[i].volume)
             row      == RowOf(id)
         IN  /\ \A i \in row : Rescaled(i, row, c) <= c
             /\ \E i \in row : Rescaled(i, row, c) = c
             /\ \A i, j \in row : level(i) <= level(j) => Rescaled(i, row, c) <= Rescaled(j, row, c)
<1> DEFINE level(i) == LinearToCubic(streams[i].volume)
           row      == RowOf(id)
           levels   == {level(j) : j \in row}
           master   == Max(levels)
           part(i)  == (level(i) * c) \div master
<1>1. c \in Nat /\ c <= MaxVolume /\ MaxVolume \in Nat
  BY VolumeAssumption DEF Cubic
<1>2. \A i \in row : level(i) \in 0..MaxVolume
  BY AppRowsAreRows, RowsAreStreams, CubicOfGain DEF Stream, Cubic
<1>3. levels # {} /\ levels \subseteq 0..MaxVolume
  BY <1>2, AppRowsAreRows
<1>4. master \in levels /\ \A x \in levels : master >= x
  <2> HIDE DEF levels
  <2> QED
    BY <1>1, <1>3, MaxIsGreatest
<1>5. \A i \in row : Rescaled(i, row, c)
                       = IF master = 0 THEN c ELSE Min({MaxVolume, part(i)})
  BY DEF Rescaled
<1> HIDE DEF level, row
<1>6. PICK top \in row : level(top) = master
  BY <1>4
<1>7. master \in Nat /\ \A i \in row : level(i) \in Nat /\ level(i) <= master
  BY <1>1, <1>2, <1>4, <1>6
<1> HIDE DEF master
<1>8. CASE master = 0
  <2>1. \A i \in row : Rescaled(i, row, c) = c
    BY <1>5, <1>8
  <2> QED
    BY <1>1, <1>6, <2>1 DEF level, row
<1>9. CASE master # 0
  <2>1. ASSUME NEW i \in row, NEW j \in row, level(i) <= level(j)
        PROVE  part(i) <= part(j)
    <3>1. level(i) * c \in Nat /\ level(j) * c \in Nat /\ level(i) * c <= level(j) * c
      BY <1>1, <1>7, <2>1, ProductMonotone, ProductCommutes
    <3> QED
      BY <1>7, <1>9, <3>1, DivMonotone
  <2>2. part(top) = c
    BY <1>1, <1>6, <1>7, <1>9, DivOfProduct
  <2>3. \A i \in row : part(i) \in Nat /\ part(i) <= c
    <3> SUFFICES ASSUME NEW i \in row
                 PROVE  part(i) \in Nat /\ part(i) <= c
      OBVIOUS
    <3>1. level(i) * c \in Nat
      BY <1>1, <1>7, ProductCommutes
    <3>2. part(i) \in Nat
      BY <1>7, <1>9, <3>1, DivBounds
    <3>3. part(i) <= part(top)
      BY <1>6, <1>7, <2>1
    <3> QED
      BY <2>2, <3>2, <3>3
  <2> HIDE DEF part
  <2>4. \A i \in row : Rescaled(i, row, c) = part(i)
    <3> SUFFICES ASSUME NEW i \in row
                 PROVE  Min({MaxVolume, part(i)}) = part(i)
      BY <1>5, <1>9
    <3>1. /\ Min({MaxVolume, part(i)}) \in {MaxVolume, part(i)}
          /\ \A y \in {MaxVolume, part(i)} : Min({MaxVolume, part(i)}) <= y
      BY <1>1, <2>3, MinIsLeast
    <3> QED
      BY <1>1, <2>3, <3>1
  <2>5. Rescaled(top, row, c) = c
    BY <2>2, <2>4
  <2> QED
    BY <1>6, <2>1, <2>3, <2>4, <2>5 DEF level, row
<1> QED
  BY <1>8, <1>9

\* A drag of an app's slider puts its loudest stream where the slider is and
\* lets no stream overtake another, for every ratio of levels and every step
\* of the slider: the rounding down never reorders them.
THEOREM BalanceHolds == Spec => GroupKeepsBalance
<1> DEFINE was(i) == LinearToCubic(streams[i].volume)
           now(i) == LinearToCubic(streams'[i].volume)
           Kept(id, c) ==
             /\ Max({now(i) : i \in RowOf(id)}) = c
             /\ \A i, j \in RowOf(id) : was(i) <= was(j) => now(i) <= now(j)
<1>1. ASSUME IInv, NEW id \in AppRows, NEW c \in Cubic, GroupVolumeChanged(id, c)
      PROVE  Kept(id, c)
  <2> DEFINE row == RowOf(id)
  <2>1. RowTypes /\ c \in Nat
    BY <1>1, VolumeAssumption DEF IInv, TypeOK, Cubic
  <2>2. row \subseteq Id /\ \A i \in row : streams[i] \in Stream
    BY <1>1, <2>1, AppRowsAreRows, RowsAreStreams
  <2>3. \A i \in row : streams'[i] = [streams[i] EXCEPT !.volume = CubicToLinear(Rescaled(i, row, c))]
    BY <1>1, <2>2 DEF GroupVolumeChanged, Edit
  <2>4. \A i \in row : Rescaled(i, row, c) \in Cubic
    BY <1>1, <2>1, RescaledType
  <2>5. \A i \in row : now(i) = Rescaled(i, row, c)
    <3> SUFFICES ASSUME NEW i \in row
                 PROVE  now(i) = Rescaled(i, row, c)
      OBVIOUS
    <3>1. streams'[i].volume = CubicToLinear(Rescaled(i, row, c))
      BY <2>2, <2>3 DEF Stream
    <3> QED
      BY <2>4, <3>1, CubicRoundTrip
  <2>6. /\ \A i \in row : Rescaled(i, row, c) <= c
        /\ \E i \in row : Rescaled(i, row, c) = c
        /\ \A i, j \in row : was(i) <= was(j) => Rescaled(i, row, c) <= Rescaled(j, row, c)
    BY <1>1, <2>1, RescaledKeeps
  <2> HIDE DEF row, now, was
  <2>7. Max({now(i) : i \in row}) = c
    <3> DEFINE S == {now(i) : i \in row}
    <3>1. S \subseteq 0..MaxVolume /\ c \in S /\ \A x \in S : x <= c
      BY <2>4, <2>5, <2>6 DEF Cubic
    <3> HIDE DEF S
    <3>2. Max(S) \in S /\ \A y \in S : Max(S) >= y
      BY <3>1, MaxIsGreatest, VolumeAssumption
    <3>3. S \subseteq Nat
      BY <3>1, VolumeAssumption
    <3>4. PICK top \in S : top = Max(S) /\ \A y \in S : top >= y
      BY <3>2
    <3>5. top = c
      BY <2>1, <3>1, <3>3, <3>4
    <3> QED
      BY <3>4, <3>5 DEF S
  <2>8. \A i, j \in row : was(i) <= was(j) => now(i) <= now(j)
    BY <2>5, <2>6
  <2> QED
    BY <2>7, <2>8 DEF row
<1>2. ASSUME IInv
      PROVE  \A id \in AppRows, c \in Cubic : GroupVolumeChanged(id, c) => Kept(id, c)
  BY <1>1, <1>2
<1> QED
  BY <1>2, Invariance, PTL DEF GroupKeepsBalance

-----------------------------------------------------------------------------
(* Ghosts. Only an arrival takes one's row away.                           *)

LEMMA GhostStays ==
  ASSUME IInv, [Next]_vars, ~Restart, NEW g \in tombstoned, streams'[g] = Absent
  PROVE  \E r \in Report : StreamEvent(r.id, r.stream)
<1>1. RowTypes /\ GhostsAreIdleApps /\ Has(profiles, active)
  BY ProfileInvGives DEF IInv, TypeOK, RowInv
<1>2. g \in Id /\ g \in Rows /\ streams[g] # Absent
  BY <1>1 DEF RowTypes, GhostsAreIdleApps, Rows
<1>3. streams' # streams
  BY <1>2
<1>4. ASSUME NEW id \in Id, StreamRemoved(id)
      PROVE  FALSE
  <2>1. CASE Outlives(id)
    BY <1>3, <1>4, <2>1 DEF StreamRemoved
  <2>2. CASE ~Outlives(id)
    <3>1. streams' = [streams EXCEPT ![id] = Absent]
      BY <1>4, <2>2 DEF StreamRemoved
    <3>2. id = g
      BY <1>1, <1>2, <3>1 DEF RowTypes
    <3>3. Outlives(g)
      BY <1>1, <1>2 DEF GhostsAreIdleApps, Outlives, AppRows
    <3> QED
      BY <2>2, <3>2, <3>3
  <2> QED
    BY <2>1, <2>2
<1>5. ASSUME Gesture
      PROVE  FALSE
  <2>1. PICK new, commands : SoundEdit(new, commands) /\ Edit(new, commands)
    BY <1>5 DEF Gesture
  <2>2. streams'[g] = IF g \in DOMAIN new THEN new[g] ELSE streams[g]
    BY <1>2, <2>1 DEF Edit
  <2>3. g \in DOMAIN new => new[g] \in Stream
    BY <2>1 DEF SoundEdit
  <2> QED
    BY <1>2, <2>2, <2>3, AbsentIsNoStream
<1>6. CASE RowStep
  BY <1>1, <1>3, <1>5, <1>6, GesturesAreSound DEF MakeDefault, ToggleSection, rowVars
<1>7. ASSUME NEW name \in Name, ApplyProfile(name)
      PROVE  FALSE
  <2> DEFINE p == Find(Switched(name), name)
             entry == p.entries[SlotOf(streams[g])]
  <2>1. p \in Profile
    BY <1>1, <1>7, SwitchedType DEF ApplyProfile, IInv
  <2>2. streams'[g] = IF Takes(g, p) THEN Settle(streams[g], entry) ELSE streams[g]
    BY <1>2, <1>7, ApplyRows
  <2> HIDE DEF p
  <2>3. Takes(g, p) => Settle(streams[g], entry) \in Stream
    BY <1>1, <1>2, <2>1, TakenSettings, SettleType
  <2> QED
    BY <1>2, <2>2, <2>3, AbsentIsNoStream
<1>8. CASE ProfileStep
  <2>1. (\E name \in Name : ApplyProfile(name)) \/ streams' = streams
    BY <1>8
    DEF ProfileStep, ReorderProfile, OpenCreate, OpenRename, OpenDelete, ModalNameChanged,
        ModalDismiss, Dialog, ConfirmCreate, ConfirmRename, ConfirmDelete, rowVars
  <2> QED
    BY <1>3, <1>7, <2>1
<1>9. CASE SaveStep
  BY <1>3, <1>9 DEF SaveStep, AutoSaveTick, GeometryChanged, rowVars
<1>10. CASE UNCHANGED vars
  BY <1>3, <1>10 DEF vars
<1> QED
  BY <1>4, <1>6, <1>8, <1>9, <1>10 DEF Next, WorkerStep

\* The arrival that takes a ghost's row leaves the app a live one; if the
\* ghost was the app's only row, with its settings and its place.
LEMMA ArrivalReclaims ==
  ASSUME IInv, NEW id \in Id, NEW s \in Stream, NEW heir \in Ghosts(id, s) \cup {None},
         Ghosts(id, s) # {} => heir # None,
         Arrive(id, s, heir), NEW g \in tombstoned, streams'[g] = Absent
  PROVE  /\ id \in Rows' \ tombstoned'
         /\ SlotOf(streams'[id]) = SlotOf(streams[g])
         /\ RowOf(g) = {g} =>
              /\ SettingsOf(streams'[id]) = SettingsOf(streams[g])
              /\ id \notin Rows => app_order'[id] = app_order[g]
<1>1. RowTypes /\ GhostsAreIdleApps /\ RowOrderSound
  BY DEF IInv, TypeOK, RowInv
<1>2. g \in Id /\ streams[g] # Absent /\ streams[g].kind = "app"
  BY <1>1 DEF RowTypes, GhostsAreIdleApps
<1>3. /\ streams' = [i \in Id |-> IF i = id THEN Landed(s, heir)
                                  ELSE IF i \in Ghosts(id, s) THEN Absent ELSE streams[i]]
      /\ tombstoned' = tombstoned \ (Ghosts(id, s) \cup {id})
  BY ArriveRows
<1>4. /\ Landed(s, heir) \in Stream
      /\ Landed(s, heir).kind = s.kind /\ Landed(s, heir).key = s.key
  BY <1>1, LandedType
<1>5. streams'[id] = Landed(s, heir) /\ id \in Rows' \ tombstoned'
  BY <1>3, <1>4, AbsentIsNoStream DEF Rows
<1>6. g \in Ghosts(id, s)
  BY <1>2, <1>3, <1>4, AbsentIsNoStream
<1>7. /\ g \in Rows /\ g # id /\ streams[g] \in Stream
      /\ s.kind = "app" /\ s.key # None /\ SlotOf(streams[g]) = SlotOf(s)
  BY <1>1, <1>6, GhostsType
<1>8. SlotOf(streams'[id]) = SlotOf(streams[g])
  BY <1>4, <1>5, <1>7 DEF SlotOf
<1>9. ASSUME RowOf(g) = {g}
      PROVE  heir = g
  <2>1. heir \in Ghosts(id, s)
    BY <1>6
  <2>2. heir \in Rows /\ SlotOf(streams[heir]) = SlotOf(s)
    BY <1>1, <2>1, GhostsType
  <2>3. heir \in AppRows /\ streams[heir].key = streams[g].key /\ streams[g].key # None
    BY <1>7, <2>2 DEF SlotOf, AppRows
  <2>4. heir \in RowOf(g)
    BY <2>3 DEF RowOf
  <2> QED
    BY <1>9, <2>4
<1>10. ASSUME RowOf(g) = {g}
       PROVE  SettingsOf(streams'[id]) = SettingsOf(streams[g])
  <2> DEFINE given == IF Preset(s) = None THEN s ELSE Settle(s, Preset(s))
             v     == SettingsOf(streams[g])
  <2>1. given \in Stream /\ given.kind = "app"
    BY <1>1, <1>7, PresetType, SettleType
  <2>2. g # None
    BY <1>2, IdAssumption, NoneAssumption DEF Id
  <2>3. Landed(s, heir) = Settle(given, v)
    BY <1>9, <1>10, <2>2 DEF Landed, Inherited
  <2> HIDE DEF given
  <2>4. v \in Settings
    BY <1>7, SettingsType
  <2>5. SettingsOf(Settle(given, v)) = v
    <3> HIDE DEF v
    <3>1. /\ Settle(given, v).kind = "app" /\ Settle(given, v).volume = v.volume
          /\ Settle(given, v).muted = v.muted /\ Settle(given, v).target = v.target
      BY <2>1, <2>4, SettleType
    <3>2. SettingsOf(Settle(given, v))
            = [volume |-> v.volume, muted |-> v.muted, target |-> v.target]
      BY <3>1 DEF SettingsOf
    <3> QED
      BY <2>4, <3>2 DEF Settings
  <2> QED
    BY <1>5, <2>3, <2>5
<1>11. ASSUME RowOf(g) = {g}, id \notin Rows
       PROVE  app_order'[id] = app_order[g]
  <2>1. app_order[id] = None
    BY <1>1, <1>11 DEF RowOrderSound, Rows
  <2>2. app_order[g] # None
    BY <1>1, <1>2, <1>7 DEF RowOrderSound, AppRows
  <2>3. heir = g /\ heir # None /\ id \notin Ghosts(id, s)
    BY <1>2, <1>9, <1>11, IdAssumption, NoneAssumption DEF Id, Ghosts
  <2>4. ~Mints(heir)
    BY <2>2, <2>3 DEF Mints
  <2> QED
    BY <1>7, <2>1, <2>3, <2>4 DEF Arrive
<1> QED
  BY <1>5, <1>8, <1>10, <1>11

\* A ghost's row goes only to a live row of its app, which takes over the
\* level, mute and pin of an app that had no other row, and its place.
THEOREM GhostsReclaimed == Spec => GhostsAreReclaimed
<1> DEFINE Reclaims(g, i) ==
      /\ SlotOf(streams'[i]) = SlotOf(streams[g])
      /\ RowOf(g) = {g} =>
           /\ SettingsOf(streams'[i]) = SettingsOf(streams[g])
           /\ i \notin Rows => app_order'[i] = app_order[g]
<1>1. ASSUME IInv, [Next]_vars, ~Restart, NEW g \in tombstoned, streams'[g] = Absent
      PROVE  \E i \in Rows' \ tombstoned' : Reclaims(g, i)
  <2>1. PICK r \in Report : StreamEvent(r.id, r.stream)
    BY <1>1, GhostStays
  <2>2. r.id \in Id /\ r.stream \in Stream
    BY ReportAssumption
  <2>3. PICK heir \in Ghosts(r.id, r.stream) \cup {None} :
          /\ Arrive(r.id, r.stream, heir)
          /\ Ghosts(r.id, r.stream) # {} => heir \in Ghosts(r.id, r.stream)
    BY <2>1 DEF StreamEvent
  <2>4. Ghosts(r.id, r.stream) # {} => heir # None
    <3>1. ASSUME heir \in Ghosts(r.id, r.stream)
          PROVE  heir \in Id
      BY <1>1, <2>2, <3>1, GhostsType DEF IInv, TypeOK, Rows
    <3> QED
      BY <2>3, <3>1, IdAssumption, NoneAssumption DEF Id
  <2> QED
    BY <1>1, <2>2, <2>3, <2>4, ArrivalReclaims
<1>2. ASSUME IInv, [Next]_vars
      PROVE  ~Restart => \A g \in tombstoned :
               streams'[g] = Absent => \E i \in Rows' \ tombstoned' : Reclaims(g, i)
  BY <1>1, <1>2
<1> QED
  BY <1>2, Invariance, PTL DEF Spec, GhostsAreReclaimed

-----------------------------------------------------------------------------
(* The strip of columns, for any ids, apps and reports: what a gesture on a *)
(* column asks for is what the column shows, and columns keep their order.  *)

\* The reducer's invariant holds beside the view: a fold or an unfold of a
\* column is the only step of it that is none of the reducer's.
LEMMA ViewStepKeeps ==
  ASSUME IInv, [ViewNext]_<<vars, viewVars>>
  PROVE  IInv'
<1>1. CASE \E r \in Report : \E form \in FormsOf(r.stream.kind) : EventShown(r.id, r.stream, form)
  <2>1. WorkerStep
    BY <1>1 DEF EventShown, WorkerStep
  <2> QED
    BY <2>1, NextIInv DEF Next
<1>2. CASE \E id \in Id : RemovalShown(id)
  <2>1. WorkerStep
    BY <1>2 DEF RemovalShown, WorkerStep
  <2> QED
    BY <2>1, NextIInv DEF Next
<1>3. ASSUME NEW column \in Columns, GroupToggleExpanded(column)
      PROVE  IInv'
  <2>1. /\ NoCommands
        /\ UNCHANGED <<rowVars, pending, profileVars, section_filter, modal, dirty, windowVars>>
    BY <1>3 DEF GroupToggleExpanded
  <2>2. RowTypes'
    BY <2>1, QuietTypes DEF IInv, TypeOK, RowTypes, rowVars
  <2>3. ProfileInv'
    BY <2>1, QuietProfileInv, ProfileInvGives DEF IInv
  <2>4. RowInv'
    BY <2>1, QuietRowInv DEF IInv
  <2> QED
    BY <2>2, <2>3, <2>4 DEF IInv, TypeOK, ProfileInv
<1>4. CASE RowStep \/ ProfileStep \/ AutoSaveTick \/ (\E g \in Geometry : GeometryChanged(g))
           \/ Restart
  BY <1>4, NextIInv DEF Next, SaveStep
<1>5. CASE UNCHANGED <<vars, viewVars>>
  BY <1>5, NextIInv
<1> QED
  BY <1>1, <1>2, <1>3, <1>4, <1>5 DEF ViewNext

LEMMA ViewInvariance == ViewSpec => []IInv
<1>1. Init => IInv
  BY InitIInv
<1>2. IInv /\ [ViewNext]_<<vars, viewVars>> => IInv'
  BY ViewStepKeeps
<1> QED
  BY <1>1, <1>2, PTL DEF ViewSpec

-----------------------------------------------------------------------------
(* Columns and their members.                                              *)

LEMMA MembersAre ==
  ASSUME RowTypes, NEW column \in Columns
  PROVE  /\ Members(column) # {} /\ Members(column) \subseteq AppRows
         /\ Members(column) \subseteq 0..TopId
         /\ Min(Members(column)) \in Members(column)
         /\ RowOf(Min(Members(column))) = Members(column)
<1>1. Members(column) # {} /\ Members(column) \subseteq AppRows
  BY DEF Members, Columns
<1>2. Members(column) \subseteq 0..TopId
  BY <1>1 DEF AppRows, Rows, Id
<1>3. Members(column) \subseteq Nat
  BY <1>2, IdAssumption
<1>4. Min(Members(column)) \in Members(column)
  BY <1>1, <1>3, MinIsLeast
<1>5. \A i \in Members(column) : RowOf(i) = Members(column)
  BY DEF RowOf, Members, ColumnOf
<1> QED
  BY <1>1, <1>2, <1>4, <1>5

LEMMA MembersCount ==
  ASSUME RowTypes, NEW column
  PROVE  Cardinality(Members(column)) \in Nat
<1>1. Members(column) \subseteq 0..TopId
  BY DEF Members, AppRows, Rows, Id
<1>2. IsFiniteSet(0..TopId)
  BY IdAssumption, FS_Interval
<1> QED
  BY <1>1, <1>2, FS_Subset, FS_CardinalityType

\* While no row changes what it is, the columns and who is in them stay.
LEMMA SameColumns ==
  ASSUME RowTypes, SameRows
  PROVE  /\ Rows' = Rows /\ AppRows' = AppRows /\ Columns' = Columns
         /\ \A column : Members(column)' = Members(column)
         /\ \A i \in AppRows : ColumnOf(i)' = ColumnOf(i)
         /\ \A kind : Devices(kind)' = Devices(kind)
<1>1. \A i \in Id : /\ streams'[i] = Absent <=> streams[i] = Absent
                    /\ streams[i] # Absent =>
                         /\ streams'[i].kind = streams[i].kind
                         /\ streams'[i].key = streams[i].key
  BY AbsentIsNoStream DEF SameRows
<1>2. Rows' = Rows /\ AppRows' = AppRows
  BY <1>1 DEF Rows, AppRows
<1>3. \A i \in AppRows : ColumnOf(i)' = ColumnOf(i)
  BY <1>1 DEF ColumnOf, AppRows, Rows
<1>4. \A column : Members(column)' = Members(column)
  BY <1>2, <1>3 DEF Members
<1>5. Columns' = Columns
  BY <1>2, <1>3 DEF Columns
<1>6. \A kind : Devices(kind)' = Devices(kind)
  BY <1>1, <1>2 DEF Devices, Rows
<1> QED
  BY <1>2, <1>3, <1>4, <1>5, <1>6

\* While the sinks stay as they are, so does what a pin shows.
LEMMA SinksKeep ==
  ASSUME Devices("sink")' = Devices("sink"), forms' = forms,
         \A i \in Devices("sink") : streams'[i] = streams[i], NEW name
  PROVE  SinkNamed(name)' = SinkNamed(name)
<1> DEFINE named == {i \in Devices("sink") : streams[i].key = name}
           First(i) == \A j \in named \ {i} : DeviceBefore(j, i)
           Later(i) == \A j \in named \ {i} : DeviceBefore(j, i)'
<1>1. \A i, j \in named : DeviceBefore(i, j)' <=> DeviceBefore(i, j)
  BY DEF DeviceBefore
<1>2. {i \in Devices("sink")' : streams'[i].key = name} = named
  OBVIOUS
<1>3. \A i \in named : Later(i) <=> First(i)
  BY <1>1
<1>4. (CHOOSE i \in named : Later(i)) = (CHOOSE i \in named : First(i))
  <2> HIDE DEF named, First, Later
  <2> QED
    BY <1>3
<1>5. CASE name = None \/ named = {}
  <2>1. SinkNamed(name) = None
    BY <1>5 DEF SinkNamed
  <2>2. SinkNamed(name)' = None
    BY <1>2, <1>5 DEF SinkNamed
  <2> QED
    BY <2>1, <2>2
<1>6. CASE ~(name = None \/ named = {})
  <2>1. SinkNamed(name) = CHOOSE i \in named : First(i)
    BY <1>6 DEF SinkNamed
  <2>2. SinkNamed(name)' = CHOOSE i \in named : Later(i)
    BY <1>2, <1>6, Zenon DEF SinkNamed
  <2> QED
    BY <2>1, <2>2, <1>4
<1> QED
  BY <1>5, <1>6

-----------------------------------------------------------------------------
(* What a gesture on a column shows.                                       *)

\* A pin that stays shows the same sink.
LEMMA PinKeeps ==
  ASSUME NEW column, Members(column)' = Members(column),
         \A i \in Members(column) : streams'[i].target = streams[i].target
  PROVE  Pinned(column)' = Pinned(column)
<1> DEFINE pins  == {streams[i].target : i \in Members(column)}
           later == {streams'[i].target : i \in Members(column)'}
<1>1. later = pins
  OBVIOUS
<1>2. Pinned(column) = IF Cardinality(pins) = 1 THEN CHOOSE pin \in pins : TRUE ELSE None
  BY DEF Pinned
<1>3. Pinned(column)' = IF Cardinality(later) = 1 THEN CHOOSE pin \in later : TRUE ELSE None
  BY DEF Pinned
<1> HIDE DEF pins, later
<1> QED
  BY <1>1, <1>2, <1>3, Zenon

\* The sink a pin names next, whether a column's pin or a stream's.
LEMMA SinkShown ==
  ASSUME Devices("sink")' = Devices("sink"), forms' = forms,
         \A i \in Devices("sink") : streams'[i] = streams[i], NEW pin
  PROVE  /\ \A column : Pinned(column)' = pin => SinkNamed(Pinned(column))' = SinkNamed(pin)
         /\ \A i : streams'[i].target = pin => SinkNamed(streams[i].target)' = SinkNamed(pin)
<1> DEFINE named    == {i \in Devices("sink")' : streams'[i].key = pin}
           Later(i) == \A j \in named \ {i} : DeviceBefore(j, i)'
           last     == CHOOSE i \in named : Later(i)
           shown    == IF pin = None \/ named = {} THEN None ELSE last
<1>1. SinkNamed(pin)' = shown
  BY Zenon DEF SinkNamed
<1>2. ASSUME NEW column, Pinned(column)' = pin
      PROVE  SinkNamed(Pinned(column))' = shown
  <2>1. {i \in Devices("sink")' : streams'[i].key = Pinned(column)'} = named
    BY <1>2
  <2>2. CASE pin = None \/ named = {}
    BY <1>2, <2>1, <2>2, Zenon DEF SinkNamed
  <2>3. CASE ~(pin = None \/ named = {})
    <3>1. SinkNamed(Pinned(column))' = last
      BY <1>2, <2>1, <2>3, Zenon DEF SinkNamed
    <3> QED
      BY <2>3, <3>1, Zenon
  <2> QED
    BY <2>2, <2>3
<1>3. ASSUME NEW k, streams'[k].target = pin
      PROVE  SinkNamed(streams[k].target)' = shown
  <2>1. {i \in Devices("sink")' : streams'[i].key = streams'[k].target} = named
    BY <1>3
  <2>2. CASE pin = None \/ named = {}
    BY <1>3, <2>1, <2>2, Zenon DEF SinkNamed
  <2>3. CASE ~(pin = None \/ named = {})
    <3>1. SinkNamed(streams[k].target)' = last
      BY <1>3, <2>1, <2>3, Zenon DEF SinkNamed
    <3> QED
      BY <2>3, <3>1, Zenon
  <2> QED
    BY <2>2, <2>3
<1> HIDE DEF shown
<1>4. SinkNamed(pin)' = SinkNamed(pin)
  BY SinksKeep
<1> QED
  BY <1>1, <1>2, <1>3, <1>4

Level(column) == Max({LinearToCubic(streams[i].volume) : i \in Members(column)})

GroupRowWith(column, muted, expanded, target) ==
  [cubic |-> Level(column), muted |-> muted, tombstoned |-> Members(column) \subseteq tombstoned,
   expanded |-> expanded, target |-> target]

LEMMA GroupRowNext ==
  ASSUME NEW column, Members(column)' = Members(column), tombstoned' = tombstoned,
         \A i \in Members(column) : streams'[i].volume = streams[i].volume,
         NEW muted, AllMuted(column)' = muted,
         NEW expanded, Expanded(column)' = expanded,
         NEW target, SinkNamed(Pinned(column))' = target
  PROVE  /\ GroupRow(column) = GroupRowWith(column, AllMuted(column), Expanded(column),
                                            SinkNamed(Pinned(column)))
         /\ GroupRow(column)' = GroupRowWith(column, muted, expanded, target)
<1>1. {LinearToCubic(streams'[i].volume) : i \in Members(column)'}
        = {LinearToCubic(streams[i].volume) : i \in Members(column)}
  OBVIOUS
<1>2. GroupRow(column)' = GroupRowWith(column, muted, expanded, target)
  BY <1>1, Zenon DEF GroupRow, GroupRowWith, Level
<1> QED
  BY <1>2 DEF GroupRow, GroupRowWith, Level

\* One field of a column's row set to another value.
LEMMA OneField ==
  ASSUME NEW column, NEW m, NEW e, NEW g
  PROVE  /\ GroupRowWith(column, m, e, g).muted = m /\ GroupRowWith(column, m, e, g).expanded = e
         /\ \A x : [GroupRowWith(column, m, e, g) EXCEPT !.muted = x] = GroupRowWith(column, x, e, g)
         /\ \A x : [GroupRowWith(column, m, e, g) EXCEPT !.expanded = x] = GroupRowWith(column, m, x, g)
         /\ \A x : [GroupRowWith(column, m, e, g) EXCEPT !.target = x] = GroupRowWith(column, m, e, x)
<1> DEFINE c == Level(column)
           t == Members(column) \subseteq tombstoned
<1>1. \A n, f, h : GroupRowWith(column, n, f, h) =
        [cubic |-> c, muted |-> n, tombstoned |-> t, expanded |-> f, target |-> h]
  BY DEF GroupRowWith
<1> HIDE DEF c, t
<1>2. GroupRowWith(column, m, e, g).muted = m /\ GroupRowWith(column, m, e, g).expanded = e
  BY <1>1
<1>3. \A x : [GroupRowWith(column, m, e, g) EXCEPT !.muted = x] = GroupRowWith(column, x, e, g)
  BY <1>1
<1>4. \A x : [GroupRowWith(column, m, e, g) EXCEPT !.expanded = x] = GroupRowWith(column, m, x, g)
  BY <1>1
<1>5. \A x : [GroupRowWith(column, m, e, g) EXCEPT !.target = x] = GroupRowWith(column, m, e, x)
  BY <1>1
<1> QED
  BY <1>2, <1>3, <1>4, <1>5

\* What a gesture may not change: the rows of everything else.
Elsewhere(column) ==
  /\ \A other \in Columns \ {column} : GroupRow(other)' = GroupRow(other)
  /\ \A i \in AppRows \ Members(column) : MemberRow(i)' = MemberRow(i)
  /\ \A i \in Rows \ AppRows : DeviceRow(i)' = DeviceRow(i)

LEMMA SinksAreNoApps ==
  ASSUME RowTypes, NEW column
  PROVE  Devices("sink") \cap AppRows = {}
BY DEF Devices, AppRows

\* A column none of whose streams changes, folded as it was, shows the same.
LEMMA GroupRowKeeps ==
  ASSUME NEW column, Members(column)' = Members(column), tombstoned' = tombstoned,
         \A i \in Members(column) : streams'[i] = streams[i],
         Expanded(column)' = Expanded(column),
         Devices("sink")' = Devices("sink"), forms' = forms,
         \A i \in Devices("sink") : streams'[i] = streams[i]
  PROVE  GroupRow(column)' = GroupRow(column)
<1>1. AllMuted(column)' = AllMuted(column)
  BY Zenon DEF AllMuted
<1>2. Pinned(column)' = Pinned(column)
  BY PinKeeps
<1>3. PICK pin : pin = Pinned(column)
  OBVIOUS
<1>4. SinkNamed(Pinned(column))' = SinkNamed(pin)
  BY <1>2, <1>3, SinkShown
<1>5. SinkNamed(Pinned(column))' = SinkNamed(Pinned(column))
  BY <1>3, <1>4
<1>6. PICK muted, expanded, target :
        muted = AllMuted(column) /\ expanded = Expanded(column) /\ target = SinkNamed(Pinned(column))
  OBVIOUS
<1>7. /\ AllMuted(column)' = muted /\ Expanded(column)' = expanded
      /\ SinkNamed(Pinned(column))' = target
      /\ \A i \in Members(column) : streams'[i].volume = streams[i].volume
  BY <1>1, <1>5, <1>6
<1>8. /\ GroupRow(column) = GroupRowWith(column, AllMuted(column), Expanded(column),
                                         SinkNamed(Pinned(column)))
      /\ GroupRow(column)' = GroupRowWith(column, muted, expanded, target)
  BY <1>7, GroupRowNext
<1> QED
  BY <1>6, <1>8

\* What changes no row but the column's and folds no other shows nowhere else.
LEMMA ElsewhereKeeps ==
  ASSUME RowTypes, SameRows, forms' = forms, NEW column \in Columns,
         \A i \in Rows \ Members(column) : streams'[i] = streams[i],
         \A other \in Columns \ {column} : Expanded(other)' = Expanded(other)
  PROVE  Elsewhere(column)
<1>1. /\ AppRows' = AppRows /\ Devices("sink")' = Devices("sink")
      /\ \A other : Members(other)' = Members(other)
  BY SameColumns
<1>2. tombstoned' = tombstoned
  BY DEF SameRows
<1>3. /\ Devices("sink") \cap Members(column) = {}
      /\ \A i \in Devices("sink") : streams'[i] = streams[i]
  BY DEF Devices, Members, AppRows
<1>4. ASSUME NEW other \in Columns \ {column}
      PROVE  GroupRow(other)' = GroupRow(other)
  <2>1. \A i \in Members(other) : i \in Rows \ Members(column)
    BY DEF Members, AppRows
  <2> QED
    BY <1>1, <1>2, <1>3, <2>1, GroupRowKeeps
<1>5. ASSUME NEW i \in AppRows \ Members(column)
      PROVE  MemberRow(i)' = MemberRow(i)
  <2>1. streams'[i] = streams[i]
    BY DEF AppRows
  <2>2. PICK pin : pin = streams[i].target
    OBVIOUS
  <2>3. SinkNamed(streams[i].target)' = SinkNamed(pin)
    BY <1>1, <1>3, <2>1, <2>2, SinkShown
  <2>4. MemberRow(i)' = [cubic |-> LinearToCubic(streams[i].volume), muted |-> streams[i].muted,
                         tombstoned |-> i \in tombstoned, target |-> SinkNamed(pin)]
    BY <1>2, <2>1, <2>3, Zenon DEF MemberRow
  <2> QED
    BY <2>2, <2>4, Zenon DEF MemberRow
<1>6. ASSUME NEW i \in Rows \ AppRows
      PROVE  DeviceRow(i)' = DeviceRow(i)
  BY DEF DeviceRow, Members
<1> QED
  BY <1>4, <1>5, <1>6 DEF Elsewhere

LEMMA EditSameRows ==
  ASSUME RowTypes, NEW new, NEW commands, SoundEdit(new, commands), Edit(new, commands)
  PROVE  SameRows
<1>1. \A i \in DOMAIN new : i \in Id /\ streams[i] \in Stream
  BY RowsAreStreams DEF SoundEdit
<1> QED
  BY <1>1 DEF SoundEdit, Edit, SameRows

\* What a gesture on the rows of a column leaves as it was.
LEMMA ColumnEdited ==
  ASSUME RowTypes, NEW column \in Columns, UNCHANGED viewVars, NEW new, NEW commands,
         DOMAIN new = Members(column), SoundEdit(new, commands), Edit(new, commands)
  PROVE  /\ Elsewhere(column) /\ SameRows
         /\ \A i \in Members(column) : streams'[i] = new[i]
         /\ Expanded(column)' = Expanded(column)
<1>1. SameRows
  BY EditSameRows
<1>2. forms' = forms /\ expanded_groups' = expanded_groups
  BY DEF viewVars
<1>3. \A other : Expanded(other)' = Expanded(other)
  <2>1. \A other : Members(other)' = Members(other)
    BY <1>1, SameColumns
  <2> QED
    BY <1>2, <2>1, Zenon DEF Expanded
<1>4. Members(column) \subseteq Id
  BY MembersAre DEF Id
<1>5. /\ \A i \in Rows \ Members(column) : streams'[i] = streams[i]
      /\ \A i \in Members(column) : streams'[i] = new[i]
  BY <1>4 DEF Edit, Rows
<1>6. Elsewhere(column)
  BY <1>1, <1>2, <1>3, <1>5, ElsewhereKeeps
<1> QED
  BY <1>1, <1>3, <1>5, <1>6

\* The next row of a column whose streams keep their levels.
LEMMA GroupRowEdited ==
  ASSUME RowTypes, SameRows, NEW column \in Columns, NEW muted, NEW target,
         \A i \in Members(column) : streams'[i].volume = streams[i].volume,
         Expanded(column)' = Expanded(column),
         AllMuted(column)' = muted, SinkNamed(Pinned(column))' = target
  PROVE  /\ GroupRow(column) = GroupRowWith(column, AllMuted(column), Expanded(column),
                                            SinkNamed(Pinned(column)))
         /\ GroupRow(column)' = GroupRowWith(column, muted, Expanded(column), target)
<1>1. Members(column)' = Members(column) /\ tombstoned' = tombstoned
  BY SameColumns DEF SameRows
<1>2. PICK expanded : expanded = Expanded(column)
  OBVIOUS
<1>3. Expanded(column)' = expanded
  BY <1>2
<1> QED
  BY <1>1, <1>2, <1>3, GroupRowNext

\* The whole column is muted, or is not any more.
LEMMA MuteShows ==
  ASSUME RowTypes, NEW column \in Columns, UNCHANGED viewVars,
         GroupMuteToggled(Min(Members(column)))
  PROVE  /\ Elsewhere(column)
         /\ GroupRow(column)' = [GroupRow(column) EXCEPT !.muted = ~@]
<1> DEFINE rows     == Members(column)
           new(m)   == [i \in rows |-> [streams[i] EXCEPT !.muted = m]]
           told(m)  == [i \in rows |-> MuteCommands(m, streams[i].volume)]
<1>1. PICK mute : mute = (\E i \in rows : ~streams[i].muted)
  OBVIOUS
<1>2. mute \in BOOLEAN /\ (mute <=> \E i \in rows : ~streams[i].muted)
  BY <1>1
<1>3. Edit(new(mute), told(mute))
  BY <1>1, MembersAre DEF GroupMuteToggled, MuteAs
<1>4. rows \subseteq Rows /\ rows # {} /\ \A i \in rows : streams[i] \in Stream
  BY MembersAre, RowsAreStreams DEF AppRows
<1>5. SoundEdit(new(mute), told(mute))
  BY <1>2, <1>4, MuteIsSound
<1>6. /\ Elsewhere(column) /\ SameRows
      /\ \A i \in rows : streams'[i] = [streams[i] EXCEPT !.muted = mute]
      /\ Expanded(column)' = Expanded(column)
  BY <1>3, <1>5, ColumnEdited
<1>7. \A i \in rows : /\ streams'[i].muted = mute /\ streams'[i].volume = streams[i].volume
                      /\ streams'[i].target = streams[i].target
  BY <1>4, <1>6 DEF Stream
<1>8. Members(column)' = Members(column)
  BY <1>6, SameColumns
<1>9. AllMuted(column)' = mute
  <2>1. AllMuted(column)' <=> \A i \in rows : streams'[i].muted
    BY <1>8 DEF AllMuted
  <2>2. AllMuted(column)' <=> mute
    BY <1>4, <1>7, <2>1
  <2>3. AllMuted(column)' \in BOOLEAN
    BY DEF AllMuted
  <2> QED
    BY <1>2, <2>2, <2>3
<1>10. mute = ~AllMuted(column)
  BY <1>2, Zenon DEF AllMuted
<1>11. SinkNamed(Pinned(column))' = SinkNamed(Pinned(column))
  <2>1. PICK pin : pin = Pinned(column)
    OBVIOUS
  <2>2. Pinned(column)' = pin
    BY <1>7, <1>8, <2>1, PinKeeps
  <2>3. /\ Devices("sink")' = Devices("sink") /\ forms' = forms
        /\ \A i \in Devices("sink") : streams'[i] = streams[i]
    BY <1>3, <1>6, SameColumns, SinksAreNoApps DEF Edit, Devices, Members, Rows, viewVars
  <2> QED
    BY <2>1, <2>2, <2>3, SinkShown
<1> HIDE DEF rows, new, told
<1>12. PICK target : target = SinkNamed(Pinned(column))
  OBVIOUS
<1>13. /\ GroupRow(column) = GroupRowWith(column, AllMuted(column), Expanded(column), target)
       /\ GroupRow(column)' = GroupRowWith(column, mute, Expanded(column), target)
  <2>1. SinkNamed(Pinned(column))' = target
    BY <1>11, <1>12
  <2> QED
    BY <1>6, <1>7, <1>9, <1>12, <2>1, GroupRowEdited DEF rows
<1>14. PICK m, e : m = AllMuted(column) /\ e = Expanded(column)
  OBVIOUS
<1>15. /\ GroupRowWith(column, m, e, target).muted = m
       /\ [GroupRowWith(column, m, e, target) EXCEPT !.muted = mute]
            = GroupRowWith(column, mute, e, target)
  BY OneField
<1>16. /\ GroupRow(column).muted = AllMuted(column)
       /\ GroupRow(column)' = [GroupRow(column) EXCEPT !.muted = mute]
  BY <1>13, <1>14, <1>15
<1> QED
  BY <1>6, <1>10, <1>16, Zenon

\* A sink alone with its name is what a pin by that name shows.
LEMMA AloneIsNamed ==
  ASSUME NEW sink \in Devices("sink"), streams[sink].key # None,
         \A other \in Devices("sink") \ {sink} : streams[other].key # streams[sink].key
  PROVE  SinkNamed(streams[sink].key) = sink
<1> DEFINE named == {i \in Devices("sink") : streams[i].key = streams[sink].key}
<1>1. named = {sink}
  OBVIOUS
<1>2. SinkNamed(streams[sink].key)
        = CHOOSE i \in named : \A j \in named \ {i} : DeviceBefore(j, i)
  BY <1>1 DEF SinkNamed
<1>3. \E i \in named : \A j \in named \ {i} : DeviceBefore(j, i)
  BY <1>1
<1>4. SinkNamed(streams[sink].key) \in named
  BY <1>2, <1>3
<1> QED
  BY <1>1, <1>4

\* The streams of the column are all pinned to the sink.
LEMMA PinShows ==
  ASSUME RowTypes, NEW column \in Columns, NEW sink \in Devices("sink"),
         streams[sink].key # None,
         \A other \in Devices("sink") \ {sink} : streams[other].key # streams[sink].key,
         UNCHANGED viewVars, GroupSetTarget(Min(Members(column)), streams[sink].key)
  PROVE  /\ Elsewhere(column)
         /\ GroupRow(column)' = [GroupRow(column) EXCEPT !.target = sink]
<1> DEFINE rows == Members(column)
           new(k)  == [i \in rows |-> [streams[i] EXCEPT !.target = k]]
           told(k) == [i \in rows |-> <<SetStreamTarget(k)>>]
<1>1. PICK key : key = streams[sink].key
  OBVIOUS
<1>2. key \in Key
  BY <1>1, RowsAreStreams DEF Devices, Stream
<1>3. Edit(new(key), told(key))
  BY <1>1, MembersAre DEF GroupSetTarget, Pin
<1>4. rows \subseteq Rows /\ rows # {} /\ \A i \in rows : streams[i] \in Stream
  BY MembersAre, RowsAreStreams DEF AppRows
<1>5. SoundEdit(new(key), told(key))
  BY <1>2, <1>4, PinIsSound
<1>6. /\ Elsewhere(column) /\ SameRows
      /\ \A i \in rows : streams'[i] = [streams[i] EXCEPT !.target = key]
      /\ Expanded(column)' = Expanded(column)
  BY <1>3, <1>5, ColumnEdited
<1>7. \A i \in rows : /\ streams'[i].muted = streams[i].muted
                      /\ streams'[i].volume = streams[i].volume
                      /\ streams'[i].target = key
  BY <1>4, <1>6 DEF Stream
<1>8. Members(column)' = Members(column)
  BY <1>6, SameColumns
<1>9. AllMuted(column)' = AllMuted(column)
  BY <1>7, <1>8, Zenon DEF AllMuted
<1>10. Pinned(column)' = key
  <2>1. {streams'[i].target : i \in Members(column)'} = {key}
    BY <1>4, <1>7, <1>8
  <2>2. Cardinality({key}) = 1
    BY FS_Singleton
  <2> QED
    BY <2>1, <2>2 DEF Pinned
<1>11. SinkNamed(Pinned(column))' = sink
  <2>1. /\ Devices("sink")' = Devices("sink") /\ forms' = forms
        /\ \A i \in Devices("sink") : streams'[i] = streams[i]
    BY <1>3, <1>6, SameColumns, SinksAreNoApps DEF Edit, Devices, Members, Rows, viewVars
  <2>2. SinkNamed(key) = sink
    BY <1>1, AloneIsNamed
  <2> QED
    BY <1>10, <2>1, <2>2, SinkShown
<1>12. PICK m, e, g :
         m = AllMuted(column) /\ e = Expanded(column) /\ g = SinkNamed(Pinned(column))
  OBVIOUS
<1>13. /\ GroupRow(column) = GroupRowWith(column, m, e, g)
       /\ GroupRow(column)' = GroupRowWith(column, m, e, sink)
  <2>1. AllMuted(column)' = m
    BY <1>9, <1>12
  <2> QED
    BY <1>6, <1>7, <1>11, <1>12, <2>1, GroupRowEdited
<1> HIDE DEF rows, new, told
<1>14. [GroupRowWith(column, m, e, g) EXCEPT !.target = sink] = GroupRowWith(column, m, e, sink)
  BY OneField
<1>15. GroupRow(column)' = [GroupRow(column) EXCEPT !.target = sink]
  BY <1>13, <1>14
<1> QED
  BY <1>6, <1>15

\* The column unfolds or folds, and its rows are those its peaks feed.
LEMMA FoldShows ==
  ASSUME RowTypes, NEW column \in Columns, GroupToggleExpanded(column)
  PROVE  /\ Elsewhere(column)
         /\ GroupRow(column)' =
              [GroupRow(column) EXCEPT !.expanded = Cardinality(Members(column)) > 1 /\ ~@]
         /\ RowsOf(column)' = UNION {MeterRoute(i)' : i \in Members(column)}
<1> DEFINE size == Cardinality(Members(column))
<1>1. /\ streams' = streams /\ tombstoned' = tombstoned /\ forms' = forms
      /\ expanded_groups' = IF size <= 1 THEN expanded_groups \ {column}
                            ELSE SymDiff(expanded_groups, {column})
      /\ UNCHANGED rowVars
  BY DEF GroupToggleExpanded, rowVars
<1>2. SameRows
  BY <1>1 DEF SameRows, rowVars
<1>3. /\ Members(column)' = Members(column) /\ Devices("sink")' = Devices("sink")
      /\ AppRows' = AppRows
      /\ \A other : Members(other)' = Members(other)
      /\ \A i \in AppRows : ColumnOf(i)' = ColumnOf(i)
  BY <1>2, SameColumns
<1>4. size \in Nat
  BY MembersCount
<1>5. \A other \in Columns \ {column} : Expanded(other)' = Expanded(other)
  <2>1. \A other \in Columns \ {column} : other \in expanded_groups' <=> other \in expanded_groups
    BY <1>1 DEF SymDiff
  <2> QED
    BY <1>3, <2>1, Zenon DEF Expanded
<1>6. Elsewhere(column)
  BY <1>1, <1>2, <1>5, ElsewhereKeeps
<1>7. Expanded(column)' <=> size > 1 /\ ~Expanded(column)
  BY <1>1, <1>3, <1>4 DEF Expanded, SymDiff
<1>8. AllMuted(column)' = AllMuted(column) /\ Pinned(column)' = Pinned(column)
  BY <1>1, <1>3, PinKeeps, Zenon DEF AllMuted
<1>9. SinkNamed(Pinned(column))' = SinkNamed(Pinned(column))
  <2>1. PICK pin : pin = Pinned(column)
    OBVIOUS
  <2>2. Pinned(column)' = pin
    BY <1>8, <2>1
  <2> QED
    BY <1>1, <1>3, <2>1, <2>2, SinkShown
<1>10. PICK m, e, f, g : /\ m = AllMuted(column) /\ g = SinkNamed(Pinned(column))
                         /\ e = Expanded(column) /\ f = (size > 1 /\ ~Expanded(column))
  OBVIOUS
<1>11. Expanded(column)' = f
  BY <1>7, <1>10, Zenon DEF Expanded
<1>12. /\ GroupRow(column) = GroupRowWith(column, m, e, g)
       /\ GroupRow(column)' = GroupRowWith(column, m, f, g)
  <2>1. AllMuted(column)' = m /\ SinkNamed(Pinned(column))' = g
    BY <1>8, <1>9, <1>10
  <2> QED
    BY <1>1, <1>3, <1>10, <1>11, <2>1, GroupRowNext
<1>13. /\ GroupRowWith(column, m, e, g).expanded = e
       /\ [GroupRowWith(column, m, e, g) EXCEPT !.expanded = f] = GroupRowWith(column, m, f, g)
  BY OneField
<1>14. GroupRow(column)' = [GroupRow(column) EXCEPT !.expanded = size > 1 /\ ~@]
  <2> HIDE DEF size
  <2> QED
    BY <1>10, <1>12, <1>13, Zenon
<1>15. RowsOf(column)' = UNION {MeterRoute(i)' : i \in Members(column)}
  <2>1. \A i \in Members(column) : i \in AppRows /\ ColumnOf(i) = column /\ streams[i].kind = "app"
    BY DEF Members, AppRows
  <2>2. \A i \in Members(column) :
          MeterRoute(i)' = {<<"group", column>>} \cup (IF f THEN {<<"member", i>>} ELSE {})
    BY <1>1, <1>3, <1>11, <2>1 DEF MeterRoute
  <2>3. RowsOf(column)' = {<<"group", column>>}
                            \cup (IF f THEN {<<"member", i>> : i \in Members(column)} ELSE {})
    BY <1>3, <1>11 DEF RowsOf
  <2>4. Members(column) # {}
    BY MembersAre
  <2> QED
    BY <2>2, <2>3, <2>4
<1> QED
  BY <1>6, <1>14, <1>15

\* What a gesture on a column asks for (mute, pin, unfold) is what the column
\* shows next, and nothing else on the strip changes, for any streams, sinks
\* and pins.
THEOREM GesturesHold == ViewSpec => GesturesShow
<1> DEFINE Shows(column) ==
      LET id     == Min(Members(column))
          others == /\ \A other \in Columns \ {column} : GroupRow(other)' = GroupRow(other)
                    /\ \A i \in AppRows \ Members(column) : MemberRow(i)' = MemberRow(i)
                    /\ \A i \in Rows \ AppRows : DeviceRow(i)' = DeviceRow(i)
      IN  /\ UNCHANGED viewVars /\ GroupMuteToggled(id) =>
               others /\ GroupRow(column)' = [GroupRow(column) EXCEPT !.muted = ~@]
          /\ \A sink \in Devices("sink") :
               /\ streams[sink].key # None
               /\ \A other \in Devices("sink") \ {sink} : streams[other].key # streams[sink].key
               /\ UNCHANGED viewVars
               /\ GroupSetTarget(id, streams[sink].key)
               => others /\ GroupRow(column)' = [GroupRow(column) EXCEPT !.target = sink]
          /\ GroupToggleExpanded(column) =>
               /\ others
               /\ GroupRow(column)' =
                    [GroupRow(column) EXCEPT !.expanded = Cardinality(Members(column)) > 1 /\ ~@]
               /\ RowsOf(column)' = UNION {MeterRoute(i)' : i \in Members(column)}
<1>1. ASSUME RowTypes, NEW column \in Columns
      PROVE  Shows(column)
  <2>1. ASSUME UNCHANGED viewVars, GroupMuteToggled(Min(Members(column)))
        PROVE  /\ Elsewhere(column)
               /\ GroupRow(column)' = [GroupRow(column) EXCEPT !.muted = ~@]
    BY <1>1, <2>1, MuteShows
  <2>2. ASSUME NEW sink \in Devices("sink"), streams[sink].key # None,
               \A other \in Devices("sink") \ {sink} : streams[other].key # streams[sink].key,
               UNCHANGED viewVars, GroupSetTarget(Min(Members(column)), streams[sink].key)
        PROVE  /\ Elsewhere(column)
               /\ GroupRow(column)' = [GroupRow(column) EXCEPT !.target = sink]
    BY <1>1, <2>2, PinShows
  <2>3. ASSUME GroupToggleExpanded(column)
        PROVE  /\ Elsewhere(column)
               /\ GroupRow(column)' =
                    [GroupRow(column) EXCEPT !.expanded = Cardinality(Members(column)) > 1 /\ ~@]
               /\ RowsOf(column)' = UNION {MeterRoute(i)' : i \in Members(column)}
    BY <1>1, <2>3, FoldShows
  <2> QED
    BY <2>1, <2>2, <2>3, Zenon DEF Elsewhere
<1>2. IInv => [\A column \in Columns : Shows(column)]_<<vars, viewVars>>
  BY <1>1 DEF IInv, TypeOK
<1> QED
  BY <1>2, ViewInvariance, PTL DEF GesturesShow

-----------------------------------------------------------------------------
(* Places on the strip. Numbers are minted upwards and no two rows share    *)
(* one, so a column's place is its least number, and no two columns tie.    *)

Place(column) == Min({FirstSeen(i) : i \in Members(column)})

LEMMA MinIs ==
  ASSUME NEW T, T \subseteq Nat, NEW m \in T, \A y \in T : m <= y
  PROVE  Min(T) = m
<1>1. Min(T) \in T /\ Min(T) <= m
  BY MinIsLeast
<1>2. PICK least \in T : least = Min(T)
  BY <1>1
<1>3. least \in Nat /\ m \in Nat /\ least <= m /\ m <= least
  BY <1>1, <1>2
<1> QED
  BY <1>2, <1>3

LEMMA PlaceIs ==
  ASSUME RowTypes, RowOrderSound, NEW column \in Columns
  PROVE  /\ Place(column) \in Nat /\ Place(column) < app_seq
         /\ \E i \in Members(column) : app_order[i] = Place(column)
         /\ \A i \in Members(column) : app_order[i] \in Nat /\ Place(column) <= app_order[i]
<1> DEFINE T == {FirstSeen(i) : i \in Members(column)}
<1>1. \A i \in Members(column) : /\ i \in Id /\ app_order[i] \in Nat
                                 /\ app_order[i] < app_seq /\ FirstSeen(i) = app_order[i]
  BY MembersAre, NoneAssumption DEF FirstSeen, RowOrderSound, RowTypes, Id
<1>2. T \subseteq Nat /\ T # {}
  BY <1>1, MembersAre
<1>3. Min(T) \in T /\ \A y \in T : Min(T) <= y
  BY <1>2, MinIsLeast
<1>4. Place(column) = Min(T)
  BY DEF Place
<1> HIDE DEF T
<1>5. PICK m : m = Min(T)
  OBVIOUS
<1> QED
  BY <1>1, <1>3, <1>4, <1>5 DEF T

LEMMA PlaceNext ==
  ASSUME NEW column, NEW m \in Nat,
         \E i \in Members(column)' : app_order'[i] = m,
         \A i \in Members(column)' : app_order'[i] \in Nat /\ m <= app_order'[i]
  PROVE  Place(column)' = m
<1> DEFINE T == {app_order'[i] : i \in Members(column)'}
<1>1. Min(T) = m
  BY MinIs
<1>2. {IF app_order'[i] = None THEN MaxSeq ELSE app_order'[i] : i \in Members(column)'} = T
  BY NoneAssumption
<1>3. Place(column)' =
        Min({IF app_order'[i] = None THEN MaxSeq ELSE app_order'[i] : i \in Members(column)'})
  BY Zenon DEF Place, FirstSeen
<1> HIDE DEF T
<1> QED
  BY <1>1, <1>2, <1>3

\* A column stands before another because it was seen first.
LEMMA SeenFirst ==
  ASSUME RowTypes, RowOrderSound, NEW a \in Columns, NEW b \in Columns, ColumnBefore(a, b)
  PROVE  Place(a) < Place(b)
<1>1. Place(a) \in Nat /\ Place(b) \in Nat
  BY PlaceIs
<1>2. PICK i \in Members(a) : app_order[i] = Place(a)
  BY PlaceIs
<1>3. PICK j \in Members(b) : app_order[j] = Place(b)
  BY PlaceIs
<1>4. \/ Place(a) < Place(b)
      \/ Place(a) = Place(b) /\ Min(Members(a)) < Min(Members(b))
  BY DEF ColumnBefore, SortKey, Place
<1>5. ASSUME Place(a) = Place(b), Min(Members(a)) < Min(Members(b))
      PROVE  FALSE
  <2>1. i \in Id /\ j \in Id /\ app_order[i] # None
    BY <1>1, <1>2, MembersAre, NoneAssumption DEF Id
  <2>2. i = j
    BY <1>2, <1>3, <1>5, <2>1 DEF RowOrderSound
  <2>3. a = b
    BY <1>2, <1>3, <2>2 DEF Members
  <2>4. Min(Members(a)) \in Nat
    BY MembersAre, IdAssumption
  <2> QED
    BY <1>5, <2>3, <2>4
<1> QED
  BY <1>4, <1>5

LEMMA BeforeNext ==
  ASSUME NEW a, NEW b, Place(a)' < Place(b)'
  PROVE  ColumnBefore(a, b)'
BY DEF ColumnBefore, SortKey, Place

\* What an arrival does to the rows of columns and their numbers.
LEMMA ArriveColumns ==
  ASSUME RowTypes, RowOrderSound, NEW id \in Id, NEW s \in Stream,
         NEW heir \in Ghosts(id, s) \cup {None}, Ghosts(id, s) # {} => heir \in Ghosts(id, s),
         Arrive(id, s, heir)
  PROVE  /\ \A i \in Id : i # id /\ i \notin Ghosts(id, s) =>
              /\ i \in AppRows' <=> i \in AppRows
              /\ i \in AppRows => ColumnOf(i)' = ColumnOf(i)
              /\ app_order'[i] = app_order[i]
         /\ \A i \in Ghosts(id, s) :
              /\ i \in AppRows /\ i \notin AppRows'
              /\ id \in AppRows' /\ ColumnOf(i) = ColumnOf(id)'
         /\ id \in AppRows => app_order'[id] = app_order[id]
         /\ id \notin Rows /\ id \in AppRows' =>
              \/ Ghosts(id, s) = {} /\ app_order'[id] = app_seq
              \/ heir \in Ghosts(id, s) /\ app_order'[id] = app_order[heir]
<1> DEFINE gone == Ghosts(id, s)
           new  == Landed(s, heir)
           fresh == s.kind = "app" /\ app_order[id] = None
           mints == fresh /\ Mints(heir)
<1>1. new \in Stream /\ new # Absent /\ new.kind = s.kind /\ new.key = s.key
  BY LandedType, AbsentIsNoStream
<1>2. streams' = [i \in Id |-> IF i = id THEN new
                               ELSE IF i \in gone THEN Absent ELSE streams[i]]
  BY ArriveRows
<1>3. \A g \in gone : /\ g \in AppRows /\ g # id /\ g \in Id
                      /\ s.kind = "app" /\ s.key # None /\ streams[g].key = s.key
  <2> SUFFICES ASSUME NEW g \in gone
               PROVE  /\ g \in AppRows /\ g # id /\ g \in Id
                      /\ s.kind = "app" /\ s.key # None /\ streams[g].key = s.key
    OBVIOUS
  <2>1. g \in Rows /\ g # id /\ s.kind = "app" /\ s.key # None /\ SlotOf(streams[g]) = SlotOf(s)
    BY GhostsType
  <2> QED
    BY <2>1 DEF AppRows, SlotOf, Rows
<1>4. app_order' = [i \in Id |->
                      IF i \in gone THEN None
                      ELSE IF i # id \/ ~fresh THEN app_order[i]
                      ELSE IF mints THEN app_seq ELSE app_order[heir]]
  BY DEF Arrive
<1> HIDE DEF new, gone
<1>5. streams'[id] = new /\ (id \in AppRows' <=> s.kind = "app")
  BY <1>1, <1>2 DEF AppRows, Rows
<1>6. \A i \in Id : i # id /\ i \notin gone =>
        /\ i \in AppRows' <=> i \in AppRows
        /\ i \in AppRows => ColumnOf(i)' = ColumnOf(i)
        /\ app_order'[i] = app_order[i]
  BY <1>2, <1>4 DEF AppRows, Rows, ColumnOf
<1>7. \A i \in gone : /\ i \in AppRows /\ i \notin AppRows'
                      /\ id \in AppRows' /\ ColumnOf(i) = ColumnOf(id)'
  BY <1>1, <1>2, <1>3, <1>5 DEF AppRows, Rows, ColumnOf
<1>8. id \notin gone
  BY <1>3
<1>9. id \in AppRows => app_order'[id] = app_order[id]
  BY <1>4, <1>8 DEF RowOrderSound
<1>10. ASSUME id \notin Rows, id \in AppRows'
       PROVE  \/ gone = {} /\ app_order'[id] = app_seq
              \/ heir \in gone /\ app_order'[id] = app_order[heir]
  <2>1. fresh
    BY <1>5, <1>10 DEF RowOrderSound, Rows
  <2>2. app_order'[id] = IF mints THEN app_seq ELSE app_order[heir]
    BY <1>4, <1>8, <2>1
  <2>3. CASE gone = {}
    BY <2>1, <2>2, <2>3 DEF gone, Mints
  <2>4. CASE heir \in gone
    <3>1. heir \in Id /\ app_order[heir] # None
      BY <1>3, <2>4 DEF RowOrderSound
    <3>2. ~Mints(heir)
      BY <3>1, IdAssumption, NoneAssumption DEF Mints, Id
    <3> QED
      BY <2>2, <2>4, <3>2
  <2> QED
    BY <2>3, <2>4 DEF gone
<1> QED
  BY <1>6, <1>7, <1>9, <1>10 DEF gone

LEMMA OneMember ==
  ASSUME NEW S, S \subseteq Id, Cardinality(S) = 1
  PROVE  \E i : S = {i}
<1>1. IsFiniteSet(Id)
  BY IdAssumption, FS_Interval DEF Id
<1>2. IsFiniteSet(S)
  BY <1>1, FS_Subset
<1> QED
  BY <1>2, FS_Singleton

LEMMA MembersAreIds ==
  ASSUME NEW column
  PROVE  Members(column) \subseteq Id /\ Members(column)' \subseteq Id
BY DEF Members, AppRows, Rows

\* A column that keeps its rows keeps its place when a stream arrives.
LEMMA ArriveKeepsPlace ==
  ASSUME RowTypes, RowOrderSound, NEW id \in Id, NEW s \in Stream,
         NEW heir \in Ghosts(id, s) \cup {None}, Ghosts(id, s) # {} => heir \in Ghosts(id, s),
         Arrive(id, s, heir), NEW column \in Columns \cap Columns', Keeps(column)
  PROVE  Place(column)' = Place(column)
<1> DEFINE was  == Members(column)
           is   == Members(column)'
           gone == Ghosts(id, s)
<1>1. /\ \A i \in Id : i # id /\ i \notin gone =>
           /\ i \in AppRows' <=> i \in AppRows
           /\ i \in AppRows => ColumnOf(i)' = ColumnOf(i)
           /\ app_order'[i] = app_order[i]
      /\ \A i \in gone : /\ i \in AppRows /\ i \notin AppRows'
                         /\ id \in AppRows' /\ ColumnOf(i) = ColumnOf(id)'
      /\ id \in AppRows => app_order'[id] = app_order[id]
      /\ id \notin Rows /\ id \in AppRows' =>
           \/ gone = {} /\ app_order'[id] = app_seq
           \/ heir \in gone /\ app_order'[id] = app_order[heir]
  BY ArriveColumns
<1>2. /\ was \subseteq is \/ (Cardinality(was) = 1 /\ Cardinality(is) = 1)
      /\ (is \ was) \cap Rows = {}
  BY DEF Keeps
<1>3. /\ \A i : i \in was <=> i \in AppRows /\ ColumnOf(i) = column
      /\ \A i : i \in is <=> i \in AppRows' /\ ColumnOf(i)' = column
      /\ was \subseteq Id /\ is \subseteq Id
  BY MembersAreIds DEF Members
<1>4. PICK m : m = Place(column)
  OBVIOUS
<1>5. /\ m \in Nat /\ m < app_seq /\ app_seq \in Nat
      /\ \E i \in was : app_order[i] = m
      /\ \A i \in was : app_order[i] \in Nat /\ m <= app_order[i]
  BY <1>4, PlaceIs DEF RowTypes
<1> HIDE DEF was, is, gone
<1>6. \A i \in is : i # id => i \in was /\ app_order'[i] = app_order[i]
  BY <1>1, <1>3
<1>7. CASE was \subseteq is
  <2>1. \A i \in was : app_order'[i] = app_order[i]
    BY <1>1, <1>3, <1>6, <1>7
  <2>2. ASSUME id \in is, id \notin was
        PROVE  app_order'[id] = app_seq
    <3>1. id \notin Rows /\ id \in AppRows'
      BY <1>2, <1>3, <2>2
    <3>2. heir \notin gone
      BY <1>1, <1>3, <1>7, <2>2
    <3> QED
      BY <1>1, <3>1, <3>2
  <2>3. \A i \in is : app_order'[i] \in Nat /\ m <= app_order'[i]
    <3>1. \A i \in is : i \in was \/ (i = id /\ id \notin was)
      BY <1>6
    <3> QED
      BY <1>5, <2>1, <2>2, <3>1
  <2>4. \E i \in is : app_order'[i] = m
    BY <1>5, <1>7, <2>1
  <2>5. Place(column)' = m
    BY <1>5, <2>3, <2>4, PlaceNext DEF is
  <2> QED
    BY <1>4, <2>5
<1>8. CASE ~(was \subseteq is)
  <2>1. PICK x : was = {x}
    BY <1>2, <1>3, <1>8, OneMember
  <2>2. PICK y : is = {y}
    BY <1>2, <1>3, <1>8, OneMember
  <2>3. y = id /\ id \notin was
    BY <1>6, <1>8, <2>1, <2>2
  <2>4. id \notin Rows /\ id \in AppRows' /\ ColumnOf(id)' = column
    BY <1>2, <1>3, <2>2, <2>3
  <2>5. x \in gone
    BY <1>1, <1>3, <1>8, <2>1, <2>3
  <2>6. heir \in gone /\ app_order'[id] = app_order[heir]
    BY <1>1, <2>4, <2>5
  <2>7. heir = x
    BY <1>1, <1>3, <2>1, <2>4, <2>6
  <2>8. app_order'[id] = m
    BY <1>5, <2>1, <2>6, <2>7
  <2>9. Place(column)' = m
    BY <1>5, <2>2, <2>3, <2>8, PlaceNext DEF is
  <2> QED
    BY <1>4, <2>9
<1> QED
  BY <1>7, <1>8

Kept(column) == Keeps(column) => Place(column)' = Place(column)

Newcomer(column) == Members(column)' \cap Rows = {} => Place(column)' = app_seq

\* Who keeps its rows keeps its place, and who is new comes in last.
PlacesStay ==
  /\ \A column \in Columns \cap Columns' : Kept(column)
  /\ \A column \in Columns' \ Columns : Newcomer(column)

LEMMA ArrivalPlaces ==
  ASSUME RowTypes, RowOrderSound, NEW id \in Id, NEW s \in Stream, StreamEvent(id, s)
  PROVE  PlacesStay
<1>1. PICK heir \in Ghosts(id, s) \cup {None} :
        Arrive(id, s, heir) /\ (Ghosts(id, s) # {} => heir \in Ghosts(id, s))
  BY DEF StreamEvent
<1>2. \A column \in Columns \cap Columns' : Kept(column)
  BY <1>1, ArriveKeepsPlace DEF Kept
<1>3. ASSUME NEW column \in Columns' \ Columns, Members(column)' \cap Rows = {}
      PROVE  Place(column)' = app_seq
  <2>1. /\ \A i \in Id : i # id /\ i \notin Ghosts(id, s) => (i \in AppRows' <=> i \in AppRows)
        /\ \A i \in Ghosts(id, s) : /\ i \in AppRows /\ i \notin AppRows'
                                    /\ id \in AppRows' /\ ColumnOf(i) = ColumnOf(id)'
        /\ id \notin Rows /\ id \in AppRows' =>
             \/ Ghosts(id, s) = {} /\ app_order'[id] = app_seq
             \/ heir \in Ghosts(id, s) /\ app_order'[id] = app_order[heir]
    BY <1>1, ArriveColumns
  <2>2. \A i : i \in Members(column)' <=> i \in AppRows' /\ ColumnOf(i)' = column
    BY DEF Members
  <2>3. PICK k \in AppRows' : column = ColumnOf(k)'
    BY <1>3 DEF Columns
  <2>4. k \in Members(column)'
    BY <2>2, <2>3
  <2>5. \A i \in Members(column)' : i \in Id /\ i \notin Rows /\ i \notin AppRows
    BY <1>3, MembersAreIds DEF AppRows
  <2>6. \A i \in Members(column)' : i = id
    BY <2>1, <2>2, <2>5
  <2>7. id \in Members(column)' /\ id \notin Rows /\ id \in AppRows' /\ ColumnOf(id)' = column
    BY <2>2, <2>4, <2>5, <2>6
  <2>8. Ghosts(id, s) = {}
    BY <1>3, <2>1, <2>7 DEF Columns
  <2>9. app_order'[id] = app_seq /\ app_seq \in Nat
    BY <2>1, <2>7, <2>8 DEF RowTypes
  <2> QED
    BY <2>6, <2>7, <2>9, PlaceNext
<1> QED
  BY <1>2, <1>3 DEF PlacesStay, Newcomer

\* A row that goes takes nobody's place.
LEMMA RemovalPlaces ==
  ASSUME RowTypes, RowOrderSound, NEW id \in Id, StreamRemoved(id)
  PROVE  PlacesStay
<1>1. /\ \A i \in AppRows' : i \in AppRows /\ ColumnOf(i)' = ColumnOf(i)
      /\ \A i \in AppRows' : app_order'[i] = app_order[i]
  <2>1. CASE Outlives(id)
    BY <2>1 DEF StreamRemoved, AppRows, Rows, ColumnOf
  <2>2. CASE ~Outlives(id)
    BY <2>2 DEF StreamRemoved, AppRows, Rows, ColumnOf, RowTypes
  <2> QED
    BY <2>1, <2>2
<1>2. Columns' \ Columns = {}
  BY <1>1 DEF Columns
<1>3. ASSUME NEW column \in Columns \cap Columns', Keeps(column)
      PROVE  Place(column)' = Place(column)
  <2>1. Members(column)' \subseteq Members(column)
    BY <1>1 DEF Members
  <2>2. Members(column) \subseteq Id /\ Members(column)' \subseteq Id
    BY MembersAreIds
  <2>3. Members(column)' = Members(column)
    <3>1. CASE Members(column) \subseteq Members(column)'
      BY <2>1, <3>1
    <3>2. CASE Cardinality(Members(column)) = 1 /\ Cardinality(Members(column)') = 1
      <4>1. PICK x : Members(column) = {x}
        BY <2>2, <3>2, OneMember
      <4>2. PICK y : Members(column)' = {y}
        BY <2>2, <3>2, OneMember
      <4> QED
        BY <2>1, <4>1, <4>2
    <3> QED
      BY <1>3, <3>1, <3>2 DEF Keeps
  <2>4. PICK m : m = Place(column)
    OBVIOUS
  <2>5. /\ m \in Nat
        /\ \E i \in Members(column) : app_order[i] = m
        /\ \A i \in Members(column) : app_order[i] \in Nat /\ m <= app_order[i]
    BY <2>4, PlaceIs
  <2>6. \A i \in Members(column)' : app_order'[i] = app_order[i]
    BY <1>1 DEF Members
  <2>7. Place(column)' = m
    BY <2>3, <2>5, <2>6, PlaceNext
  <2> QED
    BY <2>4, <2>7
<1> QED
  BY <1>2, <1>3 DEF PlacesStay, Kept

\* While no row changes what it is, no column moves.
LEMMA SamePlaces ==
  ASSUME RowTypes, RowOrderSound, SameRows
  PROVE  PlacesStay
<1>1. Columns' = Columns /\ \A column : Members(column)' = Members(column)
  BY SameColumns
<1>2. app_order' = app_order
  BY DEF SameRows
<1>3. ASSUME NEW column \in Columns
      PROVE  Place(column)' = Place(column)
  <2>1. PICK m : m = Place(column)
    OBVIOUS
  <2>2. /\ m \in Nat
        /\ \E i \in Members(column) : app_order[i] = m
        /\ \A i \in Members(column) : app_order[i] \in Nat /\ m <= app_order[i]
    BY <2>1, PlaceIs
  <2>3. Place(column)' = m
    BY <1>1, <1>2, <2>2, PlaceNext
  <2> QED
    BY <2>1, <2>3
<1> QED
  BY <1>1, <1>3 DEF PlacesStay, Kept

LEMMA RowStepPlaces ==
  ASSUME RowTypes, RowOrderSound, RowStep
  PROVE  PlacesStay
<1>1. ASSUME Gesture
      PROVE  SameRows
  BY <1>1, EditSameRows DEF Gesture
<1>2. ASSUME NEW id, MakeDefault(id)
      PROVE  SameRows
  BY <1>2 DEF MakeDefault, SameRows, rowVars
<1>3. ASSUME NEW section, ToggleSection(section)
      PROVE  SameRows
  BY <1>3 DEF ToggleSection, SameRows, rowVars
<1> QED
  BY <1>1, <1>2, <1>3, GesturesAreSound, SamePlaces

LEMMA ProfileStepPlaces ==
  ASSUME TypeOK, RowOrderSound, Has(profiles, active), ProfileStep
  PROVE  PlacesStay
<1>1. RowTypes
  BY DEF TypeOK
<1>2. ASSUME NEW name \in Name, ApplyProfile(name)
      PROVE  SameRows
  <2> DEFINE p == Find(Switched(name), name)
             entry(i) == p.entries[SlotOf(streams[i])]
  <2>1. p \in Profile
    BY <1>2, SwitchedType DEF ApplyProfile
  <2>2. /\ streams' = [i \in Id |-> IF Takes(i, p) THEN Settle(streams[i], entry(i))
                                    ELSE streams[i]]
        /\ UNCHANGED <<tombstoned, app_order, app_seq>>
    BY <1>2, ApplyRows
  <2> HIDE DEF p
  <2>3. \A i \in Id : Takes(i, p) =>
          /\ streams[i] \in Stream
          /\ Settle(streams[i], entry(i)) \in Stream
          /\ Settle(streams[i], entry(i)).kind = streams[i].kind
          /\ Settle(streams[i], entry(i)).key = streams[i].key
          /\ Settle(streams[i], entry(i)).ephemeral = streams[i].ephemeral
    BY <1>1, <2>1, TakenSettings, SettleType
  <2> QED
    BY <2>2, <2>3 DEF SameRows
<1>3. ASSUME UNCHANGED rowVars
      PROVE  SameRows
  BY <1>3 DEF SameRows, rowVars
<1>4. (\E name \in Name : ApplyProfile(name)) \/ UNCHANGED rowVars
  BY DEF ProfileStep, ReorderProfile, OpenCreate, OpenRename, OpenDelete, ModalNameChanged,
         ModalDismiss, Dialog, ConfirmCreate, ConfirmRename, ConfirmDelete
<1> QED
  BY <1>1, <1>2, <1>3, <1>4, SamePlaces

LEMMA ViewStepPlaces ==
  ASSUME IInv, [ViewNext]_<<vars, viewVars>>
  PROVE  PlacesStay
<1>1. TypeOK /\ RowTypes /\ RowOrderSound /\ Has(profiles, active)
  BY ProfileInvGives DEF IInv, TypeOK, RowInv
<1>2. ASSUME NEW r \in Report, NEW form, EventShown(r.id, r.stream, form)
      PROVE  PlacesStay
  <2>1. r.id \in Id /\ r.stream \in Stream
    BY ReportAssumption
  <2> QED
    BY <1>1, <1>2, <2>1, ArrivalPlaces DEF EventShown
<1>3. ASSUME NEW id \in Id, RemovalShown(id)
      PROVE  PlacesStay
  BY <1>1, <1>3, RemovalPlaces DEF RemovalShown
<1>4. ASSUME UNCHANGED rowVars
      PROVE  PlacesStay
  <2>1. SameRows
    BY <1>4 DEF SameRows, rowVars
  <2> QED
    BY <1>1, <2>1, SamePlaces
<1>5. ASSUME NEW column, GroupToggleExpanded(column)
      PROVE  UNCHANGED rowVars
  BY <1>5 DEF GroupToggleExpanded
<1>6. CASE RowStep
  BY <1>1, <1>6, RowStepPlaces
<1>7. CASE ProfileStep
  BY <1>1, <1>7, ProfileStepPlaces
<1>8. CASE AutoSaveTick \/ \E g \in Geometry : GeometryChanged(g)
  BY <1>4, <1>8 DEF AutoSaveTick, GeometryChanged
<1>9. CASE Restart
  <2>1. Columns' = {}
    BY <1>9 DEF Restart, Columns, AppRows, Rows
  <2> QED
    BY <2>1 DEF PlacesStay
<1>10. CASE UNCHANGED <<vars, viewVars>>
  BY <1>4, <1>10 DEF vars, rowVars
<1> QED
  BY <1>2, <1>3, <1>4, <1>5, <1>6, <1>7, <1>8, <1>9, <1>10 DEF ViewNext

\* For any ids, apps and reports: two columns that keep their rows keep their
\* order, and a new one comes in at their right.
THEOREM StripHolds == ViewSpec => StripStaysPut
<1> DEFINE Puts ==
      /\ \A a, b \in Columns \cap Columns' :
           Keeps(a) /\ Keeps(b) /\ ColumnBefore(a, b) => ColumnBefore(a, b)'
      /\ \A a \in Columns \cap Columns', b \in Columns' \ Columns :
           Keeps(a) /\ Members(b)' \cap Rows = {} => ColumnBefore(a, b)'
<1>1. ASSUME IInv, [ViewNext]_<<vars, viewVars>>
      PROVE  Puts
  <2>1. RowTypes /\ RowOrderSound
    BY <1>1 DEF IInv, TypeOK, RowInv
  <2>2. PlacesStay
    BY <1>1, ViewStepPlaces
  <2>3. ASSUME NEW a \in Columns \cap Columns', NEW b \in Columns \cap Columns',
               Keeps(a), Keeps(b), ColumnBefore(a, b)
        PROVE  ColumnBefore(a, b)'
    <3>1. Place(a) < Place(b)
      BY <2>1, <2>3, SeenFirst
    <3>2. Place(a)' < Place(b)'
      BY <2>2, <2>3, <3>1 DEF PlacesStay, Kept
    <3> QED
      BY <3>2, BeforeNext
  <2>4. ASSUME NEW a \in Columns \cap Columns', NEW b \in Columns' \ Columns,
               Keeps(a), Members(b)' \cap Rows = {}
        PROVE  ColumnBefore(a, b)'
    <3>1. Place(a) < app_seq
      BY <2>1, PlaceIs
    <3>2. Place(a)' < Place(b)'
      BY <2>2, <2>4, <3>1 DEF PlacesStay, Kept, Newcomer
    <3> QED
      BY <3>2, BeforeNext
  <2> QED
    BY <2>3, <2>4
<1>2. IInv /\ [ViewNext]_<<vars, viewVars>> => [Puts]_<<vars, viewVars>>
  BY <1>1
<1> QED
  BY <1>2, ViewInvariance, PTL DEF ViewSpec, StripStaysPut

=============================================================================
