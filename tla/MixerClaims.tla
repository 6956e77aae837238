----------------------------- MODULE MixerClaims -----------------------------
(***************************************************************************)
(* What the comments of src/state.rs say of the reducer and the code does  *)
(* not do. Each claim is stated as its comment states it; the runs on this *)
(* module exhibit a behaviour that breaks it.                              *)
(***************************************************************************)
EXTENDS Mixer

\* "A fresh app stream matching a tombstoned row evicts the ghost": a stream
\* that was live already is not fresh and keeps what the server says of it.
OnlyFreshStreamsInherit ==
  [][\A r \in Report :
       /\ StreamEvent(r.id, r.stream)
       /\ r.id \in AppRows \ tombstoned
       /\ SlotOf(r.stream) = SlotOf(streams[r.id])
       => streams'[r.id] = r.stream]_vars

-----------------------------------------------------------------------------
(* The part of Next the claims are about.                                  *)

ClaimStep ==
  \/ \E id \in Rows : MuteToggled(id)
  \/ \E section \in Section : ToggleSection(section)
  \/ WorkerStep
  \/ AutoSaveTick
  \/ \E name \in Name : ApplyProfile(name)

ClaimSpec == Init /\ [][ClaimStep]_vars

=============================================================================
