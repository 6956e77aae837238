---------------------------- MODULE MCMixerClaims ----------------------------
(***************************************************************************)
(* Instances on which TLC finds the behaviours that break the claims.      *)
(***************************************************************************)
EXTENDS MixerClaims

Reported(i, kind, key, muted) ==
  [id |-> i,
   stream |-> [kind |-> kind, key |-> key, ephemeral |-> FALSE, volume |-> 1,
               muted |-> muted, target |-> None, isDefault |-> FALSE]]

\* Two ids of one app.
TwoOfOne == {Reported(i, "app", "music", FALSE) : i \in Id}

\* A sink that another tool mutes and unmutes.
Pavucontrol == {Reported(0, "sink", "dac", muted) : muted \in BOOLEAN}

=============================================================================
