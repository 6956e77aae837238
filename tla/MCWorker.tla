------------------------------- MODULE MCWorker -------------------------------
(***************************************************************************)
(* A small server for TLC, in two scenes: what is routed where and how     *)
(* loud, and what things are called and look like.                         *)
(***************************************************************************)
EXTENDS Worker

VARIABLE scene

Obj(kind, name, label, client, device) ==
  [kind |-> kind, name |-> name, label |-> label, client |-> client, device |-> device]

Dac     == Obj("sink", "dac", "DAC", None, None)
Player  == Obj("app", None, "audio-src", None, None)
Owned   == Obj("app", None, "audio-src", "client", None)
Headset == Obj("sink", "bt", "Headset", "client", "card")
Video   == Obj("other", None, "Video", None, None)

Some == {Dac, Player, Owned, Headset, Video}

SceneInit == Init /\ scene \in {"routes", "names"}

RoutesStep ==
  \/ \E i \in Node : \/ \E o \in {Dac, Player} : NodeComes(i, o, "low")
                     \/ NodeGoes(i)
                     \/ LevelMoves(i, "high")
                     \/ \E name \in {"dac", None} : PinMoves(i, name)
                     \/ SetVolume(i, "low")
                     \/ SetStreamTarget(i, "dac")
  \/ MetaComes
  \/ MetaGoes
  \/ \E name \in {"dac", None} : DefaultMoves("sink", name)
  \/ \E name \in Name : SetDefault("sink", name)

NamesStep ==
  \/ \E i \in Node : \/ \E o \in {Owned, Headset, Video} : NodeComes(i, o, "low")
                     \/ NodeGoes(i)
  \/ ClientComes("client", "Spotify")
  \/ \E label \in {"Firefox", None} : ClientStirs("client", label)
  \/ ClientGoes("client")
  \/ CardComes("card", EmptyDict, None)
  \/ CardComes("card", [factor |-> "headphones", bluez |-> TRUE], "headset")
  \/ CardStirs("card", "headset")
  \/ CardGoes("card")

SceneNext ==
  /\ \/ scene = "routes" /\ RoutesStep
     \/ scene = "names" /\ NamesStep
     \/ Handle
  /\ UNCHANGED scene

SceneSpec == SceneInit /\ [][SceneNext]_<<vars, scene>>

=============================================================================
