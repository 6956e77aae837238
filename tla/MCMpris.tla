------------------------------- MODULE MCMpris -------------------------------
(***************************************************************************)
(* Two players, names with and without an instance, and a stream whose     *)
(* parent is a player's process; and, in a scene of its own, the bytes     *)
(* under them: a reply, a change of properties in the other byte order, a  *)
(* message of an unknown kind and one that is out of bounds.               *)
(***************************************************************************)
EXTENDS Mpris, Wire

CONSTANTS a, b, p1, p2, t1, t2, u1, s1

PlayerNames == {<<"fox">>, <<"fox", "i1">>}
Titles == [conn \in {a, b} |-> IF conn = a THEN {t1, t2} ELSE {u1}]
Parents == [s \in {s1} |-> <<p2>>]
Idents == {<<>>, <<"fox">>, <<"mu", "desktop">>}
Pids == [conn \in {a, b} |-> IF conn = a THEN p1 ELSE p2]
Identities == [conn \in {a, b} |-> IF conn = a THEN <<"mu">> ELSE <<>>]

Name(is, v) == <<is, <<<<"s">>, v>>>>
At(v) == <<1, <<<<"o">>, v>>>>
Signed(sig) == <<8, <<<<"g">>, sig>>>>

AnswerTo(n, flag, kind) ==
  [flag |-> flag, kind |-> kind, serial |-> 9, to |-> n, sound |-> TRUE,
   fields |-> <<<<5, <<<<"u">>, n>>>>, Name(7, <<58>>)>>
                \o (IF kind = 3 THEN <<Name(4, <<33>>)>> ELSE <<Signed(<<"s">>)>>),
   signature |-> IF kind = 3 THEN <<>> ELSE <<"s">>,
   body |-> IF kind = 3 THEN <<>> ELSE <<<<48, 49>>>>]

\* An interface, what changed of it, and names: a status, a row of titles and
\* a position.
Changes(flag) ==
  [flag |-> flag, kind |-> 4, serial |-> 300, to |-> 0, sound |-> TRUE,
   fields |-> <<At(<<47>>), Name(2, <<1, 2>>), Name(3, <<>>), <<20, <<<<"y">>, 7>>>>,
                Signed(<<"s", "a", "{", "s", "v", "}", "a", "s">>)>>,
   signature |-> <<"s", "a", "{", "s", "v", "}", "a", "s">>,
   body |-> <<<<1, 2, 3>>,
              <<<<<<5>>, <<<<"v">>, <<<<"a", "s">>, <<<<6>>, <<>>>>>>>>>>,
                <<<<>>, <<<<"(", "y", "x", ")">>, <<3, 260>>>>>>>>,
              <<>>>>]

\* A signal without a body.
Plain(serialno, flag) ==
  [flag |-> flag, kind |-> 4, serial |-> serialno, to |-> 0, sound |-> TRUE,
   fields |-> <<Name(3, <<9>>)>>, signature |-> <<>>, body |-> <<>>]

Strange == [Plain(5, 108) EXCEPT !.kind = 9]

Foreign == [Plain(5, 0) EXCEPT !.sound = FALSE]

Endless ==
  [Plain(5, 66) EXCEPT !.sound = FALSE, !.signature = <<"s">>, !.body = <<[k \in 1 .. 200 |-> 1]>>]

SomeScripts ==
  {<<Plain(1, 66), Changes(66), AnswerTo(1, 108, 2), Strange, Changes(108)>>,
   <<AnswerTo(1, 66, 3), Plain(2, 108), Plain(3, 66), AnswerTo(2, 66, 2), Foreign, Plain(4, 108)>>,
   <<Plain(1, 108), Endless>>, <<>>}

SomeCalls ==
  {[destination |-> <<1>>, path |-> <<47, 1>>, interface |-> <<1, 2, 3, 4, 5, 6>>, member |-> <<7>>,
    args |-> args] : args \in {<<>>, <<<<1, 2, 3>>, <<4>>>>}}

Lines == {<<79, 75, 32, 13, 10>>, <<82, 10>>, <<79, 75, 32, 32, 32, 32, 32, 32, 32, 10>>}

VARIABLE scene

BusInit ==
  /\ scene \in {"players", "wire"} /\ MprisInit /\ WireInit
  /\ scene = "players" => script = <<>> /\ greeting = <<82, 10>>
  /\ scene = "wire" => \A s \in Audio : ident[s] = <<>>

BusNext ==
  /\ \/ scene = "players" /\ MprisNext /\ UNCHANGED wireVars
     \/ scene = "wire" /\ WireNext /\ UNCHANGED mprisVars
  /\ UNCHANGED scene

BusSpec == BusInit /\ [][BusNext]_<<mprisVars, wireVars, scene>>

=============================================================================
