---------------------------- MODULE MCSdPrint ----------------------------
(* Instances of SdPrint for TLC: files and tool tables. *)
EXTENDS SdPrint
Move == Line("move")
ForthAndPausing == {<<T(0), Move, T(1), Move, T(0), Move>>,
                    <<Move, T(1), Line("pause"), T(1), Move>>}
TwoTools == {<<T(0), Move, T(1), Move>>}
OneChange == {<<T(1), Move>>}
Straight == {<<1, 2, 3, 4>>}
WithoutIfs == {"plain"}
Both == {"ifs", "plain"}
On == {TRUE}
Off == {FALSE}
OnOff == BOOLEAN
=============================================================================
