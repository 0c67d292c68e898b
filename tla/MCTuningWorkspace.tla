-------------------------- MODULE MCTuningWorkspace --------------------------
(* Small calibration files in an address space of two pages of four bytes, with
   maps of one and two bytes that lie beside and across one another. *)
EXTENDS TuningWorkspace, Integers, Sequences

Bin(base, bytes) == [format |-> "bin", base |-> base, lines |-> bytes]
Ihex(lines) == [format |-> "ihex", base |-> 0, lines |-> lines]
Srec(lines) == [format |-> "srec", base |-> 0, lines |-> lines]
MCFiles ==
    {Bin(3, <<a, b, c>>) : a \in {0, 3}, b \in {1, 2}, c \in {0, 3}} \cup
    {Bin(6, <<0, 1, 2>>), Ihex(<<Data(3, <<0, 1>>), Upper(1), Data(1, <<3>>), Eof>>),
     Ihex(<<Data(3, <<0, 1>>), Data(4, <<3>>), Eof>>), Ihex(<<Data(3, <<0, 1, 2>>)>>),
     Ihex(<<Segment(1), Data(1, <<0, 1>>), Segment(2), Data(1, <<3>>), Eof>>),
     Srec(<<Data(7, <<2>>), Data(3, <<0, 1>>), Eof>>), Srec(<<Data(4, <<0, 1>>), Data(3, <<3>>)>>)}
Definition(map, address, count, width, big, signedness, factor, offset, minimum, maximum) ==
    [map |-> map, address |-> address, count |-> count, width |-> width, bigEndian |-> big,
     signed |-> signedness, factor |-> factor, offset |-> offset, minimum |-> minimum, maximum |-> maximum]
MCCalibrations ==
    LET a == Definition("a", 3, 2, 1, TRUE, FALSE, 2, 1, 0, 7)
        c == Definition("c", 5, 1, 1, TRUE, FALSE, 1, 0, 0, 3)
    IN  {{a, Definition("b", 4, 1, 2, TRUE, TRUE, 3, 0, -20, 20), c},
         {a, Definition("b", 3, 1, 2, FALSE, TRUE, -1, 2, -20, 20), [c EXCEPT !.address = 6]}}
Edit(map, entered) == [map |-> map, values |-> entered]
MCEditLists ==
    {<<Edit("a", <<x, y>>)>> : x, y \in {1, 4, 6}} \cup {<<Edit("b", <<x>>)>> : x \in {-20, -8, 2, 7}}
    \cup {<<Edit("c", <<2>>), Edit("a", <<7, 1>>)>>, <<Edit("b", <<4>>), Edit("a", <<1, 3>>)>>,
          <<Edit("c", <<0>>), Edit("b", <<3>>)>>, <<Edit("d", <<0>>)>>}
=============================================================================
