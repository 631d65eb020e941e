---------------------------- MODULE MCRemapTable ----------------------------
(* Instances of RemapTable for TLC.                                        *)
EXTENDS RemapTable, TLC

CONSTANTS c1, c2

\* Two requests of different lengths in front of the last GB.
MCRequest == {[lba |-> 3, sectors |-> 1], [lba |-> 5, sectors |-> 2]}

\* tainted stays TRUE, and what the runs check says nothing of tainted states.
MCUntainted == ~tainted

\* No request fails while the table is loaded, and nobody clears it.
MCQuiet ==
    /\ dev = "loading" => \A c \in Cpu : ~AddActive(c)
    /\ dev = "on" => hdr.magic

MCSymmetry == Permutations(Cpu)
=============================================================================
