------------------------------- MODULE ImageMC -------------------------------
(* Two threads, instructions that look like an N and an S line, the one    *)
(* with one operand of three, and room for two instructions and two words. *)
EXTENDS ImageHistory
A(kind, n) == [kind |-> kind, n |-> n]
I(op, dollar) == [kind |-> "inst", opcode |-> op, dst |-> 1, src1 |-> 2,
                  src2 |-> 3, dollar |-> dollar]
MCLines == {[kind |-> "blank"], A("L", 5), A("N", 2), A("T", 0), A("T", 1),
            A("I@", 0), A("D@", 64), A("word", 7),
            I("NOP", TRUE), I("STORE", TRUE)}
=============================================================================
