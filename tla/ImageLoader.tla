----------------------------- MODULE ImageLoader -----------------------------
(***************************************************************************)
(* SIM_MemReset of hw4/sim_api.c, which reads the image file line by line: *)
(* a loop for the parameters, then a loop for the segments, and inside of  *)
(* it one for the lines of a code segment and one for those of a data      *)
(* segment.  All four read with the same fgets, and a loop that meets a    *)
(* line that is not its own has consumed it.  One step is one such line.   *)
(***************************************************************************)
EXTENDS Integers, FiniteSets

CONSTANTS Lines,    \* the lines a file can have, see Image below
          Room,     \* instructions in the space of a thread: the program
                    \* takes 100 pointers for it, that is 40 instructions
          DataRoom, \* words in the array data, 100 in the program
          Garbage   \* what the local variable tid can hold before a T line

(* A line by what it looks like: empty or a comment; a letter and a number *)
(* for parameters and threads; the header of a segment with its address; a *)
(* word; an instruction with its operands, the second source with or       *)
(* without a dollar.                                                       *)
Numbered == {"L", "S", "O", "N", "T", "I@", "D@", "word"}
Kinds    == {"blank", "inst"} \cup Numbered
Opcodes  == {"NOP", "ADD", "SUB", "ADDI", "SUBI", "LOAD", "STORE", "HALT"}

ASSUME LoaderAssumption ==
  /\ \A l \in Lines :
       /\ l.kind \in Kinds
       /\ l.kind \in Numbered => l.n \in Int
       /\ l.kind = "inst" => /\ l.opcode \in Opcodes /\ l.dollar \in BOOLEAN
                             /\ {l.dst, l.src1, l.src2} \subseteq Int
  /\ {Room, DataRoom} \subseteq Nat \ {0} /\ Garbage # {} /\ Garbage \subseteq Int

VARIABLES loop,         \* which loop reads the next line; loaded, failed:
                        \* returned; wild: stopped by a wild access
          params,       \* load_store_latency, switch_ and threadnumber
          tid,
          next,         \* inst or data_i, the next index of the segment
          instructions, \* for each thread its space, and what was written
                        \* behind the end of it
          data_start, data \* the array, and what was written behind it
image == <<params, instructions, data_start, data>>
vars  == <<loop, tid, next, image>>

Junk == [opcode |-> "none", dst |-> 0, src1 |-> 0, src2 |-> 0, imm |-> FALSE]

(* fopen finds the file, or SIM_MemReset returns -1 and nothing else.      *)
Init ==
  /\ loop \in {"params", "failed"}
  /\ params = [c \in {"L", "S", "O", "N"} |-> 0]
  /\ tid \in Garbage /\ next = 0
  /\ instructions = [t \in {} |-> [k \in 0 .. Room - 1 |-> Junk]]
  /\ data_start = 0 /\ data = [k \in 0 .. DataRoom - 1 |-> 0]

-----------------------------------------------------------------------------
(* line[0], with # for the end of line too: an instruction can look like a *)
(* parameter, S for SUB, SUBI and STORE, L for LOAD, N for NOP.            *)
FirstOf(opcode) ==
  CASE opcode = "NOP"  -> "N"
    [] opcode = "LOAD" -> "L"
    [] opcode = "HALT" -> "H"
    [] opcode \in {"ADD", "ADDI"}         -> "A"
    [] opcode \in {"SUB", "SUBI", "STORE"} -> "S"

First(line) ==
  CASE line.kind = "blank" -> "#"
    [] line.kind = "I@"    -> "I"
    [] line.kind = "D@"    -> "D"
    [] line.kind = "word"  -> "0"
    [] line.kind = "inst"  -> FirstOf(line.opcode)
    [] OTHER -> line.kind

(* atoi(&line[1]), and strtol of a line that should be a word.             *)
Number(line) == IF line.kind \in Numbered THEN line.n ELSE 0
Value(line)  == IF line.kind = "word" THEN line.n ELSE 0

(* Mutant: an operand with a dollar is an immediate as well.               *)
DecodedNoDollar(line, old) ==
  CASE line.opcode = "NOP"  -> [old EXCEPT !.opcode = "NOP"]
    [] line.opcode = "HALT" -> [Junk EXCEPT !.opcode = "HALT", !.dst = line.dst]
    [] OTHER -> [opcode |-> line.opcode, dst |-> line.dst, src1 |-> line.src1,
                 src2 |-> line.src2, imm |-> TRUE]

(* get_inst with add_sub, load_store and halt: NOP fills in the opcode     *)
(* only, HALT has one operand, all others three.                           *)
Decoded(line, old) ==
  CASE line.opcode = "NOP"  -> [old EXCEPT !.opcode = "NOP"]
    [] line.opcode = "HALT" -> [Junk EXCEPT !.opcode = "HALT", !.dst = line.dst]
    [] OTHER -> [opcode |-> line.opcode, dst |-> line.dst, src1 |-> line.src1,
                 src2 |-> line.src2, imm |-> ~line.dollar]

-----------------------------------------------------------------------------
(* The first loop: S, L and O lines, until the N line allocates.           *)
Parameter(line) ==
  /\ loop = "params" /\ First(line) \in {"L", "S", "O"}
  /\ params' = [params EXCEPT ![First(line)] = Number(line)]
  /\ UNCHANGED <<loop, tid, next, instructions, data_start, data>>

ThreadCount(line) ==
  /\ loop = "params" /\ First(line) = "N"
  /\ params' = [params EXCEPT !["N"] = Number(line)]
  /\ instructions' = [t \in 0 .. Number(line) - 1 |->
                        [k \in 0 .. Room - 1 |-> Junk]]
  /\ loop' = "segments"
  /\ UNCHANGED <<tid, next, data_start, data>>

(* Comments, empty lines, and whatever the two outer loops do not know.    *)
Skip(line) ==
  /\ \/ loop = "params" /\ First(line) \notin {"L", "S", "O", "N"}
     \/ loop = "segments" /\ First(line) \notin {"T", "I", "D"}
  /\ UNCHANGED vars

SetThread(line) ==
  /\ loop = "segments" /\ First(line) = "T"
  /\ tid' = Number(line)
  /\ UNCHANGED <<loop, next, image>>

(* Mutant: the index goes on from the segment before.                      *)
OpenCodeGoesOn(line) ==
  /\ loop = "segments" /\ First(line) = "I"
  /\ loop' = "code"
  /\ UNCHANGED <<tid, next, image>>

(* A code segment before any T line goes to where tid happens to point.    *)
OpenCode(line) ==
  /\ loop = "segments" /\ First(line) = "I"
  /\ loop' = "code" /\ next' = 0
  /\ UNCHANGED <<tid, image>>

OpenData(line) ==
  /\ loop = "segments" /\ First(line) = "D"
  /\ loop' = "data" /\ next' = 0
  /\ data_start' = line.n
  /\ UNCHANGED <<tid, params, instructions, data>>

(* Mutant: only a code segment ends a data segment.                        *)
EndsDataHeader(line) == First(line) = "I"

EndsCode(line) == First(line) \in {"#", "D"}
EndsData(line) == First(line) \in {"#", "I"}

(* The line that ends a segment is gone, also when it is a header.         *)
Close(line) ==
  /\ \/ loop = "code" /\ EndsCode(line)
     \/ loop = "data" /\ EndsData(line)
  /\ loop' = "segments"
  /\ UNCHANGED <<tid, next, image>>

(* A write at index k of a space, which may be behind its end.  It stops   *)
(* the program there or not; where it does not, the loop goes on.          *)
Written(space, k, v) ==
  [i \in DOMAIN space \cup {k} |-> IF i = k THEN v ELSE space[i]]
At(space, k) == IF k \in DOMAIN space THEN space[k] ELSE Junk
GoesOn(room) == loop' \in IF next < room THEN {loop} ELSE {loop, "wild"}

ReadInst(line) ==
  /\ loop = "code" /\ ~EndsCode(line)
  /\ line.kind = "inst" /\ tid \in DOMAIN instructions
  /\ instructions' = [instructions EXCEPT ![tid] =
                        Written(@, next, Decoded(line, At(@, next)))]
  /\ next' = next + 1 /\ GoesOn(Room)
  /\ UNCHANGED <<tid, params, data_start, data>>

ReadWord(line) ==
  /\ loop = "data" /\ ~EndsData(line)
  /\ data' = Written(data, next, Value(line))
  /\ next' = next + 1 /\ GoesOn(DataRoom)
  /\ UNCHANGED <<tid, params, instructions, data_start>>

(* A line that names no opcode runs get_inst off the end of cmdStr, and    *)
(* nobody looks at the thread.                                             *)
RunWild(line) ==
  /\ loop = "code" /\ ~EndsCode(line)
  /\ ~(line.kind = "inst" /\ tid \in DOMAIN instructions)
  /\ loop' = "wild"
  /\ UNCHANGED <<tid, next, image>>

(* A header as the last line is read once more, as the first line of its   *)
(* own segment: the fgets after it is not checked.                         *)
EndOfFile ==
  /\ \/ /\ loop \in {"params", "segments"}
        /\ loop' = "loaded" /\ UNCHANGED data
     \/ /\ loop \in {"code", "data"} /\ next > 0
        /\ loop' = "loaded" /\ UNCHANGED data
     \/ /\ loop = "data" /\ next = 0
        /\ loop' = "loaded" /\ data' = [data EXCEPT ![0] = 0]
     \/ /\ loop = "code" /\ next = 0
        /\ loop' = "wild" /\ UNCHANGED data
  /\ UNCHANGED <<tid, next, params, instructions, data_start>>

Read(line) ==
  \/ Parameter(line) \/ ThreadCount(line) \/ Skip(line) \/ SetThread(line)
  \/ OpenCode(line) \/ ReadInst(line) \/ OpenData(line) \/ ReadWord(line)
  \/ Close(line) \/ RunWild(line)

Next == EndOfFile \/ \E line \in Lines : Read(line)

Spec == Init /\ [][Next]_vars
=============================================================================
