----------------------------- MODULE ImageProofs -----------------------------
(***************************************************************************)
(* Proofs about the loader of memory images, for every file over every set *)
(* of lines and every size of the spaces it fills.                         *)
(***************************************************************************)
EXTENDS ImageHistory, Extremes, FiniteSetTheorems, TLAPS

-----------------------------------------------------------------------------
(* What the first character tells of a line.                               *)
LEMMA FirstTells ==
  ASSUME NEW line \in Lines
  PROVE  /\ First(line) = "I" <=> line.kind = "I@"
         /\ First(line) = "D" <=> line.kind = "D@"
         /\ First(line) = "T" <=> line.kind = "T"
         /\ First(line) = "#" <=> line.kind = "blank"
<1>1. /\ line.kind \in {"blank", "inst", "L", "S", "O", "N", "T", "I@", "D@",
                        "word"}
      /\ line.kind = "inst" => line.opcode \in Opcodes
  BY LoaderAssumption DEF Kinds, Numbered
<1>2. CASE line.kind = "inst"
  <2>1. FirstOf(line.opcode) \in {"N", "L", "H", "A", "S"}
    BY <1>1, <1>2 DEF FirstOf, Opcodes
  <2> QED  BY <1>2, <2>1 DEF First
<1>3. CASE line.kind # "inst"
  BY <1>1, <1>3 DEF First
<1> QED  BY <1>2, <1>3

(* What the loops see of a line of each kind.                              *)
LEMMA FirstOfKinds ==
  ASSUME NEW line \in Lines
  PROVE  /\ line.kind \in {"L", "S", "O", "N", "T"} =>
              First(line) = line.kind /\ Number(line) = line.n
         /\ line.kind = "word" => First(line) = "0" /\ Value(line) = line.n
         /\ line.kind = "blank" => First(line) = "#"
         /\ line.kind = "inst" => First(line) \in {"N", "L", "H", "A", "S"}
<1>1. line.kind = "inst" => line.opcode \in Opcodes
  BY LoaderAssumption
<1>2. line.kind = "inst" => FirstOf(line.opcode) \in {"N", "L", "H", "A", "S"}
  BY <1>1 DEF FirstOf, Opcodes
<1> QED  BY <1>2 DEF First, Number, Value, Numbered

LEMMA NumbersAreInt ==
  ASSUME NEW line \in Lines
  PROVE  /\ Number(line) \in Int /\ Value(line) \in Int
         /\ First(line) = "D" => line.n \in Int
BY FirstTells, LoaderAssumption DEF Number, Value, Numbered

Instruction == [opcode : {"none"} \cup Opcodes,
                dst : Int, src1 : Int, src2 : Int, imm : BOOLEAN]

(* get_inst makes an instruction of what was in its place.                 *)
LEMMA DecodedType ==
  ASSUME NEW line \in Lines, line.kind = "inst", NEW old \in Instruction
  PROVE  Decoded(line, old) \in Instruction
<1>1. /\ line.opcode \in Opcodes /\ line.dollar \in BOOLEAN
      /\ line.dst \in Int /\ line.src1 \in Int /\ line.src2 \in Int
  BY LoaderAssumption
<1>2. [old EXCEPT !.opcode = "NOP"] \in Instruction
  BY DEF Instruction, Opcodes
<1>3. [Junk EXCEPT !.opcode = "HALT", !.dst = line.dst] \in Instruction
  <2>1. Junk \in Instruction
    BY DEF Junk, Instruction
  <2> QED  BY <1>1, <2>1 DEF Instruction, Opcodes
<1>4. [opcode |-> line.opcode, dst |-> line.dst, src1 |-> line.src1,
       src2 |-> line.src2, imm |-> ~line.dollar] \in Instruction
  BY <1>1 DEF Instruction
<1> QED  BY <1>2, <1>3, <1>4 DEF Decoded

-----------------------------------------------------------------------------
(* A space has its places at least, and something of V in each.            *)
Space(sp, room, V) == /\ 0 .. room - 1 \subseteq DOMAIN sp
                      /\ \A k \in DOMAIN sp : sp[k] \in V

LoadInv ==
  /\ params \in [{"L", "S", "O", "N"} -> Int] /\ next \in Nat
  /\ loop \in {"params", "failed"} => params["N"] = 0
  /\ DOMAIN instructions = 0 .. params["N"] - 1
  /\ \A t \in DOMAIN instructions : Space(instructions[t], Room, Instruction)
  /\ Space(data, DataRoom, Int)

LEMMA JunkType == Junk \in Instruction
BY DEF Junk, Instruction

LEMMA LoadInit == Init => LoadInv
<1> SUFFICES ASSUME Init PROVE LoadInv
  OBVIOUS
<1>1. params \in [{"L", "S", "O", "N"} -> Int] /\ params["N"] = 0
  BY DEF Init
<1>2. DOMAIN instructions = {} /\ 0 .. params["N"] - 1 = {}
  BY <1>1 DEF Init
<1>3. Space(data, DataRoom, Int) /\ next \in Nat
  BY DEF Init, Space
<1> QED  BY <1>1, <1>2, <1>3 DEF LoadInv

(* What an instruction read does to the spaces.                            *)
LEMMA InstEffect ==
  ASSUME LoadInv, NEW line \in Lines, ReadInst(line)
  PROVE  /\ tid \in DOMAIN instructions /\ DOMAIN instructions' = DOMAIN instructions
         /\ Space(instructions'[tid], Room, Instruction)
         /\ DOMAIN instructions'[tid] = DOMAIN instructions[tid] \cup {next}
         /\ instructions'[tid][next] = Decoded(line, At(instructions[tid], next))
         /\ At(instructions[tid], next) \in Instruction
         /\ \A i \in DOMAIN instructions[tid] :
              i # next => instructions'[tid][i] = instructions[tid][i]
         /\ \A t \in DOMAIN instructions :
              t # tid => instructions'[t] = instructions[t]
<1> DEFINE old == At(instructions[tid], next)
           new == Decoded(line, old)
<1>1. /\ tid \in DOMAIN instructions /\ line.kind = "inst"
      /\ instructions' = [instructions EXCEPT ![tid] =
                            Written(instructions[tid], next, new)]
  BY DEF ReadInst
<1>2. Space(instructions[tid], Room, Instruction)
  BY <1>1 DEF LoadInv
<1>3. old \in Instruction
  BY <1>2, JunkType DEF At, Space
<1>4. new \in Instruction
  BY <1>1, <1>3, DecodedType
<1> HIDE DEF old, new
<1>5. /\ DOMAIN instructions' = DOMAIN instructions
      /\ instructions'[tid] = Written(instructions[tid], next, new)
      /\ \A t \in DOMAIN instructions : t # tid => instructions'[t] = instructions[t]
  BY <1>1
<1>6. /\ Space(Written(instructions[tid], next, new), Room, Instruction)
      /\ DOMAIN Written(instructions[tid], next, new) =
           DOMAIN instructions[tid] \cup {next}
      /\ Written(instructions[tid], next, new)[next] = new
      /\ \A i \in DOMAIN instructions[tid] : i # next =>
           Written(instructions[tid], next, new)[i] = instructions[tid][i]
  BY <1>2, <1>4 DEF Space, Written
<1> QED  BY <1>1, <1>3, <1>5, <1>6 DEF old, new

(* And a word read to the data memory.                                     *)
LEMMA WordEffect ==
  ASSUME LoadInv, NEW line \in Lines, ReadWord(line)
  PROVE  /\ Space(data', DataRoom, Int)
         /\ DOMAIN data' = DOMAIN data \cup {next}
         /\ data'[next] = Value(line)
         /\ \A i \in DOMAIN data : i # next => data'[i] = data[i]
<1>1. Space(data, DataRoom, Int) /\ Value(line) \in Int
  BY NumbersAreInt DEF LoadInv
<1>2. data' = Written(data, next, Value(line))
  BY DEF ReadWord
<1>3. /\ Space(Written(data, next, Value(line)), DataRoom, Int)
      /\ DOMAIN Written(data, next, Value(line)) = DOMAIN data \cup {next}
      /\ Written(data, next, Value(line))[next] = Value(line)
      /\ \A i \in DOMAIN data : i # next =>
           Written(data, next, Value(line))[i] = data[i]
  BY <1>1 DEF Space, Written
<1> QED  BY <1>2, <1>3

LEMMA LoadStep == LoadInv /\ [Next]_vars => LoadInv'
<1> SUFFICES ASSUME LoadInv, [Next]_vars PROVE LoadInv'
  OBVIOUS
<1>1. ASSUME NEW line \in Lines, Parameter(line)
      PROVE  LoadInv'
  <2>1. /\ First(line) \in {"L", "S", "O"} /\ Number(line) \in Int
        /\ params' = [params EXCEPT ![First(line)] = Number(line)]
        /\ UNCHANGED <<loop, next, instructions, data>>
    BY <1>1, NumbersAreInt DEF Parameter
  <2>2. params' \in [{"L", "S", "O", "N"} -> Int] /\ params'["N"] = params["N"]
    BY <2>1 DEF LoadInv
  <2> QED  BY <2>1, <2>2 DEF LoadInv
<1>2. ASSUME NEW line \in Lines, ThreadCount(line)
      PROVE  LoadInv'
  <2>1. /\ Number(line) \in Int /\ params'["N"] = Number(line)
        /\ params' \in [{"L", "S", "O", "N"} -> Int]
        /\ loop' = "segments" /\ UNCHANGED <<next, data>>
    BY <1>2, NumbersAreInt DEF ThreadCount, LoadInv
  <2>2. /\ DOMAIN instructions' = 0 .. params'["N"] - 1
        /\ \A t \in DOMAIN instructions' :
             instructions'[t] = [k \in 0 .. Room - 1 |-> Junk]
    BY <1>2, <2>1 DEF ThreadCount
  <2>3. Space([k \in 0 .. Room - 1 |-> Junk], Room, Instruction)
    BY JunkType DEF Space
  <2> QED  BY <2>1, <2>2, <2>3 DEF LoadInv
<1>3. ASSUME NEW line \in Lines, ReadInst(line)
      PROVE  LoadInv'
  <2>1. ASSUME NEW t \in DOMAIN instructions
        PROVE  Space(instructions'[t], Room, Instruction)
    <3>1. /\ Space(instructions'[tid], Room, Instruction)
          /\ t # tid => instructions'[t] = instructions[t]
      BY <1>3, InstEffect
    <3>2. Space(instructions[t], Room, Instruction)
      BY DEF LoadInv
    <3> QED  BY <3>1, <3>2
  <2>2. /\ loop = "code" /\ loop' \in {"code", "wild"} /\ next' = next + 1
        /\ UNCHANGED <<params, data>>
    BY <1>3 DEF ReadInst, GoesOn
  <2>3. DOMAIN instructions' = DOMAIN instructions
    BY <1>3, InstEffect
  <2> QED  BY <2>1, <2>2, <2>3 DEF LoadInv
<1>4. ASSUME NEW line \in Lines, ReadWord(line)
      PROVE  LoadInv'
  <2>1. /\ loop = "data" /\ loop' \in {"data", "wild"} /\ next' = next + 1
        /\ UNCHANGED <<params, instructions>>
    BY <1>4 DEF ReadWord, GoesOn
  <2> QED  BY <1>4, <2>1, WordEffect DEF LoadInv
<1>5. ASSUME NEW line \in Lines,
             \/ Skip(line) \/ SetThread(line) \/ OpenCode(line)
             \/ OpenData(line) \/ Close(line) \/ RunWild(line)
      PROVE  LoadInv'
  <2>1. /\ UNCHANGED <<params, instructions, data>>
        /\ next' = next \/ next' = 0
        /\ loop' = loop \/ loop' \in {"segments", "code", "data", "wild"}
    BY <1>5 DEF Skip, SetThread, OpenCode, OpenData, Close, RunWild, vars, image
  <2> QED  BY <2>1 DEF LoadInv
<1>6. CASE EndOfFile
  <2>1. /\ UNCHANGED <<next, params, instructions>>
        /\ data' = data \/ data' = [data EXCEPT ![0] = 0]
        /\ loop' \in {"loaded", "wild"}
    BY <1>6 DEF EndOfFile
  <2>2. Space(data', DataRoom, Int)
    BY <2>1 DEF LoadInv, Space
  <2> QED  BY <2>1, <2>2 DEF LoadInv
<1>7. CASE UNCHANGED vars
  BY <1>7 DEF vars, image, LoadInv
<1> QED  BY <1>1, <1>2, <1>3, <1>4, <1>5, <1>6, <1>7 DEF Next, Read

-----------------------------------------------------------------------------
(* The file that was read.  The N line of a file that has none is behind   *)
(* its end.                                                                *)
FirstN(f) ==
  Min({i \in DOMAIN f : First(f[i]) = "N"} \cup {Len(f) + 1})

LEMMA NLineIsFirstN == NLine = FirstN(file) /\ NLine' = FirstN(file')
BY DEF NLine, FirstN, Places

LEMMA FirstNIsLeast ==
  ASSUME NEW f \in Seq(Lines)
  PROVE  /\ FirstN(f) \in 1 .. Len(f) + 1
         /\ FirstN(f) <= Len(f) => First(f[FirstN(f)]) = "N"
         /\ \A i \in 1 .. Len(f) : First(f[i]) = "N" => FirstN(f) <= i
<1> DEFINE n == Len(f)
           S == {i \in DOMAIN f : First(f[i]) = "N"} \cup {n + 1}
<1>1. n \in Nat /\ DOMAIN f = 1 .. n
  OBVIOUS
<1> HIDE DEF n
<1> DEFINE m == n + 2
<1>2. S \in SUBSET (0 .. m - 1) /\ n + 1 \in S /\ m \in Nat
  BY <1>1
<1>3. \A i : i \in S <=> (i \in 1 .. n /\ First(f[i]) = "N") \/ i = n + 1
  BY <1>1
<1>4. FirstN(f) = Min(S)
  BY DEF FirstN, n
<1> HIDE DEF S, m
<1>5. S # {}
  BY <1>2
<1>6. FirstN(f) \in S /\ \A i \in S : FirstN(f) <= i
  BY <1>2, <1>4, <1>5, LeastAndGreatest
<1> QED  BY <1>1, <1>3, <1>6 DEF n

(* The next line is the N line only when there was none before it.         *)
LEMMA FirstNOfMore ==
  ASSUME NEW f \in Seq(Lines), NEW line \in Lines
  PROVE  LET g == Append(f, line) IN
         /\ FirstN(f) <= Len(f) => FirstN(g) = FirstN(f)
         /\ FirstN(f) > Len(f) => FirstN(g) >= Len(f) + 1
         /\ FirstN(f) > Len(f) /\ First(line) = "N" => FirstN(g) = Len(f) + 1
<1> DEFINE g == Append(f, line)
<1>1. /\ g \in Seq(Lines) /\ Len(g) = Len(f) + 1 /\ g[Len(f) + 1] = line
      /\ \A i \in 1 .. Len(f) : g[i] = f[i]
      /\ Len(f) \in Nat
  OBVIOUS
<1> HIDE DEF g
<1>2. /\ FirstN(f) \in 1 .. Len(f) + 1
      /\ FirstN(f) <= Len(f) => First(f[FirstN(f)]) = "N"
      /\ \A i \in 1 .. Len(f) : First(f[i]) = "N" => FirstN(f) <= i
  BY FirstNIsLeast
<1>3. /\ FirstN(g) \in 1 .. Len(f) + 2
      /\ FirstN(g) <= Len(f) + 1 => First(g[FirstN(g)]) = "N"
      /\ \A i \in 1 .. Len(f) + 1 : First(g[i]) = "N" => FirstN(g) <= i
  BY <1>1, FirstNIsLeast
<1>4. FirstN(f) <= Len(f) => FirstN(g) = FirstN(f)
  BY <1>1, <1>2, <1>3
<1>5. FirstN(f) > Len(f) => FirstN(g) >= Len(f) + 1
  BY <1>1, <1>2, <1>3
<1>6. FirstN(f) > Len(f) /\ First(line) = "N" => FirstN(g) = Len(f) + 1
  BY <1>1, <1>3, <1>5
<1> QED  BY <1>4, <1>5, <1>6 DEF g

-----------------------------------------------------------------------------
(* The loop knows whether the N line is behind it, and an open segment has *)
(* the header that opened it, with no empty line or comment after it.      *)
Loops == {"params", "segments", "code", "data", "loaded", "failed", "wild"}

OpenSince(h) == /\ h \in Headers /\ reader[h] = "segments"
                /\ \A j \in h .. Len(file) : file[j].kind # "blank"

FileInv ==
  /\ loop \in Loops /\ file \in Seq(Lines) /\ reader \in Seq(Loops)
  /\ Len(reader) = Len(file)
  /\ loop = "params" => NLine > Len(file)
  /\ loop \in {"segments", "code", "data"} => NLine <= Len(file)
  /\ loop \in {"code", "data"} => \E h : OpenSince(h)
  /\ LostOnlyInSegments

(* What becomes of the loop with a line.                                   *)
LEMMA LoopAfter ==
  ASSUME NEW line \in Lines, Read(line)
  PROVE  /\ loop \in {"params", "segments", "code", "data"} /\ loop' \in Loops
         /\ loop = "params" => loop' = IF First(line) = "N" THEN "segments"
                                       ELSE "params"
         /\ loop # "params" => loop' # "params"
         /\ loop = "segments" /\ loop' \in {"code", "data"} =>
              line.kind \in {"I@", "D@"}
         /\ loop \in {"code", "data"} /\ loop' \in {"code", "data"} =>
              line.kind # "blank"
<1>1. CASE Parameter(line) \/ ThreadCount(line) \/ Skip(line) \/ SetThread(line)
  BY <1>1 DEF Parameter, ThreadCount, Skip, SetThread, vars, Loops
<1>2. CASE OpenCode(line) \/ OpenData(line)
  BY <1>2, FirstTells DEF OpenCode, OpenData, Loops
<1>3. CASE ReadInst(line) \/ ReadWord(line)
  BY <1>3, FirstTells DEF ReadInst, ReadWord, GoesOn, EndsCode, EndsData, Loops
<1>4. CASE Close(line) \/ RunWild(line)
  BY <1>4 DEF Close, RunWild, Loops
<1> QED  BY <1>1, <1>2, <1>3, <1>4 DEF Read

(* A line is read.                                                         *)
LineRead(line, n) ==
  /\ line \in Lines /\ Read(line) /\ n = Len(file)
  /\ file' = Append(file, line) /\ reader' = Append(reader, loop)

LEMMA FileGrows ==
  ASSUME FileInv, NEW line, NEW n, LineRead(line, n)
  PROVE  /\ line \in Lines /\ n \in Nat /\ Len(file) = n /\ Len(file') = n + 1
         /\ file \in Seq(Lines) /\ file' \in Seq(Lines)
         /\ Places = 1 .. n /\ Places' = 1 .. n + 1
         /\ file'[n + 1] = line /\ \A i \in 1 .. n : file'[i] = file[i]
<1>1. /\ line \in Lines /\ n = Len(file) /\ file' = Append(file, line)
      /\ file \in Seq(Lines)
  BY DEF FileInv, LineRead
<1> QED  BY <1>1 DEF Places

(* The N line, once read, stays where it is.                               *)
LEMMA NLineNext ==
  ASSUME FileInv, NEW line, NEW n, LineRead(line, n)
  PROVE  /\ loop \in {"params", "segments", "code", "data"}
         /\ loop = "params" =>
              NLine = n + 1 /\ NLine' = IF First(line) = "N" THEN n + 1 ELSE n + 2
         /\ loop # "params" => NLine \in 1 .. n /\ NLine' = NLine
<1> DEFINE g == Append(file, line)
<1>1. /\ NLine = FirstN(file) /\ NLine' = FirstN(g) /\ file' = g
      /\ line \in Lines /\ Read(line)
  BY NLineIsFirstN DEF LineRead
<1>2. /\ n \in Nat /\ file \in Seq(Lines) /\ g \in Seq(Lines)
      /\ Len(file) = n /\ Len(g) = n + 1 /\ g[n + 1] = line
  BY FileGrows, <1>1
<1>3. /\ FirstN(file) <= n => FirstN(g) = FirstN(file)
      /\ FirstN(file) > n => FirstN(g) >= n + 1
      /\ FirstN(file) > n /\ First(line) = "N" => FirstN(g) = n + 1
  BY <1>1, <1>2, FirstNOfMore
<1>4. FirstN(file) \in 1 .. n + 1
  BY <1>2, FirstNIsLeast
<1> HIDE DEF g
<1>5. /\ FirstN(g) \in 1 .. n + 2
      /\ FirstN(g) = n + 1 => First(line) = "N"
  <2>1. /\ FirstN(g) \in 1 .. Len(g) + 1
        /\ FirstN(g) <= Len(g) => First(g[FirstN(g)]) = "N"
    BY <1>2, FirstNIsLeast
  <2> QED  BY <1>2, <2>1
<1>6. /\ loop \in {"params", "segments", "code", "data"}
      /\ loop = "params" => NLine > n
      /\ loop # "params" => NLine <= n
  BY <1>1, <1>2, LoopAfter DEF FileInv
<1>7. loop = "params" => FirstN(file) > n
  BY <1>1, <1>6
<1> QED  BY <1>1, <1>2, <1>3, <1>4, <1>5, <1>6

(* Behind the N line the lines and the headers so far are what they were.  *)
LEMMA OfNext ==
  ASSUME FileInv, NEW line, NEW n, LineRead(line, n), NEW K
  PROVE  /\ loop = "params" => Of(K) = {} /\ Of(K)' = {}
         /\ loop # "params" =>
              \A i : i \in Of(K)' <=> i \in Of(K) \/ (i = n + 1 /\ line.kind \in K)
         /\ \A i \in Of(K) : i \in 1 .. n /\ NLine < i /\ file[i].kind \in K
<1>1. /\ n \in Nat /\ Places = 1 .. n /\ Places' = 1 .. n + 1
      /\ file'[n + 1] = line /\ \A i \in 1 .. n : file'[i] = file[i]
  BY FileGrows
<1>2. \A i : i \in Of(K) <=> i \in 1 .. n /\ i > NLine /\ file[i].kind \in K
  BY <1>1 DEF Of
<1>3. \A i : i \in Of(K)' <=> i \in 1 .. n + 1 /\ i > NLine' /\ file'[i].kind \in K
  BY <1>1 DEF Of
<1> QED  BY <1>1, <1>2, <1>3, NLineNext

(* Every line read, and the end of the file, keep FileInv.                 *)
LEMMA FileStep == FileInv /\ [FileNext]_allVars => FileInv'
<1> SUFFICES ASSUME FileInv, [FileNext]_allVars PROVE FileInv'
  OBVIOUS
<1>1. ASSUME NEW line \in Lines, Read(line), file' = Append(file, line),
             reader' = Append(reader, loop)
      PROVE  FileInv'
  <2>1. PICK n : n = Len(file)
    OBVIOUS
  <2>2. LineRead(line, n)
    BY <1>1, <2>1 DEF LineRead
  <2>3. /\ n \in Nat /\ file' \in Seq(Lines) /\ Len(file') = n + 1
        /\ file'[n + 1] = line /\ \A i \in 1 .. n : file'[i] = file[i]
        /\ reader' \in Seq(Loops) /\ Len(reader') = n + 1
        /\ reader'[n + 1] = loop /\ \A i \in 1 .. n : reader'[i] = reader[i]
    BY <1>1, <2>1, <2>2, FileGrows DEF FileInv
  <2>4. /\ loop = "params" =>
             NLine = n + 1 /\ NLine' = IF First(line) = "N" THEN n + 1 ELSE n + 2
        /\ loop # "params" => NLine \in 1 .. n /\ NLine' = NLine
    BY <2>2, NLineNext
  <2>5. /\ loop \in {"params", "segments", "code", "data"} /\ loop' \in Loops
        /\ loop = "params" => loop' = IF First(line) = "N" THEN "segments"
                                      ELSE "params"
        /\ loop # "params" => loop' # "params"
        /\ loop = "segments" /\ loop' \in {"code", "data"} =>
             line.kind \in {"I@", "D@"}
        /\ loop \in {"code", "data"} /\ loop' \in {"code", "data"} =>
             line.kind # "blank"
    BY <1>1, LoopAfter
  <2>6. /\ loop # "params" => Headers \subseteq Headers'
        /\ Headers \subseteq 1 .. n
        /\ loop # "params" /\ line.kind \in {"I@", "D@"} => n + 1 \in Headers'
    BY <2>2, OfNext DEF Headers
  <2>7. ASSUME NEW h, OpenSince(h), loop # "params", line.kind # "blank"
        PROVE  OpenSince(h)'
    <3>1. /\ h \in Headers /\ reader[h] = "segments"
          /\ \A j \in h .. n : file[j].kind # "blank"
      BY <2>1, <2>7 DEF OpenSince
    <3>2. h \in 1 .. n /\ h \in Headers' /\ reader'[h] = "segments"
      BY <2>3, <2>6, <2>7, <3>1
    <3>3. \A j \in h .. Len(file') : file'[j].kind # "blank"
      BY <2>3, <2>7, <3>1, <3>2
    <3> QED  BY <3>2, <3>3 DEF OpenSince
  <2>8. loop' \in {"code", "data"} => \E h : OpenSince(h)'
    <3>1. CASE loop \in {"code", "data"} /\ loop' \in {"code", "data"}
      BY <2>5, <2>7, <3>1 DEF FileInv
    <3>2. CASE loop = "segments" /\ loop' \in {"code", "data"}
      <4>1. PICK m : m = n + 1
        OBVIOUS
      <4>2. m \in Headers' /\ reader'[m] = "segments"
        BY <2>3, <2>5, <2>6, <3>2, <4>1
      <4>3. \A j \in m .. Len(file') : file'[j].kind # "blank"
        BY <2>3, <2>5, <3>2, <4>1
      <4> QED  BY <4>2, <4>3 DEF OpenSince
    <3>3. CASE loop = "params"
      BY <2>5, <3>3
    <3> QED  BY <2>5, <3>1, <3>2, <3>3
  <2>9. LostOnlyInSegments'
    <3> SUFFICES ASSUME NEW i \in Of({"I@", "D@", "T"})',
                        reader'[i] # "segments"
                 PROVE  \E h \in Headers' :
                          /\ reader'[h] = "segments" /\ h < i
                          /\ \A j \in h .. i - 1 : file'[j].kind # "blank"
      BY DEF LostOnlyInSegments
    <3>1. loop # "params"
      BY <2>2, OfNext
    <3>2. CASE i \in Of({"I@", "D@", "T"})
      <4>1. i \in 1 .. n /\ reader[i] # "segments"
        BY <2>3, <2>2, OfNext, <3>2
      <4>2. PICK h \in Headers : /\ reader[h] = "segments" /\ h < i
                                 /\ \A j \in h .. i - 1 : file[j].kind # "blank"
        BY <3>2, <4>1 DEF FileInv, LostOnlyInSegments
      <4>3. h \in Headers' /\ h \in 1 .. n /\ i - 1 <= n
        BY <2>3, <2>6, <3>1, <4>1
      <4>4. reader'[h] = "segments" /\ \A j \in h .. i - 1 : file'[j].kind = file[j].kind
        BY <2>3, <4>1, <4>2, <4>3
      <4> QED  BY <4>2, <4>3, <4>4
    <3>3. CASE i \notin Of({"I@", "D@", "T"})
      <4>1. i = n + 1
        BY <2>2, OfNext, <3>1, <3>3
      <4>2. loop \in {"code", "data"}
        BY <2>3, <2>5, <3>1, <4>1
      <4>3. PICK h : OpenSince(h)
        BY <4>2 DEF FileInv
      <4>4. /\ h \in Headers /\ reader[h] = "segments"
            /\ \A j \in h .. n : file[j].kind # "blank"
        BY <2>1, <4>3 DEF OpenSince
      <4>5. h \in Headers' /\ h \in 1 .. n /\ reader'[h] = "segments"
        BY <2>3, <2>6, <3>1, <4>4
      <4>6. \A j \in h .. i - 1 : file'[j].kind # "blank"
        BY <2>3, <4>1, <4>4, <4>5
      <4>7. h < i
        BY <2>3, <4>1, <4>5
      <4> QED  BY <4>5, <4>6, <4>7
    <3> QED  BY <3>2, <3>3
  <2>10. /\ loop' = "params" => NLine' > n + 1
         /\ loop' \in {"segments", "code", "data"} => NLine' <= n + 1
    BY <2>3, <2>4, <2>5
  <2> QED  BY <2>1, <2>3, <2>5, <2>8, <2>9, <2>10 DEF FileInv
<1>2. ASSUME UNCHANGED <<file, reader>>, loop' = loop \/ loop' \in {"loaded", "wild"}
      PROVE  FileInv'
  <2>1. /\ NLine' = NLine /\ Headers' = Headers
        /\ Of({"I@", "D@", "T"})' = Of({"I@", "D@", "T"})
    BY <1>2 DEF NLine, Headers, Of, Places
  <2>2. \A h : OpenSince(h)' <=> OpenSince(h)
    BY <1>2, <2>1 DEF OpenSince
  <2>3. LostOnlyInSegments'
    BY <1>2, <2>1 DEF FileInv, LostOnlyInSegments
  <2> QED  BY <1>2, <2>1, <2>2, <2>3 DEF FileInv, Loops
<1>3. EndOfFile => loop' \in {"loaded", "wild"}
  BY DEF EndOfFile
<1> QED  BY <1>1, <1>2, <1>3 DEF FileNext, allVars, vars

(* It holds before the first line.                                         *)
LEMMA FileAtFirst == FileInit => FileInv
<1> SUFFICES ASSUME FileInit PROVE FileInv
  OBVIOUS
<1>1. file = <<>> /\ reader = <<>> /\ loop \in {"params", "failed"}
  BY DEF FileInit, Init
<1>2. file \in Seq(Lines) /\ reader \in Seq(Loops) /\ Len(file) = 0
  BY <1>1
<1>3. NLine > Len(file)
  <2>1. FirstN(file) \in 1 .. Len(file) + 1
    BY <1>2, FirstNIsLeast
  <2> QED  BY <1>2, <2>1, NLineIsFirstN
<1>4. LostOnlyInSegments
  BY <1>1 DEF LostOnlyInSegments, Of, Places
<1> QED  BY <1>1, <1>2, <1>3, <1>4 DEF FileInv, Loops

(* However ill-formed a file is, of whatever length and with whatever      *)
(* lines: what the loader loses of its headers and T lines it loses inside *)
(* of a segment that no empty line or comment has ended.                   *)
THEOREM LostInside == FileSpec => []LostOnlyInSegments
<1>1. FileInv => LostOnlyInSegments
  BY DEF FileInv
<1> QED  BY <1>1, FileAtFirst, FileStep, PTL DEF FileSpec

-----------------------------------------------------------------------------
(* Overruns, the same way for the two inner loops: what a loop takes for   *)
(* its own, how many lines it has room for, and its segment that is open.  *)
HeadOf(l)    == IF l = "code" THEN "I@" ELSE "D@"
RoomIn(l)    == IF l = "code" THEN Room ELSE DataRoom
Own(l, line) == IF l = "code" THEN line.kind = "inst" ELSE ~EndsData(line)

Long(l) ==
  \E h \in Places :
    /\ reader[h] = "segments" /\ file[h].kind = HeadOf(l)
    /\ h + RoomIn(l) < Len(file)
    /\ \A i \in h + 1 .. h + RoomIn(l) + 1 : reader[i] = l /\ Own(l, file[i])

OpenedAt(l, h) ==
  /\ h \in Places /\ reader[h] = "segments" /\ file[h].kind = HeadOf(l)
  /\ next = Len(file) - h
  /\ \A i \in h + 1 .. Len(file) : reader[i] = l /\ Own(l, file[i])

OverrunInv ==
  /\ loop \in {"params", "failed"} => \A i \in Places : reader[i] = "params"
  /\ \A l \in {"code", "data"} : loop = l => \E h : OpenedAt(l, h)
  /\ loop = "code" /\ next > 0 => tid \in DOMAIN instructions
  /\ OverrunsAreLong

LEMMA LongIsLong == (LongCode <=> Long("code")) /\ (LongData <=> Long("data"))
BY DEF LongCode, LongData, Long, HeadOf, RoomIn, Own

LEMMA LongIsLongAfter ==
  (LongCode' <=> Long("code")') /\ (LongData' <=> Long("data")')
BY DEF LongCode, LongData, Long, HeadOf, RoomIn, Own

(* The files and the readers, before and after a line.                     *)
LEMMA ReaderGrows ==
  ASSUME FileInv, NEW line, NEW n, LineRead(line, n)
  PROVE  /\ n \in Nat /\ Len(file) = n /\ Len(file') = n + 1
         /\ Places = 1 .. n /\ Places' = 1 .. n + 1
         /\ file'[n + 1] = line /\ \A i \in 1 .. n : file'[i] = file[i]
         /\ reader'[n + 1] = loop /\ \A i \in 1 .. n : reader'[i] = reader[i]
<1>1. /\ reader \in Seq(Loops) /\ Len(reader) = n
      /\ reader' = Append(reader, loop)
  BY DEF FileInv, LineRead
<1> QED  BY <1>1, FileGrows

(* A segment gets too long with the line that its loop has no room for.    *)
LEMMA LongNext ==
  ASSUME LoadInv, FileInv, NEW line, NEW n, LineRead(line, n),
         NEW l \in {"code", "data"}, loop = l => \E h : OpenedAt(l, h)
  PROVE  Long(l)' <=> Long(l) \/ (loop = l /\ Own(l, line) /\ next >= RoomIn(l))
<1>1. /\ n \in Nat /\ Len(file) = n /\ Len(file') = n + 1
      /\ Places = 1 .. n /\ Places' = 1 .. n + 1
      /\ file'[n + 1] = line /\ \A i \in 1 .. n : file'[i] = file[i]
      /\ reader'[n + 1] = loop /\ \A i \in 1 .. n : reader'[i] = reader[i]
  BY ReaderGrows
<1>2. RoomIn(l) \in Nat /\ next \in Nat
  BY LoaderAssumption DEF RoomIn, LoadInv
<1>3. PICK room : room = RoomIn(l)
  OBVIOUS
<1>4. ASSUME Long(l) PROVE Long(l)'
  <2>1. PICK h \in Places :
          /\ reader[h] = "segments" /\ file[h].kind = HeadOf(l)
          /\ h + room < n
          /\ \A i \in h + 1 .. h + room + 1 : reader[i] = l /\ Own(l, file[i])
    BY <1>1, <1>3, <1>4 DEF Long
  <2>2. h \in Places' /\ reader'[h] = reader[h] /\ file'[h] = file[h]
    BY <1>1
  <2>3. ASSUME NEW i \in h + 1 .. h + room + 1
        PROVE  reader'[i] = reader[i] /\ file'[i] = file[i]
    BY <1>1, <1>2, <1>3, <2>1
  <2>4. h + room < n + 1
    BY <1>1, <1>2, <1>3, <2>1
  <2> QED  BY <1>1, <1>3, <2>1, <2>2, <2>3, <2>4 DEF Long
<1>5. ASSUME loop = l, Own(l, line), next >= RoomIn(l)
      PROVE  Long(l)'
  <2>1. PICK h : OpenedAt(l, h)
    BY <1>5
  <2>2. /\ h \in 1 .. n /\ reader[h] = "segments" /\ file[h].kind = HeadOf(l)
        /\ next = n - h
        /\ \A i \in h + 1 .. n : reader[i] = l /\ Own(l, file[i])
    BY <1>1, <2>1 DEF OpenedAt
  <2>3. h \in Places' /\ reader'[h] = "segments" /\ file'[h].kind = HeadOf(l)
    BY <1>1, <2>2
  <2>4. h + room < n + 1
    BY <1>1, <1>2, <1>3, <1>5, <2>2
  <2>5. ASSUME NEW i \in h + 1 .. h + room + 1
        PROVE  reader'[i] = l /\ Own(l, file'[i])
    <3>1. CASE i = n + 1
      BY <1>1, <1>5, <3>1
    <3>2. CASE i # n + 1
      <4>1. i \in h + 1 .. n /\ i \in 1 .. n
        BY <1>1, <1>2, <1>3, <2>2, <2>4, <3>2
      <4> QED  BY <1>1, <2>2, <4>1
    <3> QED  BY <3>1, <3>2
  <2> QED  BY <1>1, <1>3, <2>3, <2>4, <2>5 DEF Long
<1>6. ASSUME Long(l)', ~Long(l)
      PROVE  loop = l /\ Own(l, line) /\ next >= RoomIn(l)
  <2>1. PICK h \in 1 .. n + 1 :
          /\ reader'[h] = "segments" /\ file'[h].kind = HeadOf(l)
          /\ h + room < n + 1
          /\ \A i \in h + 1 .. h + room + 1 : reader'[i] = l /\ Own(l, file'[i])
    BY <1>1, <1>3, <1>6 DEF Long
  <2>2. h \in 1 .. n /\ reader[h] = "segments" /\ file[h].kind = HeadOf(l)
    BY <1>1, <1>2, <1>3, <2>1
  <2>3. h + room = n
    <3>1. ASSUME h + room < n PROVE FALSE
      <4>1. ASSUME NEW i \in h + 1 .. h + room + 1
            PROVE  reader[i] = l /\ Own(l, file[i])
        <5>1. i \in 1 .. n
          BY <1>1, <1>2, <1>3, <2>2, <3>1
        <5> QED  BY <1>1, <2>1, <5>1
      <4> QED  BY <1>1, <1>3, <1>6, <2>2, <3>1, <4>1 DEF Long
    <3> QED  BY <1>1, <1>2, <1>3, <2>1, <2>2, <3>1
  <2>4. n + 1 \in h + 1 .. h + room + 1
    BY <1>1, <1>2, <1>3, <2>2, <2>3
  <2>5. loop = l /\ Own(l, line)
    BY <1>1, <2>1, <2>4
  <2>6. PICK g : OpenedAt(l, g)
    BY <2>5
  <2>7. /\ g \in 1 .. n /\ reader[g] = "segments" /\ next = n - g
        /\ \A i \in g + 1 .. n : reader[i] = l
    BY <1>1, <2>6 DEF OpenedAt
  <2>8. ~(g < h)
    BY <2>2, <2>7
  <2>9. ~(h < g)
    <3>1. ASSUME h < g PROVE FALSE
      <4>1. g \in h + 1 .. h + room + 1 /\ g \in 1 .. n
        BY <1>1, <1>2, <1>3, <2>2, <2>3, <2>7, <3>1
      <4>2. reader[g] = l
        BY <1>1, <2>1, <4>1
      <4> QED  BY <2>7, <4>2
    <3> QED  BY <3>1
  <2>10. g = h
    <3>1. g \in Int /\ h \in Int
      BY <2>2, <2>7
    <3> QED  BY ONLY <2>8, <2>9, <3>1
  <2>11. next = room
    <3>1. n \in Int /\ h \in Int /\ room \in Int
      BY <1>1, <1>2, <1>3, <2>2
    <3> QED  BY ONLY <2>3, <2>7, <2>10, <3>1
  <2> QED  BY <1>2, <1>3, <2>5, <2>11
<1> QED  BY <1>4, <1>5, <1>6

(* A loop keeps its header as long as it reads its own lines.              *)
LEMMA OpenedNext ==
  ASSUME LoadInv, FileInv, NEW line, NEW n, LineRead(line, n), OverrunInv,
         NEW l \in {"code", "data"}, loop' = l
  PROVE  \E h : OpenedAt(l, h)'
<1>1. /\ n \in Nat /\ Len(file) = n /\ Len(file') = n + 1
      /\ Places = 1 .. n /\ Places' = 1 .. n + 1
      /\ file'[n + 1] = line /\ \A i \in 1 .. n : file'[i] = file[i]
      /\ reader'[n + 1] = loop /\ \A i \in 1 .. n : reader'[i] = reader[i]
  BY ReaderGrows
<1>2. line \in Lines /\ Read(line)
  BY DEF LineRead
<1>3. CASE loop = "segments"
  <2>1. (l = "code" /\ OpenCode(line)) \/ (l = "data" /\ OpenData(line))
    BY <1>2, <1>3 DEF Read, Parameter, ThreadCount, Skip, SetThread, OpenCode,
       OpenData, ReadInst, ReadWord, Close, RunWild, vars
  <2>2. line.kind = HeadOf(l) /\ next' = 0
    BY <1>2, <2>1, FirstTells DEF OpenCode, OpenData, HeadOf
  <2>3. PICK h : h = n + 1
    OBVIOUS
  <2>4. OpenedAt(l, h)'
    BY <1>1, <1>3, <2>2, <2>3 DEF OpenedAt
  <2> QED  BY <2>4
<1>4. CASE loop # "segments"
  <2>1. /\ loop = l /\ next' = next + 1 /\ Own(l, line)
    BY <1>2, <1>4 DEF Read, Parameter, ThreadCount, Skip, SetThread, OpenCode,
       OpenData, ReadInst, ReadWord, Close, RunWild, GoesOn, Own, vars
  <2>2. PICK h : OpenedAt(l, h)
    BY <2>1 DEF OverrunInv
  <2>3. /\ h \in 1 .. n /\ reader[h] = "segments" /\ file[h].kind = HeadOf(l)
        /\ next = n - h
        /\ \A i \in h + 1 .. n : reader[i] = l /\ Own(l, file[i])
    BY <1>1, <2>2 DEF OpenedAt
  <2>4. next' = (n + 1) - h
    BY <1>1, <2>1, <2>3
  <2>5. ASSUME NEW i \in h + 1 .. n + 1
        PROVE  reader'[i] = l /\ Own(l, file'[i])
    <3>1. CASE i = n + 1
      BY <1>1, <2>1, <3>1
    <3>2. CASE i # n + 1
      <4>1. i \in h + 1 .. n /\ i \in 1 .. n
        BY <1>1, <2>3, <3>2
      <4> QED  BY <1>1, <2>3, <4>1
    <3> QED  BY <3>1, <3>2
  <2>6. OpenedAt(l, h)'
    BY <1>1, <2>3, <2>4, <2>5 DEF OpenedAt
  <2> QED  BY <2>6
<1> QED  BY <1>3, <1>4

(* The spaces grow with the lines there is no room for, and only then.     *)
Outgrown == \E t \in DOMAIN instructions : DOMAIN instructions[t] # 0 .. Room - 1

LEMMA SpacesGrow ==
  ASSUME LoadInv, NEW line \in Lines, Read(line), loop # "params",
         loop = "code" /\ next > 0 => tid \in DOMAIN instructions
  PROVE  /\ Outgrown' <=> \/ Outgrown
                          \/ loop = "code" /\ Own("code", line) /\ next >= Room
         /\ DOMAIN data' # 0 .. DataRoom - 1 <=>
              \/ DOMAIN data # 0 .. DataRoom - 1
              \/ loop = "data" /\ Own("data", line) /\ next >= DataRoom
<1>1. /\ next \in Nat /\ Room \in Nat \ {0} /\ DataRoom \in Nat \ {0}
      /\ \A t \in DOMAIN instructions : 0 .. Room - 1 \subseteq DOMAIN instructions[t]
      /\ 0 .. DataRoom - 1 \subseteq DOMAIN data
  BY LoaderAssumption DEF LoadInv, Space
<1>2. CASE ReadInst(line)
  <2>1. /\ tid \in DOMAIN instructions /\ DOMAIN instructions' = DOMAIN instructions
        /\ DOMAIN instructions'[tid] = DOMAIN instructions[tid] \cup {next}
        /\ \A t \in DOMAIN instructions : t # tid => instructions'[t] = instructions[t]
    BY <1>2, InstEffect
  <2>2. loop = "code" /\ Own("code", line) /\ data' = data
    BY <1>2 DEF ReadInst, Own
  <2>3. next >= Room => next \notin 0 .. Room - 1
    BY <1>1
  <2>4. next < Room => next \in 0 .. Room - 1
    BY <1>1
  <2>5. CASE next >= Room
    <3>1. DOMAIN instructions'[tid] # 0 .. Room - 1
      BY <2>1, <2>3, <2>5
    <3> QED  BY <2>1, <2>2, <2>5, <3>1 DEF Outgrown
  <2>6. CASE ~(next >= Room)
    <3>1. DOMAIN instructions'[tid] = DOMAIN instructions[tid]
      <4>1. next \in DOMAIN instructions[tid]
        BY <1>1, <2>1, <2>4, <2>6
      <4> QED  BY <2>1, <4>1
    <3>2. \A t \in DOMAIN instructions : DOMAIN instructions'[t] = DOMAIN instructions[t]
      BY <2>1, <3>1
    <3> QED  BY <2>1, <2>2, <2>6, <3>2 DEF Outgrown
  <2> QED  BY <2>5, <2>6
<1>3. CASE ReadWord(line)
  <2>1. DOMAIN data' = DOMAIN data \cup {next}
    BY <1>3, WordEffect
  <2>2. loop = "data" /\ Own("data", line) /\ instructions' = instructions
    BY <1>3 DEF ReadWord, Own
  <2>3. next >= DataRoom => next \notin 0 .. DataRoom - 1
    BY <1>1
  <2>4. next < DataRoom => next \in 0 .. DataRoom - 1
    BY <1>1
  <2>5. CASE next >= DataRoom
    BY <2>1, <2>2, <2>3, <2>5 DEF Outgrown
  <2>6. CASE ~(next >= DataRoom)
    <3>1. DOMAIN data' = DOMAIN data
      <4>1. next \in DOMAIN data
        BY <1>1, <2>4, <2>6
      <4> QED  BY <2>1, <4>1
    <3> QED  BY <2>2, <2>6, <3>1 DEF Outgrown
  <2> QED  BY <2>5, <2>6
<1>4. CASE ~ReadInst(line) /\ ~ReadWord(line)
  <2>1. UNCHANGED <<instructions, data>>
    BY <1>4 DEF Read, Parameter, ThreadCount, Skip, SetThread, OpenCode,
       OpenData, Close, RunWild, vars, image
  <2>2. ~(loop = "code" /\ Own("code", line) /\ next >= Room)
    <3>1. ASSUME loop = "code", Own("code", line), next >= Room
          PROVE  FALSE
      <4>1. ~EndsCode(line) /\ line.kind = "inst"
        BY <3>1, FirstOfKinds DEF EndsCode, Own
      <4>2. tid \in DOMAIN instructions
        BY <1>1, <3>1
      <4> QED  BY <1>4, <3>1, <4>1, <4>2
               DEF Read, Parameter, ThreadCount, Skip, SetThread, OpenCode,
                   OpenData, Close, RunWild
    <3> QED  BY <3>1
  <2>3. ~(loop = "data" /\ Own("data", line))
    BY <1>4 DEF Read, Parameter, ThreadCount, Skip, SetThread, OpenCode,
       OpenData, Close, RunWild, Own
  <2> QED  BY <2>1, <2>2, <2>3 DEF Outgrown
<1> QED  BY <1>2, <1>3, <1>4

(* Every line keeps the invariant.                                         *)
LEMMA OverrunLine ==
  ASSUME LoadInv, FileInv, NEW line, NEW n, LineRead(line, n), OverrunInv
  PROVE  OverrunInv'
<1>1. /\ n \in Nat /\ Places = 1 .. n /\ Places' = 1 .. n + 1
      /\ reader'[n + 1] = loop /\ \A i \in 1 .. n : reader'[i] = reader[i]
  BY ReaderGrows
<1>2. line \in Lines /\ Read(line)
  BY DEF LineRead
<1>3. loop' # "failed" /\ loop # "failed" /\ (loop' = "params" => loop = "params")
  BY <1>2 DEF Read, Parameter, ThreadCount, Skip, SetThread, OpenCode,
     OpenData, ReadInst, ReadWord, Close, RunWild, GoesOn, vars
<1>4. loop = "params" => \A i \in Places' : reader'[i] = "params"
  BY <1>1 DEF OverrunInv
<1>5. \A l \in {"code", "data"} : loop' = l => \E h : OpenedAt(l, h)'
  BY OpenedNext
<1>6. loop' = "code" /\ next' > 0 => tid' \in DOMAIN instructions'
  <2>1. ASSUME loop' = "code", next' > 0
        PROVE  ReadInst(line)
    BY <1>2, <2>1 DEF Read, Parameter, ThreadCount, Skip, SetThread, OpenCode,
       OpenData, ReadInst, ReadWord, Close, RunWild, GoesOn, vars
  <2>2. ReadInst(line) => tid' = tid
    BY DEF ReadInst
  <2> QED  BY <1>2, <2>1, <2>2, InstEffect
<1>7. OverrunsAreLong'
  <2>1. CASE loop = "params"
    <3>1. ~LongCode' /\ ~LongData'
      <4>1. ASSUME NEW h \in Places' PROVE reader'[h] # "segments"
        BY <1>4, <2>1
      <4> QED  BY <4>1 DEF LongCode, LongData
    <3>2. ~LongCode /\ ~LongData
      <4>1. ASSUME NEW h \in Places PROVE reader[h] # "segments"
        BY <2>1 DEF OverrunInv
      <4> QED  BY <4>1 DEF LongCode, LongData
    <3>3. DOMAIN data = 0 .. DataRoom - 1 /\ ~Outgrown
      BY <3>2 DEF OverrunInv, OverrunsAreLong, Outgrown
    <3>4. CASE ThreadCount(line)
      <4>1. \A t \in DOMAIN instructions' : DOMAIN instructions'[t] = 0 .. Room - 1
        BY <3>4 DEF ThreadCount
      <4>2. data' = data
        BY <3>4 DEF ThreadCount
      <4> QED  BY <3>1, <3>3, <4>1, <4>2 DEF OverrunsAreLong
    <3>5. CASE ~ThreadCount(line)
      <4>1. UNCHANGED <<instructions, data>>
        BY <1>2, <2>1, <3>5 DEF Read, Parameter, Skip, SetThread, OpenCode,
           OpenData, ReadInst, ReadWord, Close, RunWild, vars, image
      <4> QED  BY <3>1, <3>3, <4>1 DEF OverrunsAreLong, Outgrown
    <3> QED  BY <3>4, <3>5
  <2>2. CASE loop # "params"
    <3>1. /\ Outgrown' <=> \/ Outgrown
                           \/ loop = "code" /\ Own("code", line) /\ next >= Room
          /\ DOMAIN data' # 0 .. DataRoom - 1 <=>
               \/ DOMAIN data # 0 .. DataRoom - 1
               \/ loop = "data" /\ Own("data", line) /\ next >= DataRoom
      BY <1>2, <2>2, SpacesGrow DEF OverrunInv
    <3>2. /\ Long("code")' <=> \/ Long("code")
                               \/ loop = "code" /\ Own("code", line) /\ next >= Room
          /\ Long("data")' <=> \/ Long("data")
                               \/ loop = "data" /\ Own("data", line) /\ next >= DataRoom
      <4>1. \A l \in {"code", "data"} :
              Long(l)' <=> Long(l) \/ (loop = l /\ Own(l, line) /\ next >= RoomIn(l))
        BY LongNext DEF OverrunInv
      <4>2. RoomIn("code") = Room /\ RoomIn("data") = DataRoom
        BY DEF RoomIn
      <4> QED  BY <4>1, <4>2
    <3>3. (Outgrown <=> Long("code")) /\ (DOMAIN data # 0 .. DataRoom - 1 <=> Long("data"))
      BY LongIsLong DEF OverrunInv, OverrunsAreLong, Outgrown
    <3>4. (Outgrown' <=> LongCode') /\ (DOMAIN data' # 0 .. DataRoom - 1 <=> LongData')
      BY <3>1, <3>2, <3>3, LongIsLongAfter
    <3> QED  BY <3>4 DEF OverrunsAreLong, Outgrown
  <2> QED  BY <2>1, <2>2
<1> QED  BY <1>3, <1>4, <1>5, <1>6, <1>7 DEF OverrunInv

(* A step that reads no line changes neither the files nor the spaces.     *)
LEMMA OverrunStill ==
  ASSUME OverrunInv, UNCHANGED <<file, reader, instructions>>,
         DOMAIN data' = DOMAIN data,
         UNCHANGED <<loop, next, tid>> \/ loop' \in {"loaded", "wild"}
  PROVE  OverrunInv'
<1>1. Places' = Places /\ (LongCode' <=> LongCode) /\ (LongData' <=> LongData)
  BY DEF Places, LongCode, LongData
<1>2. OverrunsAreLong'
  BY <1>1 DEF OverrunInv, OverrunsAreLong
<1>3. CASE loop' \in {"loaded", "wild"}
  BY <1>2, <1>3 DEF OverrunInv
<1>4. CASE UNCHANGED <<loop, next, tid>>
  <2>1. \A l, h : OpenedAt(l, h)' <=> OpenedAt(l, h)
    BY <1>1, <1>4 DEF OpenedAt
  <2> QED  BY <1>1, <1>2, <1>4, <2>1 DEF OverrunInv
<1> QED  BY <1>3, <1>4

LEMMA OverrunAtFirst == FileInit => LoadInv /\ FileInv /\ OverrunInv
<1> SUFFICES ASSUME FileInit PROVE OverrunInv
  BY LoadInit, FileAtFirst DEF FileInit
<1>1. Places = {} /\ loop \in {"params", "failed"}
  BY DEF FileInit, Init, Places
<1>2. DOMAIN instructions = {} /\ DOMAIN data = 0 .. DataRoom - 1
  BY DEF FileInit, Init
<1> QED  BY <1>1, <1>2 DEF OverrunInv, OverrunsAreLong, LongCode, LongData

LEMMA OverrunStep ==
  LoadInv /\ FileInv /\ OverrunInv /\ [FileNext]_allVars =>
    LoadInv' /\ FileInv' /\ OverrunInv'
<1> SUFFICES ASSUME LoadInv, FileInv, OverrunInv, [FileNext]_allVars
             PROVE  LoadInv' /\ FileInv' /\ OverrunInv'
  OBVIOUS
<1>1. LoadInv' /\ FileInv'
  BY LoadStep, FileStep DEF FileNext, Next, allVars
<1>2. ASSUME NEW line \in Lines, Read(line), file' = Append(file, line),
             reader' = Append(reader, loop)
      PROVE  OverrunInv'
  <2>1. LineRead(line, Len(file))
    BY <1>2 DEF LineRead
  <2> QED  BY <2>1, OverrunLine
<1>3. ASSUME EndOfFile, UNCHANGED <<file, reader>>
      PROVE  OverrunInv'
  <2>1. /\ loop' \in {"loaded", "wild"} /\ UNCHANGED instructions
        /\ data' = data \/ data' = [data EXCEPT ![0] = 0]
    BY <1>3 DEF EndOfFile
  <2> QED  BY <1>3, <2>1, OverrunStill
<1>4. ASSUME UNCHANGED allVars
      PROVE  OverrunInv'
  BY <1>4, OverrunStill DEF allVars, vars, image
<1> QED  BY <1>1, <1>2, <1>3, <1>4 DEF FileNext

(* For files of any length over any lines, and spaces of any size: memory  *)
(* behind a space is written exactly if one segment has more lines than    *)
(* there is room for.  What the loader takes of short segments never adds  *)
(* up, whatever comes between them.                                        *)
THEOREM OverrunsByLongSegments == FileSpec => []OverrunsAreLong
<1>1. LoadInv /\ FileInv /\ OverrunInv => OverrunsAreLong
  BY DEF OverrunInv
<1> QED  BY <1>1, OverrunAtFirst, OverrunStep, PTL DEF FileSpec

-----------------------------------------------------------------------------
(* Nothing but content comes behind the header h.                          *)
StillOpen(h) == \A j \in Places : j > h => file[j].kind = Content(h)

(* A line more goes on the body of the header that is still open, if it is *)
(* its content, and changes no other body.                                 *)
LEMMA BodyNext ==
  ASSUME FileInv, NEW line, NEW n, LineRead(line, n), NEW h \in 1 .. n
  PROVE  /\ Content(h)' = Content(h)
         /\ \A i : i \in Body(h)' <=>
                   \/ i \in Body(h)
                   \/ i = n + 1 /\ StillOpen(h) /\ line.kind = Content(h)
         /\ StillOpen(h)' <=> StillOpen(h) /\ line.kind = Content(h)
         /\ \A i \in Body(h) : i \in h + 1 .. n
<1>1. /\ n \in Nat /\ Places = 1 .. n /\ Places' = 1 .. n + 1
      /\ file'[n + 1] = line /\ \A i \in 1 .. n : file'[i] = file[i]
  BY FileGrows
<1>2. Content(h)' = Content(h)
  BY <1>1 DEF Content
<1>3. \A i : i \in Body(h) <=> /\ i \in h + 1 .. n
                             /\ \A j \in h + 1 .. i : file[j].kind = Content(h)
  BY <1>1 DEF Body
<1>4. \A i : i \in Body(h)' <=> /\ i \in h + 1 .. n + 1
                              /\ \A j \in h + 1 .. i : file'[j].kind = Content(h)
  BY <1>1, <1>2 DEF Body
<1>5. StillOpen(h) <=> \A j \in h + 1 .. n : file[j].kind = Content(h)
  BY <1>1 DEF StillOpen
<1>6. StillOpen(h)' <=> \A j \in h + 1 .. n + 1 : file'[j].kind = Content(h)
  BY <1>1, <1>2 DEF StillOpen
<1>7. ASSUME NEW i, i # n + 1
      PROVE  i \in Body(h)' <=> i \in Body(h)
  BY <1>1, <1>3, <1>4, <1>7
<1>8. n + 1 \in Body(h)' <=> StillOpen(h)'
  BY <1>1, <1>4, <1>6
<1>9. StillOpen(h)' <=> StillOpen(h) /\ line.kind = Content(h)
  BY <1>1, <1>5, <1>6
<1> QED  BY <1>1, <1>2, <1>3, <1>7, <1>8, <1>9

(* What the line just read heads is empty yet.                             *)
LEMMA NewHeader ==
  ASSUME FileInv, NEW line, NEW n, LineRead(line, n), NEW m, m = n + 1
  PROVE  Body(m)' = {} /\ StillOpen(m)'
<1>1. /\ n \in Nat /\ Places' = 1 .. n + 1
  BY FileGrows
<1> QED  BY <1>1 DEF Body, StillOpen

(* The greatest of some lines, as the image takes it.                      *)
LEMMA Greatest ==
  ASSUME NEW n \in Nat, NEW S \in SUBSET (1 .. n)
  PROVE  /\ S # {} => Max(S) \in S
         /\ \A x \in S : (\A y \in S : y <= x) => Max(S) = x
<1>1. CASE S # {}
  <2>1. n + 1 \in Nat /\ S \in SUBSET (0 .. (n + 1) - 1)
    OBVIOUS
  <2>2. Max(S) \in S /\ \A x \in S : x <= Max(S)
    BY <1>1, <2>1, LeastAndGreatest
  <2>3. ASSUME NEW x \in S, \A y \in S : y <= x
        PROVE  Max(S) = x
    <3>1. PICK g : g = Max(S)
      OBVIOUS
    <3>2. g \in S /\ x \in S /\ x <= g /\ g <= x
      BY <2>2, <2>3, <3>1
    <3>3. g \in Int /\ x \in Int
      BY <3>2
    <3> QED  BY <3>1, <3>2, <3>3
  <2> QED  BY <2>2, <2>3
<1> QED  BY <1>1

(* A line more does not change the threads of the code segments before it. *)
LEMMA ThreadNext ==
  ASSUME FileInv, NEW line, NEW n, LineRead(line, n), NEW h \in 1 .. n + 1
  PROVE  ThreadOf(h)' = ThreadOf(h)
<1> DEFINE S == {i \in Of({"T"}) : i < h}
<1>1. n \in Nat /\ \A i \in 1 .. n : file'[i] = file[i]
  BY FileGrows
<1>2. {i \in Of({"T"})' : i < h} = S
  BY <1>1, OfNext
<1>3. S \in SUBSET (1 .. n)
  BY OfNext
<1>4. S # {} => Max(S) \in 1 .. n
  BY <1>1, <1>3, Greatest
<1>5. ThreadOf(h) = IF S = {} THEN NoThread ELSE file[Max(S)].n
  BY DEF ThreadOf
<1>6. ThreadOf(h)' = IF S = {} THEN NoThread ELSE file'[Max(S)].n
  BY <1>2 DEF ThreadOf
<1> QED  BY <1>1, <1>4, <1>5, <1>6

(* What a header on the next line would be for: the thread of the last T.  *)
LEMMA ThreadLast ==
  ASSUME FileInv, NEW line, NEW n, LineRead(line, n), NEW m, m = n + 2
  PROVE  /\ loop = "params" => ThreadOf(n + 1) = NoThread /\ ThreadOf(m)' = NoThread
         /\ loop # "params" => ThreadOf(m)' = IF line.kind = "T" THEN line.n
                                              ELSE ThreadOf(n + 1)
<1> DEFINE S == {i \in Of({"T"}) : i < n + 1}
           U == {i \in Of({"T"})' : i < m}
<1>1. n \in Nat /\ file'[n + 1] = line /\ \A i \in 1 .. n : file'[i] = file[i]
  BY FileGrows
<1>2. ThreadOf(n + 1) = IF S = {} THEN NoThread ELSE file[Max(S)].n
  BY DEF ThreadOf
<1>3. ThreadOf(m)' = IF U = {} THEN NoThread ELSE file'[Max(U)].n
  BY DEF ThreadOf
<1>4. CASE loop = "params"
  BY <1>2, <1>3, <1>4, OfNext
<1>5. CASE loop # "params"
  <2>1. S \in SUBSET (1 .. n)
    BY OfNext
  <2>2. U = IF line.kind = "T" THEN S \cup {n + 1} ELSE S
    BY <1>1, <1>5, <2>1, OfNext
  <2>3. S # {} => Max(S) \in 1 .. n
    BY <1>1, <2>1, Greatest
  <2>4. ASSUME line.kind = "T" PROVE Max(U) = n + 1
    <3>1. PICK k : k = n + 1
      OBVIOUS
    <3>2. /\ k \in Nat /\ U \in SUBSET (1 .. k)
          /\ k \in U /\ \A y \in U : y <= k
      BY <1>1, <2>1, <2>2, <2>4, <3>1
    <3> HIDE DEF S, U
    <3> QED  BY <3>1, <3>2, Greatest
  <2> HIDE DEF S, U
  <2> QED  BY <1>1, <1>2, <1>3, <1>5, <2>2, <2>3, <2>4
<1> QED  BY <1>4, <1>5

(* How many lines the body of h has room for.                              *)
RoomOf(h) == IF file[h].kind = "I@" THEN Room ELSE DataRoom

(* What every beginning of a well-formed file satisfies: its end may be in *)
(* the middle of a segment, behind a header even, or before the N line.    *)
WellBegun ==
  /\ \A i \in Places : i < NLine => file[i].kind \in {"blank", "L", "S", "O"}
  /\ NLine \in Places => file[NLine].kind = "N"
  /\ \A i \in Places : i > NLine =>
       \/ file[i].kind \in {"blank", "T", "I@", "D@"}
       \/ \E h \in Headers : i \in Body(h)
  /\ \A h \in Headers :
       /\ \A i \in Body(h) : i - h <= RoomOf(h)
       /\ h < Len(file) => h + 1 \in Body(h)
       /\ \A i \in Body(h) : i < Len(file) /\ i + 1 \notin Body(h) =>
                               file[i + 1].kind = "blank"
       /\ file[h].kind = "I@" => ThreadOf(h) \in 0 .. file[NLine].n - 1

(* Where the loop stands in such a file: tid is the last thread named, the *)
(* open segment is that of a header, and next the lines read behind it.    *)
Position ==
  /\ loop # "params" => /\ params["N"] = file[NLine].n
                        /\ ThreadOf(Len(file) + 1) # NoThread =>
                             tid = ThreadOf(Len(file) + 1)
  /\ loop = "segments" => \A h \in Headers : ~StillOpen(h)
  /\ loop \in {"code", "data"} =>
       \E h \in Headers :
         /\ StillOpen(h) /\ next = Len(file) - h
         /\ file[h].kind = IF loop = "code" THEN "I@" ELSE "D@"

(* The headers among the lines so far, and the one more that a line adds.  *)
LEMMA HeadersThere ==
  ASSUME FileInv, NEW line, NEW n, LineRead(line, n)
  PROVE  /\ \A h \in Headers : /\ h \in 1 .. n /\ NLine < h
                               /\ file[h].kind \in {"I@", "D@"}
                               /\ Content(h) \in {"inst", "word"}
         /\ loop = "params" => Headers = {}
         /\ loop # "params" => \A h : h \in Headers' <=>
              h \in Headers \/ (h = n + 1 /\ line.kind \in {"I@", "D@"})
BY OfNext DEF Headers, Content

(* The lines before one that can begin a well-formed file begin one too.   *)
LEMMA BegunBefore ==
  ASSUME FileInv, NEW line, NEW n, LineRead(line, n), WellBegun'
  PROVE  WellBegun
<1>1. /\ n \in Nat /\ Len(file) = n /\ Len(file') = n + 1
      /\ Places = 1 .. n /\ Places' = 1 .. n + 1
      /\ file'[n + 1] = line /\ \A i \in 1 .. n : file'[i] = file[i]
  BY FileGrows
<1>2. /\ loop = "params" => NLine = n + 1 /\ NLine' \in {n + 1, n + 2}
      /\ loop # "params" => NLine \in 1 .. n /\ NLine' = NLine
  BY <1>1, NLineNext
<1>3. \A i \in Places : i < NLine => file[i].kind \in {"blank", "L", "S", "O"}
  BY <1>1, <1>2 DEF WellBegun
<1>4. NLine \in Places => file[NLine].kind = "N"
  BY <1>1, <1>2 DEF WellBegun
<1>5. ASSUME NEW i \in Places, i > NLine
      PROVE  \/ file[i].kind \in {"blank", "T", "I@", "D@"}
             \/ \E h \in Headers : i \in Body(h)
  <2>1. i \in 1 .. n /\ loop # "params" /\ i \in Places' /\ i > NLine'
    BY <1>1, <1>2, <1>5
  <2>2. \/ file[i].kind \in {"blank", "T", "I@", "D@"}
        \/ \E h \in Headers' : i \in Body(h)'
    BY <1>1, <2>1 DEF WellBegun
  <2>3. ASSUME NEW h \in Headers', i \in Body(h)'
        PROVE  h \in Headers /\ i \in Body(h)
    <3>1. h \in Headers \/ h = n + 1
      BY <2>1, HeadersThere
    <3>2. Body(n + 1)' = {}
      BY NewHeader
    <3>3. h \in Headers /\ h \in 1 .. n
      BY <2>3, <3>1, <3>2, HeadersThere
    <3> QED  BY <1>1, <2>1, <2>3, <3>3, BodyNext
  <2> QED  BY <2>2, <2>3
<1>6. ASSUME NEW h \in Headers
      PROVE  /\ \A i \in Body(h) : i - h <= RoomOf(h)
             /\ h < Len(file) => h + 1 \in Body(h)
             /\ \A i \in Body(h) : i < Len(file) /\ i + 1 \notin Body(h) =>
                                     file[i + 1].kind = "blank"
             /\ file[h].kind = "I@" => ThreadOf(h) \in 0 .. file[NLine].n - 1
  <2>1. h \in 1 .. n /\ loop # "params" /\ h \in Headers' /\ NLine' = NLine
        /\ NLine \in 1 .. n
    BY <1>2, HeadersThere
  <2>2. /\ \A i : i \in Body(h)' <=>
                   \/ i \in Body(h)
                   \/ i = n + 1 /\ StillOpen(h) /\ line.kind = Content(h)
        /\ \A i \in Body(h) : i \in h + 1 .. n
    BY <2>1, BodyNext
  <2>3. /\ \A i \in Body(h)' : i - h <= RoomOf(h)'
        /\ h < n + 1 => h + 1 \in Body(h)'
        /\ \A i \in Body(h)' : i < n + 1 /\ i + 1 \notin Body(h)' =>
                                 file'[i + 1].kind = "blank"
        /\ file'[h].kind = "I@" => ThreadOf(h)' \in 0 .. file'[NLine'].n - 1
    BY <1>1, <2>1 DEF WellBegun
  <2>4. RoomOf(h)' = RoomOf(h) /\ file'[h] = file[h] /\ file'[NLine'] = file[NLine]
    BY <1>1, <2>1 DEF RoomOf
  <2>5. ThreadOf(h)' = ThreadOf(h)
    BY <1>1, <2>1, ThreadNext
  <2>6. \A i \in Body(h) : i - h <= RoomOf(h)
    BY <2>2, <2>3, <2>4
  <2>7. h < Len(file) => h + 1 \in Body(h)
    BY <1>1, <2>1, <2>2, <2>3
  <2>8. ASSUME NEW i \in Body(h), i < n, i + 1 \notin Body(h)
        PROVE  file[i + 1].kind = "blank"
    <3>1. i + 1 # n + 1 /\ i + 1 \in 1 .. n
      BY <1>1, <2>1, <2>2, <2>8
    <3>2. i + 1 \notin Body(h)'
      BY <2>2, <2>8, <3>1
    <3> QED  BY <1>1, <2>2, <2>3, <2>8, <3>1, <3>2
  <2> QED  BY <1>1, <2>3, <2>4, <2>5, <2>6, <2>7, <2>8
<1> QED  BY <1>3, <1>4, <1>5, <1>6 DEF WellBegun

(* A body is the lines behind its header as far as they are content.       *)
LEMMA BodyIsRun ==
  ASSUME file \in Seq(Lines), NEW h \in Places
  PROVE  \E k \in Nat : /\ Body(h) = h + 1 .. h + k /\ h + k <= Len(file)
                        /\ Cardinality(Body(h)) = k
<1> DEFINE n == Len(file)
           S == {j \in h .. n : \A i \in h + 1 .. j : file[i].kind = Content(h)}
<1>1. n \in Nat /\ Places = 1 .. n /\ h \in 1 .. n
  BY DEF Places
<1>2. Body(h) = {i \in h + 1 .. n : \A j \in h + 1 .. i : file[j].kind = Content(h)}
  BY <1>1 DEF Body
<1> HIDE DEF n
<1>3. PICK m : m = Max(S)
  OBVIOUS
<1>4. h \in S /\ S \in SUBSET (1 .. n)
  BY <1>1
<1>5. m \in S /\ \A j \in S : j <= m
  <2> HIDE DEF S
  <2>1. n + 1 \in Nat /\ S \in SUBSET (0 .. (n + 1) - 1) /\ S # {}
    BY <1>1, <1>4
  <2> QED  BY <1>3, <2>1, LeastAndGreatest
<1>6. Body(h) = h + 1 .. m
  BY <1>1, <1>2, <1>5
<1>7. PICK k : k = m - h
  OBVIOUS
<1>8. k \in Nat /\ m = h + k /\ h + k <= n
  BY <1>1, <1>5, <1>7
<1>9. Cardinality(Body(h)) = k
  <2>1. Cardinality(h + 1 .. m) = IF h + 1 > m THEN 0 ELSE m - (h + 1) + 1
    <3>1. h + 1 \in Int /\ m \in Int
      BY <1>1, <1>5
    <3> QED  BY ONLY <3>1, FS_Interval
  <2> QED  BY ONLY <1>1, <1>6, <1>8, <2>1
<1> QED  BY <1>6, <1>8, <1>9 DEF n

(* A well-formed file is one that began well, and has a body behind every  *)
(* header.                                                                 *)
LEMMA WellFormedBegun ==
  ASSUME FileInv, WellFormed
  PROVE  /\ WellBegun /\ NLine \in Places
         /\ \A h \in Headers : h < Len(file)
<1> DEFINE n == Len(file)
<1>1. n \in Nat /\ Places = 1 .. n /\ file \in Seq(Lines) /\ NLine \in 1 .. n
  BY DEF Places, FileInv, WellFormed
<1>2. ASSUME NEW h \in Headers
      PROVE  /\ \A i \in Body(h) : i - h <= RoomOf(h)
             /\ h < n /\ h + 1 \in Body(h)
             /\ \A i \in Body(h) : i < n /\ i + 1 \notin Body(h) =>
                                     file[i + 1].kind = "blank"
             /\ file[h].kind = "I@" => ThreadOf(h) \in 0 .. file[NLine].n - 1
  <2>1. h \in Places
    BY DEF Headers, Of
  <2>2. PICK k \in Nat : /\ Body(h) = h + 1 .. h + k /\ h + k <= n
                         /\ Cardinality(Body(h)) = k
    BY <1>1, <2>1, BodyIsRun
  <2>3. /\ k \in 1 .. RoomOf(h)
        /\ h + k < n => file[h + k + 1].kind = "blank"
        /\ file[h].kind = "I@" => ThreadOf(h) \in 0 .. file[NLine].n - 1
    BY <2>2 DEF WellFormed, RoomOf
  <2>4. RoomOf(h) \in Nat
    BY LoaderAssumption DEF RoomOf
  <2>5. \A i \in Body(h) : i \in h + 1 .. h + k
    BY <2>2
  <2>6. ASSUME NEW i \in Body(h), i < n, i + 1 \notin Body(h)
        PROVE  file[i + 1].kind = "blank"
    <3>1. i = h + k
      BY <1>1, <2>1, <2>2, <2>6
    <3> QED  BY <2>3, <2>6, <3>1
  <2> HIDE DEF n
  <2> QED  BY <1>1, <2>1, <2>2, <2>3, <2>4, <2>5, <2>6
<1>3. WellBegun
  BY <1>1, <1>2 DEF WellFormed, WellBegun
<1> QED  BY <1>1, <1>2, <1>3

(* A segment that is still open is for the last thread named.              *)
LEMMA OpenForLast ==
  ASSUME FileInv, NEW line, NEW n, LineRead(line, n), NEW h \in Headers,
         StillOpen(h)
  PROVE  ThreadOf(h) = ThreadOf(n + 1)
<1>1. /\ n \in Nat /\ Places = 1 .. n /\ h \in 1 .. n
      /\ file[h].kind \in {"I@", "D@"} /\ Content(h) \in {"inst", "word"}
  BY FileGrows, HeadersThere
<1>2. \A i \in Of({"T"}) : i \in 1 .. n /\ file[i].kind = "T"
  BY OfNext
<1>3. \A i \in 1 .. n : i > h => file[i].kind = Content(h)
  BY <1>1 DEF StillOpen
<1>4. \A i \in Of({"T"}) : i < h <=> i < n + 1
  BY <1>1, <1>2, <1>3
<1>5. {i \in Of({"T"}) : i < h} = {i \in Of({"T"}) : i < n + 1}
  BY <1>4
<1> QED  BY <1>5 DEF ThreadOf

(* What the next line can be.                                              *)
LEMMA LineFits ==
  ASSUME FileInv, NEW line, NEW n, LineRead(line, n), WellBegun', Position
  PROVE  /\ loop = "params" => line.kind \in {"blank", "L", "S", "O", "N"}
         /\ loop = "segments" => line.kind \in {"blank", "T", "I@", "D@"}
         /\ \A h \in Headers : StillOpen(h) =>
              /\ line.kind \in {"blank", Content(h)}
              /\ line.kind = Content(h) => n - h < RoomOf(h)
<1>1. /\ n \in Nat /\ Places = 1 .. n /\ Places' = 1 .. n + 1 /\ Len(file') = n + 1
      /\ file'[n + 1] = line /\ \A i \in 1 .. n : file'[i] = file[i]
  BY FileGrows
<1>2. /\ loop = "params" =>
           NLine = n + 1 /\ NLine' = IF First(line) = "N" THEN n + 1 ELSE n + 2
      /\ loop # "params" => NLine \in 1 .. n /\ NLine' = NLine
  BY NLineNext
<1>3. ASSUME loop = "params"
      PROVE  line.kind \in {"blank", "L", "S", "O", "N"}
  <2>1. CASE First(line) = "N"
    BY <1>1, <1>2, <1>3, <2>1 DEF WellBegun
  <2>2. CASE First(line) # "N"
    BY <1>1, <1>2, <1>3, <2>2 DEF WellBegun
  <2> QED  BY <2>1, <2>2
<1>4. ASSUME loop = "segments"
      PROVE  line.kind \in {"blank", "T", "I@", "D@"}
  <2>1. n + 1 \in Places' /\ n + 1 > NLine'
    BY <1>1, <1>2, <1>4
  <2>2. \/ line.kind \in {"blank", "T", "I@", "D@"}
        \/ \E h \in Headers' : n + 1 \in Body(h)'
    BY <1>1, <2>1 DEF WellBegun
  <2>3. ASSUME NEW h \in Headers', n + 1 \in Body(h)'
        PROVE  FALSE
    <3>1. Body(n + 1)' = {}
      BY NewHeader
    <3>2. h \in Headers /\ h \in 1 .. n
      BY <1>4, <2>3, <3>1, HeadersThere
    <3>3. StillOpen(h)
      BY <1>1, <2>3, <3>2, BodyNext
    <3> QED  BY <1>4, <3>2, <3>3 DEF Position
  <2> QED  BY <2>2, <2>3
<1>5. ASSUME NEW h \in Headers, StillOpen(h)
      PROVE  /\ line.kind \in {"blank", Content(h)}
             /\ line.kind = Content(h) => n - h < RoomOf(h)
  <2>1. h \in 1 .. n /\ loop # "params" /\ h \in Headers'
    BY HeadersThere
  <2>2. /\ \A i : i \in Body(h)' <=>
                   \/ i \in Body(h)
                   \/ i = n + 1 /\ StillOpen(h) /\ line.kind = Content(h)
        /\ \A i \in Body(h) : i \in h + 1 .. n
    BY <2>1, BodyNext
  <2>3. /\ \A i \in Body(h)' : i - h <= RoomOf(h)'
        /\ h + 1 \in Body(h)'
        /\ \A i \in Body(h)' : i < n + 1 /\ i + 1 \notin Body(h)' =>
                                 file'[i + 1].kind = "blank"
    BY <1>1, <2>1 DEF WellBegun
  <2>4. RoomOf(h)' = RoomOf(h) /\ RoomOf(h) \in Nat
    BY <1>1, <2>1, LoaderAssumption DEF RoomOf
  <2>5. CASE line.kind = Content(h)
    <3>1. n + 1 \in Body(h)'
      BY <1>5, <2>2, <2>5
    <3>2. (n + 1) - h <= RoomOf(h)
      BY <2>3, <2>4, <3>1
    <3> QED  BY <1>1, <2>1, <2>4, <2>5, <3>2
  <2>6. CASE line.kind # Content(h)
    <3>1. h + 1 \in Body(h) /\ h + 1 <= n
      BY <2>1, <2>2, <2>3, <2>6
    <3>2. n \in Body(h)
      BY <1>1, <1>5, <2>1, <3>1 DEF Body, StillOpen
    <3>3. n + 1 \notin Body(h)' /\ n \in Body(h)'
      BY <1>1, <2>2, <2>6, <3>2
    <3>4. file'[n + 1].kind = "blank"
      BY <1>1, <2>3, <3>3
    <3> QED  BY <1>1, <2>6, <3>4
  <2> QED  BY <2>5, <2>6
<1> QED  BY <1>3, <1>4, <1>5

(* And what the loader does with it.                                       *)
Taken(line) ==
  \/ /\ loop = "params"
     /\ \/ line.kind \in {"L", "S", "O"} /\ Parameter(line)
        \/ line.kind = "N" /\ ThreadCount(line)
        \/ line.kind = "blank" /\ Skip(line)
  \/ /\ loop = "segments"
     /\ \/ line.kind = "T" /\ SetThread(line)
        \/ line.kind = "I@" /\ OpenCode(line)
        \/ line.kind = "D@" /\ OpenData(line)
        \/ line.kind = "blank" /\ Skip(line)
  \/ loop = "code" /\ line.kind = "inst" /\ next < Room /\ ReadInst(line)
  \/ loop = "data" /\ line.kind = "word" /\ next < DataRoom /\ ReadWord(line)
  \/ loop \in {"code", "data"} /\ line.kind = "blank" /\ Close(line)

(* Each loop takes only what belongs to it and has room for, and none runs *)
(* wild.                                                                   *)
LEMMA LineTaken ==
  ASSUME LoadInv, FileInv, NEW line, NEW n, LineRead(line, n), WellBegun, WellBegun',
         Position
  PROVE  Taken(line)
<1>1. /\ line \in Lines /\ Read(line) /\ n = Len(file)
      /\ loop \in {"params", "segments", "code", "data"}
  BY NLineNext DEF LineRead
<1>2. CASE loop = "params"
  <2>1. line.kind \in {"blank", "L", "S", "O", "N"}
    BY <1>2, LineFits
  <2>2. First(line) = IF line.kind = "blank" THEN "#" ELSE line.kind
    BY <1>1, <2>1, FirstOfKinds
  <2>3. Parameter(line) \/ ThreadCount(line) \/ Skip(line)
    BY <1>1, <1>2
       DEF Read, SetThread, OpenCode, OpenData, ReadInst, ReadWord, Close, RunWild
  <2> QED  BY <1>2, <2>1, <2>2, <2>3 DEF Taken, Parameter, ThreadCount, Skip
<1>3. CASE loop = "segments"
  <2>1. line.kind \in {"blank", "T", "I@", "D@"}
    BY <1>3, LineFits
  <2>2. SetThread(line) \/ OpenCode(line) \/ OpenData(line) \/ Skip(line)
    BY <1>1, <1>3
       DEF Read, Parameter, ThreadCount, ReadInst, ReadWord, Close, RunWild
  <2> QED  BY <1>1, <1>3, <2>1, <2>2, FirstTells
           DEF Taken, SetThread, OpenCode, OpenData, Skip
<1>4. CASE loop \in {"code", "data"}
  <2>1. PICK h \in Headers :
          /\ StillOpen(h) /\ next = n - h
          /\ file[h].kind = IF loop = "code" THEN "I@" ELSE "D@"
    BY <1>1, <1>4 DEF Position
  <2>2. /\ line.kind \in {"blank", Content(h)}
        /\ line.kind = Content(h) => n - h < RoomOf(h)
    BY <2>1, LineFits
  <2>3. Close(line) \/ ReadInst(line) \/ ReadWord(line) \/ RunWild(line)
    BY <1>1, <1>4
       DEF Read, Parameter, ThreadCount, Skip, SetThread, OpenCode, OpenData
  <2>4. CASE loop = "code"
    <3>1. Content(h) = "inst" /\ RoomOf(h) = Room
      BY <2>1, <2>4 DEF Content, RoomOf
    <3>2. EndsCode(line) <=> line.kind = "blank"
      BY <1>1, <2>2, <3>1, FirstTells DEF EndsCode
    <3>3. tid \in DOMAIN instructions
      <4>1. ThreadOf(n + 1) # NoThread => tid = ThreadOf(n + 1)
        BY <1>1, <2>4 DEF Position
      <4>2. params["N"] = file[NLine].n
        BY <1>1, <2>4 DEF Position
      <4>3. ThreadOf(h) = ThreadOf(n + 1)
        BY <2>1, OpenForLast
      <4>4. ThreadOf(h) \in 0 .. params["N"] - 1
        BY <2>1, <2>4, <4>2 DEF WellBegun
      <4>5. ThreadOf(h) # NoThread
        BY <4>4 DEF NoThread
      <4> QED  BY <4>1, <4>3, <4>4, <4>5 DEF LoadInv
    <3>4. ~RunWild(line)
      BY <2>1, <2>2, <2>4, <3>1, <3>2, <3>3 DEF RunWild
    <3> QED  BY <2>1, <2>2, <2>3, <2>4, <3>1, <3>2, <3>4
             DEF Taken, Close, ReadInst, ReadWord
  <2>5. CASE loop = "data"
    <3>1. Content(h) = "word" /\ RoomOf(h) = DataRoom
      BY <2>1, <2>5 DEF Content, RoomOf
    <3>2. EndsData(line) <=> line.kind = "blank"
      BY <1>1, <2>2, <3>1, FirstTells, FirstOfKinds DEF EndsData
    <3>3. ~RunWild(line)
      BY <2>5 DEF RunWild
    <3> QED  BY <2>1, <2>2, <2>3, <2>5, <3>1, <3>2, <3>3
             DEF Taken, Close, ReadInst, ReadWord
  <2> QED  BY <1>4, <2>4, <2>5
<1> QED  BY <1>1, <1>2, <1>3, <1>4

(* Only the last header can be open.                                       *)
LEMMA LastOpen ==
  ASSUME FileInv, NEW line, NEW n, LineRead(line, n), NEW h \in Headers,
         StillOpen(h), NEW g \in Headers
  PROVE  g <= h /\ (StillOpen(g) => g = h)
<1>1. /\ n \in Nat /\ Places = 1 .. n /\ h \in 1 .. n /\ g \in 1 .. n
      /\ file[h].kind \in {"I@", "D@"} /\ Content(h) \in {"inst", "word"}
      /\ file[g].kind \in {"I@", "D@"} /\ Content(g) \in {"inst", "word"}
  BY FileGrows, HeadersThere
<1>2. ~(g > h)
  BY <1>1 DEF StillOpen
<1>3. StillOpen(g) => ~(h > g)
  BY <1>1 DEF StillOpen
<1> QED  BY <1>1, <1>2, <1>3

(* The loop keeps its place.                                               *)
LEMMA PositionNext ==
  ASSUME LoadInv, FileInv, NEW line, NEW n, LineRead(line, n), WellBegun', Position,
         Taken(line)
  PROVE  Position'
<1>1. /\ line \in Lines /\ n \in Nat /\ Len(file) = n /\ Len(file') = n + 1
      /\ file'[n + 1] = line /\ \A i \in 1 .. n : file'[i] = file[i]
  BY FileGrows
<1>2. PICK m : m = n + 2
  OBVIOUS
<1>3. ThreadOf(Len(file) + 1)' = ThreadOf(m)' /\ ThreadOf(Len(file) + 1) = ThreadOf(n + 1)
  <2>1. Len(file') + 1 = m
    BY <1>1, <1>2
  <2> QED  BY <1>1, <2>1 DEF ThreadOf
<1>4. /\ loop = "params" => ThreadOf(m)' = NoThread
      /\ loop # "params" => ThreadOf(m)' = IF line.kind = "T" THEN line.n
                                           ELSE ThreadOf(n + 1)
  BY <1>2, ThreadLast
<1>5. CASE loop = "params"
  <2>1. Headers' = {}
    BY <1>5, OfNext DEF Headers
  <2>2. CASE line.kind = "N" /\ ThreadCount(line)
    <3>1. First(line) = "N" /\ Number(line) = line.n
      BY <1>1, <2>2, FirstOfKinds
    <3>2. NLine' = n + 1
      BY <1>5, <3>1, NLineNext
    <3>3. loop' = "segments" /\ params'["N"] = line.n
      BY <2>2, <3>1 DEF ThreadCount, LoadInv
    <3> QED  BY <1>1, <1>3, <1>4, <1>5, <2>1, <3>2, <3>3 DEF Position
  <2>3. CASE Parameter(line) \/ Skip(line)
    <3>1. loop' = "params"
      BY <1>5, <2>3 DEF Parameter, Skip, vars
    <3> QED  BY <3>1 DEF Position
  <2> QED  BY <1>5, <2>2, <2>3 DEF Taken
<1>6. CASE loop # "params"
  <2>1. /\ ThreadOf(n + 1) # NoThread => tid = ThreadOf(n + 1)
        /\ params["N"] = file[NLine].n
        /\ NLine' = NLine /\ NLine \in 1 .. n
    BY <1>3, <1>6, NLineNext DEF Position
  <2>2. params' = params /\ params'["N"] = file'[NLine'].n
    BY <1>1, <1>6, <2>1
       DEF Taken, SetThread, OpenCode, OpenData, Skip, ReadInst, ReadWord, Close,
           vars, image
  <2>3. \A h : h \in Headers' <=>
              h \in Headers \/ (h = n + 1 /\ line.kind \in {"I@", "D@"})
    BY <1>6, HeadersThere
  <2>4. \A h \in Headers : /\ h \in 1 .. n /\ Content(h) \in {"inst", "word"}
                           /\ (StillOpen(h)' <=> StillOpen(h) /\ line.kind = Content(h))
    BY HeadersThere, BodyNext
  <2>5. CASE loop = "segments" /\ line.kind \in {"T", "blank"}
    <3>1. loop' = "segments" /\ tid' = IF line.kind = "T" THEN line.n ELSE tid
      BY <1>1, <2>5, FirstOfKinds DEF Taken, SetThread, Skip, vars
    <3>2. \A h \in Headers' : ~StillOpen(h)'
      BY <2>3, <2>4, <2>5 DEF Position
    <3> QED  BY <1>3, <1>4, <1>6, <2>1, <2>2, <3>1, <3>2 DEF Position
  <2>6. CASE loop = "segments" /\ line.kind \in {"I@", "D@"}
    <3>1. PICK h : h = n + 1
      OBVIOUS
    <3>2. h \in Headers' /\ StillOpen(h)' /\ file'[h].kind = line.kind
      BY <1>1, <2>3, <2>6, <3>1, NewHeader
    <3>3. /\ loop' = IF line.kind = "I@" THEN "code" ELSE "data"
          /\ next' = 0 /\ 0 = Len(file') - h
      BY <1>1, <2>6, <3>1 DEF Taken, OpenCode, OpenData
    <3>4. tid' = tid
      BY <2>6 DEF Taken, OpenCode, OpenData
    <3>5. ThreadOf(m)' # NoThread => tid' = ThreadOf(m)'
      BY <1>4, <1>6, <2>1, <2>6, <3>4
    <3> QED  BY <1>1, <1>3, <2>2, <2>6, <3>2, <3>3, <3>5 DEF Position
  <2>7. CASE loop \in {"code", "data"} /\ line.kind = "blank"
    <3>1. loop' = "segments" /\ tid' = tid
      BY <2>7 DEF Taken, Close
    <3>2. \A h \in Headers' : ~StillOpen(h)'
      BY <2>3, <2>4, <2>7
    <3> QED  BY <1>3, <1>4, <1>6, <2>1, <2>2, <2>7, <3>1, <3>2 DEF Position
  <2>8. CASE loop \in {"code", "data"} /\ line.kind # "blank"
    <3>1. PICK h \in Headers :
            /\ StillOpen(h) /\ next = n - h
            /\ file[h].kind = IF loop = "code" THEN "I@" ELSE "D@"
      BY <1>1, <2>8 DEF Position
    <3>2. /\ loop' = loop /\ tid' = tid /\ next' = next + 1
          /\ line.kind = IF loop = "code" THEN "inst" ELSE "word"
      BY <2>8 DEF Taken, ReadInst, ReadWord, GoesOn
    <3>3. line.kind = Content(h)
      BY <2>8, <3>1, <3>2 DEF Content
    <3>4. h \in Headers' /\ StillOpen(h)' /\ file'[h].kind = file[h].kind
      BY <1>1, <2>3, <2>4, <3>1, <3>3
    <3>5. next' = Len(file') - h
      BY <1>1, <2>4, <3>1, <3>2
    <3>6. ThreadOf(m)' # NoThread => tid' = ThreadOf(m)'
      BY <1>4, <1>6, <2>1, <2>8, <3>2
    <3> QED  BY <1>3, <2>2, <2>8, <3>1, <3>2, <3>4, <3>5, <3>6 DEF Position
  <2> QED  BY <1>6, <2>5, <2>6, <2>7, <2>8 DEF Taken
<1> QED  BY <1>5, <1>6

(* The writers of an index: as before, and with a line of content the      *)
(* header whose segment it goes on.                                        *)
LEMMA WritersNext ==
  ASSUME FileInv, NEW line, NEW n, LineRead(line, n), loop # "params",
         NEW t, NEW k \in Nat, NEW h
  PROVE  /\ h \in Writers(Segments(t), k)' <=>
              \/ h \in Writers(Segments(t), k)
              \/ /\ h \in Segments(t) /\ StillOpen(h) /\ line.kind = "inst"
                 /\ h + k = n
         /\ h \in Writers(Of({"D@"}), k)' <=>
              \/ h \in Writers(Of({"D@"}), k)
              \/ /\ h \in Of({"D@"}) /\ StillOpen(h) /\ line.kind = "word"
                 /\ h + k = n
<1>1. n \in Nat
  BY FileGrows
<1>2. ASSUME h \in 1 .. n
      PROVE  h + k + 1 \in Body(h)' <=>
               \/ h + k + 1 \in Body(h)
               \/ h + k = n /\ StillOpen(h) /\ line.kind = Content(h)
  BY <1>1, <1>2, BodyNext
<1>3. Body(n + 1)' = {}
  BY NewHeader
<1>4. /\ h \in Of({"I@"}) => h \in 1 .. n /\ Content(h) = "inst"
      /\ h \in Of({"D@"}) => h \in 1 .. n /\ Content(h) = "word"
  BY OfNext DEF Content
<1>5. /\ h \in Of({"I@"})' <=> h \in Of({"I@"}) \/ (h = n + 1 /\ line.kind = "I@")
      /\ h \in Of({"D@"})' <=> h \in Of({"D@"}) \/ (h = n + 1 /\ line.kind = "D@")
  BY OfNext
<1>6. h \in 1 .. n => ThreadOf(h)' = ThreadOf(h)
  BY <1>1, ThreadNext
<1>7. /\ h \in Writers(Segments(t), k)' <=>
           h \in Of({"I@"})' /\ ThreadOf(h)' = t /\ h + k + 1 \in Body(h)'
      /\ h \in Writers(Of({"D@"}), k)' <=> h \in Of({"D@"})' /\ h + k + 1 \in Body(h)'
  BY DEF Writers, Segments
<1>8. /\ h \in Writers(Segments(t), k) <=>
           h \in Of({"I@"}) /\ ThreadOf(h) = t /\ h + k + 1 \in Body(h)
      /\ h \in Writers(Of({"D@"}), k) <=> h \in Of({"D@"}) /\ h + k + 1 \in Body(h)
      /\ h \in Segments(t) <=> h \in Of({"I@"}) /\ ThreadOf(h) = t
  BY DEF Writers, Segments
<1> QED  BY <1>2, <1>3, <1>4, <1>5, <1>6, <1>7, <1>8

(* The line that says what is at an index is one of those read.            *)
LEMMA WriterThere ==
  ASSUME FileInv, NEW line, NEW n, LineRead(line, n), NEW k \in Nat,
         NEW hs \in SUBSET Headers, Writers(hs, k) # {}
  PROVE  /\ Max(Writers(hs, k)) + k + 1 \in 1 .. n
         /\ file'[Max(Writers(hs, k)) + k + 1] = file[Max(Writers(hs, k)) + k + 1]
<1>1. /\ n \in Nat /\ Places = 1 .. n /\ \A i \in 1 .. n : file'[i] = file[i]
  BY FileGrows
<1>2. Writers(hs, k) \in SUBSET (1 .. n)
  BY HeadersThere DEF Writers
<1>3. Max(Writers(hs, k)) \in Writers(hs, k)
  BY <1>1, <1>2, Greatest
<1>4. Max(Writers(hs, k)) + k + 1 \in Places
  BY <1>3 DEF Writers, Body
<1> QED  BY <1>1, <1>4

(* get_inst leaves in the space of the thread what the line says.          *)
LEMMA DecodedSays ==
  ASSUME NEW line \in Lines, line.kind = "inst", NEW old \in Instruction
  PROVE  Says(line, Decoded(line, old))
<1>1. line.opcode \in Opcodes /\ line.dollar \in BOOLEAN
  BY LoaderAssumption
<1>2. CASE line.opcode = "NOP"
  BY <1>2 DEF Says, Decoded, Instruction
<1>3. CASE line.opcode = "HALT"
  BY <1>3 DEF Says, Decoded, Junk
<1>4. CASE line.opcode \notin {"NOP", "HALT"}
  <2> DEFINE R(b) == [opcode |-> line.opcode, dst |-> line.dst,
                      src1 |-> line.src1, src2 |-> line.src2, imm |-> b]
  <2>1. Decoded(line, old) = R(~line.dollar)
    BY <1>1, <1>4 DEF Decoded, Opcodes
  <2>2. PICK i : i = Decoded(line, old)
    OBVIOUS
  <2>3. /\ i.opcode = line.opcode /\ i.dst = line.dst
        /\ i.src1 = line.src1 /\ i.src2 = line.src2
    BY <2>1, <2>2
  <2>4. i.imm = ~line.dollar
    <3>1. \A b : R(b).imm = b
      OBVIOUS
    <3> HIDE DEF R
    <3> QED  BY <2>1, <2>2, <3>1, Zenon
  <2>5. line.dollar <=> ~i.imm
    BY <1>1, <2>4, Zenon
  <2>6. Says(line, i)
    BY <2>3, <2>5, Zenon DEF Says
  <2> QED  BY <2>2, <2>6
<1> QED  BY <1>2, <1>3, <1>4

(* The instructions stay what the lines say, with the line just read.      *)
LEMMA CodeNext ==
  ASSUME LoadInv, FileInv, NEW line, NEW n, LineRead(line, n), WellBegun,
         Position, Taken(line), CodeLoaded
  PROVE  CodeLoaded'
<1>1. /\ line \in Lines /\ n \in Nat /\ Len(file) = n
      /\ file'[n + 1] = line /\ \A i \in 1 .. n : file'[i] = file[i]
  BY FileGrows
<1>2. Room \in Nat /\ params["N"] \in Int
  BY LoaderAssumption DEF LoadInv
<1>3. CASE loop = "params"
  <2>1. \A t, k : Writers(Segments(t), k)' = {}
    BY <1>3, OfNext DEF Writers, Segments
  <2>2. CASE line.kind = "N" /\ ThreadCount(line)
    <3>1. /\ params'["N"] = Number(line)
          /\ instructions' = [t \in 0 .. Number(line) - 1 |->
                                [k \in 0 .. Room - 1 |-> Junk]]
      BY <2>2 DEF ThreadCount, LoadInv
    <3> QED  BY <2>1, <3>1 DEF CodeLoaded
  <2>3. CASE Parameter(line) \/ Skip(line)
    <3>1. params["N"] = 0
      BY <1>3 DEF LoadInv
    <3>2. params'["N"] = params["N"]
      BY <1>3, <2>3 DEF Parameter, Skip, vars, image, LoadInv
    <3>3. 0 .. params'["N"] - 1 = {}
      BY <3>1, <3>2
    <3> QED  BY <3>3 DEF CodeLoaded
  <2> QED  BY <1>3, <2>2, <2>3 DEF Taken
<1>4. CASE loop # "params"
  <2>1. params' = params
    BY <1>4 DEF Taken, SetThread, OpenCode, OpenData, Skip, ReadInst, ReadWord,
                Close, vars, image
  <2> SUFFICES ASSUME NEW t \in 0 .. params["N"] - 1, NEW k \in 0 .. Room - 1
               PROVE  IF Writers(Segments(t), k)' = {} THEN instructions'[t][k] = Junk
                      ELSE Says(file'[Max(Writers(Segments(t), k)') + k + 1],
                                instructions'[t][k])
    BY <2>1 DEF CodeLoaded
  <2>2. k \in Nat
    BY <1>2
  <2>3. PICK ws : ws = Writers(Segments(t), k)
    OBVIOUS
  <2>4. PICK more : more = Writers(Segments(t), k)'
    OBVIOUS
  <2>5. Segments(t) \in SUBSET Headers /\ ws \in SUBSET Headers
    BY <2>3 DEF Segments, Headers, Of, Writers
  <2>6. \A h : h \in more <=> \/ h \in ws
                              \/ /\ h \in Segments(t) /\ StillOpen(h)
                                 /\ line.kind = "inst" /\ h + k = n
    BY <1>4, <2>2, <2>3, <2>4, WritersNext
  <2>7. IF ws = {} THEN instructions[t][k] = Junk
        ELSE Says(file[Max(ws) + k + 1], instructions[t][k])
    BY <2>3 DEF CodeLoaded
  <2>8. ws # {} => file'[Max(ws) + k + 1] = file[Max(ws) + k + 1]
    BY <2>2, <2>3, <2>5, WriterThere
  <2>9. ASSUME more = ws, instructions'[t][k] = instructions[t][k]
        PROVE  IF more = {} THEN instructions'[t][k] = Junk
               ELSE Says(file'[Max(more) + k + 1], instructions'[t][k])
    BY <2>7, <2>8, <2>9
  <2>10. CASE line.kind # "inst"
    <3>1. more = ws
      BY <2>6, <2>10
    <3>2. instructions' = instructions
      BY <1>4, <2>10 DEF Taken, SetThread, OpenCode, OpenData, Skip, ReadWord, Close,
                         vars, image
    <3> QED  BY <2>4, <2>9, <3>1, <3>2
  <2>11. CASE line.kind = "inst"
    <3>1. loop = "code" /\ ReadInst(line)
      BY <1>4, <2>11 DEF Taken
    <3>2. PICK h \in Headers :
            StillOpen(h) /\ next = n - h /\ file[h].kind = "I@"
      BY <1>1, <3>1 DEF Position
    <3>3. /\ h \in 1 .. n
          /\ \A g \in Headers : g \in 1 .. n /\ g <= h /\ (StillOpen(g) => g = h)
      BY <3>2, HeadersThere, LastOpen
    <3>4. t = tid <=> h \in Segments(t)
      <4>1. ThreadOf(h) = ThreadOf(n + 1)
        BY <3>2, OpenForLast
      <4>2. ThreadOf(h) # NoThread => tid = ThreadOf(h)
        BY <1>1, <3>1, <4>1 DEF Position
      <4>3. ThreadOf(h) \in 0 .. params["N"] - 1
        <5>1. params["N"] = file[NLine].n
          BY <1>4 DEF Position
        <5> QED  BY <3>2, <5>1 DEF WellBegun
      <4>4. ThreadOf(h) # NoThread
        BY <1>2, <4>3 DEF NoThread
      <4> QED  BY <3>2, <4>2, <4>4 DEF Segments, Headers, Of
    <3>5. /\ next \in 0 .. Room - 1 /\ loop = "code"
      BY <1>2, <1>4, <2>11, <3>1 DEF Taken, LoadInv
    <3>6. /\ instructions'[tid][next] =
               Decoded(line, At(instructions[tid], next))
          /\ At(instructions[tid], next) \in Instruction
          /\ \A i \in DOMAIN instructions[tid] :
               i # next => instructions'[tid][i] = instructions[tid][i]
          /\ \A x \in DOMAIN instructions :
               x # tid => instructions'[x] = instructions[x]
      BY <1>1, <3>1, InstEffect
    <3>7. /\ t \in DOMAIN instructions /\ k \in DOMAIN instructions[t]
      BY DEF LoadInv, Space
    <3>8. CASE t = tid /\ k = next
      <4>1. h \in more /\ h + k = n
        BY <1>1, <2>6, <2>11, <3>2, <3>3, <3>4, <3>8
      <4>2. more \in SUBSET (1 .. n) /\ \A g \in more : g <= h
        BY <2>5, <2>6, <3>3
      <4>3. Max(more) = h
        BY <1>1, <4>1, <4>2, Greatest
      <4>4. file'[Max(more) + k + 1] = line
        BY <1>1, <4>1, <4>3
      <4>5. instructions'[t][k] = Decoded(line, At(instructions[tid], next))
        BY <3>6, <3>8
      <4>6. Says(line, instructions'[t][k])
        BY <1>1, <2>11, <3>6, <4>5, DecodedSays
      <4> QED  BY <2>4, <4>1, <4>4, <4>6
    <3>9. CASE ~(t = tid /\ k = next)
      <4>1. instructions'[t][k] = instructions[t][k]
        BY <3>6, <3>7, <3>9
      <4>2. ASSUME NEW g \in Segments(t), StillOpen(g), g + k = n
            PROVE  FALSE
        <5>1. g = h
          BY <2>5, <3>3, <4>2
        <5>2. t = tid /\ k = next
          BY <1>1, <2>2, <3>2, <3>3, <3>4, <4>2, <5>1
        <5> QED  BY <3>9, <5>2
      <4>3. more = ws
        BY <2>6, <4>2
      <4> QED  BY <2>4, <2>9, <4>1, <4>3
    <3> QED  BY <3>8, <3>9
  <2> QED  BY <2>10, <2>11
<1> QED  BY <1>3, <1>4

(* So does the data memory, with the address it starts at.                 *)
LEMMA DataNext ==
  ASSUME LoadInv, FileInv, NEW line, NEW n, LineRead(line, n), Position,
         Taken(line), DataLoaded
  PROVE  DataLoaded'
<1>1. /\ line \in Lines /\ n \in Nat /\ Len(file) = n
      /\ file'[n + 1] = line /\ \A i \in 1 .. n : file'[i] = file[i]
  BY FileGrows
<1>2. DataRoom \in Nat
  BY LoaderAssumption
<1>3. CASE loop = "params"
  <2>1. Of({"D@"}) = {} /\ Of({"D@"})' = {}
    BY <1>3, OfNext
  <2>2. \A k : Writers(Of({"D@"}), k) = {} /\ Writers(Of({"D@"}), k)' = {}
    BY <2>1 DEF Writers
  <2>3. data' = data /\ data_start' = data_start
    BY <1>3 DEF Taken, Parameter, ThreadCount, Skip, vars, image
  <2> QED  BY <2>1, <2>2, <2>3 DEF DataLoaded
<1>4. CASE loop # "params"
  <2>1. ASSUME NEW k \in 0 .. DataRoom - 1
        PROVE  data'[k] = IF Writers(Of({"D@"}), k)' = {} THEN 0
                          ELSE file'[Max(Writers(Of({"D@"}), k)') + k + 1].n
    <3>2. k \in Nat
      BY <1>2
    <3>3. PICK ws : ws = Writers(Of({"D@"}), k)
      OBVIOUS
    <3>4. PICK more : more = Writers(Of({"D@"}), k)'
      OBVIOUS
    <3>5. Of({"D@"}) \in SUBSET Headers /\ ws \in SUBSET Headers
      BY <3>3 DEF Headers, Of, Writers
    <3>6. \A h : h \in more <=> \/ h \in ws
                                \/ /\ h \in Of({"D@"}) /\ StillOpen(h)
                                   /\ line.kind = "word" /\ h + k = n
      BY <1>4, <3>2, <3>3, <3>4, WritersNext
    <3>7. data[k] = IF ws = {} THEN 0 ELSE file[Max(ws) + k + 1].n
      BY <3>3 DEF DataLoaded
    <3>8. ws # {} => file'[Max(ws) + k + 1] = file[Max(ws) + k + 1]
      BY <3>2, <3>3, <3>5, WriterThere
    <3>9. ASSUME more = ws, data'[k] = data[k]
          PROVE  data'[k] = IF more = {} THEN 0 ELSE file'[Max(more) + k + 1].n
      BY <3>7, <3>8, <3>9
    <3>10. CASE line.kind # "word"
      <4>1. more = ws
        BY <3>6, <3>10
      <4>2. data' = data
        BY <1>4, <3>10 DEF Taken, SetThread, OpenCode, OpenData, Skip, ReadInst,
                           Close, vars, image
      <4> QED  BY <3>4, <3>9, <4>1, <4>2
    <3>11. CASE line.kind = "word"
      <4>1. loop = "data" /\ ReadWord(line)
        BY <1>4, <3>11 DEF Taken
      <4>2. PICK h \in Headers :
              StillOpen(h) /\ next = n - h /\ file[h].kind = "D@"
        BY <1>1, <4>1 DEF Position
      <4>3. /\ h \in 1 .. n
            /\ \A g \in Headers : g \in 1 .. n /\ g <= h /\ (StillOpen(g) => g = h)
        BY <4>2, HeadersThere, LastOpen
      <4>4. h \in Of({"D@"})
        BY <4>2 DEF Headers, Of
      <4>5. /\ data'[next] = line.n /\ k \in DOMAIN data
            /\ \A i \in DOMAIN data : i # next => data'[i] = data[i]
        BY <1>1, <3>11, <4>1, WordEffect, FirstOfKinds DEF LoadInv, Space
      <4>6. CASE k = next
        <5>1. h \in more /\ h + k = n
          BY <1>1, <3>6, <3>11, <4>2, <4>3, <4>4, <4>6
        <5>2. more \in SUBSET (1 .. n) /\ \A g \in more : g <= h
          BY <3>5, <3>6, <4>3
        <5>3. Max(more) = h
          BY <1>1, <5>1, <5>2, Greatest
        <5>4. file'[Max(more) + k + 1] = line
          BY <1>1, <5>1, <5>3
        <5>5. data'[k] = line.n
          BY <4>5, <4>6
        <5> QED  BY <3>4, <5>1, <5>4, <5>5
      <4>7. CASE k # next
        <5>1. data'[k] = data[k]
          BY <4>5, <4>7
        <5>2. ASSUME NEW g \in Of({"D@"}), StillOpen(g), g + k = n
              PROVE  FALSE
          <6>1. g = h
            BY <3>5, <4>3, <5>2
          <6> QED  BY <1>1, <3>2, <4>2, <4>3, <4>7, <5>2, <6>1
        <5>3. more = ws
          BY <3>6, <5>2
        <5> QED  BY <3>4, <3>9, <5>1, <5>3
      <4> QED  BY <4>6, <4>7
    <3> QED  BY <3>10, <3>11
  <2>2. data_start' = IF Of({"D@"})' = {} THEN 0 ELSE file'[Max(Of({"D@"})')].n
    <3>1. PICK S : S = Of({"D@"})
      OBVIOUS
    <3>2. PICK U : U = Of({"D@"})'
      OBVIOUS
    <3>3. S \in SUBSET (1 .. n) /\ U = IF line.kind = "D@" THEN S \cup {n + 1} ELSE S
      BY <1>4, <3>1, <3>2, OfNext
    <3>4. data_start = IF S = {} THEN 0 ELSE file[Max(S)].n
      BY <3>1 DEF DataLoaded
    <3>5. CASE line.kind = "D@"
      <4>1. PICK m : m = n + 1
        OBVIOUS
      <4>2. m \in Nat /\ U \in SUBSET (1 .. m) /\ m \in U /\ \A y \in U : y <= m
        BY <1>1, <3>3, <3>5, <4>1
      <4>3. Max(U) = m
        BY <4>2, Greatest
      <4>4. data_start' = line.n
        BY <1>4, <3>5 DEF Taken, OpenData
      <4> QED  BY <1>1, <3>2, <4>1, <4>2, <4>3, <4>4
    <3>6. CASE line.kind # "D@"
      <4>1. data_start' = data_start
        BY <1>4, <3>6 DEF Taken, SetThread, OpenCode, Skip, ReadInst, ReadWord,
                          Close, vars, image
      <4>2. S # {} => Max(S) \in 1 .. n
        BY <1>1, <3>3, Greatest
      <4> QED  BY <1>1, <3>2, <3>3, <3>4, <3>6, <4>1, <4>2
    <3> QED  BY <3>5, <3>6
  <2> QED  BY <2>1, <2>2 DEF DataLoaded
<1> QED  BY <1>3, <1>4

(* And so do the parameters.                                               *)
LEMMA ParamsNext ==
  ASSUME LoadInv, FileInv, NEW line, NEW n, LineRead(line, n), Taken(line),
         ParamsLoaded
  PROVE  ParamsLoaded'
<1>1. /\ line \in Lines /\ n \in Nat /\ Places = 1 .. n /\ Places' = 1 .. n + 1
      /\ file'[n + 1] = line /\ \A i \in 1 .. n : file'[i] = file[i]
  BY FileGrows
<1> SUFFICES ASSUME NEW c \in {"L", "S", "O", "N"}
             PROVE  params'[c] =
                      IF {i \in Places' : i <= NLine' /\ file'[i].kind = c} = {} THEN 0
                      ELSE file'[Max({i \in Places' :
                                        i <= NLine' /\ file'[i].kind = c})].n
  BY DEF ParamsLoaded
<1>2. PICK S : S = {i \in Places : i <= NLine /\ file[i].kind = c}
  OBVIOUS
<1>3. PICK U : U = {i \in Places' : i <= NLine' /\ file'[i].kind = c}
  OBVIOUS
<1>4. /\ loop = "params" => NLine = n + 1 /\ NLine' \in {n + 1, n + 2}
      /\ loop # "params" => NLine \in 1 .. n /\ NLine' = NLine
  BY <1>1, NLineNext
<1>5. /\ S \in SUBSET (1 .. n)
      /\ U = IF loop = "params" /\ line.kind = c THEN S \cup {n + 1} ELSE S
  BY <1>1, <1>2, <1>3, <1>4
<1>6. params[c] = IF S = {} THEN 0 ELSE file[Max(S)].n
  BY <1>2 DEF ParamsLoaded
<1>7. CASE loop = "params" /\ line.kind = c
  <2>1. PICK m : m = n + 1
    OBVIOUS
  <2>2. m \in Nat /\ U \in SUBSET (1 .. m) /\ m \in U /\ \A y \in U : y <= m
    BY <1>1, <1>5, <1>7, <2>1
  <2>3. Max(U) = m
    BY <2>2, Greatest
  <2>4. First(line) = c /\ Number(line) = line.n
    BY <1>1, <1>7, FirstOfKinds
  <2>5. params'[c] = line.n
    BY <1>7, <2>4 DEF Taken, Parameter, ThreadCount, LoadInv
  <2> QED  BY <1>1, <1>3, <2>1, <2>2, <2>3, <2>5
<1>8. CASE ~(loop = "params" /\ line.kind = c)
  <2>1. line.kind \in {"L", "S", "O", "N"} => First(line) = line.kind
    BY <1>1, FirstOfKinds
  <2>2. params'[c] = params[c]
    BY <1>8, <2>1
       DEF LoadInv, Taken, Parameter, ThreadCount, SetThread, OpenCode, OpenData, Skip,
           ReadInst, ReadWord, Close, vars, image
  <2>3. S # {} => Max(S) \in 1 .. n
    BY <1>1, <1>5, Greatest
  <2> QED  BY <1>1, <1>3, <1>5, <1>6, <1>8, <2>2, <2>3
<1> QED  BY <1>7, <1>8

-----------------------------------------------------------------------------
(* The invariant: as long as the lines can begin a well-formed file, the   *)
(* loop knows its place in it and the image is what the lines say so far.  *)
Reading == loop \in {"params", "segments", "code", "data"}

LoadedSoFar ==
  Reading /\ WellBegun => Position /\ CodeLoaded /\ DataLoaded /\ ParamsLoaded

ImageInv == LoadInv /\ FileInv /\ LoadedSoFar /\ LoadsTheImage

(* The invariant holds of the empty file.                                  *)
LEMMA ImageAtFirst == FileInit => ImageInv
<1> SUFFICES ASSUME FileInit PROVE ImageInv
  OBVIOUS
<1>1. LoadInv /\ FileInv
  BY LoadInit, FileAtFirst DEF FileInit
<1>2. /\ loop \in {"params", "failed"} /\ Places = {} /\ data_start = 0
      /\ params = [c \in {"L", "S", "O", "N"} |-> 0]
      /\ data = [k \in 0 .. DataRoom - 1 |-> 0]
  BY DEF FileInit, Init, Places
<1>3. \A K : Of(K) = {}
  BY <1>2 DEF Of
<1>4. \A hs, k : Writers(hs, k) = {}
  BY <1>2 DEF Writers, Body
<1>5. CodeLoaded
  <2>1. 0 .. params["N"] - 1 = {}
    BY <1>2
  <2> QED  BY <2>1 DEF CodeLoaded
<1>6. DataLoaded
  BY <1>2, <1>3, <1>4 DEF DataLoaded
<1>7. ParamsLoaded
  BY <1>2 DEF ParamsLoaded
<1>8. Reading => Position
  BY <1>2 DEF Position, Reading
<1> QED  BY <1>1, <1>2, <1>5, <1>6, <1>7, <1>8 DEF ImageInv, LoadedSoFar, LoadsTheImage

(* A line that can go on a well-formed file keeps it.                      *)
LEMMA LineKeepsImage ==
  ASSUME ImageInv, NEW line, NEW n, LineRead(line, n), WellBegun'
  PROVE  Reading' /\ LoadedSoFar'
<1>1. LoadInv /\ FileInv
  BY DEF ImageInv
<1>2. WellBegun /\ Reading
  BY <1>1, BegunBefore, NLineNext DEF Reading
<1>3. Position /\ CodeLoaded /\ DataLoaded /\ ParamsLoaded
  BY <1>2 DEF ImageInv, LoadedSoFar
<1>4. Taken(line)
  BY <1>1, <1>2, <1>3, LineTaken
<1>5. Reading'
  BY <1>4 DEF Taken, Parameter, ThreadCount, SetThread, OpenCode, OpenData, Skip,
              ReadInst, ReadWord, GoesOn, Close, vars, Reading
<1>6. Position'
  BY <1>1, <1>3, <1>4, PositionNext
<1>7. CodeLoaded'
  BY <1>1, <1>2, <1>3, <1>4, CodeNext
<1>8. DataLoaded'
  BY <1>1, <1>3, <1>4, DataNext
<1>9. ParamsLoaded'
  BY <1>1, <1>3, <1>4, ParamsNext
<1> QED  BY <1>5, <1>6, <1>7, <1>8, <1>9 DEF LoadedSoFar

(* What the file says stays so as long as it is the same file.             *)
LEMMA FileSame ==
  ASSUME UNCHANGED file
  PROVE  /\ Places' = Places /\ NLine' = NLine /\ Headers' = Headers
         /\ \A K : Of(K)' = Of(K)
         /\ \A h : Body(h)' = Body(h) /\ ThreadOf(h)' = ThreadOf(h)
         /\ \A t : Segments(t)' = Segments(t)
         /\ WellFormed' <=> WellFormed
<1>1. Places' = Places /\ NLine' = NLine /\ file' = file
  BY DEF NLine, Places
<1>2. \A K : Of(K)' = Of(K)
  BY <1>1 DEF Of
<1>3. Headers' = Headers
  BY <1>2 DEF Headers
<1>4. \A h : Body(h)' = Body(h) /\ ThreadOf(h)' = ThreadOf(h)
  BY <1>1, <1>2 DEF Body, Content, ThreadOf
<1>5. WellFormed' <=> WellFormed
  BY <1>1, <1>3, <1>4 DEF WellFormed
<1>6. \A t : Segments(t)' = Segments(t)
  BY <1>2, <1>4 DEF Segments
<1> QED  BY <1>1, <1>2, <1>3, <1>4, <1>5, <1>6

(* So does what the image is compared with.                                *)
LEMMA ImageSame ==
  ASSUME UNCHANGED <<file, image>>
  PROVE  /\ CodeLoaded' <=> CodeLoaded
         /\ DataLoaded' <=> DataLoaded
         /\ ParamsLoaded' <=> ParamsLoaded
<1>1. UNCHANGED file /\ UNCHANGED <<params, instructions, data_start, data>>
  BY DEF image
<1>2. \A t, k : Writers(Segments(t), k)' = Writers(Segments(t), k)
  BY <1>1, FileSame DEF Writers
<1>3. \A k : Writers(Of({"D@"}), k)' = Writers(Of({"D@"}), k)
  BY <1>1, FileSame DEF Writers
<1>4. CodeLoaded' <=> CodeLoaded
  BY <1>1, <1>2 DEF CodeLoaded
<1>5. DataLoaded' <=> DataLoaded
  BY <1>1, <1>3, FileSame DEF DataLoaded
<1>6. ParamsLoaded' <=> ParamsLoaded
  BY <1>1, FileSame DEF ParamsLoaded
<1> QED  BY <1>4, <1>5, <1>6

(* And the place of the loop.                                              *)
LEMMA BegunSame ==
  ASSUME UNCHANGED <<file, loop, tid, next, params>>
  PROVE  (WellBegun' <=> WellBegun) /\ (Position' <=> Position)
<1>1. /\ UNCHANGED file /\ Places' = Places /\ NLine' = NLine /\ Headers' = Headers
      /\ \A h : /\ Body(h)' = Body(h) /\ ThreadOf(h)' = ThreadOf(h)
                /\ RoomOf(h)' = RoomOf(h) /\ (StillOpen(h)' <=> StillOpen(h))
  BY FileSame DEF Content, RoomOf, StillOpen
<1>2. ThreadOf(Len(file) + 1)' = ThreadOf(Len(file) + 1)
  BY <1>1, FileSame DEF ThreadOf
<1> QED  BY <1>1, <1>2 DEF WellBegun, Position

(* A well-formed file does not end behind a header.                        *)
LEMMA EndKeepsImage ==
  ASSUME ImageInv, EndOfFile, UNCHANGED <<file, reader>>
  PROVE  LoadsTheImage'
<1>1. LoadInv /\ FileInv /\ LoadedSoFar
  BY DEF ImageInv
<1> SUFFICES ASSUME WellFormed'
             PROVE  loop' = "loaded" /\ CodeLoaded' /\ DataLoaded' /\ ParamsLoaded'
  BY DEF LoadsTheImage
<1>2. WellFormed
  BY FileSame
<1>3. /\ WellBegun /\ Reading
      /\ \A h \in Headers : h < Len(file)
  BY <1>1, <1>2, WellFormedBegun DEF EndOfFile, Reading
<1>4. Position /\ CodeLoaded /\ DataLoaded /\ ParamsLoaded
  BY <1>1, <1>3 DEF LoadedSoFar
<1>5. loop \in {"code", "data"} => next > 0
  <2>1. ASSUME NEW h \in Headers, next = Len(file) - h
        PROVE  next > 0
    <3>1. h \in Nat /\ Len(file) \in Nat
      BY <1>1 DEF Headers, Of, Places, FileInv
    <3> QED  BY <1>3, <2>1, <3>1
  <2> QED  BY <1>4, <2>1 DEF Position
<1>6. loop' = "loaded" /\ UNCHANGED image
  BY <1>1, <1>3, <1>5 DEF EndOfFile, image, LoadInv
<1> QED  BY <1>4, <1>6, ImageSame

(* The lemma on well-formed files, of the file after a step.               *)
LEMMA BegunAfter == (FileInv /\ WellFormed => WellBegun)'
<1>1. FileInv /\ WellFormed => WellBegun
  BY WellFormedBegun
<1> QED  BY <1>1, PTL

(* Every line read, and the end of the file, keep the invariant.           *)
LEMMA ImageStep == ImageInv /\ [FileNext]_allVars => ImageInv'
<1> SUFFICES ASSUME ImageInv, [FileNext]_allVars PROVE ImageInv'
  OBVIOUS
<1>1. LoadInv'
  BY LoadStep DEF ImageInv, FileNext, Next, allVars
<1>2. FileInv'
  BY FileStep DEF ImageInv
<1>3. ASSUME NEW line \in Lines, Read(line), file' = Append(file, line),
             reader' = Append(reader, loop)
      PROVE  LoadedSoFar' /\ LoadsTheImage'
  <2>1. PICK n : n = Len(file)
    OBVIOUS
  <2>2. LineRead(line, n)
    BY <1>3, <2>1 DEF LineRead
  <2>3. CASE WellBegun'
    <3>1. Reading' /\ LoadedSoFar'
      BY <2>2, <2>3, LineKeepsImage
    <3> QED  BY <3>1 DEF Reading, LoadsTheImage
  <2>4. CASE ~WellBegun'
    <3>1. ~WellFormed'
      BY <1>2, <2>4, BegunAfter
    <3> QED  BY <2>4, <3>1 DEF LoadedSoFar, LoadsTheImage
  <2> QED  BY <2>3, <2>4
<1>4. ASSUME EndOfFile, UNCHANGED <<file, reader>>
      PROVE  LoadedSoFar' /\ LoadsTheImage'
  <2>1. loop' \in {"loaded", "wild"}
    BY <1>4 DEF EndOfFile
  <2>2. LoadedSoFar'
    BY <2>1 DEF LoadedSoFar, Reading
  <2> QED  BY <1>4, <2>2, EndKeepsImage
<1>5. ASSUME UNCHANGED allVars
      PROVE  LoadedSoFar' /\ LoadsTheImage'
  <2>1. UNCHANGED <<file, image>> /\ UNCHANGED <<file, loop, tid, next, params>>
    BY <1>5 DEF allVars, vars, image
  <2>2. LoadsTheImage'
    BY <2>1, FileSame, ImageSame DEF ImageInv, LoadsTheImage
  <2>3. LoadedSoFar'
    BY <2>1, ImageSame, BegunSame DEF ImageInv, LoadedSoFar, Reading
  <2> QED  BY <2>2, <2>3
<1>6. \/ \E line \in Lines : /\ Read(line) /\ file' = Append(file, line)
                            /\ reader' = Append(reader, loop)
      \/ EndOfFile /\ UNCHANGED <<file, reader>>
      \/ UNCHANGED allVars
  BY DEF FileNext
<1>7. LoadedSoFar' /\ LoadsTheImage'
  BY <1>3, <1>4, <1>5, <1>6
<1> QED  BY <1>1, <1>2, <1>7 DEF ImageInv

(* Every well-formed file is loaded, and the image is what it says: each   *)
(* thread has the instructions of its segments, whatever was laid over     *)
(* what, the data memory the words and zero, the parameters their last     *)
(* line, for files of any length over any lines.                           *)
THEOREM FilesAreLoaded == FileSpec => []LoadsTheImage
<1>1. ImageInv => LoadsTheImage
  BY DEF ImageInv
<1> QED  BY <1>1, ImageAtFirst, ImageStep, PTL DEF FileSpec
=============================================================================
