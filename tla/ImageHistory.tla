---------------------------- MODULE ImageHistory ----------------------------
(***************************************************************************)
(* The loader with the file it has read, and what the file says: a         *)
(* definition over the whole file, with no loops and no indexes.           *)
(***************************************************************************)
EXTENDS ImageLoader, Sequences, FiniteSetsExt

CONSTANTS MaxLines,  \* bounds of the model: the lines of a file, and those
          MaxStray   \* of them that are skipped or no words of their segment

ASSUME FileAssumption == {MaxLines, MaxStray} \subseteq Nat

VARIABLES file,   \* the lines read so far
          reader  \* for each of them the loop that read it
allVars == <<vars, file, reader>>

FileInit == Init /\ file = <<>> /\ reader = <<>>

Places  == DOMAIN file
Stray(l, line) == \/ l = "params" /\ First(line) # "N"
                  \/ l = "segments" /\ First(line) \notin {"T", "I", "D"}
                  \/ l = "data" /\ ~EndsData(line) /\ line.kind # "word"
Strayed == {i \in Places : Stray(reader[i], file[i])}

FileNext ==
  \/ \E line \in Lines :
       /\ Len(file) < MaxLines
       /\ Stray(loop, line) => Cardinality(Strayed) < MaxStray
       /\ Read(line)
       /\ file' = Append(file, line) /\ reader' = Append(reader, loop)
  \/ EndOfFile /\ UNCHANGED <<file, reader>>

FileSpec == FileInit /\ [][FileNext]_allVars

-----------------------------------------------------------------------------
NLine   == Min({i \in Places : First(file[i]) = "N"} \cup {Len(file) + 1})
Of(kinds) == {i \in Places : i > NLine /\ file[i].kind \in kinds}
Headers == Of({"I@", "D@"})

(* The lines behind a header up to the next one that is not of its kind.   *)
Content(h) == IF file[h].kind = "I@" THEN "inst" ELSE "word"
Body(h) == {i \in Places : i > h /\ \A j \in h + 1 .. i :
                                      file[j].kind = Content(h)}

(* The thread that a code segment is for.                                  *)
NoThread == -1
ThreadOf(h) ==
  LET above == {i \in Of({"T"}) : i < h}
  IN  IF above = {} THEN NoThread ELSE file[Max(above)].n

(* A file as the comment at the head of the example images describes it:   *)
(* parameters and their N line, then segments that each end at an empty    *)
(* line or a comment, or at the end of the file, code behind its T line.   *)
WellFormed ==
  /\ NLine \in Places /\ file[NLine].kind = "N"
  /\ \A i \in 1 .. NLine - 1 : file[i].kind \in {"blank", "L", "S", "O"}
  /\ \A i \in NLine + 1 .. Len(file) :
       \/ file[i].kind \in {"blank", "T", "I@", "D@"}
       \/ \E h \in Headers : i \in Body(h)
  /\ \A h \in Headers :
       LET size == Cardinality(Body(h)) IN
       /\ size \in 1 .. IF file[h].kind = "I@" THEN Room ELSE DataRoom
       /\ h + size < Len(file) => file[h + size + 1].kind = "blank"
       /\ file[h].kind = "I@" => ThreadOf(h) \in 0 .. file[NLine].n - 1

(* The line that says what is at index k: of the last of the segments hs   *)
(* that is long enough, none if there is no such segment.                  *)
Writers(hs, k) == {h \in hs : h + k + 1 \in Body(h)}

Segments(t) == {h \in Of({"I@"}) : ThreadOf(h) = t}

Says(line, i) ==
  /\ i.opcode = line.opcode
  /\ line.opcode # "NOP" => i.dst = line.dst
  /\ line.opcode \notin {"NOP", "HALT"} =>
       i.src1 = line.src1 /\ i.src2 = line.src2 /\ (line.dollar <=> ~i.imm)

(* The image is what the file says: every thread has the instructions of   *)
(* its segments, the data memory the words and zero behind them, the       *)
(* parameters their last line.                                             *)
CodeLoaded ==
  \A t \in 0 .. params["N"] - 1, k \in 0 .. Room - 1 :
    LET ws == Writers(Segments(t), k) IN
    IF ws = {} THEN instructions[t][k] = Junk
    ELSE Says(file[Max(ws) + k + 1], instructions[t][k])

DataLoaded ==
  /\ \A k \in 0 .. DataRoom - 1 :
       LET ws == Writers(Of({"D@"}), k) IN
       data[k] = IF ws = {} THEN 0 ELSE file[Max(ws) + k + 1].n
  /\ data_start = IF Of({"D@"}) = {} THEN 0 ELSE file[Max(Of({"D@"}))].n

ParamsLoaded ==
  \A c \in {"L", "S", "O", "N"} :
    LET ls == {i \in Places : i <= NLine /\ file[i].kind = c} IN
    params[c] = IF ls = {} THEN 0 ELSE file[Max(ls)].n

-----------------------------------------------------------------------------
(* A well-formed file is loaded and its image is what it says, whatever    *)
(* comments are between, in whatever order segments and threads come (the  *)
(* segment loops of SIM_MemReset, get_inst, get_data).                     *)
LoadsTheImage ==
  loop \in {"loaded", "wild"} /\ WellFormed =>
    loop = "loaded" /\ CodeLoaded /\ DataLoaded /\ ParamsLoaded

(* However ill-formed the file is, a header or a T line behind the N line  *)
(* is lost only while a segment is open: an empty line or a comment before *)
(* it always saves it (the end conditions of the two inner loops).         *)
LostOnlyInSegments ==
  \A i \in Of({"I@", "D@", "T"}) :
    reader[i] = "segments" \/
    \E h \in Headers : /\ reader[h] = "segments" /\ h < i
                      /\ \A j \in h .. i - 1 : file[j].kind # "blank"

(* A segment that goes on for longer than its space.                       *)
LongCode ==
  \E h \in Places :
    /\ reader[h] = "segments" /\ file[h].kind = "I@" /\ h + Room < Len(file)
    /\ \A i \in h + 1 .. h + Room + 1 :
         reader[i] = "code" /\ file[i].kind = "inst"

LongData ==
  \E h \in Places :
    /\ reader[h] = "segments" /\ file[h].kind = "D@" /\ h + DataRoom < Len(file)
    /\ \A i \in h + 1 .. h + DataRoom + 1 :
         reader[i] = "data" /\ ~EndsData(file[i])

(* The memory behind a space is written exactly if the file has a segment  *)
(* that is too long for it: never by many short segments, comments or      *)
(* other threads between them, and always by a long one (inst and data_i,  *)
(* which only the lines of the file stop, in SIM_MemReset).                *)
OverrunsAreLong ==
  /\ (\E t \in DOMAIN instructions : DOMAIN instructions[t] # 0 .. Room - 1) <=>
       LongCode
  /\ DOMAIN data # 0 .. DataRoom - 1 <=> LongData
=============================================================================
