----------------------------- MODULE MainProofs -----------------------------
(***************************************************************************)
(* Theorems of Main, for every command line over every set of files.       *)
(***************************************************************************)
EXTENDS Main, TLAPS

\* A run of -o that starts at j and ends before k.
IsRun(j, k) ==
  /\ \A m \in j..k - 1 : argv[m] = "-o"
  /\ j = 1 \/ argv[j - 1] # "-o"

\* What the loop relies on: the run of -o that ends before the argument it
\* looks at has used up all its operands, and no file has been seen.
EvenRunBefore == \E j \in 1..i : (i - j) % 2 = 0 /\ IsRun(j, i)

NoFileBefore == \A m \in 1..i - 1 : ~IsFile(m)

FlagsAsGiven ==
  /\ trace_parsing = Given("-p", i)
  /\ trace_scanning = Given("-s", i)
  /\ location_debug = Given("-l", i)

LoopInv ==
  /\ argv \in Seq(File \cup Option) /\ i \in Nat \ {0} /\ i <= Len(argv) + 1
  /\ at = "loop" => doing = "idle" /\ status = Running /\ EvenRunBefore
  /\ NoFileBefore
  /\ FlagsAsGiven

\* What holds once a file is being read.
ReadInv ==
  /\ doing # "idle" =>
       /\ IsFile(i) /\ file = argv[i]
       /\ source = (IF FromStdin(file) THEN cin ELSE file)
       /\ parser_debug = trace_parsing /\ scanner_debug = trace_scanning
       /\ ast_ # <<>> => ast_ = <<source>> /\ Scanned = "program"
  /\ doing = "idle" => ast_ = <<>> /\ source = cin /\ at \in {"loop", "end"} /\ (at = "end" => status \in {0, 1})
  /\ doing \in {"accepted", "scanned", "returned", "asserted"} => ast_ # <<>>
  /\ doing = "rejected" => Scanned = "malformed"
  /\ doing = "thrown" => Scanned = "unimplemented"
  /\ at \in {"run", "left"} => ast_ # <<>>
  /\ at # "end" => status = Running

\* What the status says of the command line and of the first file.
StatusOfFile ==
  /\ status = 0 =>
       \/ ~OperandMissing /\ \A k \in DOMAIN argv : ~IsFile(k)
       \/ \E k \in DOMAIN argv : IsFirstFile(k) /\ ast_ # <<>> /\ Meant(argv[k]) = "program"
  /\ status = 1 => OperandMissing /\ \A k \in DOMAIN argv : ~IsFile(k)
  /\ status = 2 => \E k \in DOMAIN argv :
                     IsFirstFile(k) /\ Meant(argv[k]) \in {"absent", "malformed"}
  /\ status = Terminated => \E k \in DOMAIN argv :
                     IsFirstFile(k) /\ Meant(argv[k]) \in {"unimplemented", "program"}

Inv == LoopInv /\ ReadInv /\ StatusOfFile

-----------------------------------------------------------------------------
(***************************************************************************)
(* The operands of -o.                                                     *)
(***************************************************************************)
\* Only one run of -o ends before an argument.
LEMMA RunsAreEqual ==
  ASSUME NEW k \in Nat, NEW j \in 1..k, NEW l \in 1..k, IsRun(j, k), IsRun(l, k)
  PROVE  j = l
PROOF
  <1>1. CASE j < l
    <2>1. l - 1 \in j..k - 1 /\ l # 1
      BY <1>1
    <2> QED BY <2>1 DEF IsRun
  <1>2. CASE l < j
    <2>1. j - 1 \in l..k - 1 /\ j # 1
      BY <1>2
    <2> QED BY <2>1 DEF IsRun
  <1> QED BY <1>1, <1>2

\* The argument behind a run of even length is no operand.
LEMMA EvenRun ==
  ASSUME NEW k \in Nat \ {0}, NEW j \in 1..k, (k - j) % 2 = 0, IsRun(j, k)
  PROVE  ~IsOperand(k)
PROOF
  <1> SUFFICES ASSUME IsOperand(k) PROVE FALSE
    OBVIOUS
  <1>1. PICK l \in 1..k - 1 : (k - l) % 2 = 1 /\ IsRun(l, k)
    BY DEF IsOperand, IsRun
  <1>2. l = j
    BY <1>1, RunsAreEqual
  <1> QED BY <1>1, <1>2

\* The argument behind an -o that is none itself is an operand, and whatever
\* it is, the run before the next argument is again even.
LEMMA OperandSkipped ==
  ASSUME NEW k \in Nat \ {0}, NEW j \in 1..k, (k - j) % 2 = 0, IsRun(j, k), argv[k] = "-o"
  PROVE  /\ IsOperand(k + 1)
         /\ \E l \in 1..k + 2 : (k + 2 - l) % 2 = 0 /\ IsRun(l, k + 2)
PROOF
  <1>1. IsRun(j, k + 1)
    BY DEF IsRun
  <1>2. (k + 1 - j) % 2 = 1 /\ j \in 1..k + 1 - 1 /\ (k + 2 - j) % 2 = 0
    OBVIOUS
  <1>3. IsOperand(k + 1)
    BY <1>1, <1>2 DEF IsOperand, IsRun
  <1>4. CASE argv[k + 1] = "-o"
    <2>1. IsRun(j, k + 2) /\ j \in 1..k + 2
      BY <1>1, <1>4 DEF IsRun
    <2> QED BY <1>2, <1>3, <2>1
  <1>5. CASE argv[k + 1] # "-o"
    <2>1. IsRun(k + 2, k + 2) /\ (k + 2 - (k + 2)) % 2 = 0 /\ k + 2 \in 1..k + 2
      BY <1>5 DEF IsRun
    <2> QED BY <1>3, <2>1
  <1> QED BY <1>4, <1>5

\* Behind anything else a new run, of length 0, starts.
LEMMA NewRun ==
  ASSUME NEW k \in Nat \ {0}, argv[k] # "-o"
  PROVE  \E l \in 1..k + 1 : (k + 1 - l) % 2 = 0 /\ IsRun(l, k + 1)
PROOF
  <1>1. IsRun(k + 1, k + 1) /\ (k + 1 - (k + 1)) % 2 = 0 /\ k + 1 \in 1..k + 1
    BY DEF IsRun
  <1> QED BY <1>1

\* What the loop looks at is an argument.
LEMMA LookedAt ==
  ASSUME LoopInv, at = "loop", i <= Len(argv)
  PROVE  IsArgument(i) /\ i \in DOMAIN argv /\ argv[i] \in File \cup Option
PROOF
  <1>1. i \in DOMAIN argv /\ argv[i] \in File \cup Option
    BY DEF LoopInv
  <1>2. PICK j \in 1..i : (i - j) % 2 = 0 /\ IsRun(j, i)
    BY DEF LoopInv, EvenRunBefore
  <1>3. ~IsOperand(i)
    BY <1>2, EvenRun DEF LoopInv
  <1> QED BY <1>1, <1>3 DEF IsArgument
-----------------------------------------------------------------------------
(***************************************************************************)
(* The steps.                                                              *)
(***************************************************************************)
\* What is given before the next argument.
LEMMA GivenBehindArgument ==
  ASSUME i \in Nat \ {0}, IsArgument(i), NEW o
  PROVE  Given(o, i + 1) = (Given(o, i) \/ argv[i] = o)
PROOF
  <1>1. \A m \in 1..i + 1 - 1 : m \in 1..i - 1 \/ m = i
    OBVIOUS
  <1>2. i \in 1..i + 1 - 1 /\ 1..i - 1 \subseteq 1..i + 1 - 1
    OBVIOUS
  <1>3. Given(o, i + 1) <=> (Given(o, i) \/ argv[i] = o)
    BY <1>1, <1>2 DEF Given
  <1>4. Given(o, i + 1) \in BOOLEAN /\ Given(o, i) \in BOOLEAN
    BY DEF Given
  <1> QED BY <1>3, <1>4

\* What is given does not change over an -o and its operand.
LEMMA GivenBehindOperand ==
  ASSUME i \in Nat \ {0}, argv[i] = "-o", ~IsArgument(i + 1), NEW o, o # "-o"
  PROVE  Given(o, i + 2) = Given(o, i)
PROOF
  <1>1. \A m \in 1..i + 2 - 1 : m \in 1..i - 1 \/ m = i \/ m = i + 1
    OBVIOUS
  <1>2. 1..i - 1 \subseteq 1..i + 2 - 1
    OBVIOUS
  <1>3. Given(o, i + 2) <=> Given(o, i)
    BY <1>1, <1>2 DEF Given
  <1>4. Given(o, i + 2) \in BOOLEAN /\ Given(o, i) \in BOOLEAN
    BY DEF Given
  <1> QED BY <1>3, <1>4

\* Steps of a file that is being read, and the last steps of main, leave the
\* command line and the options alone.
LEMMA LoopKept ==
  ASSUME LoopInv, UNCHANGED <<argv, i, flags>>, at' # "loop"
  PROVE  LoopInv'
PROOF
  <1>1. argv' = argv /\ i' = i /\ trace_parsing' = trace_parsing
        /\ trace_scanning' = trace_scanning /\ location_debug' = location_debug
    BY DEF flags
  <1>2. NoFileBefore'
    BY <1>1 DEF LoopInv, NoFileBefore, IsFile, IsArgument, IsOperand
  <1>3. FlagsAsGiven'
    BY <1>1 DEF LoopInv, FlagsAsGiven, Given, IsArgument, IsOperand
  <1> QED BY <1>1, <1>2, <1>3 DEF LoopInv

\* A flag is in effect from the next argument on.
LEMMA FlagKeeps ==
  ASSUME LoopInv, Flag
  PROVE  LoopInv'
PROOF
  <1>1. /\ at = "loop" /\ i \in Nat \ {0} /\ i <= Len(argv) /\ argv[i] \in {"-p", "-s", "-l"}
        /\ argv' = argv /\ i' = i + 1 /\ at' = at /\ doing' = doing /\ status' = status
    BY DEF Flag, Looking, LoopInv
  <1>2. IsArgument(i) /\ ~IsFile(i)
    BY <1>1, LookedAt, ArgsAreNames DEF IsFile, Option
  <1>3. FlagsAsGiven'
    <2>1. /\ trace_parsing' = Given("-p", i + 1) /\ trace_scanning' = Given("-s", i + 1)
          /\ location_debug' = Given("-l", i + 1)
      BY <1>1, <1>2, GivenBehindArgument DEF Flag, LoopInv, FlagsAsGiven
    <2> QED BY <1>1, <2>1 DEF FlagsAsGiven, Given, IsArgument, IsOperand
  <1>4. NoFileBefore'
    <2>1. \A m \in 1..i + 1 - 1 : m \in 1..i - 1 \/ m = i
      BY <1>1
    <2>2. \A m \in 1..i + 1 - 1 : ~IsFile(m)
      BY <1>2, <2>1 DEF LoopInv, NoFileBefore
    <2> QED BY <1>1, <2>2 DEF NoFileBefore, IsFile, IsArgument, IsOperand
  <1>5. EvenRunBefore'
    <2>1. argv[i] # "-o"
      BY <1>1
    <2>2. \E l \in 1..i + 1 : (i + 1 - l) % 2 = 0 /\ IsRun(l, i + 1)
      BY <1>1, <2>1, NewRun
    <2> QED BY <1>1, <2>2 DEF EvenRunBefore, IsRun
  <1>6. argv' \in Seq(File \cup Option) /\ i' \in Nat \ {0} /\ i' <= Len(argv') + 1
    BY <1>1 DEF LoopInv
  <1> QED BY <1>1, <1>3, <1>4, <1>5, <1>6 DEF LoopInv

\* The operand of -o is passed over.
LEMMA OutputPathKeeps ==
  ASSUME LoopInv, OutputPath
  PROVE  LoopInv'
PROOF
  <1>1. /\ at = "loop" /\ i \in Nat \ {0} /\ i < Len(argv) /\ argv[i] = "-o"
        /\ argv' = argv /\ i' = i + 2 /\ at' = at /\ doing' = doing /\ status' = status
        /\ UNCHANGED flags
    BY DEF OutputPath, Looking, LoopInv, driverVars
  <1>2. PICK j \in 1..i : (i - j) % 2 = 0 /\ IsRun(j, i)
    BY <1>1 DEF LoopInv, EvenRunBefore
  <1>3. IsOperand(i + 1) /\ \E l \in 1..i + 2 : (i + 2 - l) % 2 = 0 /\ IsRun(l, i + 2)
    BY <1>1, <1>2, OperandSkipped
  <1>4. ~IsArgument(i + 1) /\ ~IsFile(i + 1) /\ ~IsFile(i)
    BY <1>1, <1>3, ArgsAreNames DEF IsFile, IsArgument, Option
  <1>5. FlagsAsGiven'
    <2>1. /\ trace_parsing' = Given("-p", i + 2) /\ trace_scanning' = Given("-s", i + 2)
          /\ location_debug' = Given("-l", i + 2)
      BY <1>1, <1>4, GivenBehindOperand DEF LoopInv, FlagsAsGiven, flags
    <2> QED BY <1>1, <2>1 DEF FlagsAsGiven, Given, IsArgument, IsOperand
  <1>6. NoFileBefore'
    <2>1. \A m \in 1..i + 2 - 1 : m \in 1..i - 1 \/ m = i \/ m = i + 1
      BY <1>1
    <2>2. \A m \in 1..i + 2 - 1 : ~IsFile(m)
      BY <1>4, <2>1 DEF LoopInv, NoFileBefore
    <2> QED BY <1>1, <2>2 DEF NoFileBefore, IsFile, IsArgument, IsOperand
  <1>7. EvenRunBefore'
    BY <1>1, <1>3 DEF EvenRunBefore, IsRun
  <1>8. argv' \in Seq(File \cup Option) /\ i' \in Nat \ {0} /\ i' <= Len(argv') + 1
    BY <1>1 DEF LoopInv
  <1> QED BY <1>1, <1>5, <1>6, <1>7, <1>8 DEF LoopInv

\* The first file, once it is being read.
LEMMA FirstFile ==
  ASSUME LoopInv, IsFile(i)
  PROVE  IsFirstFile(i) /\ i \in DOMAIN argv
PROOF
  BY DEF LoopInv, NoFileBefore, IsFirstFile, IsFile, IsArgument

\* What the exit status says is said of the command line and the file read.
LEMMA StatusKept ==
  ASSUME StatusOfFile, UNCHANGED <<argv, found, ast_, status>>
  PROVE  StatusOfFile'
PROOF
  BY DEF StatusOfFile, OperandMissing, IsFirstFile, IsFile, IsArgument, IsOperand, Meant

\* A file begins to be read.
LEMMA ParseFileKeeps ==
  ASSUME Inv, ParseFile
  PROVE  Inv'
PROOF
  <1>1. /\ at = "loop" /\ i \in Nat \ {0} /\ i <= Len(argv) /\ argv[i] \in File
        /\ at' = "parse" /\ doing = "idle" /\ doing' = "parsing" /\ file' = argv[i]
        /\ UNCHANGED <<argv, i, output_path, status, found, flags, ast_>>
        /\ parser_debug' = trace_parsing /\ scanner_debug' = trace_scanning
    BY DEF ParseFile, Looking, Inv, LoopInv, scan_begin, loopVars
  <1>2. LoopInv'
    BY <1>1, LoopKept DEF Inv
  <1>3. StatusOfFile'
    BY <1>1, StatusKept DEF Inv
  <1>4. IsFile(i)'
    <2>1. IsFile(i)
      BY <1>1, LookedAt DEF Inv, IsFile
    <2> QED BY <1>1, <2>1 DEF IsFile, IsArgument, IsOperand
  <1>5. source' = (IF FromStdin(file') THEN cin ELSE file')
    <2>1. source = cin
      BY <1>1 DEF Inv, ReadInv
    <2> QED BY <1>1, <2>1 DEF ParseFile, scan_begin
  <1>6. ReadInv'
    BY <1>1, <1>4, <1>5 DEF Inv, ReadInv, LoopInv, flags, FromStdin
  <1> QED BY <1>2, <1>3, <1>6 DEF Inv

\* The file that is being read is what the status is about.
LEMMA ReadSource ==
  ASSUME Inv, doing # "idle"
  PROVE  IsFirstFile(i) /\ i \in DOMAIN argv /\ Meant(argv[i]) = found[source]
PROOF
  BY FirstFile DEF Inv, ReadInv, Meant

\* Steps inside of parse.
LEMMA ParseKeeps ==
  ASSUME Inv, Parse
  PROVE  Inv'
PROOF
  <1>1. /\ at = "parse" /\ at' = at /\ UNCHANGED <<argv, i, output_path, status, found, flags>>
        /\ UNCHANGED <<file, scanner_debug, parser_debug, source>>
        /\ doing # "idle" /\ doing' # "idle"
    BY DEF Parse, parse, ParserAccepts, ParserRejects, ParserThrows, scan_end, PrintTree,
           loopVars, scannerVars
  <1>2. LoopInv'
    BY <1>1, LoopKept DEF Inv
  <1>3. StatusOfFile'
    BY <1>1 DEF Inv, ReadInv, StatusOfFile, Running, Terminated
  <1>4. IsFile(i)'
    BY <1>1 DEF Inv, ReadInv, IsFile, IsArgument, IsOperand
  <1>5. Scanned' = Scanned
    BY <1>1 DEF Scanned
  <1>6. /\ doing' # "idle"
        /\ ast_' # <<>> => ast_' = <<source>> /\ Scanned = "program"
        /\ doing' \in {"accepted", "scanned", "returned", "asserted"} => ast_' # <<>>
        /\ doing' = "rejected" => Scanned = "malformed"
        /\ doing' = "thrown" => Scanned = "unimplemented"
    <2>1. CASE ParserAccepts
      BY <2>1 DEF ParserAccepts
    <2>2. CASE ParserRejects \/ ParserThrows
      BY <1>1, <2>2 DEF ParserRejects, ParserThrows, Inv, ReadInv
    <2>3. CASE scan_end \/ PrintTree
      <3>1. /\ doing \in {"accepted", "scanned"} /\ ast_' = ast_
            /\ doing' \in {"scanned", "returned", "asserted"}
        BY <2>3 DEF scan_end, PrintTree
      <3> QED BY <1>1, <3>1 DEF Inv, ReadInv
    <2> QED BY <2>1, <2>2, <2>3 DEF Parse, parse
  <1>7. ReadInv'
    BY <1>1, <1>4, <1>5, <1>6 DEF Inv, ReadInv, flags
  <1> QED BY <1>2, <1>3, <1>7 DEF Inv

\* The steps of main once parse is over.
LEMMA BackEndKeeps ==
  ASSUME Inv, ParsingFailed \/ ParsingTerminates \/ Lower \/ LowerFails \/ Run \/ RunTraps
  PROVE  Inv'
PROOF
  <1>1. /\ UNCHANGED <<argv, i, output_path, found, flags, file, scanner_debug, parser_debug,
                       source, doing, ast_>>
        /\ doing # "idle" /\ at' # "loop" /\ at' # "parse"
        /\ at \in {"parse", "run"} /\ status = Running
    BY DEF ParsingFailed, ParsingTerminates, Lower, LowerFails, Run, RunTraps, ExitsWith,
           loopVars, scannerVars, driverVars, Inv, ReadInv
  <1>2. LoopInv'
    BY <1>1, LoopKept DEF Inv
  <1>3. IsFile(i)' /\ Scanned' = Scanned
    BY <1>1 DEF Inv, ReadInv, IsFile, IsArgument, IsOperand, Scanned
  <1>4. /\ at' \in {"run", "left"} => ast_ # <<>> /\ status' = status
        /\ at' \notin {"run", "left"} => at' = "end"
    BY <1>1 DEF ParsingFailed, ParsingTerminates, Lower, LowerFails, Run, RunTraps, ExitsWith,
                Inv, ReadInv
  <1>5. ReadInv'
    BY <1>1, <1>3, <1>4 DEF Inv, ReadInv, flags
  <1>6. \/ status' = Running
        \/ status' = 2 /\ doing = "rejected"
        \/ status' = Terminated /\ (ast_ # <<>> \/ doing = "thrown")
    BY <1>1 DEF ParsingFailed, ParsingTerminates, Lower, LowerFails, Run, RunTraps, ExitsWith,
                Inv, ReadInv
  <1>7. /\ IsFirstFile(i) /\ i \in DOMAIN argv /\ Meant(argv[i]) = found[source]
        /\ doing = "rejected" => found[source] \in {"absent", "malformed"}
        /\ ast_ # <<>> => found[source] = "program"
        /\ doing = "thrown" => found[source] = "unimplemented"
    BY <1>1, ReadSource DEF Inv, ReadInv, Scanned
  <1>8. IsFirstFile(i)' /\ Meant(argv[i])' = Meant(argv[i]) /\ i' \in DOMAIN argv'
    BY <1>1, <1>7 DEF IsFirstFile, IsFile, IsArgument, IsOperand, Meant
  <1>9. StatusOfFile'
    BY <1>1, <1>6, <1>7, <1>8 DEF StatusOfFile, Running, Terminated
  <1> QED BY <1>2, <1>5, <1>9 DEF Inv

\* The command line has been gone through without a file.
LEMMA NoFileAtEnd ==
  ASSUME LoopInv, i > Len(argv)
  PROVE  \A k \in DOMAIN argv : ~IsFile(k)
PROOF
  <1>1. DOMAIN argv = 1..Len(argv) /\ i = Len(argv) + 1 /\ Len(argv) \in Nat
    BY DEF LoopInv
  <1> QED BY <1>1 DEF LoopInv, NoFileBefore

\* The operand of the last -o is missing.
LEMMA OutputPathMissingKeeps ==
  ASSUME Inv, OutputPathMissing
  PROVE  Inv'
PROOF
  <1>1. /\ at = "loop" /\ i = Len(argv) /\ i \in Nat \ {0} /\ argv[i] = "-o"
        /\ at' = "end" /\ status' = 1 /\ i' = i + 1 /\ argv' = argv
        /\ UNCHANGED <<found, flags, scannerVars, ast_, doing>> /\ doing = "idle"
    BY DEF OutputPathMissing, Looking, ExitsWith, Inv, LoopInv
  <1>2. IsArgument(i) /\ ~IsFile(i)
    BY <1>1, LookedAt, ArgsAreNames DEF Inv, IsFile, Option
  <1>3. \A m \in 1..i + 1 - 1 : m \in 1..i - 1 \/ m = i
    BY <1>1
  <1>4. \A m \in 1..i + 1 - 1 : ~IsFile(m)
    BY <1>2, <1>3 DEF Inv, LoopInv, NoFileBefore
  <1>5. NoFileBefore'
    BY <1>1, <1>4 DEF NoFileBefore, IsFile, IsArgument, IsOperand
  <1>6. FlagsAsGiven'
    <2>1. /\ Given("-p", i + 1) = Given("-p", i) /\ Given("-s", i + 1) = Given("-s", i)
          /\ Given("-l", i + 1) = Given("-l", i)
      <3>1. \A o : Given(o, i + 1) = (Given(o, i) \/ argv[i] = o)
        BY <1>1, <1>2, GivenBehindArgument
      <3>2. \A o : Given(o, i) \in BOOLEAN
        BY DEF Given
      <3> QED BY <1>1, <3>1, <3>2
    <2> QED BY <1>1, <2>1 DEF FlagsAsGiven, Inv, LoopInv, flags, Given, IsArgument, IsOperand
  <1>7. LoopInv'
    BY <1>1, <1>5, <1>6 DEF Inv, LoopInv
  <1>8. ReadInv'
    BY <1>1 DEF Inv, ReadInv, scannerVars
  <1>9. StatusOfFile'
    <2>1. OperandMissing
      BY <1>1, <1>2 DEF OperandMissing
    <2>2. \A k \in DOMAIN argv : ~IsFile(k)
      BY <1>1, <1>4 DEF Inv, LoopInv
    <2>3. OperandMissing' /\ \A k \in DOMAIN argv' : ~IsFile(k)'
      BY <1>1, <2>1, <2>2 DEF OperandMissing, IsFile, IsArgument, IsOperand
    <2> QED BY <1>1, <2>3 DEF StatusOfFile, Terminated
  <1> QED BY <1>7, <1>8, <1>9 DEF Inv

\* main returns.
LEMMA ReturnKeeps ==
  ASSUME Inv, Return
  PROVE  Inv'
PROOF
  <1>1. /\ at = "left" \/ (at = "loop" /\ i > Len(argv))
        /\ at' = "end" /\ status' = 0
        /\ UNCHANGED <<argv, i, found, flags, file, scanner_debug, parser_debug, source,
                       doing, ast_>>
    BY DEF Return, ExitsWith, driverVars, loopVars, scannerVars
  <1>2. LoopInv'
    BY <1>1, LoopKept DEF Inv
  <1>3. IsFile(i)' = IsFile(i) /\ Scanned' = Scanned
    BY <1>1 DEF IsFile, IsArgument, IsOperand, Scanned
  <1>4. ReadInv'
    BY <1>1, <1>3 DEF Inv, ReadInv, LoopInv, flags
  <1>5. CASE at = "left"
    <2>1. doing # "idle" /\ ast_ # <<>>
      BY <1>5 DEF Inv, ReadInv
    <2>2. IsFirstFile(i) /\ i \in DOMAIN argv /\ Meant(argv[i]) = "program"
      BY <2>1, ReadSource DEF Inv, ReadInv, Scanned
    <2>3. IsFirstFile(i)' /\ Meant(argv[i])' = "program" /\ i' \in DOMAIN argv' /\ ast_' # <<>>
      BY <1>1, <2>1, <2>2 DEF IsFirstFile, IsFile, IsArgument, IsOperand, Meant
    <2>4. StatusOfFile'
      BY <1>1, <2>3 DEF StatusOfFile, Terminated
    <2> QED BY <1>2, <1>4, <2>4 DEF Inv
  <1>6. CASE at = "loop" /\ i > Len(argv)
    <2>1. \A k \in DOMAIN argv : ~IsFile(k)
      BY <1>6, NoFileAtEnd DEF Inv
    <2>2. ~OperandMissing
      <3> SUFFICES ASSUME OperandMissing PROVE FALSE
        OBVIOUS
      <3>1. /\ Len(argv) \in Nat \ {0} /\ i = Len(argv) + 1 /\ argv[i - 1] = "-o"
            /\ ~IsOperand(i - 1)
        BY <1>6 DEF OperandMissing, IsArgument, Inv, LoopInv
      <3>2. PICK j \in 1..i : (i - j) % 2 = 0 /\ IsRun(j, i)
        BY <1>6 DEF Inv, LoopInv, EvenRunBefore
      <3>3. j # i
        BY <3>1, <3>2 DEF IsRun
      <3>4. j \in 1..i - 1 - 1 /\ (i - 1 - j) % 2 = 1
        BY <3>1, <3>2, <3>3
      <3>5. IsOperand(i - 1)
        BY <3>1, <3>2, <3>4 DEF IsOperand, IsRun
      <3> QED BY <3>1, <3>5
    <2>3. ~OperandMissing' /\ \A k \in DOMAIN argv' : ~IsFile(k)'
      BY <1>1, <2>1, <2>2 DEF OperandMissing, IsFile, IsArgument, IsOperand
    <2>4. StatusOfFile'
      BY <1>1, <2>3 DEF StatusOfFile, Terminated
    <2> QED BY <1>2, <1>4, <2>4 DEF Inv
  <1> QED BY <1>1, <1>5, <1>6

-----------------------------------------------------------------------------
\* The invariant holds of every command line.
LEMMA InvInductive == Spec => []Inv
PROOF
  <1>1. Init => Inv
    <2> SUFFICES ASSUME Init PROVE Inv
      OBVIOUS
    <2>0. /\ argv \in Args /\ i = 1 /\ at = "loop" /\ status = Running
          /\ trace_parsing = FALSE /\ trace_scanning = FALSE /\ location_debug = FALSE
          /\ source = cin /\ ast_ = <<>> /\ doing = "idle"
      BY Zenon DEF Init, DriverInit
    <2>1. LoopInv
      <3>1. argv \in Seq(File \cup Option) /\ i = 1 /\ Len(argv) \in Nat
        BY <2>0, ArgsAreNames
      <3>2. NoFileBefore /\ EvenRunBefore
        BY <3>1 DEF NoFileBefore, EvenRunBefore, IsRun
      <3>3. FlagsAsGiven
        <4>1. 1..i - 1 = {}
          BY <3>1
        <4>2. \A o : Given(o, i) = FALSE
          BY <4>1 DEF Given
        <4> QED BY <2>0, <4>2 DEF FlagsAsGiven
      <3> QED BY <2>0, <3>1, <3>2, <3>3 DEF LoopInv
    <2>2. ReadInv
      BY <2>0 DEF ReadInv
    <2>3. StatusOfFile
      BY <2>0 DEF StatusOfFile, Running, Terminated
    <2> QED BY <2>1, <2>2, <2>3 DEF Inv
  <1>2. Inv /\ [Next]_mainVars => Inv'
    <2> SUFFICES ASSUME Inv, [Next]_mainVars PROVE Inv'
      OBVIOUS
    <2>1. CASE Flag
      <3>1. LoopInv'
        BY <2>1, FlagKeeps DEF Inv
      <3>2. ReadInv' /\ status' = Running
        BY <2>1 DEF Flag, Looking, Inv, LoopInv, ReadInv, scannerVars
      <3> QED BY <3>1, <3>2 DEF Inv, StatusOfFile, Running, Terminated
    <2>2. CASE OutputPath
      <3>1. LoopInv'
        BY <2>2, OutputPathKeeps DEF Inv
      <3>2. ReadInv' /\ status' = Running
        BY <2>2 DEF OutputPath, Looking, Inv, LoopInv, ReadInv, driverVars, scannerVars
      <3> QED BY <3>1, <3>2 DEF Inv, StatusOfFile, Running, Terminated
    <2>3. CASE OutputPathMissing
      BY <2>3, OutputPathMissingKeeps
    <2>4. CASE ParseFile
      BY <2>4, ParseFileKeeps
    <2>5. CASE Parse
      BY <2>5, ParseKeeps
    <2>6. CASE ParsingFailed \/ ParsingTerminates \/ Lower \/ LowerFails \/ Run \/ RunTraps
      BY <2>6, BackEndKeeps
    <2>7. CASE Return
      BY <2>7, ReturnKeeps
    <2>8. CASE UNCHANGED mainVars
      <3>1. UNCHANGED <<argv, i, output_path, at, status, found, flags, file, scanner_debug,
                        parser_debug, source, doing, ast_>>
        BY <2>8 DEF mainVars, driverVars, loopVars, scannerVars
      <3>2. LoopInv'
        BY <3>1 DEF Inv, LoopInv, NoFileBefore, EvenRunBefore, FlagsAsGiven, Given, IsFile,
                    IsArgument, IsOperand, IsRun, flags
      <3>3. ReadInv'
        BY <3>1 DEF Inv, ReadInv, IsFile, IsArgument, IsOperand, Scanned, flags
      <3>4. StatusOfFile'
        BY <3>1, StatusKept DEF Inv
      <3> QED BY <3>2, <3>3, <3>4 DEF Inv
    <2> QED BY <2>1, <2>2, <2>3, <2>4, <2>5, <2>6, <2>7, <2>8 DEF Next
  <1> QED BY <1>1, <1>2, PTL DEF Spec

\* For every command line: the file that is read is the first one, with the
\* options in front of it in effect.
THEOREM FirstFileOnly == Spec => []FirstFileIsRead
PROOF
  <1>1. Inv => FirstFileIsRead
    <2> SUFFICES ASSUME Inv, doing # "idle" PROVE FirstFileIsRead
      BY DEF FirstFileIsRead
    <2>1. IsFirstFile(i)
      BY FirstFile DEF Inv, ReadInv
    <2> QED BY <2>1 DEF Inv, ReadInv, LoopInv, FlagsAsGiven, FirstFileIsRead
  <1> QED BY <1>1, InvInductive, PTL

-----------------------------------------------------------------------------
(***************************************************************************)
(* The order of the messages.                                              *)
(***************************************************************************)
Messages ==
  {"File name is", "syntax error", "Parsing error!", "Expected output path after -o.",
   "Parsing failed", "what", "assertion", "tree", "IR", "Running code...", "Code was run."}

\* Each stage is announced behind the one before it.
InOrder(messages) ==
  \A k \in 2..4, m \in DOMAIN messages :
    messages[m] = Announced[k] => m > 1 /\ messages[m - 1] = Announced[k - 1]

EndsWith(messages, message) == messages # <<>> /\ messages[Len(messages)] = message

\* A message that announces no stage.
Plain(x) == x \in Messages /\ \A k \in 1..4 : x # Announced[k]

\* A tree is closed and there; what was said last tells the next stage.
SaidInv ==
  /\ said \in Seq(Messages) /\ InOrder(said)
  /\ doing = "accepted" => ast_ # <<>>
  /\ doing \in {"scanned", "returned", "asserted"} => ast_ # <<>> /\ stream = "closed"
  /\ at = "parse" /\ doing = "returned" => EndsWith(said, Announced[1])
  /\ at = "run" => EndsWith(said, Announced[2])
  /\ at \in {"run", "left"} => doing = "returned"

\* The four stages.
LEMMA StageNames ==
  /\ Announced[1] = "tree" /\ Announced[2] = "IR"
  /\ Announced[3] = "Running code..." /\ Announced[4] = "Code was run."
PROOF
  <1>1. ASSUME NEW a, NEW b, NEW c, NEW d
        PROVE  <<a, b, c, d>>[1] = a /\ <<a, b, c, d>>[2] = b
               /\ <<a, b, c, d>>[3] = c /\ <<a, b, c, d>>[4] = d
    OBVIOUS
  <1> QED BY <1>1, Zenon DEF Announced

\* An index of Announced is one of four.
LEMMA FourStages ==
  ASSUME NEW k \in 1..4
  PROVE  k = 1 \/ k = 2 \/ k = 3 \/ k = 4
PROOF
  OBVIOUS

\* They differ from each other ...
LEMMA StagesDiffer ==
  /\ \A k \in 1..4, l \in 1..4 : Announced[k] = Announced[l] => k = l
  /\ \A k \in 1..4 : Announced[k] \in Messages
PROOF
  <1>1. ASSUME NEW k \in 1..4, NEW l \in 1..4, Announced[k] = Announced[l]
        PROVE  k = l
    <2>1. l = 1 \/ l = 2 \/ l = 3 \/ l = 4
      BY FourStages
    <2>2. CASE k = 1
      BY <1>1, <2>1, <2>2, StageNames, Zenon
    <2>3. CASE k = 2
      BY <1>1, <2>1, <2>3, StageNames, Zenon
    <2>4. CASE k = 3
      BY <1>1, <2>1, <2>4, StageNames, Zenon
    <2>5. CASE k = 4
      BY <1>1, <2>1, <2>5, StageNames, Zenon
    <2> QED BY <2>2, <2>3, <2>4, <2>5, FourStages
  <1>2. \A k \in 1..4 : Announced[k] \in Messages
    BY FourStages, StageNames, Zenon DEF Messages
  <1> QED BY <1>1, <1>2, Zenon

\* ... and from the other messages.
LEMMA OthersArePlain ==
  \A x \in {"File name is", "syntax error", "Parsing error!", "Parsing failed", "what",
            "assertion", "Expected output path after -o."} : Plain(x)
PROOF
  BY FourStages, StageNames, Zenon DEF Plain, Messages

\* A message keeps the order if it announces no stage, or the next one.
LEMMA SayKeeps ==
  ASSUME NEW s \in Seq(Messages), InOrder(s), NEW x \in Messages,
         \A k \in 2..4 : x = Announced[k] => EndsWith(s, Announced[k - 1])
  PROVE  /\ Append(s, x) \in Seq(Messages) /\ InOrder(Append(s, x))
         /\ EndsWith(Append(s, x), x)
PROOF
  <1> DEFINE t == Append(s, x)
  <1>1. /\ t \in Seq(Messages) /\ Len(t) = Len(s) + 1 /\ Len(s) \in Nat
        /\ DOMAIN s = 1..Len(s) /\ DOMAIN t = 1..Len(s) + 1
        /\ t[Len(s) + 1] = x /\ \A m \in 1..Len(s) : t[m] = s[m]
    OBVIOUS
  <1> HIDE DEF t
  <1>2. t # <<>>
    BY <1>1
  <1>3. ASSUME NEW k \in 2..4, NEW m \in DOMAIN t, t[m] = Announced[k]
        PROVE  m > 1 /\ t[m - 1] = Announced[k - 1]
    <2>1. CASE m \in DOMAIN s
      <3>1. t[m] = s[m] /\ (m > 1 => t[m - 1] = s[m - 1])
        BY <1>1, <2>1
      <3>2. m > 1 /\ s[m - 1] = Announced[k - 1]
        BY <1>3, <2>1, <3>1 DEF InOrder
      <3> QED BY <3>1, <3>2
    <2>2. CASE m = Len(s) + 1
      <3>1. s # <<>> /\ s[Len(s)] = Announced[k - 1]
        BY <1>1, <1>3, <2>2 DEF EndsWith
      <3>2. m > 1 /\ t[m - 1] = s[Len(s)]
        BY <1>1, <2>2, <3>1
      <3> QED BY <3>1, <3>2
    <2> QED BY <1>1, <2>1, <2>2
  <1> QED BY <1>1, <1>2, <1>3 DEF InOrder, EndsWith, t

\* A message that announces no stage.
LEMMA PlainKeeps ==
  ASSUME NEW s \in Seq(Messages), InOrder(s), NEW x, Plain(x)
  PROVE  Append(s, x) \in Seq(Messages) /\ InOrder(Append(s, x))
PROOF
  <1>1. x \in Messages /\ \A k \in 2..4 : x # Announced[k]
    BY DEF Plain
  <1> QED BY <1>1, SayKeeps

\* A message that announces the next stage.
LEMMA StageKeeps ==
  ASSUME NEW s \in Seq(Messages), InOrder(s), NEW k \in 1..4,
         k > 1 => EndsWith(s, Announced[k - 1])
  PROVE  /\ Append(s, Announced[k]) \in Seq(Messages) /\ InOrder(Append(s, Announced[k]))
         /\ EndsWith(Append(s, Announced[k]), Announced[k])
PROOF
  <1>1. Announced[k] \in Messages
    BY StagesDiffer
  <1>2. \A l \in 2..4 : Announced[k] = Announced[l] => EndsWith(s, Announced[l - 1])
    BY StagesDiffer
  <1> QED BY <1>1, <1>2, SayKeeps

\* The messages stay in order in every step.
LEMMA SaidKept ==
  ASSUME SaidInv, [Next]_mainVars
  PROVE  SaidInv'
PROOF
  <1>0. said \in Seq(Messages) /\ InOrder(said)
    BY DEF SaidInv
  <1>1. CASE Flag \/ OutputPath \/ ParsingTerminates \/ Return \/ UNCHANGED mainVars
    <2>1. /\ UNCHANGED <<said, doing, ast_, stream>>
          /\ at' = at \/ at' = "end"
      BY <1>1 DEF Flag, OutputPath, ParsingTerminates, Return, ExitsWith, mainVars,
                  driverVars, scannerVars
    <2> QED BY <2>1 DEF SaidInv, InOrder, EndsWith
  <1>2. CASE OutputPathMissing \/ ParsingFailed \/ LowerFails
    <2>1. PICK x : Plain(x) /\ said' = Append(said, x)
      BY <1>2, OthersArePlain, Zenon DEF OutputPathMissing, ParsingFailed, LowerFails, Say
    <2>2. UNCHANGED <<doing, ast_, stream>> /\ at' = "end"
      BY <1>2 DEF OutputPathMissing, ParsingFailed, LowerFails, ExitsWith, scannerVars
    <2>3. said' \in Seq(Messages) /\ InOrder(said')
      BY <1>0, <2>1, PlainKeeps
    <2> QED BY <2>2, <2>3 DEF SaidInv
  <1>3. CASE ParseFile
    <2>1. doing' = "parsing" /\ at' = "parse"
      BY <1>3 DEF ParseFile, scan_begin
    <2>2. said' = said \/ \E x : Plain(x) /\ said' = Append(said, x)
      BY <1>3, OthersArePlain, Zenon DEF ParseFile, scan_begin, Say
    <2>3. said' \in Seq(Messages) /\ InOrder(said')
      BY <1>0, <2>2, PlainKeeps
    <2> QED BY <2>1, <2>3 DEF SaidInv
  <1>4. CASE Parse
    <2>0. at = "parse" /\ at' = "parse"
      BY <1>4 DEF Parse
    <2>1. CASE ParserAccepts \/ ParserThrows \/ scan_end
      <3>1. said' = said
        BY <2>1, Zenon DEF ParserAccepts, ParserThrows, scan_end
      <3>2. said' \in Seq(Messages) /\ InOrder(said')
        BY <1>0, <3>1, Zenon
      <3>3. /\ doing' \in {"accepted", "thrown", "scanned"}
            /\ doing' = "accepted" => ast_' # <<>>
            /\ doing' = "scanned" => ast_' # <<>> /\ stream' = "closed"
        <4>1. CASE ParserAccepts
          BY <4>1 DEF ParserAccepts
        <4>2. CASE ParserThrows
          BY <4>2 DEF ParserThrows
        <4>3. CASE scan_end
          BY <4>3 DEF scan_end, SaidInv
        <4> QED BY <2>1, <4>1, <4>2, <4>3
      <3> QED BY <2>0, <3>2, <3>3 DEF SaidInv
    <2>2. CASE ParserRejects
      <3>1. ASSUME NEW a, NEW b, Plain(a), Plain(b), said' = said \o <<a, b>>
            PROVE  said' \in Seq(Messages) /\ InOrder(said')
        <4>1. a \in Messages /\ b \in Messages
          BY <3>1 DEF Plain
        <4>2. said' = Append(Append(said, a), b)
          BY <1>0, <3>1, <4>1
        <4>3. Append(said, a) \in Seq(Messages) /\ InOrder(Append(said, a))
          BY <1>0, <3>1, PlainKeeps
        <4> QED BY <3>1, <4>2, <4>3, PlainKeeps
      <3>2. said' \in Seq(Messages) /\ InOrder(said')
        BY <2>2, <3>1, OthersArePlain, Zenon DEF ParserRejects
      <3>3. doing' = "rejected"
        BY <2>2, Zenon DEF ParserRejects
      <3> QED BY <2>0, <3>2, <3>3 DEF SaidInv
    <2>3. CASE PrintTree
      <3>1. doing = "scanned" /\ ast_' = ast_ /\ stream' = stream
            /\ doing' \in {"returned", "asserted"}
        BY <2>3 DEF PrintTree, scannerVars
      <3>2. \/ said' = Append(said, Announced[1])
            \/ doing' = "asserted" /\ \E x : Plain(x) /\ said' = Append(said, x)
        BY <2>3, OthersArePlain, StageNames, Zenon DEF PrintTree, Say
      <3>3. Append(said, Announced[1]) \in Seq(Messages) /\ InOrder(Append(said, Announced[1]))
            /\ EndsWith(Append(said, Announced[1]), Announced[1])
        BY <1>0, StageKeeps
      <3>4. /\ said' \in Seq(Messages) /\ InOrder(said')
            /\ doing' = "returned" => EndsWith(said', Announced[1])
        <4>1. CASE said' = Append(said, Announced[1])
          BY <3>3, <4>1, Zenon
        <4>2. CASE doing' = "asserted" /\ \E x : Plain(x) /\ said' = Append(said, x)
          BY <1>0, <4>2, PlainKeeps
        <4> QED BY <3>2, <4>1, <4>2
      <3> QED BY <2>0, <3>1, <3>4 DEF SaidInv
    <2> QED BY <1>4, <2>1, <2>2, <2>3 DEF Parse, parse
  <1>5. CASE Lower
    <2>1. at = "parse" /\ doing = "returned" /\ at' = "run" /\ UNCHANGED <<doing, ast_, stream>>
      BY <1>5 DEF Lower, scannerVars
    <2>2. said' = Append(said, Announced[2])
      BY <1>5, StageNames, Zenon DEF Lower, Say
    <2>3. EndsWith(said, Announced[2 - 1])
      BY <2>1 DEF SaidInv
    <2>4. said' \in Seq(Messages) /\ InOrder(said') /\ EndsWith(said', Announced[2])
      BY <1>0, <2>2, <2>3, StageKeeps
    <2> QED BY <2>1, <2>4 DEF SaidInv
  <1>6. CASE Run \/ RunTraps
    <2> DEFINE running == Append(said, Announced[3])
               done    == Append(running, Announced[4])
    <2>1. at = "run" /\ at' \in {"left", "end"} /\ UNCHANGED <<doing, ast_, stream>>
      BY <1>6 DEF Run, RunTraps, ExitsWith, scannerVars
    <2>2. EndsWith(said, Announced[3 - 1])
      BY <2>1 DEF SaidInv
    <2>3. running \in Seq(Messages) /\ InOrder(running) /\ EndsWith(running, Announced[4 - 1])
      BY <1>0, <2>2, StageKeeps
    <2>4. said' = running \/ said' = done
      <3>1. ASSUME NEW a, NEW b, a \in Messages, b \in Messages
            PROVE  said \o <<a, b>> = Append(Append(said, a), b)
        BY <1>0, <3>1
      <3>2. Announced[3] \in Messages /\ Announced[4] \in Messages
        BY StagesDiffer
      <3>3. said \o <<Announced[3], Announced[4]>> = done
        BY <3>1, <3>2, Zenon
      <3> QED BY <1>6, <3>3, StageNames, Zenon DEF Run, RunTraps, Say
    <2>5. done \in Seq(Messages) /\ InOrder(done)
      <3> HIDE DEF running
      <3> QED BY <2>3, StageKeeps
    <2> HIDE DEF running, done
    <2>6. said' \in Seq(Messages) /\ InOrder(said')
      BY <2>3, <2>4, <2>5, Zenon
    <2> QED BY <2>1, <2>6 DEF SaidInv
  <1> QED BY <1>1, <1>2, <1>3, <1>4, <1>5, <1>6 DEF Next

\* The messages are in order throughout.
LEMMA SaidInvariant == Spec => []SaidInv
PROOF
  <1>1. Init => SaidInv
    <2> SUFFICES ASSUME Init PROVE SaidInv
      OBVIOUS
    <2>1. said = <<>> /\ doing = "idle" /\ at = "loop"
      BY Zenon DEF Init, DriverInit
    <2>2. said \in Seq(Messages) /\ InOrder(said)
      BY <2>1 DEF InOrder
    <2> QED BY <2>1, <2>2 DEF SaidInv
  <1>2. SaidInv /\ [Next]_mainVars => SaidInv'
    BY SaidKept
  <1> QED BY <1>1, <1>2, PTL DEF Spec

\* For every command line: what is lowered and run has been parsed, closed and
\* printed, and each stage is announced behind the one before it.
THEOREM StagesFollow == Spec => []StagesInOrder
PROOF
  <1>1. SaidInv => StagesInOrder
    <2> SUFFICES ASSUME SaidInv PROVE StagesInOrder
      OBVIOUS
    <2>1. at \in {"run", "left"} => ast_ # <<>> /\ stream = "closed"
      BY DEF SaidInv
    <2>2. InOrder(said)
      BY DEF SaidInv
    <2> QED BY <2>1, <2>2, Zenon DEF StagesInOrder, InOrder
  <1> QED BY <1>1, SaidInvariant, PTL

-----------------------------------------------------------------------------
(***************************************************************************)
(* The exit status.                                                        *)
(***************************************************************************)
Ran(messages) == \E m \in DOMAIN messages : messages[m] = "Code was run."

\* The last message is said when the loop has been left, and the process that
\* has left it ends with status 0.
RanInv == CodeWasRun <=> at = "left" \/ (at = "end" /\ status = 0 /\ ast_ # <<>>)

\* One more message.
LEMMA RanAppend ==
  ASSUME NEW s \in Seq(Messages), NEW x \in Messages
  PROVE  /\ Append(s, x) \in Seq(Messages)
         /\ Ran(Append(s, x)) <=> Ran(s) \/ x = "Code was run."
PROOF
  <1> DEFINE t == Append(s, x)
  <1>1. /\ t \in Seq(Messages) /\ Len(s) \in Nat
        /\ DOMAIN s = 1..Len(s) /\ DOMAIN t = 1..Len(s) + 1
        /\ t[Len(s) + 1] = x /\ \A m \in 1..Len(s) : t[m] = s[m]
    OBVIOUS
  <1> HIDE DEF t
  <1>2. \A m \in 1..Len(s) + 1 : m \in 1..Len(s) \/ m = Len(s) + 1
    BY <1>1
  <1>3. 1..Len(s) \subseteq 1..Len(s) + 1 /\ Len(s) + 1 \in 1..Len(s) + 1
    BY <1>1
  <1>4. Ran(t) <=> Ran(s) \/ x = "Code was run."
    BY <1>1, <1>2, <1>3, Zenon DEF Ran
  <1> QED BY <1>1, <1>4 DEF t

\* Two more messages.
LEMMA RanAppendTwo ==
  ASSUME NEW s \in Seq(Messages), NEW a \in Messages, NEW b \in Messages
  PROVE  Ran(s \o <<a, b>>) <=> Ran(s) \/ a = "Code was run." \/ b = "Code was run."
PROOF
  <1>1. s \o <<a, b>> = Append(Append(s, a), b)
    OBVIOUS
  <1>2. Append(s, a) \in Seq(Messages) /\ (Ran(Append(s, a)) <=> Ran(s) \/ a = "Code was run.")
    BY RanAppend
  <1>3. Ran(Append(Append(s, a), b)) <=> Ran(Append(s, a)) \/ b = "Code was run."
    BY <1>2, RanAppend
  <1> QED BY <1>1, <1>2, <1>3

\* Only Run says it, and only Return from there gives status 0 to a program.
LEMMA RanKept ==
  ASSUME Inv, SaidInv, RanInv, [Next]_mainVars
  PROVE  RanInv'
PROOF
  <1>0. /\ said \in Seq(Messages) /\ CodeWasRun = Ran(said) /\ CodeWasRun' = Ran(said')
    BY DEF SaidInv, CodeWasRun, Ran
  <1>1. \A x \in Messages \ {"Code was run."} : said' = Append(said, x) => (Ran(said') <=> Ran(said))
    <2> SUFFICES ASSUME NEW x \in Messages \ {"Code was run."}, said' = Append(said, x)
                 PROVE  Ran(said') <=> Ran(said)
      OBVIOUS
    <2>1. x \in Messages /\ x # "Code was run."
      OBVIOUS
    <2>2. Ran(Append(said, x)) <=> Ran(said) \/ x = "Code was run."
      BY <1>0, <2>1, RanAppend
    <2> QED BY <2>1, <2>2, Zenon
  <1>2. CASE Flag \/ OutputPath
    <2>1. UNCHANGED said /\ at = "loop" /\ at' = "loop"
      BY <1>2 DEF Flag, OutputPath, Looking, driverVars
    <2> QED BY <1>0, <2>1 DEF RanInv
  <1>3. CASE OutputPathMissing \/ ParsingFailed \/ LowerFails \/ RunTraps
    <2>1. \E x \in Messages \ {"Code was run."} : said' = Append(said, x)
      <3>1. {"Expected output path after -o.", "Parsing failed", "what", "assertion",
             "Running code..."} \subseteq Messages \ {"Code was run."}
        BY DEF Messages
      <3> QED BY <1>3, <3>1, Zenon DEF OutputPathMissing, ParsingFailed, LowerFails, RunTraps, Say
    <2>2. at \in {"loop", "parse", "run"} /\ at' = "end" /\ status' # 0
      <3>1. \/ at = "loop" /\ at' = "end" /\ status' = 1
            \/ at = "parse" /\ at' = "end" /\ status' \in {2, Terminated}
            \/ at = "run" /\ at' = "end" /\ status' = Terminated
        BY <1>3, Zenon DEF OutputPathMissing, ParsingFailed, LowerFails, RunTraps, ExitsWith,
                           Looking
      <3> QED BY <3>1 DEF Terminated
    <2> QED BY <1>0, <1>1, <2>1, <2>2 DEF RanInv
  <1>4. CASE ParseFile
    <2>1. said' = said \/ said' = Append(said, "File name is")
      BY <1>4 DEF ParseFile, scan_begin, Say
    <2>2. "File name is" \in Messages \ {"Code was run."}
      BY DEF Messages
    <2>3. at = "loop" /\ at' = "parse"
      BY <1>4 DEF ParseFile, Looking
    <2> QED BY <1>0, <1>1, <2>1, <2>2, <2>3 DEF RanInv
  <1>5. CASE Parse
    <2>1. at = "parse" /\ at' = "parse"
      BY <1>5 DEF Parse
    <2>2. {"syntax error", "Parsing error!", "tree", "assertion"} \subseteq Messages \ {"Code was run."}
      BY DEF Messages
    <2>3. \/ said' = said
          \/ said' = Append(said, "tree") \/ said' = Append(said, "assertion")
          \/ said' = said \o <<"syntax error", "Parsing error!">>
      BY <1>5 DEF Parse, parse, ParserAccepts, ParserRejects, ParserThrows, scan_end, PrintTree, Say
    <2>4. Ran(said \o <<"syntax error", "Parsing error!">>) <=> Ran(said)
      BY <1>0, <2>2, RanAppendTwo
    <2>5. Ran(said') <=> Ran(said)
      BY <1>1, <2>2, <2>3, <2>4
    <2> QED BY <1>0, <2>1, <2>5 DEF RanInv
  <1>6. CASE ParsingTerminates
    <2>1. UNCHANGED said /\ at = "parse" /\ at' = "end" /\ status' # 0
      BY <1>6 DEF ParsingTerminates, ExitsWith, driverVars, Terminated
    <2> QED BY <1>0, <2>1 DEF RanInv
  <1>7. CASE Lower
    <2>1. at = "parse" /\ at' = "run" /\ said' = Append(said, "IR")
      BY <1>7 DEF Lower, Say
    <2>2. "IR" \in Messages \ {"Code was run."}
      BY DEF Messages
    <2> QED BY <1>0, <1>1, <2>1, <2>2 DEF RanInv
  <1>8. CASE Run
    <2>1. at' = "left" /\ said' = said \o <<"Running code...", "Code was run.">>
      BY <1>8 DEF Run
    <2>2. "Running code..." \in Messages /\ "Code was run." \in Messages
      BY DEF Messages
    <2>3. Ran(said')
      BY <1>0, <2>1, <2>2, RanAppendTwo
    <2> QED BY <1>0, <2>1, <2>3 DEF RanInv
  <1>9. CASE Return
    <2>1. /\ UNCHANGED <<said, ast_>> /\ at' = "end" /\ status' = 0
          /\ at = "left" \/ at = "loop"
      BY <1>9 DEF Return, ExitsWith, driverVars
    <2>2. at = "left" => ast_ # <<>>
      BY DEF SaidInv
    <2>3. at = "loop" => ast_ = <<>>
      BY DEF Inv, LoopInv, ReadInv
    <2> QED BY <1>0, <2>1, <2>2, <2>3 DEF RanInv
  <1>10. CASE UNCHANGED mainVars
    <2>1. UNCHANGED <<said, ast_, at, status>>
      BY <1>10 DEF mainVars, driverVars
    <2> QED BY <1>0, <2>1 DEF RanInv
  <1> QED BY <1>2, <1>3, <1>4, <1>5, <1>6, <1>7, <1>8, <1>9, <1>10 DEF Next

\* For every command line: the exit status tells what became of the first file,
\* or that there is none, and 0 that its code was run to the end.
THEOREM StatusTells == Spec => []StatusAsPromised
PROOF
  <1>1. Init => RanInv
    <2> SUFFICES ASSUME Init PROVE RanInv
      OBVIOUS
    <2>1. said = <<>> /\ at = "loop"
      BY Zenon DEF Init, DriverInit
    <2> QED BY <2>1 DEF RanInv, CodeWasRun
  <1>2. Inv /\ SaidInv /\ RanInv /\ [Next]_mainVars => RanInv'
    BY RanKept
  <1>3. Inv /\ RanInv => StatusAsPromised
    <2> SUFFICES ASSUME Inv, RanInv PROVE StatusAsPromised
      OBVIOUS
    <2>1. StatusOfFile /\ (status \in {0, 1, 2, Terminated} => at = "end")
      BY DEF Inv, ReadInv, Running, Terminated
    <2>2. ASSUME status = 0
          PROVE  IF NoFile THEN ~OperandMissing ELSE CodeWasRun /\ FirstFileHolds({"program"})
      <3>1. CASE NoFile
        <4>1. \A k \in DOMAIN argv : ~IsFirstFile(k)
          BY <3>1 DEF NoFile, IsFirstFile
        <4> QED BY <2>1, <2>2, <3>1, <4>1 DEF StatusOfFile
      <3>2. CASE ~NoFile
        <4>1. \E k \in DOMAIN argv : IsFirstFile(k) /\ ast_ # <<>> /\ Meant(argv[k]) = "program"
          BY <2>1, <2>2, <3>2 DEF StatusOfFile, NoFile
        <4>2. CodeWasRun
          BY <2>1, <2>2, <4>1 DEF RanInv
        <4> QED BY <3>2, <4>1, <4>2 DEF FirstFileHolds
      <3> QED BY <3>1, <3>2
    <2>3. status = 1 => NoFile /\ OperandMissing
      BY <2>1 DEF StatusOfFile, NoFile
    <2>4. status = 2 => FirstFileHolds({"absent", "malformed"})
      BY <2>1 DEF StatusOfFile, FirstFileHolds
    <2>5. status = Terminated => FirstFileHolds({"unimplemented", "program"})
      BY <2>1 DEF StatusOfFile, FirstFileHolds
    <2>6. status \in {1, 2, Terminated} => ~CodeWasRun
      BY <2>1 DEF RanInv, Terminated
    <2> QED BY <2>2, <2>3, <2>4, <2>5, <2>6 DEF StatusAsPromised
  <1> QED BY <1>1, <1>2, <1>3, InvInductive, SaidInvariant, PTL DEF Spec

\* For every command line: the index of the loop stays inside argv, or one
\* behind it, and the driver in its states.
THEOREM MainTypeCorrect == Spec => []TypeOK
PROOF
  <1>1. Init => TypeOK
    <2> SUFFICES ASSUME Init PROVE TypeOK
      OBVIOUS
    <2>1. argv \in Args /\ i = 1
      BY Zenon DEF Init
    <2>2. at = "loop" /\ status = Running /\ stream = "closed" /\ source = cin /\ file = ""
          /\ doing = "idle" /\ found \in [Sources -> Content]
      BY Zenon DEF Init, DriverInit
    <2>3. flags \in BOOLEAN \X BOOLEAN \X BOOLEAN
      BY DEF Init, DriverInit, flags
    <2>4. i \in 1..Len(argv) + 1
      <3>1. Len(argv) \in Nat
        BY <2>1, ArgsAreNames
      <3> QED BY <2>1, <3>1
    <2>5. source \in Sources
      BY <2>2, Zenon DEF Sources
    <2> QED BY <2>1, <2>2, <2>3, <2>4, <2>5, Zenon DEF TypeOK
  <1>2. TypeOK /\ Inv /\ [Next]_mainVars => TypeOK'
    <2> SUFFICES ASSUME TypeOK, Inv, [Next]_mainVars PROVE TypeOK'
      OBVIOUS
    <2>1. CASE Flag
      <3>1. flags' \in BOOLEAN \X BOOLEAN \X BOOLEAN
        BY <2>1 DEF Flag, TypeOK, flags
      <3>2. /\ UNCHANGED <<found, stream, source, file, doing, argv, at, status>>
            /\ i' = i + 1 /\ i <= Len(argv)
        BY <2>1 DEF Flag, Looking, scannerVars
      <3>3. i' \in 1..Len(argv') + 1
        BY <3>2 DEF Inv, LoopInv
      <3> QED BY <3>1, <3>2, <3>3 DEF TypeOK
    <2>2. CASE OutputPath
      <3>1. /\ UNCHANGED <<found, flags, stream, source, file, doing, argv, at, status>>
            /\ i' = i + 2 /\ i < Len(argv)
        BY <2>2 DEF OutputPath, driverVars, scannerVars
      <3>2. i' \in 1..Len(argv') + 1
        BY <3>1 DEF Inv, LoopInv
      <3> QED BY <3>1, <3>2 DEF TypeOK
    <2>3. CASE OutputPathMissing
      <3>1. /\ UNCHANGED <<found, flags, stream, source, file, doing, argv>>
            /\ i' = i + 1 /\ i = Len(argv) /\ at' = "end" /\ status' = 1
        BY <2>3 DEF OutputPathMissing, ExitsWith, scannerVars
      <3>2. i' \in 1..Len(argv') + 1
        BY <3>1 DEF Inv, LoopInv
      <3> QED BY <3>1, <3>2 DEF TypeOK
    <2>4. CASE ParseFile
      <3>1. /\ UNCHANGED <<found, flags, argv, i, status>> /\ doing' = "parsing" /\ at' = "parse"
            /\ argv[i] \in File /\ file' = argv[i]
            /\ UNCHANGED <<stream, source>>
               \/ (stream' \in {"failed", argv[i]} /\ source' = argv[i])
        BY <2>4 DEF ParseFile, scan_begin, Looking, loopVars
      <3>2. source' \in Sources /\ stream' \in {"closed", "failed"} \cup Sources
        BY <2>4, <3>1 DEF TypeOK, Sources, ParseFile, scan_begin
      <3> QED BY <3>1, <3>2 DEF TypeOK
    <2>5. CASE Parse
      <3>1. /\ UNCHANGED <<found, flags, source, file, argv, i, at, status>>
            /\ stream' \in {stream, "closed"}
            /\ doing' \in {"accepted", "rejected", "thrown", "scanned", "returned", "asserted"}
        BY <2>5 DEF Parse, parse, ParserAccepts, ParserRejects, ParserThrows, scan_end,
                    PrintTree, loopVars, scannerVars
      <3> QED BY <3>1 DEF TypeOK
    <2>6. CASE \/ ParsingFailed \/ ParsingTerminates \/ Lower \/ LowerFails \/ Run
               \/ RunTraps \/ Return \/ UNCHANGED mainVars
      <3>1. /\ UNCHANGED <<found, flags, stream, source, file, doing, argv, i>>
            /\ at' \in {at, "run", "left", "end"} /\ status' \in {status, 0, 2, Terminated}
        BY <2>6 DEF ParsingFailed, ParsingTerminates, Lower, LowerFails, Run, RunTraps, Return,
                    ExitsWith, mainVars, driverVars, loopVars, scannerVars
      <3>2. at' \in {"loop", "parse", "run", "left", "end"}
        BY <3>1, Zenon DEF TypeOK
      <3>3. status' \in {Running, 0, 1, 2, Terminated}
        BY <3>1, Zenon DEF TypeOK
      <3> QED BY <3>1, <3>2, <3>3 DEF TypeOK
    <2> QED BY <2>1, <2>2, <2>3, <2>4, <2>5, <2>6 DEF Next
  <1> QED BY <1>1, <1>2, InvInductive, PTL DEF Spec
=============================================================================
