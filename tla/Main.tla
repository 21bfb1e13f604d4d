-------------------------------- MODULE Main --------------------------------
(***************************************************************************)
(* main.cpp: the loop over the command line around Driver.  The Lowerer    *)
(* and the interpreter are reduced to the ways they can end; Execution has *)
(* their steps.                                                            *)
(***************************************************************************)
EXTENDS Driver

CONSTANT Args   \* the command lines

Option == {"-p", "-s", "-l", "-o"}

ASSUME ArgsAreNames == Args \subseteq Seq(File \cup Option) /\ File \cap Option = {}

\* No status yet, and that of a process that a signal ended.
Running    == -1
Terminated == 134

VARIABLES
  argv,
  i,            \* the argument the loop looks at
  output_path,
  at,           \* where main is
  status        \* Running, then how the process ended

loopVars == <<argv, i, output_path>>

mainVars == <<driverVars, loopVars, at, status>>

Init ==
  /\ DriverInit
  /\ argv \in Args
  /\ i = 1 /\ output_path = ""
  /\ at = "loop" /\ status = Running

Looking(arguments) == at = "loop" /\ i <= Len(argv) /\ argv[i] \in arguments

ExitsWith(s) == at' = "end" /\ status' = s

Flag ==
  /\ Looking({"-p", "-s", "-l"})
  /\ trace_parsing' = (trace_parsing \/ argv[i] = "-p")
  /\ trace_scanning' = (trace_scanning \/ argv[i] = "-s")
  /\ location_debug' = (location_debug \/ argv[i] = "-l")
  /\ i' = i + 1
  /\ UNCHANGED <<found, scannerVars, ast_, doing, said, argv, output_path, at, status>>

\* A slip: whether there is an operand is not checked.
OutputPathPastEnd ==
  /\ Looking({"-o"})
  /\ output_path' = IF i < Len(argv) THEN argv[i + 1] ELSE ""
  /\ i' = i + 2
  /\ UNCHANGED <<driverVars, argv, at, status>>

\* A slip: the loop looks at -o again.
OutputPathStuck ==
  /\ Looking({"-o"})
  /\ i < Len(argv)
  /\ output_path' = argv[i + 1]
  /\ UNCHANGED <<driverVars, argv, i, at, status>>

OutputPath ==
  /\ Looking({"-o"})
  /\ i < Len(argv)
  /\ output_path' = argv[i + 1]
  /\ i' = i + 2
  /\ UNCHANGED <<driverVars, argv, at, status>>

OutputPathMissing ==
  /\ Looking({"-o"})
  /\ i = Len(argv)
  /\ i' = i + 1
  /\ Say("Expected output path after -o.")
  /\ ExitsWith(1)
  /\ UNCHANGED <<found, flags, scannerVars, ast_, doing, argv, output_path>>

ParseFile ==
  /\ Looking(File)
  /\ scan_begin(argv[i])
  /\ at' = "parse"
  /\ UNCHANGED <<loopVars, status>>

Parse ==
  /\ at = "parse"
  /\ parse
  /\ UNCHANGED <<loopVars, at, status>>

ParsingFailed ==
  /\ at = "parse" /\ doing = "rejected"
  /\ Say("Parsing failed")
  /\ ExitsWith(2)
  /\ UNCHANGED <<found, flags, scannerVars, ast_, doing, loopVars>>

\* The string of parser.y is no std::exception; a failed assertion aborts.
ParsingTerminates ==
  /\ at = "parse" /\ doing \in {"thrown", "asserted"}
  /\ ExitsWith(Terminated)
  /\ UNCHANGED <<driverVars, loopVars>>

\* A slip: what is lowered is not looked for.
LowerUnchecked ==
  /\ at = "parse" /\ doing \in {"returned", "rejected"}
  /\ at' = "run" /\ Say("IR")
  /\ UNCHANGED <<found, flags, scannerVars, ast_, doing, loopVars, status>>

Lower ==
  /\ at = "parse" /\ doing = "returned"
  /\ at' = "run" /\ Say("IR")
  /\ UNCHANGED <<found, flags, scannerVars, ast_, doing, loopVars, status>>

\* A slip: the exception is printed and not thrown again.
LowerFailsSwallowed ==
  /\ at = "parse" /\ doing = "returned"
  /\ \E why \in {"what", "assertion"} : Say(why)
  /\ ExitsWith(0)
  /\ UNCHANGED <<found, flags, scannerVars, ast_, doing, loopVars>>

\* The exception is printed and thrown again; an assertion of LLVM aborts.
LowerFails ==
  /\ at = "parse" /\ doing = "returned"
  /\ \E why \in {"what", "assertion"} : Say(why)
  /\ ExitsWith(Terminated)
  /\ UNCHANGED <<found, flags, scannerVars, ast_, doing, loopVars>>

\* main of the module is run, and the loop left.
Run ==
  /\ at = "run"
  /\ said' = said \o <<"Running code...", "Code was run.">>
  /\ at' = "left"
  /\ UNCHANGED <<found, flags, scannerVars, ast_, doing, loopVars, status>>

RunTraps ==
  /\ at = "run"
  /\ Say("Running code...")
  /\ ExitsWith(Terminated)
  /\ UNCHANGED <<found, flags, scannerVars, ast_, doing, loopVars>>

Return ==
  /\ \/ at = "left"
     \/ at = "loop" /\ i > Len(argv)
  /\ ExitsWith(0)
  /\ UNCHANGED <<driverVars, loopVars>>

Next ==
  \/ Flag \/ OutputPath \/ OutputPathMissing
  \/ ParseFile \/ Parse \/ ParsingFailed \/ ParsingTerminates
  \/ Lower \/ LowerFails \/ Run \/ RunTraps \/ Return

\* One thread, and the programs that can be compiled have no loops.
Spec == Init /\ [][Next]_mainVars /\ WF_mainVars(Next)

-----------------------------------------------------------------------------
(* What a command line means, read at once.                                *)

\* The argument at k belongs to an -o: it ends a run of -o of odd length.
IsOperand(k) ==
  \E j \in 1..k - 1 :
    /\ (k - j) % 2 = 1
    /\ \A m \in j..k - 1 : argv[m] = "-o"
    /\ j = 1 \/ argv[j - 1] # "-o"

\* The argument at k is looked at by the loop, if it gets there.
IsArgument(k) == k \in DOMAIN argv /\ ~IsOperand(k)

IsFile(k) == IsArgument(k) /\ argv[k] \in File

IsFirstFile(k) == IsFile(k) /\ \A m \in 1..k - 1 : ~IsFile(m)

Given(option, k) == \E m \in 1..k - 1 : IsArgument(m) /\ argv[m] = option

OperandMissing == IsArgument(Len(argv)) /\ argv[Len(argv)] = "-o"

NoFile == \A k \in DOMAIN argv : ~IsFile(k)

Meant(f) == found[IF FromStdin(f) THEN cin ELSE f]

\* The last message of main: the interpreter has returned.
CodeWasRun == \E m \in DOMAIN said : said[m] = "Code was run."

FirstFileHolds(contents) == \E k \in DOMAIN argv : IsFirstFile(k) /\ Meant(argv[k]) \in contents

-----------------------------------------------------------------------------
(* Properties.                                                             *)

TypeOK ==
  /\ found \in [Sources -> Content]
  /\ flags \in BOOLEAN \X BOOLEAN \X BOOLEAN
  /\ stream \in {"closed", "failed"} \cup Sources
  /\ source \in Sources /\ file \in File \cup {""}
  /\ doing \in {"idle", "parsing", "accepted", "rejected", "thrown", "scanned",
                "returned", "asserted"}
  /\ argv \in Args /\ i \in 1..Len(argv) + 1
  /\ at \in {"loop", "parse", "run", "left", "end"}
  /\ status \in {Running, 0, 1, 2, Terminated}

\* The exit status tells what became of the command line, operands of -o and
\* repeated options notwithstanding: 1 when the operand of -o is missing and no
\* file comes first, 2 when the first file is no program or is not there, and 0
\* only when there is no file at all or the first one is a program whose code was
\* run to its end.  With any other status no code was: what the back end refuses,
\* or what stops while it runs, does not look like a success.
StatusAsPromised ==
  /\ status = 0 => IF NoFile THEN ~OperandMissing ELSE CodeWasRun /\ FirstFileHolds({"program"})
  /\ status = 1 => NoFile /\ OperandMissing
  /\ status = 2 => FirstFileHolds({"absent", "malformed"})
  /\ status = Terminated => FirstFileHolds({"unimplemented", "program"})
  /\ status \in {1, 2, Terminated} => ~CodeWasRun

\* Only the first file is ever read, from where its name says, with the options
\* in front of it in effect: what comes behind it does not matter.
FirstFileIsRead ==
  doing # "idle" =>
    /\ IsFirstFile(i) /\ file = argv[i]
    /\ source = (IF FromStdin(file) THEN cin ELSE file)
    /\ parser_debug = Given("-p", i) /\ trace_parsing = Given("-p", i)
    /\ scanner_debug = Given("-s", i) /\ location_debug = Given("-l", i)
    /\ ast_ # <<>> => ast_ = <<source>>

\* Nothing is lowered or run but a tree that has been parsed, closed and
\* printed, and the messages come in this order.
Announced == <<"tree", "IR", "Running code...", "Code was run.">>

StagesInOrder ==
  /\ at \in {"run", "left"} => ast_ # <<>> /\ stream = "closed"
  /\ \A k \in 2..4, m \in DOMAIN said :
       said[m] = Announced[k] => m > 1 /\ said[m - 1] = Announced[k - 1]

\* main returns or the process is terminated, whatever the arguments.
MainEnds == <>(status # Running)

\* An exception that ends the process has been printed before: main.cpp:64-67
\* catches what is thrown, prints it and throws it again.
ThrownIsShown ==
  status = Terminated =>
    \E m \in DOMAIN said : said[m] \in {"what", "assertion", "Running code..."}
=============================================================================
