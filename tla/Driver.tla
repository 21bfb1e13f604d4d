------------------------------- MODULE Driver -------------------------------
(***************************************************************************)
(* driver.cpp: the Driver owns the scanner, the parser and the stream, and *)
(* turns the name of a file into a tree.                                   *)
(*                                                                         *)
(* What the scanner and the parser make of a text is one of three things,  *)
(* which the text determines; their modules say how.                       *)
(***************************************************************************)
EXTENDS Integers, Sequences

CONSTANT File   \* the names that may be given; "" and "-" mean standard input

\* Standard input, and the scanner's source before yyrestart.
cin == "std::cin"

ASSUME FileNames == cin \notin File

FromStdin(f) == f \in {"", "-"}

Sources == {f \in File : ~FromStdin(f)} \cup {cin}

\* What a name stands for: no file, a text that is not a program, one with a
\* set constructor (its action throws a string), or a program.
Content == {"absent", "malformed", "unimplemented", "program"}

VARIABLES
  found,           \* the file system
  trace_parsing, trace_scanning, location_debug,
  file,
  scanner_debug, parser_debug,
  stream,          \* "closed", "failed", or the file that is open
  source,          \* what the scanner reads
  ast_,            \* <<>>, or the tree of a source
  doing,           \* where parse is
  said             \* the messages so far, on either stream

flags == <<trace_parsing, trace_scanning, location_debug>>

scannerVars == <<file, scanner_debug, parser_debug, stream, source>>

driverVars == <<found, flags, scannerVars, ast_, doing, said>>

DriverInit ==
  /\ found \in [Sources -> Content] /\ found[cin] # "absent"
  /\ trace_parsing = FALSE /\ trace_scanning = FALSE /\ location_debug = FALSE
  /\ file = "" /\ scanner_debug = FALSE /\ parser_debug = FALSE
  /\ stream = "closed" /\ source = cin
  /\ ast_ = <<>>
  /\ doing = "idle"
  /\ said = <<>>

Say(message) == said' = Append(said, message)

\* A slip: the scanner is not restarted on the stream.
scan_begin_stale(f) ==
  /\ doing = "idle"
  /\ file' = f
  /\ scanner_debug' = trace_scanning /\ parser_debug' = trace_parsing
  /\ \/ FromStdin(f) /\ UNCHANGED <<stream, said>>
     \/ /\ ~FromStdin(f)
        /\ stream' = IF found[f] = "absent" THEN "failed" ELSE f
        /\ Say("File name is")
  /\ doing' = "parsing"
  /\ UNCHANGED <<found, flags, source, ast_>>

scan_begin(f) ==
  /\ doing = "idle"
  /\ file' = f
  /\ scanner_debug' = trace_scanning /\ parser_debug' = trace_parsing
  /\ \/ FromStdin(f) /\ UNCHANGED <<stream, source, said>>
     \/ /\ ~FromStdin(f)
        /\ stream' = IF found[f] = "absent" THEN "failed" ELSE f
        /\ source' = f
        /\ Say("File name is")
  /\ doing' = "parsing"
  /\ UNCHANGED <<found, flags, ast_>>

\* A stream that could not be opened is scanned as an empty text.
Scanned == IF found[source] = "absent" THEN "malformed" ELSE found[source]

\* set_ast, from the action of CompilationUnit.
ParserAccepts ==
  /\ doing = "parsing"
  /\ Scanned = "program"
  /\ ast_' = <<source>>
  /\ doing' = "accepted"
  /\ UNCHANGED <<found, flags, scannerVars, said>>

\* The stream stays open.
ParserRejects ==
  /\ doing = "parsing"
  /\ Scanned = "malformed"
  /\ said' = said \o <<"syntax error", "Parsing error!">>
  /\ doing' = "rejected"
  /\ UNCHANGED <<found, flags, scannerVars, ast_>>

\* bison lets an exception that is not a syntax_error out.
ParserThrows ==
  /\ doing = "parsing"
  /\ Scanned = "unimplemented"
  /\ doing' = "thrown"
  /\ UNCHANGED <<found, flags, scannerVars, ast_, said>>

scan_end ==
  /\ doing = "accepted"
  /\ stream' = "closed"
  /\ doing' = "scanned"
  /\ UNCHANGED <<found, flags, file, scanner_debug, parser_debug, source, ast_, said>>

\* The walk of Printer, which may fail its assertion.
PrintTree ==
  /\ doing = "scanned"
  /\ ast_ # <<>>
  /\ \/ doing' = "returned" /\ Say("tree")
     \/ doing' = "asserted" /\ Say("assertion")
  /\ UNCHANGED <<found, flags, scannerVars, ast_>>

parse == ParserAccepts \/ ParserRejects \/ ParserThrows \/ scan_end \/ PrintTree
=============================================================================
