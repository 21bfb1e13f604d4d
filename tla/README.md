# A verification project for pascal-compiler

The repository holds a small Pascal compiler in C++: a flex scanner and a bison
parser build a syntax tree, one visitor prints the tree, another one lowers it to
LLVM IR, and the main program runs the IR in LLVM's interpreter. This directory
holds TLA+ models of it, the TLC runs that check them on small instances, and
theorems that TLAPS checks for every instance.

Paths without a directory (`lowerer.cpp`) are those of the components below.

## 1. Inventory

| component | state it keeps | operations | talks to |
|---|---|---|---|
| Command line, `main.cpp` 12-39 | position in `argv`, flags, exit status | the loop over the arguments, `-p`, `-s`, `-o` | Driver, Lowerer |
| Driver, `driver.cpp` | the tree, the location, the file, the trace flags | `parse`, `scan_begin`, `scan_end`, `set_ast` | Scanner, Parser, Printer |
| Scanner, `parsing/scanner.l` | input buffer, location | one rule per token, `make_number` | Parser |
| Parser, `parsing/parser.y` | bison's stacks | one semantic action per production | Scanner, Driver, Syntax tree |
| Syntax tree, `ast/*.hpp` | the nodes, each owned by its parent | constructors, getters, `visit.hpp`'s dispatch on the kind | all |
| Printer, `ast/visitors/printer.*` | the stream, the depth | one `visit` per node | Syntax tree |
| Lowerer, `ast/visitors/lowerer.*` | `pascal_scopes_`, the module, the IRBuilder, the C++ call stack | `visit_toplevel`, `process_var_decl`, `process_type_def`, `visit(stmt)`, `eval(expr)`, lookups | Syntax tree, LLVM |
| Running, `main.cpp` 40-69, `stdlib.cpp` | interpreter's registers and memory, what was written | `runFunction`, `lle_X_write_int`, the `catch` clause | Lowerer, LLVM |
| Type checker, `parsing/sema.hpp` | none | declared, never defined | nothing calls it |
| Build and hook scripts | none at run time | | |

The components run one after another in one thread and hand over owned objects:
the Parser's tree goes to the Driver, from there to the Lowerer's constructor; the
Lowerer's module goes to the execution engine. Errors are C++ exceptions (or, in a
build of LLVM with assertions, an abort).

### What is hard here

There is no concurrency, nothing is persisted, and nothing is sent. What is
hard is that *recursive walks keep two kinds of state that must agree at every
moment*, and that several places decide by position, length or order.

In the Lowerer, the two are the C++ call stack, with the `llvm::Value*`s the active evals
keep in local variables, and the code emitted so far, to which each callee appends, or does
not append because the IRBuilder folded the instruction away. Around it:

- two lookups search the scopes in opposite directions;
- names of types and of variables share the scopes, so that a variable may take the
  name of a type between two declarations;
- exceptions leave the walk in the middle, with some declarations made;
- which of two errors is reported depends on the order of checks and evaluations,
  and that order differs from operator to operator;
- no types are compared, so that ill-typed code reaches LLVM, or aborts in it;
- arithmetic is done twice, by the constant folder and by the interpreter.

In the Printer, they are the call stack and `depth_`, one counter for the whole walk
that only some of the calls change. Of the other components:

- `-o` moves the index of the loop over the arguments from inside the loop;
- `parse` of the Driver has three early returns and one way out by an exception, and the back
  end must not run on what is missing after them;
- the scanner serves the whole process and starts on standard input, so that the
  right source is a matter of the restart in `scan_begin`;
- the longest match decides between tokens that begin alike, and a location
  is moved by every lexeme, including those that are no tokens;
- a number must be refused by its value, where `long` may be no wider than `int`;
- the grammar's lists are right-recursive and are filled from the back, two vectors are
  paired by index, both forms of `if` begin alike, and so do assignments and calls.

`PROJECT.json` lists each of these as a hazard, at its line, with the properties
that cover it.

### What makes each component correct

- *Lowerer.* The code is well-formed; every value computed is used once; variables have
  slots of their own and of their types; declared names and emitted code never
  change; the verdict on a program is that of the static semantics; the walk ends.
- *Running.* Executing the code does what the source says; whatever was accepted
  can be executed without using a register or slot that does not exist; a refused
  program is not run; the process ends.
- *Printer.* The indentation follows the nesting of the visits; the lines can be
  read back into the tree; nothing uninitialized is read (it is: see 3).
- *Scanner.* The tokens are the longest matches; locations are those
  of the text; no number wraps.
- *Parser.* A tree says what the text says, item by item in order, with an `else`
  at the nearest `if`; a text is refused only if no program reads like that.
- *Driver and command line.* Only the first file is read, from the right source and with
  the options in front of it; no stage runs without the one before it; the exit
  status tells what happened.

## 2. Modules

```
  Ast --+-- Language -- Pascal
        +-- Printer  -- PrinterProofs
        +-- Syntax -- Parser -- SyntaxProofs -- ParserProofs
        +-- Programs (the trees of the runs)
        +-- Lowerer (+ Ir)
              |-- Checking (+ Language)
              |-- Execution (INSTANCE Pascal)
              '-- LowererProofs -- VerdictProofs (+ Checking)
                                       '-- ExecutionProofs (+ Execution)

  MCLowerer = Checking + Programs       MCExecution = Execution + Programs
  MCPrinter = Printer + Programs        MCParser    = Parser + Programs

  Driver -- Main -- MCMain              Scanner -- MCScanner
               '-- MainProofs                  '-- ScannerProofs
```

A line means EXTENDS, from right to left, and `+` a second module extended.

`Ast` - the syntax tree of `ast/*.hpp`. A node is a record with the enumerator of the
  source as `kind`; a child is a field. `Node` and `Units` are parameters, and the
  assumption `AstShape` says what constructors and grammar guarantee of every
  node, and `TreesAreFinite` that no node is inside itself. `Programs` builds the small programs of the runs.

`Ir` - LLVM as `lowerer.cpp` uses it: operands, instructions, what assertions
  check, what the folder answers, what an instruction computes. LLVM is not part of
  the repository, so this module is a contract, marked external in the map. The
  number of values of each integer type (`Half`), and whether LLVM was built with
  assertions (`LlvmAsserts`), are parameters.

`Lowerer` - `lowerer.cpp` and `lowerer.hpp`. The recursion is made explicit: `frames`
  is the call stack, a frame per active `visit` or `eval`, `next` the position in its
  loop and `acc` its local variable `value`; `ret` is the value the eval that just
  returned hands to its caller. `stage` is where `visit_toplevel` is, or how
  the constructor ended. `pascal_scopes`, `functions` and `ir` are the
  members of the class and the contents of main's block.

  | code | definitions |
  |---|---|
  | `visit_toplevel` | `Init`, `RejectBlock`, `StartMain`, `StartBody`, `Finish` |
  | `process_var_decl`, `make_type_from_ast_type` | `ResolveType`, `TypeError`, `RejectName`, `DeclareName` |
  | `codegen_alloc_value_of_type` | the operator of that name |
  | `lookup_decl` | `lookup_decl`, `Hits`, `IsVariable` |
  | `visit(StmtSeq)`, the empty visits | `VisitStmtSeq`, `VisitIgnored` |
  | `visit(Assignment)` | `AssignmentEval`, then `AssignmentStore` |
  | `visit(ProcCall)`, `visit_write_int` | `ProcCallEval`, `ProcCallReject`, `ProcCallEmit`, `VisitWriteStr` |
  | `eval(Factor)` | `EvalNumber`, `EvalBool`, `EvalUnsupported`, `EvalDesignator`, `CallInner`, `EvalParen`, `EvalNegation` |
  | `eval(Term)`, `eval(SimpleExpr)`, `eval(Expr)` | `CallStart`, `TakeStart`, `CallRhs`, `TakeRhs`, `ChainReturn`, `Opcode`, `Operands` |

  A handler that calls another one in its middle is split at the call, because that
  is where other code runs between its two halves; the halves do everything the
  code does there.
  The three levels of expressions have the same loop and share its actions.

`Execution` - `main.cpp` from the Lowerer's construction on, and `stdlib.cpp`:
  compiling, the handling of the exception, and the interpretation of the code, one
  instruction per step. It EXTENDS `Lowerer`; its steps are the Lowerer's while
  `process` is `"compiling"`. What a division by zero does is not determined by the
  code, and LLVM may compute anything or stop: both are in the model (`Undef`, `Trap`).

`Language` and `Pascal` - the abstract specification. `Language` says of the
  *source* which programs are refused, and with which exception (`Verdict`), without
  scopes, frames or code, and which part of the language is implemented
  (`Supported`). `Pascal` executes a supported program statement by statement, with
  arithmetic defined by what characterises it (congruence; `l = q*r + m`) rather than
  by the formulas of `Ir`. `Execution` is checked, and but for termination proved, to implement
  it. `Checking` sets the Lowerer against `Language`.

`Printer` - `printer.cpp` and `printer.hpp`. `calls` is the call stack, `depth_` and
  `stream_` are the members of the class; a line of the stream is its indentation and its
  words. A visit first writes its line (`VisitHeading`; `VisitFor` and `VisitConstFactor`
  where the line is not determined by the node), then visits its parts, with the macro
  `DESCEND` or, where the visit only passes on, with `Forward`; `Return` undoes what its
  caller's `DESCEND` did. Nothing else changes `depth_`.

`Driver` and `Main` - `driver.cpp` and `main.cpp`, composed: `Main` EXTENDS `Driver`
  and calls its operations.

  | code | definitions |
  |---|---|
  | the loop over `argv` | `Flag`, `OutputPath`, `OutputPathMissing`, `ParseFile`, `Return` |
  | `Driver::parse` | `Parse` with `scan_begin`, `ParserAccepts`, `ParserRejects`, `ParserThrows`, `scan_end`, `PrintTree` |
  | what follows a failed parse | `ParsingFailed`, `ParsingTerminates` |
  | lowering and running | `Lower`, `LowerFails`, `Run`, `RunTraps` |

  What a source holds (`found`) is one of four things, and decides what scanner and parser make
  of it; how the Lowerer and the interpreter end is a choice, since `Lowerer` and `Execution`
  are the modules that say more. `said` is the sequence of messages.

`Scanner` - `scanner.l`, one action per kind of rule. The automaton is flex's, so its
  contract is what is modelled: `yyleng` is the longest match, `Rule` the first of the
  rules that match so much. `location` is bison's pair of positions, moved by `columns`,
  `lines` and `step` as the rules do; `make_number` is `strtol` with its clamping and
  `ERANGE`, for every pair of widths of int and long.

`Syntax` - the tokens, and the concrete syntax read from the tree down: `SentencesOf` says which
  sentences mean a node, or a list or part of one, in terms of the sentences of its parts.
  `Sentences` itself is a parameter, as is `EndsOpen` (an `else` behind this statement would become
  a part of it): any solution of those equations. So nothing here is recursive, and what is proved
  of every solution is true of the least one, which is what TLC takes.

`Parser` - `parser.y`. bison's automaton is external as well; the grammar is data, and a
  stack of symbols still to come stands for the automaton. Alternatives that begin alike are
  factored so that one token decides between the rest, which is an assumption
  that TLC evaluates (`OneTokenDecides`); the one conflict that remains is that of `else`, and
  is resolved as `%nonassoc THEN`/`ELSE` resolve it. The actions come in the order of
  bison's reductions: `Expand` chooses an alternative, `Shift` takes a token, `Reduce`
  runs an action on the values, `set_ast` hands over the tree, `Throw` is the action
  that throws, and `SyntaxError` the end of everything else. `Arity` and `Built` are the actions:
  how many of `$1`, `$2`, ... there are, and what `$$` becomes.

`MCLowerer`, `MCExecution`, `MCPrinter`, `MCMain`, `MCScanner`, `MCParser` - values of the
  constants, and the properties that need something outside of a component: `MCPrinter` has a reader of the dump (`Read`); `MCParser`
  ties the knot of `Syntax` (`Sentences` is `SentencesOf`, recursively) and spoils the sentences it gets.

## 3. Runs

There is no state constraint anywhere: each program, text or command line makes a finite
run. Names are drawn from the set `Names`, literals from `0..MaxLiteral` with
`MaxLiteral = 7`, and the integer types have 2, 4 and 16 values for i1, i8 and i32
(`SmallHalf`: 1, 2 and 8): few enough for overflow, the smallest integer and its division
by -1 to happen in short programs, and still three different widths with the largest
literal at the limit, as `INT_MAX` is.

| run | inputs | question |
|---|---|---|
| `lowering` | all lists of up to two declarations of 1 to 3 names, over 5 lists of names and 6 types, and const and subprogram sections; bodies of two of 15 statements, with and without an assignment between them; every factor, every operator on operands of every type, three-operand chains | slots, scopes, values held and emitted, linearity, the verdict, what may change, termination, and the inductive invariant of the proofs |
| `any_execution` | the bodies and expressions of `lowering`, LLVM without assertions | whatever gets through, ill-typed code included, runs to an end; what is in the language runs as written |
| `source_execution` | integer programs: each expression after different assignments, printed in three ways, with a block and a copy of an uninitialized variable; refused programs | `Execution` implements `Pascal` |
| `printer` | every kind of node; every statement that holds statements around every other, twice nested | depth, readability of the dump |
| `command_line` | every command line of up to 4 arguments over a file, standard input and the 4 options; every state of the file and of standard input; every end of back end and program | index, sources, stages, exit status, termination |
| `scanner` | every text of up to 3 characters over 13, and of 4 or 5 over 6 of them; `INT_MAX` is 11, `LONG_MAX` 11 or 105 | locations, numbers, whole lexemes of the right kind |
| `parser` | the sentences of programs with every statement, expression and declaration that the scanner's tokens can spell; these with one token lost, exchanged with its neighbour, put in or replaced; set expressions | trees, errors, termination |

Two declarations are enough for each declaration rule, since a rule relates
a name or a type to one earlier name. Chains of three operands are the shortest in which a loop
takes its own result as left operand and in which an error can precede another one
of the same chain; they are also the shortest in which the pairing of operators and operands in
the Parser can go wrong by one. Two statements suffice for an error to hide another; the third is
there for what a statement leaves behind.
Four arguments hold a run of three `-o` and a file, which is the shortest in
which the pairing of the run matters and goes on behind it. Three characters hold a
keyword, what makes it an identifier, and what follows; five, a number past both limits or a
line between two others. Two levels of nesting are the least in which
an `else` can belong to a wrong `if`, and a third one puts a loop between them.

Deadlock is not checked in any run: the process ends.

**Fairness.** `FairSpec` (of `Lowerer` and `Parser`), `ExecSpec` and `Main`'s `Spec`
assume weak fairness of the whole next-state relation: one thread runs the constructor,
the visits, the parser and the interpreter, nothing blocks for ever and
nothing suspends it. (Reading standard input can block as long as
its writer does; the model takes what is read as there.) Nothing is assumed about which of two
enabled actions is taken: not about a division's two outcomes, nor about how the
back end ends. `Pascal` assumes the same of its own steps, and the refinement
check includes it. No liveness is claimed for `Scanner`, whose rules each read a character,
nor for `Printer`, whose visits are calls and range-for loops over a finite tree.

**What the properties show.**

- `ValuesComputedBeforeUse`, `ValuesUsedExactlyOnce`: what the recursion holds, and what it
  emits, is never used before it exists, twice, or not at all, whether or
  not instructions in between were folded away.
- `VerdictAsSpecified`: how the walk ends is what `Language` says of the source,
  *including which of several errors is reported*. An LLVM without assertions misses the
  clashes of types, so that there the property excepts the programs whose first error
  is one; they are compiled, and `any_execution` shows what then happens.
- `AccessesGoToSlots`, `DeclarationsAndCodeAreFinal`: the storage of the variables.
- `WriteIntIsDeclared`: the internal error of `visit_write_int` does not occur.
- `OperandsReady`, `ExecTypeOK`: the interpreter never needs what is not there.
- `ImplementsPascal`: the refinement. A store or a call is a statement executed, the
  content of a variable's slot is its value, and every other step is a stutter. It covers order
  of evaluation and of statements, folding against executing, and that
  refused programs run no statement.
- `RunsAsWritten`: the same without the end, of *all* inputs of a build: every step of a program
  in the language (`InLanguage`: refused for an error the build can see, or supported) is a step of
  `Pascal` or a stutter, whatever the other programs of the run do.
- `DepthIsNesting`: at every moment `depth_` is the number of active visits that were called
  with `DESCEND`, so that all three kinds of visit restore what they changed.
- `DumpCanBeRead`: the tree read back from the lines is the tree that was dumped, up to what
  the empty visits and the forwarding leave out (`Known`; see 5).
- `StatusAsPromised`, `FirstFileIsRead`, `StagesInOrder`: what the exit status says is what happened,
  in particular that with a file on the command line 0 means its code was run to the end, and any
  other status that it was not;
  the text read is that of the first argument that is neither an option nor an operand of `-o`, with the
  debug levels given before it; lowering and running come after a successful parse only.
- `LocationFollowsText`: the location moved rule by rule is the line and
  column counted from the beginning of the text, unless a string holds a newline.
- `NumbersAreExact`, `LexemesAreWhole`: a number is the value of all the digits there are, and
  fits; letters, digits and underscores that stand together are one word, and it is a keyword
  exactly if it is spelled like one; `:=`, `<>`, `<=` and `>=` are never taken apart; a string goes to the next quote
  of its kind. None of this mentions the rules, so that a pattern that is wrong or a rule in the wrong place breaks it.
- `ParsedAsWritten`: the text is one of those the tree is written as. `ErrorsAreJust`: an error
  is reported, or something thrown, only at a token with which no program of the run goes on
  after the same beginning.
- `WalkEnds`, `ProcessEnds`, `MainEnds`, `ParserEnds`: termination.

Each of these has a mutant of the code in `PROJECT.json` (the definitions marked
"A slip" in the modules) that breaks it.

**Disagreements.** Five runs end in a violation, and are expected to:

| run | the source says | the code does |
|---|---|---|
| `addition_of_truth_values` | `sema.hpp` 9: addition is only allowed for integers | adds any two values of one type, `true + true` too |
| `synonym_of_a_type` | `lowerer.hpp` 59: synonyms are expanded | `process_type_def` is empty; the name is undeclared |
| `call_of_write_str` | `lowerer.cpp` 358: no procedure but `write_int` is supported | a call of `write_str` is accepted and dropped |
| `direction_of_for` | `printer.cpp` 191: an assertion that no third direction occurs | `stmt.hpp` 163 never stores the direction, so that the assertion may fail, or the dump be wrong |
| `thrown_is_shown` | `main.cpp` 64-67: what is thrown is printed, then thrown again | the actions at `parser.y` 353, 409, 667 throw a `const char*`, which the clause does not catch |

## 4. Theorems

Eight modules hold proofs. Their theorems hold for every value of the constants: every
set of trees, texts or command lines, every width of integers, LLVM with and
without assertions.

| module | theorem | statement |
|---|---|---|
| `LowererProofs` | `TypeCorrect` | `Spec => []TypeOK` |
| | `CodeIsWellFormed` | `Spec => []ValuesComputedBeforeUse` |
| | `SlotsAreRight` | `Spec => []AccessesGoToSlots` |
| | `NothingIsUndone` | `Spec => DeclarationsAndCodeAreFinal` |
| | `WriteIntIsAlwaysThere` | `Spec => []WriteIntIsDeclared` |
| | `Invariant` | `Spec => []IInv` |
| | `ValuesAreLinear` | `Spec => []ValuesUsedExactlyOnce` |
| `VerdictProofs` | `VerdictIsRight` | `Spec => []VerdictAsSpecified` |
| `ExecutionProofs` | `ExecTypeCorrect` | `ExecSpec => []ExecTypeOK` |
| | `OperandsAlwaysReady` | `ExecSpec => []OperandsReady` |
| | `CodeMeansProgram` | `Spec => [](Supported(cu) => MeaningInv)` |
| | `CompilerIsCorrect` | `ExecSpec => RunsAsWritten` |
| `PrinterProofs` | `VisitsAreTyped` | `Spec => []VisitsOK` |
| | `DepthFollowsNesting` | `Spec => []DepthIsNesting` |
| | `DumpIsTyped` | `Spec => []TypeOK` |
| `MainProofs` | `StatusTells` | `Spec => []StatusAsPromised` |
| | `FirstFileOnly` | `Spec => []FirstFileIsRead` |
| | `StagesFollow` | `Spec => []StagesInOrder` |
| | `MainTypeCorrect` | `Spec => []TypeOK` |
| `ScannerProofs` | `ScanTypeCorrect` | `Spec => []TypeOK` |
| | `LocationIsPlace` | `Spec => []LocationFollowsText` |
| | `NumbersNeverWrap` | `Spec => []NumbersAreExact` |
| | `NothingIsCut` | `Spec => []LexemesAreWhole` |
| `SyntaxProofs` | (lemmas) | every action makes a sentence of the sentences it takes |
| `ParserProofs` | `TypeOKHolds` | `Spec => []TypeOK` |
| | `TreesAreProgramsHolds` | `Spec => []`(what is in `ast` is a program), if `AllTrees` |
| | `ParsedAsWrittenHolds` | `Spec => []ParsedAsWritten`, if `AllTrees` and `SyntaxIsClosed` |

*Assumptions.* `AstShape` (what the constructors and the grammar guarantee of
nodes; of the trees the Parser builds it is proved, see there), `TreesAreFinite` (every node is higher than the nodes inside it: each is owned by its
parent and made after its children), `IrAssumption` (each integer type has values; `Undef` is not an integer),
`BuiltinsAreIdents` (names of predefined types are identifiers), `LiteralsFit` (no
literal exceeds an i32, which `NumbersNeverWrap` is about); `FileNames` and
`ArgsAreNames` (a file is not called like an option, and the name the model gives standard
input is no file's); `TextsAreTokens` (the scanner returns tokens); `IntFitsLong` and `WordsOfLetters` (an int fits a long; keywords
are spelled in letters, and a newline is none). TLC evaluates them in the runs. The hypotheses of
the two theorems about trees are discussed with them, below.

### The lowering

Neither of the two main invariants is inductive. `IInv`, which the run
`lowering` checks as an invariant, adds to them and to `TypeOK`:

- `BuiltinsUntouched`: the outer scope holds the predefined types and nothing else. So a
  name that is found to be a variable was found in the inner scope, whose
  slots `AccessesGoToSlots` speaks of.
- `NameInList`: the loop over the names of a declaration is inside the list.
- `HoldsLeft`: an eval that waits for a right operand holds the left one, and the
  operator between them is not `in`. Otherwise `TakeRhs` could build an
  instruction with no operand, or one without an opcode.

`ValuesComputedBeforeUse` includes what evals *hold*, not only what is emitted: the code
alone would not be inductive.

All actions but those of the declarations do one of a few things: append at most
one instruction, and push, pop or replace one frame. The lemma `Step` says under
which conditions such a step preserves `IInv` (the new code extends the old, the new
instruction and the new held values are computed); `QuietStep`, `ThrowStep`,
`ReturnStep`, `CallStep` and `EffectStep` are its special cases, and each action needs
one of them and the facts about what it builds. `CodeGrows` and `SlotsKept` carry the two
invariants over an instruction that is appended, `DeclareNameStep` over a new
variable. `NothingIsUndone` does not follow from an invariant alone: `StepShape` says
that a step keeps the scopes or is `DeclareName`, and keeps the code or appends to it.

### Linearity

`ValuesUsedExactlyOnce` counts, for every result in the code, the operands that name it
and the evals that hold it. It is preserved only because the shape of the stack
limits who may hold what, so `LinearInv` adds two parts to `IInv`:

- `WalkShape`: only the loops over chains keep values; an eval is called by a frame that waits
  for it; a value that has been returned has a frame to take it; a loop keeps
  nothing before its first operand.
- `Linear`: each result has one use and no holder, or no use and one holder, where
  the value in `ret` counts as held.

A step that builds an instruction takes its operands from holders and makes the result
held by `ret`; the lemmas move one unit of the count at a time, and folding is
the case in which the unit vanishes because a constant has no uses to count.

### The verdict

`Verdict` is a recursive function over the tree. What is needed of it is what it says of a node
in terms of the nodes inside, and that its values are verdicts. Both are proved without
a rule of induction: of the nodes at which such a claim failed there would be one of least
`Height` (`LeastMember`), below which it holds; `Recursion` makes from this the equation of a
recursive function over nodes, and is used again for the functions of the refinement.

`VerdictInv` says at every moment what the walk has found out about the source:

- while declarations are processed (`DeclsSoFar`), that no problem lies behind, and that the inner
  scope has exactly the names behind, with their types. So the check that is
  about to be made sees the first problem, if there is one here.
- while statements are (`StmtsSoFar`), that the parts already visited have no error; that a value
  an eval holds or returns has the type that the semantics gives to the operands it has taken
  (`Carries`); and that, if a node being visited has an error, it is the program's error
  (`Surfaces`). The last is what the order of checks decides: it passes to
  the part that is called next only if all that comes before this part is in order, which
  for `in`, `/`, an assignment and the calls are four different arguments.

A step that throws then throws the error of a node being visited. Where types clash LLVM
asserts; without assertions the walk goes on with a value whose type nobody promised, and the
invariant is claimed of the programs whose first error is another (`ClashesShow`).

### The execution

`ExecInv` is `IInv`, `ExecTypeOK` and two facts more: `ArgsComplete`, that an instruction
has as many operands as its opcode takes, and `SlotsNamed`, that an alloca which has been executed
left the number of its own slot in its register. `IInv` says that operands name earlier
instructions and that loads and stores name allocas; the interpreter runs them in order,
so that all are there when they are needed, and `OperandsReady` follows although nothing at
run time checks it. The steps of compiling preserve `IInv` by the theorem's lemmas in `LowererProofs`,
cited, not repeated.

### The refinement

A step of the interpreter knows registers and instructions, one of `Pascal` statements and
values of variables. Between them stands what the code *means*, and `MeaningInv` says it while the
code is being built. A register assignment `rho` is `Consistent` with the values `e` of the variables
at a place of the code if every load since the last store or call has the value that `e` has
for its variable, and every other instruction computes its register from those of its operands.
Then:

- `CodeInv`: the k-th store or call in the code belongs to the k-th statement of
  the program. What it stores or prints is, under *every* consistent assignment, the value of the
  statement's expression (`Means`), and the slot is the variable's. A division whose result is
  undetermined is inside an expression without a value.
- `StackInv`: where the node of each frame lies in the sequence of statements, and that the number
  of those emitted is the place where the walk is.
- `HoldInv`: what an eval holds or returns means the part of its expression that has been
  evaluated.

Folding and emitting are the same to this invariant, since a constant means a value under every
assignment; that `Ir`'s formulas agree with `Pascal`'s characterisation of arithmetic
(congruence, quotient and remainder) is a group of lemmas of its own. Code that becomes longer by anything else than a
store or a call leaves all meanings valid (`ConsistentStep`). Only a store or call ends the validity of what has been loaded, and then no eval
is active that holds anything. `CodeMeansProgram` is this invariant for the whole walk.

At run time `RunRight` remains: the registers are consistent with what the slots hold. An alloca, a
load and a pure instruction keep it and change nothing that the source knows of; a store is `Assign`, a call
`Write`, a trap `Fail`, the return `End`; compiling is a stutter, `Abort` is `Refuse` because
of `VerdictIsRight`, and `RunFunction` is `Start`. `CompilerIsCorrect` is thus the
safety part of `ImplementsPascal`, for every unit, and stronger in that other units of the same instance
may be outside of the language (`InLanguage`).

### The Printer

`DepthInv` is `VisitsOK` (the visits are of nodes of the tree, each within its
parts) and `DepthIsNesting`. A call adds its caller to the set of those that descended
exactly if the caller does not forward, a return takes it out again, and
`Cardinality` counts along. `DumpIsTyped` adds the lines: each is written with an indentation
of `depth_`, a natural number by `DepthInv`, or continues the last one, whose indentation stays.

### The command line

`LoopInv` and `ReadInv` hang on `EvenRunBefore`: the run of `-o` directly before the argument
the loop looks at has even length, so that the loop looks at arguments only and never at
an operand. With it, the index and the definition of an operand (which does not
mention the index) agree, and the file read is the first one. `SaidInv` relates what was said to
where main is, and `InOrder` is the part of it that `StagesInOrder` needs; messages that are
not of a stage (`Plain`) may come between. `StatusTells` needs more than what the status says of the
file (`StatusOfFile`): that the code has been run exactly when the loop was left through it, or
the process then ended with 0 (`RanInv`), which rests on both invariants, since a `Return` from the loop itself has no tree.

### The Scanner

`ScanInv` has a claim about every token returned (`Good`), made when it is returned and, as the text
does not change, true from then on. `yyleng` is a maximum: that it exists and bounds every match
comes from the finiteness of the text, that the first rule exists from well-foundedness.
From the maximum follows that a word or an operator cannot go on (`LexemesAreWhole`) and that a run of digits
is whole (`NumbersAreExact`); from the order of the rules, that an identifier is no keyword, as the rule of keywords would
have come first; `LocationFollowsText` follows from how many newlines
each rule's pattern can hold.

### The Parser

`TypeOK` promises that at the end everything has been read and nothing is left over, neither
symbols nor values. That is a statement about the grammar and the actions at once: every action
takes as many values as the symbols of its alternative have left, in every alternative, factored
ones included. `ParsedAsWritten` is far from inductive: it speaks of the end only.

The sorts of values are the names of the grammar's symbols. A *signature* is an action, or a rule that
continues what was begun (as `TermListRest` continues a `Term`), with the sorts it takes from the top of the stack and
the one it leaves there; every other symbol leaves a value of its own sort (`Turns`). A sequence of
symbols is `Typed` if it turns one sequence of sorts into another. `Fine` says of a production that
its right side turns whatever its left side turns, in the same way; that all 156 productions are
(`AlternativesFit`) is proved rule by rule, from paths of one symbol after another.

A value is a `Phrase` for a sort and a segment of the text if it is of that sort and the
segment is a sentence that means it, and, for a statement that ends open, if no `else` follows. `Makes`
says of an action: from values that are phrases of the adjoining segments, it makes a phrase of the
segment they cover. `SyntaxProofs` proves this of each of the actions (`SignatureMakes`). Two
need more than what they are given: `=IfThen` that no `else` follows, which the symbols still
to come must therefore remember (`Awaited`); and `=SimpleExpr` and `=Term`, that the two lists they pair by
index have lengths that differ by one, the first operand in front (`OperandInserted`).

`IInv` has three phases: nothing read (`Begun`), everything read (`AtEnd`), and in
between (`Reading`) there are sorts `A` and boundaries `c` such that the values fit `A` and the boundaries,
which cut what has been read into phrases (`Fit`), while the symbols still to come turn `A` into a program (`Ready`).
`Expand` keeps this because productions are fine, `Shift` because a token is a phrase, `Reduce`
because of `SignatureMakes`, and `set_ast` has one phrase left, which is the program and spans the
text. Nothing is used of the choice of alternatives (`Predicted`) but that it is one of the grammar's and
that `=IfThen` is not chosen before an `else`; so what is accepted is right whatever the automaton prefers
elsewhere.

The hypotheses: `AllTrees`, that every record of the shape that `AstShape` describes is in `Node`; and
`SyntaxIsClosed`, that `Sentences` contains what `SentencesOf` makes of it, and `EndsOpen` implies what `EndsOpenOf` makes
of it. Both are closure conditions under constructors that build finite things from finite
things, so that the least sets that satisfy them exist, and are the trees and the
sentences one means. They have to be hypotheses because the sets of one run of TLC, where `Node` holds the trees
of a few programs, are not closed. From `TreesAreProgramsHolds` follows that what
`AstShape` assumes for the Lowerer and the Printer is what the Parser guarantees.

### Only model-checked

- Liveness: `WalkEnds`, `ProcessEnds`, `MainEnds`, `ParserEnds`, and of
  `ImplementsPascal` the fairness, that is, that a supported program comes to its end. The prover
  has no rules for `ENABLED` and fairness.
- `DumpCanBeRead`: its reader is recursive over the lines, in a module that declares `RECURSIVE`
  operators.
- `ErrorsAreJust`: that a sentence of a program is never refused depends on the choice of
  alternatives, through `FirstRule` and `NullableRule`, fixed points over the grammar; it would take an
  induction over the derivations of a tree. `OneTokenDecides` is evaluated by TLC.

## 5. What is not modelled

- LLVM, flex and bison themselves. `Ir`, `yyleng` with `Rule`, and `Predicted` are their
  contracts; `verifyFunction` and printing of the module
  (`main.cpp` 44-49) change nothing the properties speak of.
- The buffer of `stdout`: `out` is what `write_int` printed, not what reached a reader.
- `process_decls` of the Lowerer, which nothing calls; the type checker
  (`sema.hpp`, `ast/visitors/typechecker.cpp`), which is declared and not written; the
  build and hook scripts.
- The ownership of module, context and engine inside LLVM (`main.cpp` 51-59).
- The composition of Scanner, Parser and Lowerer into one state space. Each starts from any
  input that the one before it can hand over: the Parser from sequences of tokens
  that the Scanner can return, the Lowerer from trees the Parser can build, and `Main` has the order in
  which they run.
- The layout of a line of the dump, and the wording of messages.

What the code does and the models do too, with no property that promises more:

- `if`, `case`, `while`, `repeat`, `for`, `New` and `Dispose`, and the sign of an expression, are
  parsed and dropped by the Lowerer; `Supported` leaves out programs with them.
- A value of another type than its variable's is stored, and an assignment to an element stores to the
  whole variable. `Execution` models what this does to memory, and `any_execution` runs it.
- Character constants, character ranges, `..`, `^`, and the types that need them, have tokens in
  the grammar and no rule in `scanner.l`. `Parser` has their productions; no text of a run
  holds their tokens.
- The Printer shows an `if` with an empty `then` branch and an `else` as if the `else` branch
  were the `then` branch, because the visit of an empty statement writes nothing; `Known` has
  neither.
- The path after `-o` is read and never used.
- A string may hold newlines, which move no line of the location; `LocationFollowsText` says so.

## 6. What could follow

Everything the first plan named has been written: `Ast`, `Ir`, `Lowerer`, `Execution`, the
abstract specification and the refinement; `Printer`; `Driver` and `Main`; `Scanner`; `Parser`; and
the proofs of 4, up to the refinement. What is left, in the order of what it would add:

1. `ErrorsAreJust` as a theorem: that every sentence of a program is accepted.
2. Texts through `Scanner` into `Parser`: the spelling of tokens in one run.
3. The buffer of `stdout` and a division that stops the process (`stdlib.cpp` 27).
