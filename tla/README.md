# Verification of the Razen compiler

Razen is a compiler under construction: a lexer and a parser produce a syntax
tree, `razen_sema` resolves names, infers and checks types and checks
mutability, and `razen_mir` lowers every function body to a control-flow graph
of basic blocks. The stages after that (`razen_codegen_c`, the two back ends,
`razen_daso`, `razen_driver`, `razen_std`) are placeholders, and `cli` prints a
greeting. The program is sequential: it has no threads, no messages, nothing
persisted and no clock. What is hard about it is state that is threaded through
deep recursive walks (a token cursor, a current block, a stack of loops, a stack
of scopes, a substitution) and passed on from one phase to the next, where a step that is wrong shows up many calls later, and only
for some nesting of constructs that nobody wrote a test for.

So the models are stack machines. The recursion of the code becomes an agenda
of work, head first, and the program being compiled is not fixed: the syntax
tree is chosen node by node when the walk first reads it, so that the
behaviours of one instance are all programs up to a number of nodes.

## Components

Paths are below `src/razen/crates/`.

| Component | State | Operations | Correct when | Module |
|---|---|---|---|---|
| MIR functions, `razen_mir/src/func.rs`, `block.rs`, `inst.rs` | blocks, a terminator each | allocate, terminate, query | every block is terminated exactly once, targets exist | `MirFn`, `BlockLife` |
| Body lowering, `razen_mir/src/lower.rs` (`FnBuilder`, `lower_fn`) | current block, `terminated` flag, `loop_stack`, `local_map` | one arm of `lower_expr` / `lower_stmt` per construct | as above; break and next reach their loop; the MIR does what the source says; a name reads the slot of its declaration | `MirLower`, `MirExec`, `LowerLocals` |
| Module lowering, `lower.rs` `lower_module`, `program.rs`, `ty.rs` | program tables | lower functions, impl blocks, struct and enum definitions | every function with a body is lowered | functions in `LowerLocals` |
| MIR printer, `display.rs` | none | formatting | | no |
| Type inference, `razen_sema/src/infer.rs`, `ty.rs` | `next_id`, `subst` | `new_var`, `apply`, `bind`, `unify` | bindings are kept, results are most general, `apply` ends | `Ty`, `InferCtx` |
| Type checker, `check.rs` | `type_env`, `expr_types`, expected return type | a walk that calls `unify` for every constraint, `finalize` | every use has the type of its declaration | `Sema`; its calls of inference in `InferCtx` |
| Name resolution, `resolve.rs`, `scope.rs`, `symbol.rs`, `prelude.rs` | scopes, open scopes, symbol table, `resolutions` | `enter_scope`, `exit_scope`, `define`, `resolve`, a walk | a name means its nearest definition | `Resolver`, `LexicalScope` |
| Mutability check, `mutability.rs` | reads `resolutions` | a walk over assignments | exactly the assignments to immutable names are reported | `Sema` |
| Parser, `razen_parser` | cursor, call stack, nodes built, errors | one parse function per construct, precedence climbing, attempts that are undone, recovery | ends, moves forward, keeps precedence, loses nothing, accepts only balanced modules | `TokenStream`, `ParseTypes`, `ParseExpr`, `Parser`, `ParseTree` |
| Lexer, `razen_lexer` | byte cursor | the next token | ends, takes the longest lexeme, loses nothing, never cuts a character | `Lexer`, `Lexemes` |
| Syntax tree, `razen_ast` | none | | | nodes of `MirLower`, `Resolver`, spans in `Parser` |
| Standard library, `src/razen/library/std` | Razen source | | | no: input of the compiler |

How they interact: `tokenize` turns the whole source into a vector of tokens, the
last of them the end; the parser works on that vector, and gives every node a span, by which all later phases know it. `analyze` (`razen_sema/src/lib.rs:73`) opens the module's
scope, injects the prelude, resolves, type-checks and checks mutability, all on
one `SemanticModel` that is passed on. The type checker looks definitions up by
span in `resolutions`, or by name in whatever scope is still open, and sends
every constraint through one `InferCtx`. Lowering takes the syntax tree and the
model, from which it reads types and `resolutions`, and produces a `MirProgram`. There are no
callbacks; sharing is by passing the model along.

## Modules

**`MirFn`** is a function under construction: the terminators of its blocks, the
current block and the `terminated` flag of `FnBuilder`. `Terminate` has the code's
guard on the flag and its silent drop, `SwitchTo` clears the flag without
looking at the block, as the code does. A block that was only allocated holds the
`Unreachable` placeholder (`Open`).

**`MirLower`** is `lower_fn` with `lower_expr` and `lower_stmt`. Variables: `ast`
(the tree read so far), `agenda`, `fb`, `loop_stack`. An action either reads a
node (`VisitIf`, `VisitLoop`, ...) or resumes a call where it was left
(`IfBranch`, `LoopEnd`, ...); a frame of the agenda remembers what the Rust local
variables hold, in `owes` the blocks the call has allocated and will switch to.
Every arm that touches control flow is there. The arms that only evaluate their
operands in order are one construct, `"operands"`. `Features` switches on
constructs whose lowering is known to differ from the language (see below).

**`BlockLife`** is the abstract specification of a block: waiting, open, closed;
a terminator is given to an open block, once, and never changed; one block is
open at a time. `MirLower!BlocksLiveOnce` instantiates it under a refinement
mapping (`Life`).

**`MirExec`** extends `MirLower` past the end of lowering: it runs the source
by the rules of `src/razen/design/language/` and the MIR by its terminators, side by
side, with calls, decisions and the return as the visible events. The rules of
the source side are the reference and marked external in `PROJECT.json`.

**`MirFnProofs`, `MirLowerProofs`, `MirLoopProofs`, `LexerProofs`, `ResolverProofs`,
`ScopingProofs`, `ParserProofs`** hold the theorems, and **`CountingProofs`** lemmas that several of them
use: about the smallest and the greatest of a set of numbers, about sequences one behind
the other, and about how many frames of a sequence run an operation.

**`Ty`, `InferCtx`** are types and `unify`. One action is one arm of `unify`; the
calls it makes go on the agenda, so the substitution changes between them as it
does in the code. The checker is an environment that calls `unify` with any two
types of `Inputs` in any order. A type whose `apply` would never return sends
the model into the phase `"overflowed"`, which is what the process does.

**`Resolver`** is the walk of `resolve.rs`. A construct is the order in which it
enters scopes, visits children and defines names (`VisitLoop`: enter, value,
pattern, body, exit, else). Scopes are never freed, as in the code, so that ids
stay valid. **`LexicalScope`** is the reference: what a name means by its
place in the tree, computed from the finished parts of the tree, with no scopes
(`Meaning` is a recursive function on nodes, and not an operator, so that it can be
proved about). It has two rules. A name is known in the block that binds it and not
outside (`Meaning`); the result of a task of a fork, `fork { x <- f() }`, is also known to the
statements after the fork (`PastResult`; `keywords.md:538`). The code has only the first, so
`LexicalScoping` is about the names that are not such results (`~AfterFork`), and
`ResultsAvailable` about those that are. Inside of a fork, a result is known to the tasks
after its own, as the code binds it; the documents do not say.
A parameter or iterable that the code visits between two others is one operand,
and `self` and `_` are left out; local items other than functions are visited
by the same two calls as functions.

**`Sema`** extends `LexicalScope` by the two phases `analyze` runs after the
resolver. The type checker is the list of what its walk does to `type_env`, in
order: look up a use, give a type to the DefId recorded at a span
(`lookup_span_def`), or to the one a name has in the scope that is still open
(`lookup_def`). A type is the declaration that gave it, so a property can say whose
type a use has; types as such are in `InferCtx`. The mutability check is the
set of uses that it would report if they were assigned to: every use stands for
a possible target, and what is said of one does not depend on the others. Its properties, and that of
`LowerLocals`, are about the uses that the resolver gets right (`Judged`, all but
those of the result of a fork that is over).
`CheckModule` is one action because no other phase sees what is between its
steps; their order is in the list. A pattern is taken to have the shape of its
type (see below).

**`LowerLocals`** extends `Sema` by the phase after `analyze`: the slots that
`lower.rs` allocates for names (`local_map`, by DefId) and the slot that every use
is lowered to. Which statements behind a jump are left out and which patterns
are lowered in part is the input's choice (`skipped`, `partial`), since the tree of
`Resolver` does not tell `ret` from `f()` nor an or-pattern from two fields.

**`Lexer`** is the lexer on bytes, an ASCII character or a part of a longer one each
(`"comma"`, `"quote"` and the like are the names of characters; a source is a `&str`, so its
longer characters are whole: `SourcesAssumption`);
a step is one iteration of a loop, or a whole token where there is no loop. `mode` is
the loop, `start` the beginning of the token in progress. What is a comment is decided
in `next_token` (`CommentAhead`) and again in `skip_comments` (`SkipComments`), as in
the code. **`Lexemes`** is the reference: which texts are lexemes of which kind
(`Lexeme`: the spellings of `token.rs`, and the shapes of literals, words and comments), and
that every token is the longest one. The documents of the language have three literals
that no kind of `token.rs` has (`DocumentedLiteral`): raw strings, characters of several bytes and
numeric escapes in characters. The lexer takes them to pieces, and where a piece ends
inside of a literal there is nothing to compare it with; so `LongestMatch` holds up to the first of
them (`InStepWithDocuments`), and `RawStringsWhole` says what should become of a raw string. The
letter `r` begins one, `x` stands for the letters of the numeric escapes, `a` for all
others.

**`TokenStream`** is the cursor of the parser and the machine its functions run
on: `calls` is the call stack of the recursive descent, head first, and `Raise` is
what `?` does to it, down to the attempt (`Commit`) or the item that catches the
error. A list that goes on is a frame that puts itself behind its next item
(`Comma`, and the frames `"fields"` and `"field_inits"` of patterns and literals). **`ParseTypes`** (types.rs, pat.rs), **`ParseExpr`** (expr.rs) and **`Parser`**
(stmt.rs, item.rs, lib.rs) are the parse functions: which tokens each looks at, in
which order it consumes them and calls the others. A token is its kind; `nodes`
are the spans of expressions, patterns and types, in the order they are built,
with the position of the operator. Tokens are chosen when the cursor comes within
three of them, so that inputs with a common start share it. **`ParseTree`** states
what the tree must be like over the tokens alone: a ladder of operators,
brackets, literals.

## Runs

| Run | Instance | Shows |
|---|---|---|
| `mir_lower` | programs of at most 5 nodes, 2 operands | `OneOwner`, `LoopNesting`, `TargetsExist`, `AllTerminated`, `EntryNotRejoined`, refinement of `BlockLife` |
| `mir_exec` | programs of at most 6 nodes, outcomes 0 and 1 | the MIR does what the source does (`InStep`), and never spins in silence (`MirAnswers`) |
| `infer` | 3 variables, 3 calls, 6 plain types, or 2 variables, 2 calls, 18 types of every arm of `unify` | bindings stay (`NeverRebound`), `walk` ends, unified types agree for good (`Agreement`: also after widening, and for `never`, `shared`, arrays of unknown size, type parameters, named types of different arity), nothing is concluded that need not hold (`MostGeneral`, plain types) |
| `resolver` | modules of at most 6 nodes | scopes nest, every name means what its place says (`LexicalScoping`: all uses but those of the result of a fork that is over) |
| `sema` | modules of at most 6 nodes | a use has the type of the declaration it means, or none (`LocalsTyped`, `ItemsTyped`); exactly the assignments to immutable names are reported (`AssignmentsChecked`); a use reads the slot of the declaration it means (`LocalsRead`); uses of the result of a fork that is over are apart |
| `parser` | 13 families of inputs | parsing ends (`Terminates`), the end of the input stays (`EofStays`), every error moves forward (`ErrorsAdvance`), attempts lose nothing (`EveryLiteralOnce`), operators group by precedence (`Precedence`), spans are keys (`SpanKeys`), accepted modules are balanced (`AcceptedShape`) |
| `lexer` | sources of up to 6 characters, 6 families | lexing ends (`Terminates`), every token is the longest lexeme (`LongestMatch`: up to the first literal that only the documents have), only whitespace and comments are skipped (`NothingLost`), no character is cut (`SlicesWhole`) |
| `mir_labels` | as `mir_exec`, with labels | **violated**: labels are ignored |
| `mir_iterable` | as `mir_exec`, with calls as iterables | **violated**: the iterable runs before every element |
| `infer_finalize` | the plain types of `infer`, 2 calls | **violated**: `apply` does not end on a cyclic substitution |
| `resolver_defs` | as `resolver`, smaller | **violated**: closure parameters have no entry at their span |
| `resolver_fork` | functions and methods with forks, 6 nodes | **violated**: results of a fork are unknown after it |

To reproduce: `tlc -workers 2 -config MCMirLower.cfg MCMirLower`, and so on.

### Bounds

*Nodes.* Lowering keeps no more state between two constructs than the current
block, the flag and the loop stack. Five nodes fit two constructs inside each
other with a jump and something after it (`fn` > `loop` > `if` > `break`, tail),
which is every pair of neighbours that can disturb each other; six, in
`mir_exec`, add a visible call on either side. In `resolver` six nodes fit a
binder, its value and a use after its scope inside a function, and every child
of every construct. One bound name is enough there: shadowing, leaking and
wrong order show on a single name, which the prelude defines too, and a second
name stands for all undefined ones. The patterns bind it not at all or twice.
`sema` goes through the same trees with one name, which the prelude defines, so
that a use is unresolved only in a jump; it leaves out the constructs that `Sema`
and `LowerLocals` treat like others (`match` and `if let` like `loop`, `guard` and
operands like blocks). Parameters of methods stand for `mut` parameters.

*Sources of the lexer.* An operator has at most three bytes, so three operators in a row
(and five of those that are longest) show every pair that could be read as one. Six
characters fit two comments and what is between them, an escape at either end of a
string, and a string or comment that is not closed. Each family has the bytes that
some loop or arm asks for together, and, where text is cut out of the source, a
character of two bytes.

*Inputs of the parser.* A family is a sequence of slots, each with a few token
strings: two and three operators of any kind among operands, prefixes and
postfixes; types; primary expressions; statements, those whose attempt to be a
pattern succeeds and those whose attempt is undone; patterns; signatures; data;
pieces of items for recovery. Together they have every token some function asks
for, and inputs that break off anywhere. Two operators show both sides of each
pair of levels, and three pieces an error, where recovery stops and what comes
of it.

*Arms and patterns.* The arm lists of `mir_lower` have each shape the switch
treats differently: none, one, a known or an unknown last arm, guards, an arm
that cannot be reached. Those of `mir_exec` cover all outcomes, as
`design/language/patterns.md` demands of a match.

*Types.* The plain types of `infer` are variables alone, under one and under two constructors,
and one type that mentions two; three calls allow a chain, a circle, and a
constraint that meets an earlier failure. `Ground` is where solutions are looked
for: `MostGeneral` is checked against every assignment of those types, so a
conclusion that excludes one of them is found and one that only excludes
deeper types is not. The second family has one type per rule of `unify`, two calls
(three would not finish); the rules do not keep state but the substitution.

*Silence.* `silent` counts MIR steps without a visible event; the invariant bounds
it by the number of blocks, so it is itself bounded.

### Fairness

`Lexer!Spec` and `Parser!Spec` have weak fairness of their next step: one thread goes
through a finite vector of bytes, or of tokens, and never waits. Which source or family of
inputs it is, is chosen in `Init`, and which string fills a slot is not assumed to be
fair. `Terminates` of the parser holds only if every loop tests for the end of the input
and every error is followed by progress, and that of the lexer only if the two places
that recognise comments agree, as their mutants show.

The other runs check no liveness property: the number of nodes bounds every
behaviour of `MirLower`, `Resolver` and `Sema` (their steps consume the agenda, and
deadlock is checked, so a walk that stopped early would be reported). What could
go on for ever there is stated as safety: `MirAnswers` for the code that was
produced, `WalkEnds` and `FinalizeReturns` for the recursions over the substitution.

## Theorems

What TLC checks on an instance, these theorems state for every value of the constants,
from the assumptions named with each. The last step of every one is temporal; all the
others are about one step of the program.

### Lowering: `MirFnProofs`, `MirLowerProofs`

For every number of nodes and operands and every choice of arm lists, patterns, constructs
and features (`MirLower!ConstantsAssumption`):

- `TypeCorrect`, `BlocksHaveOneOwner` (`OneOwner`), `NoDanglingTarget`
  (`TargetsExist`), `FinalMirIsTerminated` (`AllTerminated`);
- `LoweringKeepsBlockLife`: lowering implements `BlockLife`.

The argument. `OneOwner` says that each open block is either the current one or
owed by exactly one call in progress. That is not inductive as it stands: that
`loop_end` owes one block and has a header, that `match_arm` owes one block for
each arm left, or that an `if` with an else has three children is what lets the
next step find the block it switches to. `Inv` adds this: every frame `Fits`
its operation, the agenda is `Tidy` (no block owed twice, `lower_fn` at the
bottom and nowhere else, so that it is last to run), the function is `Sound` for
the blocks that are waited for, the loop stack names existing blocks, and at the
end the current block is closed. `MirFnProofs` shows what allocating, closing
and switching do to `Sound`; each is used by many actions. Then there is one lemma
per action (`VisitIfStep`, `LoopEndStep`, ...) that it preserves `Inv` and that
the function only grows (`Keeps`: no closed block changes, no waiting block gets
a terminator), the second half being the step of the refinement.

### Loops: `MirLoopProofs`

From the same assumption:

- `LoopsNest` (`LoopNesting`): `loop_stack` is the nesting of the loop bodies that
  lowering is in, each with a header that is closed and an exit that still waits;
- `EntryOnce` (`EntryNotRejoined`): where every break and next stands in a loop, no
  terminator goes back to the entry block.

`LoopNesting` finds the entry of a body by how many bodies end behind it in the agenda.
`LoopInv` therefore counts: the entries of the stack are those of the frames `loop_end`,
numbered from the bottom of the agenda (`Nests`). Most actions put frames on top, none of
them a `loop_end`, which leaves the numbers as they are (`NestsOnTop`); entering and leaving
a body moves the last one. That the header of a body is closed holds only because the frame
that lowers the condition remembers a header that nobody else is going to fill, and that
break and next never name the entry block because no frame and no entry of the stack does;
both are conjuncts of `LoopInv`.

### Name resolution: `ResolverProofs`

For every number of operands, all names and every finite prelude
(`Resolver!ConstantsAssumption`):

- `TypeCorrect` (`TypeOK`);
- `OpenScopesNest` (`ScopesNest`): the open scopes are a path in the tree of scopes, one
  for every scope that is still to be left, and at the end that of the module alone.

`ResInv` says that from every place of the agenda on at least as many scopes are left as
are entered (`Legal`), and that those left in excess are the open ones but for the module's
(`Level`): so `exit` never closes the scope of the module. Every construct puts a list on top
that leaves what it enters (`Balanced`), and one lemma says what such a list does
(`LevelConcat`); for most actions what remains is to show that their list is one.

### What names mean: `ScopingProofs`

From the same assumption:

- `NamesMeanTheirDefinitions` (`LexicalScoping`): when the walk of the resolver is over,
  every use has the definition that it means by its place in the tree, and the
  undefined identifiers reported are those that mean nothing. Uses of the result
  of a fork that is over are apart: for them it is the code that is wrong.

The walk has scopes and no tree, the reference a tree and no scopes, and the tree grows as the
walk reads it. What relates the two is the agenda. Take the open scopes as a stack
(`Stack`: what each name is resolved to with the outer scopes up to each), and run the frames of
the agenda from it: `enter` pushes, `exit` pops, `define` rebinds a name, and a node that is
not read yet changes nothing. `FlowOK` says that this run comes to every such node with the names that
`Meaning` has for it (`Runs`). With `Settled`, that the lookups done so far were right,
and the tree being one (`TreeOK`), it is inductive (`LexInv`, theorem `WalkFollowsTree`).

Two things make it delicate. A statement may turn out to be a `let`: what stands for it in
the run is then wrong for the statements behind it. So the run only has to know the
stack around a statement afterwards, and the statements behind it are followed by name up to the end of their
block (`Continues`), which is where their new names are forgotten (`LaterOnes`, `RestRuns`).
And reading a node changes `Meaning`, which looks at the tree: only for the later statements of the same block,
none of which is read (`GrewMeans`, `MeaningsKept`). What is left for each construct is that the
frames it puts on the agenda run from what the node means to what it binds for those after it
(`Works`); such runs are put together from parts (`RunsConcat`, `RunsBinds`, `RunsBody`,
`RunsScoped`). That the first run is right is the two passes over the items:
declared in order, the last of a name stays (`DeclaredAll`).

### The lexer: `LexerProofs`

For every source, that is, every sequence of the bytes that is a `&str`
(`Lexer!SourcesAssumption`):

- `TypeCorrect` (`TypeOK`), `SlicesAreWhole` (`SlicesWhole`), `TokensAreLongest`
  (`LongestMatch`), `OnlyBlanksLeftOut` (`NothingLost`). The invariant has the stronger
  `LastJustified`: by the lexemes of `token.rs` alone, every token is the longest without
  exception.

`Inv` adds to these what each loop has read so far: `WordOpen`, `NumberOpen`, `StringOpen`, ...
give the shape of the text from `start` to the cursor, and `OnlySkipped` that only
whitespace and comments lie between the last token and there. A loop that ends turns its
shape into a lexeme, which is the longest because the byte at the cursor does not go on with it.
Whether the quote at the cursor ends a string depends on the number of backslashes in front
of it, which is why `StringOpen` speaks of its parity. Characters of several bytes are whole in a token because
every byte a loop stops at is one that no character has in its middle.

### The parser: `ParserProofs`

For every input made of any strings of tokens (`TokenStream!InputsAssumption`):

- `EofIsKept` (`EofStays`): no function consumes the end of the input;
- `RecoveryAdvances` (`ErrorsAdvance`): every item and every error takes a token of its own.

The first is a property of what is left to do: a frame that waits for a token may be
nested in others and run much later. `Good` says of a frame that neither it nor any frame in it
waits for the end of the input; being about the depth of nesting it is stated as membership
in a set of frames that is closed under taking parts (`Closed`), so that no recursion is
needed. `Shape` says that `calls` is made of good frames and of attempts
above the two of the module. `Counted` compares the items and errors with the token the item
began at: the item has consumed one, or it is `Early`, in one of the six states
between its start and its first token, and then the next token is one it will consume; no attempt
goes back to where its item began. There is one lemma per action, most of them in one line from what happens to
`ParseInv` when a function consumes tokens (`Read`), calls others (`Called`), returns
(`Returned`) or fails (`Raised`).

### Only model-checked

- `MirExec`. It compares a recursive walk of a tree with a graph; the proof is an
  induction over the tree, which is beyond the provers installed.
- `InferCtx`, `Sema`, `LowerLocals`. Types and trees are recursive
  data and their operators `RECURSIVE`, which the provers cannot be used with.
- `ParseTree`: `SpanKeys`, `Precedence`, `EveryLiteralOnce` and `AcceptedShape` relate the
  nodes built to the functions that are still to return, an induction over the tree.
  `TypeOK` says that tokens are strings, and the provers do not know that
  a string is in `STRING`; that its spans are in the input needs, for every function, that it consumes a
  token before it builds a node.
- Anything about termination: liveness is out of the prover's reach.

The induction principle that some of the proofs need (a set of numbers has a smallest
member) is not cited from a library theorem with an operator parameter but derived from the
order of finite sets by inclusion, which the library has as a plain fact (`CountingProofs!Smallest`).

## Findings

The five violated runs, with the lines they contradict, are in `PROJECT.json`. What
they mean for the compiler:

- *Labels* (`lower.rs:854`): `break 'outer` leaves the inner loop only.
- *Iterables* (`lower.rs:502`): `loop i in f()` calls `f` for every element. The
  fork loop evaluates its iterable before its header.
- *Cyclic types* (`infer.rs:66`): `v := vec[]` and then `v == vec[v]` binds a
  variable to a type that contains it, and `apply` overflows the stack.
  `MostGeneral` shows the mild side of it: the overflow happens only for
  programs that have no typing.
- *Unrecorded definitions* (`resolve.rs:487`): parameters of closures and
  shorthand or renamed fields in patterns get a DefId that the type checker
  cannot find, so that every use of them has the error type and passes every
  check.
- *Results of a fork* (`resolve.rs:540`): after `fork { x <- f() }` the name `x` is reported
  as undefined, or means what it meant before the fork, although using it there is what
  the form is for (`keywords.md:543`, `06_features.rzn:284`).

### Other divergences

These were met while modelling and have no run of their own. The features and
constants of `MCMirExec` reproduce the ones marked *; `InStep` fails at once.

- \* A deferred body runs where it stands, not at scope exit in reverse order
  (`lower.rs:1130`; `keywords.md:507`): `Constructs <- NodeKinds`.
- \* The `else` block of a loop is never lowered (`keywords.md:381`):
  `Features = {"loop_else"}`.
- \* A break in a fork loop leaves the loop around it (`lower.rs:917`):
  `Features = {"fork_break"}`.
- A break outside any loop jumps to the entry block (`lower.rs:858`). The language
  gives such a program no meaning to compare with, and nothing rejects it;
  `MirLower` lowers it with `Features = {"stray"}`, which the theorems cover too.
- \* Enum variants without a payload have no discriminant: only the last arm is
  taken (`lower.rs:442`): `ArmLists <- UnitArms`.
- \* `if let 0 = ...` is inverted (`lower.rs:401`; `patterns.md:587`):
  `Patterns <- ZeroPatterns`.
- \* The value of a guard is dropped: a match arm whose guard is false is taken
  (`lower.rs:462`; `patterns.md:106`): `ArmLists <- GuardArms`.
- `&&`, `||` and `?` evaluate all their operands; `?` never returns early; a type
  test is always true.
- `unify` returns the wider of two numeric types but leaves variables bound to
  the narrower; named types with a different number of arguments unify.

In the analysis, modelled by `Resolver` and `Sema` as the code has it:

- The values of break and return *expressions* are not visited by the resolver
  (`resolve.rs:582`). Names in them have no resolution, hence the error type,
  and an assignment in them is never reported, although `mutability.rs:366`
  relies on the resolver having reported such a name. `AssignmentsChecked` leaves
  them out.
- Mutable, const and shared locals get no type in `type_env`: they are looked up
  by name in the module's scope (`check.rs:1339`; `resolve.rs:33` says every
  binding has one). If an item or a built-in has that name, its type is
  overwritten; methods of an impl do the same (`check.rs:267`). `LocalsTyped` and
  `ItemsTyped` state what is left.
- Assignments inside the initialisers of const and shared items are not checked.
- A tuple pattern is zipped with the elements of the type (`check.rs:1621`): names
  beyond them stay untyped without an error.

In lowering, modelled by `LowerLocals` as the code has it; `LocalsRead` states what
is left (`lower.rs:14` says that source bindings are mapped to slots):

- A name without a slot reads null (`lower.rs:193`), and an assignment to it goes to a
  fresh temporary (`lower.rs:1019`). That is every item of the module and of the
  prelude, so a call `f()` of a module function calls null; and also tasks of a fork,
  parameters of closures, shorthand fields, parameters that are patterns, and names in
  all but the first alternative of an or-pattern.
- A local constant is the slot of the variable it is initialised with, not a copy
  (`lower.rs:1080`; `keywords.md:12` calls it a compile-time constant).
- Bodies of closures, local functions (`lower.rs:1181`) and default methods of traits
  are not lowered.
- A fork loop binds the option that `__iter_next` returned, not its payload
  (`lower.rs:957`).

In the lexer:

- Raw strings are not read (`lexer.rs:142`): `r"C:\new"` is the word `r` and a string with a
  line feed in it, and `r"C:\"` does not end, contrary to `types.md:672`,
  `data-types-exs.md:429` and `06_features.rzn:1032`. `RawStringsWhole` of `Lexemes` states
  what they should be: as an invariant of `MCLexer.cfg` it fails at once, on `r""`.
- `nested.0.1` (`data-types-exs.md:263`) is a name, a point and the number `0.1`, and
  the parser takes no number for a field anyway (`expr.rs:225`); `1.5e-10` (`data-types-exs.md:26`) is a
  number, a minus and a number (`lexer.rs:354`). `Lexeme` has numbers as the code
  reads them.
- A number is a float if `f32` is anywhere in it, as in `0xf32` (`lexer.rs:380`).
- A block comment that is not closed ends with the source, without an error.
- A character of several bytes in quotes is a row of errors, and in a string it becomes
  several characters (`lexer.rs:410`; `types.md:115`); `'\u{1F600}'` and `'\x41'` are taken
  to pieces, the first of them an error, and in a string such an escape is its letter followed by the digits
  (`types.md:116`). As characters they are among the `DocumentedLiteral`s.
- `'it\'s a char'` (`06_features.rzn:1023`) is labels, words and errors. The reference has
  no such lexeme either: a `char` is one scalar value (`types.md`), and the example is
  at odds with that.
- `<-` of a fork's task (`keywords.md:540`) is the two tokens `<` and `-`, put together by the
  parser (`expr.rs:1042`), so that `x < -f()` reads as a binding there.

In the parser, modelled as the code has it (`ParseTree` leaves these inputs out or
accepts the error):

- `count: int := 42` (`symbols.md:18`) is an error: nothing reads the colon, contrary
  to the comments at `stmt.rs:184` and `stmt.rs:195`.
- A statement `(q, r) := f()` after an expression is a call of that expression.
- `arr[..3]` and `arr[3..]` (`symbols.md:173`) are errors.
- `f(x) := 3` drops its target and binds `_` (`stmt.rs:212`); a field pattern with a
  nested pattern after the colon is an error (`pat.rs:141`).
- `if flag {}` is parsed as the struct literal `flag {}` (`expr.rs:697`), and a
  closure without parameters, `|| body`, starts with the token of "or".
- Documentation comments are skipped between items only (`lib.rs:68`).

## Plan

Done: lowering of control flow and its proofs (`MirFn`, `MirLower`, `BlockLife`,
`MirExec`), inference, resolution, the type checker's and the mutability check's use of
names (`Sema`), slots of names (`LowerLocals`), the parser, the lexer; the proofs about
lowering, its loops, the scopes of name resolution and what names mean, the lexer and the
parser's cursor. Left,
in this order:

1. Theorems: `NeverRebound` of `InferCtx`, once its operators on types are recursive
   functions; the spans in `ParseTree!TypeOK`.
2. Types as data in the checker: aliases take what their target is when they are met
   (`check.rs:1515`), and `Ty::Infer` is tested on types that nobody has applied
   (`check.rs:564`).
3. Temporaries along the blocks of `MirLower`: each is assigned on every path to its
   use.
4. The data of module lowering: tables of structs, enums and impl blocks.
5. The lexer in front of the parser in one specification: the parser's tokens are
   chosen directly now, which covers more of them at the same size.

## Not modelled

- The MIR printer: formatting without state.
- The standard library and the assets: Razen source and images.
- `razen_std`, `razen_daso`, `razen_driver`, `razen_codegen_c`, the back ends and `cli`:
  placeholders without behaviour.
- Within the modelled parts: the table of keywords; the text of names, literals and diagnostics; labels,
  visibility and names in the parser, and the spans of statements and items;
  types as data in `Sema`; kinds of symbols and the types of the prelude; temporaries
  and instructions that do not branch.
