# go-sass in TLA+

TLA+ specifications of go-sass, model-checked with TLC and, where it pays,
proved with TLAPS. The source is the reference: every definition that models
code is tied to the lines it stands for in `PROJECT.json` (`map`).

## 1. The system

go-sass compiles Sass to CSS. It is a library (`compile`), a command
(`cmd/go-sass`) and a server (`embedded`) that a host process drives over
stdin and stdout. Nearly all of it runs on one goroutine; only the server is
concurrent.

```
 host ==stdin/stdout==> embedded ----> compile --> eval <--> sassenv, sassmodule,
                        dispatcher        |         |        configuration
                        isolates          |         +--> extend, functions, value
                        callbacks         |         +--> import cache --> importers
                                          +--> sasslogger, sourcemap
```

### Components

**embedded: isolate dispatcher** (`isolate_dispatcher.go`, `executable.go`).
*State*: `activeIsolates` (compilation ID to isolate), `inactiveIsolates`,
`allIsolates`, all under `mu`; the channel `isolatePool`, whose tokens cap the
compilations that run at once; the atomic `closed`; a wait group; the package
variable `exitCode`. *Operations*: `Listen` reads packets and starts a
goroutine for each (`handlePacket`), which looks up or borrows an isolate
(`getIsolate`), checks `closed` and sends; a callback per isolate writes what
the isolate says and, for a response, returns isolate and token first.
*Hard*: everything after the read is concurrent; `mu` is given up between the
look and the take; a completion is three separate steps; shutdown closes the
mailboxes without waiting for their senders. *Correct when*: no isolate is
lost, lent twice or queued twice; every token has one owner; every packet
reaches its own compilation when that expects it; nobody waits on the pool
while holding `mu`; every request is answered.

**embedded: reusable isolates** (`reusable_isolate.go`). *State*: a rendezvous
channel as mailbox, another for replies, the callback `Borrow` subscribed last,
the unsynchronised flag `borrowed`. *Operations*: `Spawn`, `Borrow`, `Release`,
`Send`, `Kill`, and the drain loop that calls the callback. *Correct when*: one
compilation borrows it at a time, and its callback is that compilation's.

**embedded: compilation dispatcher** (`compilation_dispatcher.go`, importers,
host functions, logger). *State*: its compilation ID and request. *Operations*:
the message loop, a compilation, a log event, a callback into the host
(`sendRequest`: send, then take whatever packet comes next). *Hard*: the answer
is not matched with the request; a protocol error ends the process. *Correct
when*: one response per request and no event after it.

**embedded: framing** (`length_delimited_transformer.go`, `varint_builder.go`,
`packet_writer.go`, `utils.go`). *State*: the builder's value, bit count and
done flag; the writer's mutex. *Operations*: encode and decode a varint,
prefix a message with its compilation ID, write length and payload as two
writes, read a packet. *Hard*: the 53-bit limit lies inside a byte; a stream
can be cut at any byte. *Correct when*: exactly the valid varints are accepted,
packets arrive whole and in order, and the end of the stream is told from a
broken packet as far as `io.ReadFull` tells them.

**embedded: protofier and opaque registry** (`protofier.go`, `opaque_registry.go`,
`host_callable.go`). *State*: functions and mixins by ID for one compilation, the
argument lists sent in one call. *Operations*: `Protofy` an argument, `deprotofy` the
answer, mark the argument lists the host has read. *Hard*: IDs are given while
a value is walked, before what is inside it, and some outlive the call. *Correct
when*: what the host gives back is what it was given, and it reads what it says.

**eval: import cache and importers** (`import_cache.go`, `importer*.go`,
`resolve_import_path.go`, `node_package_importer.go`). *State*:
`canonicalizeCache` (URL and `@import` flag to the whole chain's answer),
`perImporterCanonicalizeCache` (the same and one importer to that importer's),
`importCache`, `resultsCache`, `loadTimes`, `nonCanonicalRelativeUrls` (written,
read by nobody). *Operations*: `Canonicalize`, `ImportCanonical`, `Humanize`,
`ClearCanonicalize`, `ClearImport`; a file system importer resolves partials,
index files and import-only files. *Hard*: which answers may be kept depends on
what every importer did during the call; `CouldCanonicalize` decides by a base
name what a watcher drops. *Correct when*: the caches do not show.

**eval: evaluator, modules** (`evaluate.go`, `evaluate_statement.go`,
`evaluate_meta.go`). *State*: `modules`, `activeModules`, module configurations,
and the visitor's fields for the file being evaluated, saved and restored around
each load. *Operations*: `loadModule`, `evaluateModule`, `VisitUseRule`,
`VisitForwardRule`, `visitDynamicImport`, `load-css`, `combineCss`. *Hard*:
`activeModules` must be restored on every path; a module already evaluated is
handed out again under another configuration. *Correct when*: a module is
evaluated once, loops are reported, CSS comes out in dependency order.

**eval: evaluator, CSS tree** (`evaluate_statement.go`, `evaluate_helpers.go`).
*State*: the tree, `parent`, the current style rule, media queries and their
sources, flags. *Operations*: a visit per block, `addChildThrough`,
`withParent`, `copyParentAfterSibling`, `scopeForAtRoot`. *Hard*: rules bubble
out of each other and leave copies. *Correct when*: every declaration is in what
it was written in, in the order it was written.

**eval: evaluator, expressions and control flow**. Visits of expressions, one at
a time, and the scopes control-flow rules and callables run in.

**sassenv: environment** (`environment.go`). *State*: stacks of scopes for
variables, functions and mixins; before them the index each name was last found
at and the last variable looked up; modules by namespace, global, imported and
forwarded modules; whether the scope is semi-global. *Operations*: get, set and
mark names, enter and leave scopes, closures, `ForImport`, `AddModule`,
`ForwardModule`, `ImportForwards`, `ToModule`. *Hard*: the scopes are shared by
closures and importing files, the caches are not. *Correct when*: a name
resolves as a walk over the scopes would resolve it.

**sassmodule** (forwarded and shadowed views), **orderedmap, orderedset** (the
merged, prefixed, limited and public views). *Correct when*: each view is the map
it denotes, and writes reach the module that owns the name.

**configuration**. *State*: a store of configured values under a stack of
unprefixing, safelist and blocklist stores (`ThroughForward`). *Correct when*:
a value given is consumed once, however many `@forward`s lie between, and one
left over is reported.

**linkedhashmap, box**. *State*: buckets and a doubly linked list. *Correct
when*: they hold the same entries, in order of first insertion.

**extend: extension store**. *State*: boxes of selectors by simple selector,
extensions by target and by extender, originals, source specificities, media
contexts. *Operations*: `AddSelector`, `AddExtension`, `AddExtensions`, `Clone`.
*Correct when*: a rule and an `@extend` give the same selector whichever comes
first, and it matches what the two mean.

**value: selectors**. Unification, weaving, superselectors, nesting. *Correct
when*: a result matches the elements its arguments say.

**eval: calls**. A call's positional, named and spread arguments, a callable's
parameters, defaults and rest. *Correct when*: each argument arrives once, or the
call is refused.

**value: expression parser** (`parse_stylesheet_expression.go`). *State*: the
parser's `inParentheses`; per expression the operators and operands that wait, the
lists begun, whether a `/` may still separate. *Hard*: a list inside parentheses
takes the parser back to where the expression began. *Correct when*: the tree is
what was written, and a `/` means the same wherever it stands.

**value: statement parsers** (`parse_stylesheet_parse.go`, `parse_stylesheet_atrule.go`,
`parse_scss.go`, `parse_sass.go`, `parse_css.go`). *State*: `isUseAllowed`, `inMixin`,
`inContentBlock`, `inControlDirective`, `inUnknownAtRule`, `inPlainCssFunction`,
`inStyleRule`, and in the indented syntax the indentation. *Hard*: each rule sets its
fields before its children and restores them after, some in callbacks, some over a
chain of `@else`s; `a:b` is a declaration or a selector by what follows. *Correct
when*: what a line is read as depends on the lines around it and nothing else.

**value: colours; functions: sass:color** (`value/color*.go`, `functions/color*.go`).
*State*: none; a color is its space, three channels and alpha, each of which may be
missing. *Hard*: what is missing travels as nil channels to a hub space and as flags
past it; a channel without effect is powerless; hues are mixed over four kinds of arc;
one color can be written as commas, spaces, slashes or `none`. *Correct when*: a
conversion keeps the color and what is missing, mixing does not depend on the side it
starts from, and two ways to say one thing make one color.

**value: media queries; calculations and numbers**. `Merge`; arithmetic, comparison,
equality and hashing of numbers whose units convert; how they are rounded and
written; simplification and writing of `calc()`. *Correct when*: what comes out
means what went in.

**sasslogger, deprecation**. *State*: counts by deprecation; the silenced,
fatal and future sets. *Correct when*: what is shown and what `Summarize` says
was omitted add up.

**sourcemap, sourcemapbuffer**. *State*: text, line, column, entries, the span
that is open. *Correct when*: VLQ round-trips and each mapped character has an
entry at or before it.

**evalcontext and sasscallable; the rest of value; functions; compile;
sasscommon, sassclonecss, util, sassmath, sassurl, sassio, termglyph, unvendor;
cmd/go-sass; spec, bench, test, tools; embedded-host-node-go**: parsers, data,
pure functions over values, wiring and tooling. `PROJECT.json` lists each with
the reason it is not modelled.

## 2. The modules

| module | models | builds on |
| --- | --- | --- |
| `IsolateDispatcher` | dispatcher, handlers, isolates, drains, host | `CompileService` (instance) |
| `CompileService` | what the server promises a host that keeps to the protocol | |
| `DispatcherInvariant` | the inductive invariants | `IsolateDispatcher` |
| `IsolateDispatcherProofs`, `ServiceProofs` | the theorems, the second module extending the first | `DispatcherInvariant` |
| `Varint` | varints, compilation ID prefix | |
| `PacketStream` | writers, the stream, the reader | `Varint` |
| `PacketStreamProofs` | its theorems and those about varints | `PacketStream` |
| `ImportCache` | canonicalization and its two caches | |
| `ImportCacheProofs` | its theorems | `ImportCache` |
| `ImportPaths` | partials, index and import-only files; `FilesystemImporter` | |
| `ModuleLoading` | loads, configurations, modules, their combined CSS | |
| `ModuleLoadingProofs`, `CssOrderProofs` | its theorems, the second module extending the first | `ModuleLoading` |
| `Environment` | scopes, closures, imports, cached indices | |
| `EnvironmentProofs` | its theorems | `Environment` |
| `MediaQuery` | media queries, their equality and `Merge` | |
| `CssTree` | the visitor's placement of CSS nodes | `MediaQuery` |
| `CssTreeProofs` | its theorems, and one about `MediaQuery` | `CssTree` |
| `Selectors` | unification, weaving, superselectors, specificity | |
| `Nesting` | parent references, `selector.nest` and `append` | `Selectors` |
| `ExtensionStore` | the store and the merge of two modules' stores | `Selectors` |
| `Numbers` | numbers with units: arithmetic, comparison, `math.max`, `min`, `clamp`, writing | |
| `Calculation` | evaluating, simplifying and writing calculations | `Numbers` |
| `Protofier` | values to the host and back, the registries of IDs | `Calculation` |
| `Arguments` | the arguments of a call: evaluated, checked, bound | |
| `Expressions` | the operator-precedence parser of SassScript | |
| `Statements` | which statements the three parsers accept where | |
| `Colors` | rgb, srgb, hsl and hwb: conversion, powerless channels, equality, gamut, interpolation | |
| `ColorFunctions` | the constructors, `sass:color` and the older global functions | `Colors` |
| `ColorSpaces` | which channels are missing after a conversion between any two spaces | |
| `LinkedHashMap`, `DeprecationLogger`, `SourceMap` | the data structures of those names | |
| `LibraryMC` | gives the pure modules their inputs, one call a step, and states what they must return | `Varint`, `DeprecationLogger`, `SourceMap`, `Calculation`; instances of `MediaQuery`, `Nesting`, `ImportPaths`, `LinkedHashMap`, `Arguments`, `Expressions`, `Statements`, `Protofier` |
| `ValuesMC` | the same for values: colors, and their spaces | `ColorFunctions`; an instance of `ColorSpaces` |
| other `*MC` | values of constants, symmetry and state constraints for TLC | |

### IsolateDispatcher

One action is one stretch of code between two points where another goroutine
can tell the difference: a section under `mu`, a channel operation, the load
of `closed`, the racy read of `borrowed`, a packet on stdout.

| goroutine | variable | actions, in the order of the code |
| --- | --- | --- |
| `Listen` | `reader` | `ReadPacket`; `ReadEof`, `RangeIsolates`, `Kill`, `WaitHandlers`, `ReturnFromRun`; `ReadFails`, `ExitOnReadError` |
| a handler | `pc`, `pkt`, `found` | `LookUp`, `AcquireToken`, `LoseRace` and `GiveBack` or `BorrowIsolate`, `CheckClosed`, `CheckBorrowed`, `Deliver` or `PutPanics`; `AnswerVersion`; `ReportError` |
| an isolate | `iso`, `isoCid`, `out` | (`Deliver` receives), `CompileEmits`, `Emit`, `CompileFails`, `TakeClosed`, `AwaitClosed` |
| a drain | `drain`, `msg` | `Forward`; `Finish`, `ReleaseToken`, `Respond`; `WriteFatal`, `ExitFatal` |

A rendezvous (mailbox, reply channel) is one action of both sides. `mu` is a
variable only where a section under it can block: `MuHeld` is the receive from
the pool in `getIsolate`. A compilation is any finite sequence of log events
and callbacks that ends in a response; a packet is its kind and its ID. What
the host sends is `HostPackets`: compile requests under IDs not in use and one
answer per request, plus the kinds a configuration adds in `HostSends`.
`onData` is the compilation whose callback was subscribed last, which is the
name the callback has captured, and need not be the compilation that runs.

The model goes on after a handler has failed as the code does: token and
compilation stay where `getIsolate` left them.

### Varint, PacketStream

A byte has `PayloadBits` payload bits (7 in the code) and the continuation
bit. `Add` is the builder's method with its verdict (more, value, error);
`parsePacket` stops at the first byte that ends or breaks the ID. The stream
carries the two writes of a packet in chunks of any size, the writing process
may end between any two, and the reader takes what is there; `written` and
`received` are history variables.

### ImportCache

`world` says for each importer and URL whether the importer looks at the
containing URL and for which containing URLs it recognizes the URL. A
canonical URL is named by all an importer can have made it from (importer, URL,
containing URL if it looked), so two answers are equal only if they must be.
`Canonicalize` is one action, as in the code nothing interleaves with it; an
importer's error ends it early (`CanonicalizeFails`). `FileChanges` changes the
world and calls `ClearCanonicalize`, which is what that method is for, and
`CouldCanonicalize` is what the `Importer` interface demands: never a false
negative. The `@import` flag is part of the URL. `nonCanonicalRelativeUrls`
influences nothing and is left out. Nothing in the repository calls
`ClearCanonicalize` yet, and the host importers' `CouldCanonicalize` is always
false, so a watcher that relied on it for them would see stale answers.

`ImportPaths` is the other half: a file is a record of its directory, partial
mark, stem, `.import` mark and extension, `fs` the set of files there are, and
`resolveImportPath` a function of the two.

### ModuleLoading

The Go call stack is the variable `stack`. A frame holds the visitor's fields
for the file under evaluation; what `evaluateModule`, `visitDynamicImport` and
`load-css` save in locals and restore is the frame below. One action is one
top-level statement (`VisitUseRule`, `VisitForwardRule`, `LoadCss`,
`VisitDynamicImport`, `VisitVariableDeclaration`, `VisitStyleRule`,
`VisitLoudComment`, `VisitStaticImport`) or the end of a file (`FinishModule`,
`FinishInject` for an `@import` of a file that needs no environment of its own,
`FinishImport` with `ImportForwards`, `FinishRun` with `combineCss`). A
configuration is a tower of views over a store that `NewConfiguration` made;
using a value removes it from the store. A name is a sequence of segments, so
that a prefix is a segment. An error ends the run with its kind in `status`.
`CombineCss` runs `CombineStep` as often as there can be calls: `todo` holds what the
recursive `visitModule` has still to do, a visit or the append of a module's nodes.

### Environment

`heap` maps a scope to the names declared in it; an environment is a record of
a chain of scopes, the caches (`idx` is `variableIndices`, `cidx` stands for
`functionIndices` and `mixinIndices`, `last` for `lastVariableName` and
`lastVariableIndex`), `semi` for `inSemiGlobalScope`, and
`nestedForwardedModules`, whose slice is modelled with its backing array
because `append` writes in place in arrays that closures share. `running` is
the stack of environments the visitor works in. `bypassed` is a history
variable: the names that `!global` or an imported file declared behind an
environment's back. Every action ends in `Become`, which drops unreferenced
scopes and arrays, so that identifiers can be used again.

### CssTree

Three groups of variables describe the tree: `nodes`, by the order they were made in, each
with kind, selector, queries and the nodes it is in (`above`); the visitor's fields; `open`,
a frame per block being visited with what its method restores. `AddChild` appends and
nothing moves, so that of two children of one node the later one has the greater number;
the copies of an `@at-root` are numbered so that they nest as their originals do.
`AddChildThrough`, `CopyParentAfterSibling`, `TrimIncluded` and `ScopeForAtRoot` are the
helpers of those names. Nested declarations, and an `@at-root` that has nothing to leave, have no
`withParent` of their own: what replaced `v.parent` in them stays when they end. Selectors
are the labels of the rules they were nested in, media queries are real and
merged by `MediaQuery`.

`behind` is a history variable: the nodes around a block still to be returned into that the
visitor has gone past, because an `@at-root` or a merged `@media` took it out of them, or that
`addChildThrough` adds to although something follows. Later statements land in them, before
what they were written after.

### Selectors, Nesting, ExtensionStore

A compound is a sequence of simple selectors, a complex selector a sequence of
compounds with combinators. The model has its own meaning for them: a document is
a chain of elements, each with a parent or a preceding sibling, and `Matches` says
which selectors an element answers to. `Covers` and the properties of the store
are stated by that meaning, never by the algorithms.

`ExtensionStore` keeps both modules' stores, the statements still to visit
(`todo`, taken in any order) and whether `extendModules` has run. A failed
extension stops the run, as the error does.

### Numbers and Calculation

A number is a fraction with two lists of units. Inches and pixels convert, and are
members of one family with `em`, which stands with `var()` for what only the browser
knows. Fractions are exact; what the code tells apart only to eleven digits is told
apart to `1/InverseEpsilon`. A decimal that is to be written is a sign and the digits
before and after its point, as `strconv` leaves them to `removeExponent`.
`VisitCalculationExpression` evaluates and simplifies,
`WriteCalculationValue` gives tokens, and `Reading` parses these by CSS's rules
of precedence, so that a missing pair of parentheses shows.

### Protofier

A message is a record shaped like the value it carries. The Protofier of a call is the record
`p`, handed on from value to value. Objects have a `ref`, by which the registries know
them, as the code knows them by their addresses; those made from a response are told by their
place in it. `deprotofy` is the set of values that ranging over Go maps can give.

### Arguments

A value is an atom (with or without the slash of `a/b`), a list, an argument list
or a map; a call is four fields, as in `ArgumentList`. `runUserDefinedCallable` and
`runBuiltInCallable` return what the parameters are bound to or why the call is
refused. Whether the body reads the keywords of its rest parameter is an input.
Expressions are not evaluated again, so that a default cannot refer to an earlier
parameter.

### Expressions

A token is an operand, an operator, the start of a call or punctuation; `" -"` is a
minus with space before it and none after it. Each parser is a function of the tokens, of
where it stands and of `p.inParentheses`, and returns the tree, where it ends and
that field. The locals of `_expression` are the record `s`; what the closures of the
code assign is what their operators change in it. Arguments are positional.

### Statements

A line has its indentation, its statement (one of forty, named as it is written)
and whether it opens a block; in SCSS and plain CSS the indentation is the depth of
braces. The record `p` holds the fields of `StylesheetParser` that decide what may
stand where. Each handler (`eachRule`, `mixinRule`, ...) returns the rule it reads,
the callback for its children, the fields it sets before them and their values
afterwards; `open` is the stack of calls of `children()` that have not returned, with
what they restore, so that a line is one step. `scanElse` goes on with the
fields of its `@if`. Not given: a line below a closed loud comment of the indented syntax.

### Colors, ColorFunctions, ColorSpaces

A number is a fraction, so that equality, powerless channels and the ends of a gamut
are decided exactly; a missing channel is `None`. `Colors` has the spaces whose
conversions are rational (rgb, srgb, hsl, hwb). `ColorFunctions` reads the arguments of
the constructors in each of their spellings and does what each function of
`sass:color`, and each global function it replaces, does to the channels.
`ColorSpaces` has all sixteen spaces and leaves out the numbers: a color is its space and
the set of channels it misses, and of its numbers the code asks only if the color,
with zeros for what is missing, is gray, and if its lightness is zero. The flags
(`MissingLightness`, `MissingChroma`, ...) are a set of names, and each `convert` of
a space or hub passes on what its code passes on.

## 3. The runs

Every property of a passing run has a mutant: the module holds, before the
definition it mutates, the same definition with a plausible bug, and TLC must
find the property violated when the bug is put in.

| run | instance | shows |
| --- | --- | --- |
| `dispatcher_pool` | 3 compilations, pool of 2, 3 handlers; also packets no receiver accepts, one at a time and none after the end of input; end of input at any moment | such a packet races a compile request of the same ID through `getIsolate`, and either may lose: types; ownership of isolates; accounting of tokens; at most 2 isolates spawned |
| `dispatcher_faulty_host` | 2 compilations, pool of 2, 3 handlers; also packets no receiver accepts, malformed packets, version requests, one at a time; a stream that ends or breaks anywhere | races for one compilation as above: every token taken is on its way back; each packet meets its compilation at the right point, what is written is what the host expects, for the compilations that are not themselves at fault |
| `dispatcher_service` | 3 compilations, pool of 1, 3 handlers; version requests; end of input when nothing is in flight | refinement of `CompileService` with fairness; every request is answered; a graceful shutdown ends with status 0 after every handler |
| `packet_stream` | 2 writers, payloads of 0, 1 and 5 bytes, 3 packets, every cut | packets arrive whole and in order; what each end of the stream can mean; a packet begun arrives unless the process ends |
| `import_cache` | a relative and a `pkg:` URL, two bases, a base importer, a chain of three whose middle one may look at the containing URL | the caches never show; nothing made from a containing URL is kept |
| `module_loading` | programs of three files in three families (`Trees`, `Loops`, `Twice`) | loops found on every path; configured values used once; CSS of modules once, in dependency order; every compilation ends |
| `environment` | one name, chains of three scopes, two environments, callables, imports that use or forward | a lookup is a walk, whatever the caches hold; no cached index past the chain; an assignment lands in the nearest scope |
| `css_tree` | three query lists, three `@at-root` queries, three blocks deep, six nodes | statements stay in what they were written in, and in order but in nodes left behind; a `@media` is dropped only when it contradicts |
| `extension_store` | nine style sheets, rules and `@extend`s in every order | `@extend` is sound, complete and keeps originals |
| `library` | every input of a small set to each pure algorithm | see below |
| `values` | every set of missing channels in sixteen spaces; some 500 colors, two mixed, one function called | see below |
| `doc_no_panic` | 1 compilation, end of input at any moment | **finding**: `Put` panics on a mailbox that `Kill` closed |

What `library` and `values` show, a property per algorithm:

| property | says |
| --- | --- |
| `VarintsExact` | exactly the valid varints are accepted, at the right byte; what is encoded is read back; a packet with a broken ID is refused |
| `MergeIsIntersection` | a merged media query matches the intersection; "empty" means empty |
| `SelectorsMean` | a superselector matches all the other matches; what two selectors unify to lies in both (`SelectorsCompared`); a nested selector matches what its source means with `&` the parent (`NestedMeansParent`) |
| `NumbersHold` | operations keep the quantity and leave no units that cancel; equal quantities convert to each other, are equal and hash alike; `max`, `min` and `clamp` give what nothing exceeds; a number is written rounded half away from zero; a written calculation means what it was evaluated from; `round`, `mod` and `rem` go by their step |
| `HostKeepsValues` | what a host gives back of its arguments is the very value, at any depth, functions in later calls too; the lists marked read are those it names; what it makes is what it says, or refused |
| `MapInStep` | buckets and list of a linked hash map agree with a list of pairs |
| `RepetitionsCounted` | shown and omitted deprecations add up; each option does what it says |
| `ClearReachesEveryChange` | a file that changes what a URL resolves to is one `CouldCanonicalize` admits for it |
| `MapIsFaithful` | source map entries are in order, cover every character of a span, and survive their encoding |
| `SyntaxKept` | an expression has all its tokens in order, grouped by precedence to the left, and a `/` separates exactly where no operation or parentheses make it divide (`ParsedAsWritten`); what a line is read as, or refused, follows from the lines it is within, in all three syntaxes: each rule the parser entered it also left (`StatementsInPlace`) |
| `ConversionKeeps` | a color converted is the same color; a missing channel stays missing in a space that has one like it, through every hub, and no other goes missing |
| `ColorsMix` | a mix is the same from either end, lies between its colors, and turns the hue along the arc it was asked for |
| `ColorFunctionsAgree` | inverse functions undo one another, a deprecated function does what its suggestion does, a function changes the channels it names |
| `ColorsRead` | every spelling of a constructor's arguments makes the same color, and reading its channels back makes it again |
| `ArgumentsArrive` | each argument arrives once, under its parameter or in the rest; a call is refused exactly when one has no place or a parameter no value; `$args...` handed on changes nothing; built-in and user-defined callables agree |

### Configurations run by hand

These show further disagreements of the code with its comments; each ends in
the counterexample named in `PROJECT.json` under `findings`. Two configurations are
for this alone and say which values of the constants go with which property; the
others name it in a comment, to be put in the place of the properties there. Run them as
`tlc -config X.cfg M`.

| configuration | module | property violated |
| --- | --- | --- |
| `doc_dispatcher.cfg` | `IsolateDispatcherMC` | `ShutdownReturns`: `Listen` returns after the end of input (a handler waits for ever for a token nobody returns) |
| | | `ExitCodeIsStatus`: the exit status is `exitCode` |
| | | `OneBorrower`: one compilation borrows an isolate (fails for duplicate requests) |
| `doc_import.cfg` | `ImportCacheMC` | `BaseImporterFirst`: the base importer comes first (fails under a base without a scheme) |
| | | `AccessesNotCovered`: no answer of a load in which an importer looked for the containing URL is kept |
| `module_loading.cfg` | `ModuleLoadingMC` | `NullWithIsEmpty`: `load-css` without `$with` configures nothing |
| `environment.cfg` | `EnvironmentMC` | `LocalShadowsGlobal`: an assignment with `!global` hides no inner declaration |
| `css_tree.cfg` | `CssTreeMC` | `AtRootClearsMedia`: a `@media` inside an `@at-root` without media is not dropped |
| | | `NothingBehind`: `copyParentAfterSibling` keeps what is written later after what it follows |
| `extension_store.cfg` | `ExtensionStoreMC` | `SecondLaw`: the second law of extend |
| `library.cfg` | `LibraryMC` | `MapOrderKept`: a map comes back from the host in its order |
| | | `CommaNeverDivides`: the first element of `(1/2, 1)` never divides |
| | | `ParenthesesDivide`: a `/` inside parentheses divides, also after a call with a space list |
| | | `MalformedReported`: a declaration whose value cannot be parsed is reported |

### What the findings take away from the passing runs

* A panic ends the process as the model has it; safety is checked up to there.
* `CacheTransparent` is checked for loads that have a base URL, under bases with
  a canonical scheme.
* `LookupIsWalk` excepts `bypassed` names: a `!global` assignment under an inner
  declaration nothing has looked up, and what an imported file declares in the
  scope it was imported into, leave a stale index. `AssignsNearest` also excepts
  names of imported modules: an assignment at the root caches the root's index
  although the module took the value. `SourceOrder` excepts what is in a
  node left behind while in use: after an `@at-root` that leaves it, or a `@media` merged
  into it. The part of `ContextKept` about dropped rules excepts what is inside an `@at-root`
  that leaves a `@media`.
* `MergeIsIntersection` leaves out two negated queries: their merge keeps one
  list of conditions and matches devices the other excludes.
* `UnifiedWithinBoth` leaves out chains of two sibling combinators:
  `#i ~ .b` and `#i + .a + .e` unify to a selector that lies within neither.
* `ClearReachesEveryChange` leaves out index files and import-only files, whose
  base names `CouldCanonicalize` does not compare.
* `SyntaxKept` says which `/` separate only where a list in parentheses has
  no other list beside it: one clears `inParentheses` for what follows it.
* `RoundsTo` states the strategy to-zero for positive steps only.
* `HostKeepsValues` compares maps without their order.
* `ColorsMix` says of the longer arc of hue only that it is no shorter than half a turn,
  and compares the two ends only of different hues: the code's arc can exceed a turn.
* `ConversionKeeps` follows the three channels and not alpha, which hwb without
  whiteness and blackness loses when it is missing; `ColorsBuilt` changes a channel only
  of colors that have an alpha, for `color.change` makes a missing one 0.
* Numbers that differ only in what is rounded away are compared in the units of the left
  side and are equal by those of their family: two lengths in pixels can be equal
  and one less. `AlikeOrNot` says that exactly one of less, equal and greater holds
  of numbers whose units are the family's own.

Seen while modelling, in code a run here does not reach or states no property of:

* `Configuration.ThroughForward` and `ForwardedModuleView.CouldHaveBeenConfigured`
  strip the prefix of a `@forward` before they apply its show or hide list, which
  names what is visible outside; the module view does it in the other order.
* A module both `@use`d and `@forward`ed by one file has its comments before the
  first rule written twice.
* A file imported into a nested scope that declares there leaves the importing
  environment's cached index as it was; `ImportForwards` drops the index but not
  the last-variable cache; over two levels of nested imports an index can point past
  the chain. (The second part of `LookupIsWalk`
  is about one level.)
* `nestedForwardedModules` of a closure and of its environment share a backing
  array, into which each appends.
* `clamp()` with a minimum above its maximum gives the maximum; in CSS the minimum
  wins.

### Bounds and why they are enough

* `Handlers`: goroutines alive at once, 3. A slot is reused, so there is no
  bound on packets. Three let two handlers race for one compilation while a
  third starts, answers or completes another.
* `HostSends`: with a host that keeps to the protocol two packets of a compilation
  are never in `getIsolate` together, so that the race for it needs `"bad"` (a packet
  under its ID that every receiver rejects). `dispatcher_service`, whose subject is such a
  host, has no race.
* `CIDs`, `MaxConcurrent`: in `dispatcher_pool` and `dispatcher_service` one
  compilation more than the pool has room for, so that handlers wait for tokens.
  In `dispatcher_faulty_host` both are 2: the loser of a race holds a token beside
  that of the winner, which a pool of one would exclude, and waits for it
  when the other compilation has the second. The proofs have no such bound.
* `Isolates`: one more than the pool in `dispatcher_pool`, so that spawning one
  too many could happen; `BoundedIsolates` says it does not.
* `ExtraBusy`: packets outside the compile/answer exchange are read only while
  fewer handlers are busy, so that they cannot take every slot.
* `OneStranger`, `OneStrangerBeforeEnd`: the state constraints of `dispatcher_faulty_host`
  and `dispatcher_pool`. At most one packet from outside the exchange is under way,
  or has made its isolate fail, at a time (in `dispatcher_pool` none after the end of
  input), and what is left of a process that has ended is not followed. Both runs check
  invariants only; `PoolAccounted`, `OwnershipCorrect`, `TokensComeBack` and `PacketsMeet`
  are proved without them.
* `PayloadBits`, `MaxLength` of the varints: no arithmetic of the code depends on
  7 being the number of payload bits, only on the limit not being a multiple of it
  (53 of 7; here 7 of 3).
* `PacketStream`: 2 payload bits and 4-bit lengths make the 5-byte payload's
  length a two-byte varint; `MaxPackets` is 3, so that a writer comes back.
* `ImportCache`: the importer that looks has one before it and one after it,
  which are the three cases of the loop. Two bases in one directory are two
  loads that differ in nothing but the containing URL.
* `ModuleLoading`: three files are a load, a load in it and a second way to
  either, or a way back. Names are `x`, `y` and `x` under the prefix `p`, enough
  for a prefix, a show list and a hide list to disagree.
* `Environment`: `MaxDepth`, `MaxRunning`, `MaxScopes` and `MaxArrays` bound
  scopes per chain, environments on the stack, live scopes and live arrays. One
  name suffices for the caches, which treat names separately but for the
  last-variable cache, which a second name would only clear. `Focus` splits the
  states in two: callables at most two scopes deep, or variables alone three deep.
* `CssTree`: `MaxDepth` blocks in one another, `MaxNodes` nodes in the tree.
  `Focus` follows everything to four nodes, and to six what bubbles: no keyframes
  and no `@supports`, one `@at-root`, no empty parents but the last two nodes and those a block
  will return into. Six nodes are enough for a leaf to come before one evaluated earlier:
  without its exception `SourceOrder` fails in the run.
* `ExtensionStore`: each sheet is a hazard of its own (circular extensions, both
  halves of a compound, targets in ancestors, a media conflict, a second module).
  Soundness is about every document a selector can match; completeness about
  chains of at most three elements whose ancestors answer to one selector each.
* `LibraryMC`: selectors of up to three compounds; calculations of up to two
  operators and a function; `MaxEdits` 5 edits of a map with two spellings of one
  key, a colliding key and another; `MaxSightings` 5 with `MaxRepetitions` 2;
  `MaxWrites` 7 with digits of `Shift` 2 bits, so that numbers take several;
  `PxPerInch` 4, so that conversion of inches keeps halves apart; two operations on
  a number of any of eight units, three numbers to choose from of which some differ by less than
  `InverseEpsilon` 60 tells, decimals of five digits with `Precision` 2, so that a carry runs
  over nines, past the point and into a new digit; two arguments and two calls of a host,
  the second with what it answered to the first, lists within lists three deep; calls of up to three
  arguments by position and three by name, with every kind of spread, of callables of
  up to two parameters and a rest, in up to two overloads; `MaxTokens` 6 tokens of
  fourteen, which three levels of precedence, `((1))`, `(1/1 1)`, `[1,1]` and `(1:1,)` fit
  in; style sheets of two lines with every pair of statements, a third that a field
  left behind would show in, a fourth below a loop among nested declarations.

* `ValuesMC`: channels at both ends of their range, inside, beyond and missing; alphas
  likewise; two colors of a few hues on either side of half a turn apart, and of any
  two spaces; one call of a function, or two where the second undoes the first. For the
  missing channels nothing is bounded: all sets, all pairs of spaces.

`CHECK_DEADLOCK FALSE` where the system ends: a stream, a compilation, a style
sheet, a set of inputs. In `dispatcher_pool`, `dispatcher_faulty_host` and
`doc_dispatcher.cfg` the shutdown can get stuck, which is the finding of
the last one. `dispatcher_service` and `import_cache` check deadlock.

### Fairness

* A goroutine that can run does (Go's scheduler preempts): weak fairness of
  each handler, isolate and drain and of the read loop after the end of input.
* A sender waiting on a channel is served in the order of arrival (Go queues
  waiting senders): strong fairness of `AcquireToken` and `Deliver`.
* An evaluation ends: strong fairness of the response of `CompileEmits`. A
  stylesheet with an endless `@while` is outside the promise.
* The host answers what it is asked. Nothing else is demanded of it: it need
  send no request and never close stdin.
* In `PacketStream` the reader runs and the writer that holds the mutex runs.
* In `ModuleLoading` the evaluator, one goroutine, goes on while it can.

## 4. What is proved

Every theorem is for all values of the constants, from the assumptions the
modules name and what each statement adds.

### The dispatcher

For every set of compilations, isolates and handlers, every cap and every
bound, from `DispatcherConstants`:

1. `TypeCorrect`: `Spec => []TypeOK`, for any host and any end of input.
   `TypeOK` is not inductive: that the packet a handler routes names a
   compilation, and that the isolate it is routed to has a subscribed callback,
   is added as `Routed` (`TypeInv`).
2. `OwnershipCorrect`: `NoDuplicates => (Spec => []IsolateOwnership)`, where
   `NoDuplicates` says that the host sends no compile request under an ID in
   flight. Without it the property is false (`doc_dispatcher.cfg`). All else the
   host may send and any end of input are covered. The inductive invariant
   `OwnershipInv` adds
   * `OneThread`: a compilation is with one handler, one isolate or one drain,
     never two, and the host still waits for it. This is what makes the
     completion unique;
   * `Bound`: wherever it is, `activeIsolates` still names its isolate, so the
     completion releases the right one, through the callback of the right ID;
   * `Owned`: `active` and the callbacks are inverse to each other, and the
     inactive list holds the other isolates, once each.

   One lemma per goroutine (`ReaderOwnership`, `HandlerOwnership`,
   `CompilationOwnership`, `DrainOwnership`), one step per action.
3. `PoolAccounted`, `ReleasesNeverBlock`: from `OwnershipInv`, every action
   adds, removes or replaces at most one token holder as it changes the pool;
   the four `Holder...` lemmas turn that into cardinalities. A holder about to
   receive from the pool therefore finds a token: `ReleasesNeverBlock` says so of
   the loser of a race, which receives while it holds `mu`, and of completions.
   It follows from `PoolAccounting`, so that no run checks it beside that.
4. `IsolatesBounded`: an isolate is spawned only when the inactive list is
   empty, so that every isolate there is serves a compilation that holds a
   token, and the spawning handler holds one more.
   `TokensComeBack`: `NoDuplicates => (Spec => []NoTokenStranded)`. Until the end of
   input every compilation with a token is `Served`: a packet is on its way to its
   isolate, its isolate works, or its drain is about to take it off. `ReturnInv` adds
   that only the end of input closes a mailbox, for a closed one lets an isolate
   go without a response. Bookkeeping that is right would not be enough:
   a handler that gave up with its compilation active would keep a token that is
   well accounted for. After the end of input one does (`isolate_dispatcher.go:144`,
   the finding), hence the guard.

5. `PacketsMeet`, `WritesExpected`: `InTurn => (Spec => []SingleInFlight)`, and the same for
   `OutboundProtocol`. `InTurn` says that the host sends no compile request under an ID in
   flight and no answer it was not asked for; packets no receiver accepts, malformed and
   truncated ones, version requests and an end of input at any point are covered, as in
   `dispatcher_faulty_host`. A stray answer has nobody to meet, and the code routes it by
   its ID all the same: both properties are false of a host that sends one, and of one that
   sends a duplicate (TLC, `dispatcher_faulty_host` with `"stray"` or `"duplicate"` alone in
   `HostSends`), so that `InTurn` is the weakest such condition. The inductive invariant
   adds `TalkInv` to `OwnershipInv`:
   * `Heard`: the host has asked for what a handler carries to an isolate, and an answer's
     isolate waits for it (`Waits`). Two things can come between. A protocol error leaves its
     isolate `Doomed`: it keeps its ID until the process ends, and packets go to it that
     nobody will take. And after the end of input an answer that is past `closed` may
     lose its isolate to `Kill`, but not to another compilation;
   * `Spoken`: the host is ready for what an isolate or a drain has in hand. A callback whose
     mailbox has been closed (`GivesUp`) answers with its request still open, which is
     why `OutboundProtocol` allows it under a closed mailbox and nowhere else;
   * `Ending`: only the end of input closes a mailbox, and none is reopened.

6. `ServiceImplemented`: `Spec => Service!Spec`, the safety half of the refinement, under
   `OrderlyHost` (the host may add version requests, packets nothing can read and a broken
   stream to its compilations, and ends the stream, if ever, when nothing is in flight):
   an interrupted compilation is one the service never finishes. `ConversationInv` says
   for these hosts, beyond `OwnershipInv` and `PoolInv`,
   * `Faultless`: a handler fails only over a packet that is nobody's
     compilation, so that none is left behind half routed;
   * `Inbound`, `Outbound`: what `Heard` and `Spoken` say, with no exception left;
   * `Lifetime`: the mailboxes close only when nothing is under way, so that the end
     of the input interrupts no conversation.

   What is seen of a step by the host is one compilation going on by one phase
   (`PhaseGoes`) or none (`PhaseStays`). That no more than `MaxConcurrent` run is
   `RoomToStart`: the running ones map injectively to the holders of tokens other
   than the handler that is about to start one.

### The packet stream

For every number of payload bits in a byte and of bits in a length, every set of
writers and packets and every `MaxPackets`, from `StreamConstants` (a packet's length
fits the bits `ReadPacket` accepts, and those fit the word `EncodeVarint` cuts it to):

7. `ParsesWhatWasSerialized`: `parsePacket` takes apart what `serializePacket` joined.
   The builder given the first k bytes of a varint holds the number's lowest
   k groups of bits (`After`), by induction on k.
8. `PacketsArriveWhole`, `StreamsEndOrderly`. The invariant `IInv` looks at the *pipe*,
   the bytes on the stream followed by those the current `WritePacket` has still to
   write. `Located` cuts it into the packets begun and not yet returned: `Cuts` says
   where each of them ends, that only the last may reach beyond what is written, and
   that the reader stands inside the first; `Position` says what the reader's
   builder and buffer hold when it has read c bytes of that one. `PacketsWhole`
   alone is not inductive: it says nothing of bytes on their way.

Varints need powers and induction, of which the provers know nothing.
`NatSet` is induction over a *set* of numbers, from the library's theorem that strict
inclusion of finite sets is well founded; 2^n is pinned down as the number of subsets
of a set of n (`PowerNext`, from `FS_SUBSET`).

### The import cache

For every set of importers, chain, URLs and bases:

9. `CachesTyped` and `NothingContextual`, for all loads, also those without a base: what
   either cache keeps was made by importers that did not look at the containing URL
   (`PlainInv`).
10. `CachesNeverShow`: under `CanonicalLoads` (every load has a base with a canonical
   scheme; without it the property is false, `doc_import.cfg`). The invariant
   says that each kept answer, an importer's or the chain's, is what would be
   answered now *under any base* (`Kept`, `KeptChains`): that is why the answer to
   one load can serve another. It survives a walk over the chain because the first
   importer that stops the walk is the same with the caches and without, and a
   file that changes because `ClearCanonicalize` drops what the change may touch.

### Module loading

11. `EveryLoopFound`: `Spec => []LoopsFound` for all files, programs, families of
   configurations and depths. `LoadingInv` adds the shape of the stack: a frame
   keeps its file and its reason for being there until it leaves, the frame
   under it waits at the statement that loaded it, and the active files are those of
   the frames, each counted once; and that what is mapped by names is mapped by names
   (variables, views). So a path that forgot to mark a file, or that
   unmarked it twice, has no place to hide.
12. `EachConfiguredOnce`: `Spec => []ConfiguredOnce`, for the same. A `@forward` with a
   `with` clause of its own hands on a *copy* of the values it was given, so that a
   value is in several stores at once, and is taken from each of them separately,
   when control comes back. `AccountsInv` says where it may be in between:
   * `Stored`: in one store, a value is under one name only;
   * `Chain`: of a frame and the one below it, either they share a store (a plain
     `@forward`, an import) or the upper one was `Framed` with a younger one: by an import's
     implicit configuration, by a `with` clause, or by a copy (`Lent`, `Copied`);
   * `Routed`: a value not yet used is in the store of some frame, one that is used is no
     longer in that of the top one; and where a frame has a younger store than the one
     below it, and the one below has the value, the value was handed on to the upper one
     if and only if it is used or still in a store from there up. So the upper
     frame, when it returns, takes from the one below just what was used out of its sight.

   At the end only the entry point's empty store is left, so that every value is used.

13. `CssStaysInOrder`: `Spec => []CssInOrder`, for the same. The property is about the end
   alone; `CssInv` says what the frames and modules hold before it.
   * `Laid`: the root of a frame is a block of `@import`s and comments, no rule in it, and
     after it no `@import`; a module's CSS has no `@import` after a rule. Every statement, the CSS
     of an imported file and that of `load-css` included, keeps to the block.
   * `Whence`, where all files are loaded as modules: each frame has the rules of the
     statements it has passed, each module all of its file's (`Written`, `Whole`); an upstream was
     a module before its downstream (`Ranked`), has the mark of containing CSS only if its
     downstream has it too, and but for the frames everything loaded is somebody's upstream
     (`Frames`), so that the search from the entry point misses none. Rules survive
     `registerCommentsForModule`, which empties the root, because no rule comes before a `@use`.

   `combineCss` is a lemma of its own (`CombinedInOrder`), about any modules so related. It
   is a depth first search, and its invariant `Search` is the white-path argument on the list
   of calls: what is to be done before a module's append is lower in the order than it, and
   what is seen and not appended is pending (`Descends`); an upstream of what is seen has been
   appended, or is on the list before the append of what depends on it
   (`Covers`); and the two lists hold the rules of what was appended, once, in
   its order (`Gathers`). The number of steps suffices because each one uses up a call (`Left`).

All rest on `ProgramsAssumption`, on the programs: a program has for each file a finite
list of statements, and what the parser puts into them: names, files of the program, and
a `with` clause or none. The last one rests also on `UseFirst`, what the parser refuses
(`isUseAllowed`): a `@use` or `@forward` after a rule or an import.

### Environments

For every set of names, every choice of what programs and imported files do and every
bound, from `EnvironmentAssumption`:

14. `EnvironmentInvariant`: `Spec => []IInv`. That lookups resolve as walks do is not
   inductive: a scope is shared by an environment, its closures and what it imports,
   and each of them caches by itself. `IInv` adds
   * who shares what: `Stacked` and `Opened` say of each frame how many scopes its
     blocks have opened, and that those are in no chain of a frame below; a scope in
     no chain is blank. So closing one takes nothing from anybody else, and what a new
     scope holds nobody has cached;
   * `Agrees`, per environment, name and table: a cached index, or the one remembered as
     the last variable's, is within the chain, no scope above it declares the name, and
     its scope does, except that the root need not hold a name an imported module has
     taken (`Loose`);
   * `Forgetful`: the closure callables are run from (`template`) has nothing cached;
   * `Backed`: a slice of nested-forwarded modules has a slot for each scope but the root,
     within its array.

   One lemma per action; `DeclareStep`, `PushStep`, `PopStep` and `ForwardsIs` do what
   the actions share.
15. `LookupsResolve`: `CachesAgree`, the first part of `LookupIsWalk`, from `IInv`, with imports
   nested to any depth. `AssignmentsLandNearest`: `AssignsNearest`, from `IInv` and the
   action.
16. `LookupsAreWalks`: `Spec /\ []OneLevel => []LookupIsWalk`. The second part, `IndexInChain`, is
   about the `bypassed` names too and needs `KInv`: an index above the root names a scope
   that holds the name, so that closing that scope clears it (`popFrame` walks over
   what the scope declares). An imported file that imports another one that forwards can
   lose a name from the scope in which its importer has cached it; closing the scope then
   leaves the index, which points past the chain. `OneLevel` excludes just that: only a
   file the main style sheet imports (place 2 of `running`) forwards. Every state of the
   run satisfies it (`MaxRunning` is 2).

### The CSS tree

For every set of labels, query lists and `@at-root` queries and every bound:

17. `LeavesInOrder`: `Spec => []SourceOrder`. The order of leaves already out is not
   inductive: a leaf goes into the visitor's parent, and it is out of order if anything with
   a leaf in it follows *any* of the nodes around that parent, of which the code looks at the
   innermost. `TreeInv` adds
   * `Spine`: around every node that the visitor is in or will return to, what is not
     `behind` is `Clear`: no leaf is in what follows it. A block is placed in the last of
     a row of siblings, in a fresh copy, or before rules without a leaf (`Landing`), or the
     node is counted as left behind;
   * `Nested`: of the nodes around a block to be returned into, the visitor is in all that it
     has not left behind, and likewise of two such blocks the inner of the outer's. So what a
     new leaf may follow is one of the nodes it is in itself, which have nothing after them;
   * `WellMade`, `Held`: the tree is one, and what frames name is in it.

   A block puts only nodes without leaves in the tree (`Leafless`), which changes nothing
   about order (`LeaflessGrowth`); one lemma per statement places its node, `BlockOpens`
   does the rest; `EmitKeeps` is the step that adds a leaf.
18. `PlainSheetsInOrder`: `Spec /\ []Plain => [](NothingBehind /\ InOrder)`, where `Plain` says that no
   `@at-root` is open and no `@media` was merged into one around it, and `InOrder` is `SourceOrder` without
   its exception. So the exception is due to those two alone. `PlainInv`: nothing that can have
   children is in a style rule (`Flat`), the at-rules around a block to be returned into are around the
   visitor (`Straight`), and each of these is the last child of its parent (`Tip`); bubbling out of style
   rules, which is all that is left, goes past nothing else.
19. `MergeKeepsMeaning`: what the run checks as `MergeIsIntersection`, for queries with any types, conditions
   and devices: a merged query matches exactly what both parts match, "empty" means that
   no device matches both, and the result can be merged again (`WellFormed`: what is
   negated is a type). Of two negated queries the theorem says what is left, that the
   merged one matches at least what both match. One lemma per branch of `Merge`;
   `CommonTypeMeets` is what the branches without a negation share.

### Only model-checked

`ServiceImplemented` is not claimed for hosts beyond `OrderlyHost`. Left to TLC: the liveness half of the refinement of `CompileService`,
`RequestsAnswered`, `GracefulShutdown`, `PacketsArrive` and `Ends` (liveness is out
of the prover's reach), `VarintsExact` for malformed varints, `ContextKept`, and every property of `extension_store`, `library` and `values`.
`IndexInChain` with imports within imports is false, and claimed by no one. `Selectors`, `Expressions`, `Protofier` and `LibraryMC` recurse over
selectors, trees and tokens, which puts them out of the prover's reach too: `MergeKeepsMeaning` is about the
operators `MergeIsIntersection` is made of, stated anew. `ContextKept` reads the source through `SelectSeq`,
of which the provers know nothing.

## 5. What is not modelled

* A slice header torn by the race between the range over `allIsolates` and an
  append: the range misses any later append, but is never torn.
* Failing writes to stdout, and the memory a 53-bit length asks for.
* Contents: options, options' errors, log formatting.
* In the import cache: `ImportCanonical` and the stylesheet cache, `Humanize`, the
  package importers, and the error of a canonical URL with a non-canonical
  scheme (it ends the call like any other error).
* In module loading: namespaces, functions and mixins of modules, private names,
  built-in modules, and loads below a style rule.
* In the CSS tree: plain CSS nesting, `@font-face`, `@extend` (its store is modelled
  by itself).
* Pseudo-classes that take selectors (`:not`, `:is`, `:has`), attribute selectors,
  and so `extendPseudo`; `Clone`; `selector.extend` and `selector.replace`.
* Numbers are exact: infinities, NaN, the rounding of each operation and the functions that
  need floating point (trigonometry, powers, logarithms) are left out.
* On the way to the host: colours, signatures, fields the host did not set.
* In statements: what is on a line (selectors, names, parameters, media queries, the
  modifiers of imports), spans and warnings; comments inside a line.
* In expressions: the characters of a number, string or identifier, named and spread
  arguments, `if()` conditions, special functions, plain CSS and warnings.
* Three narrowings. In the CSS tree no at-rule is visited within `@keyframes` or
  nested properties, so that an `@at-root` that leaves `@keyframes`, which clears
  `inKeyframes`, does not occur. In `Environment` an `@import` is not evaluated while a
  callable runs, though the body of a mixin or a content block may have one. And
  `AddExtensions` takes the other store's targets in one order, fixed but arbitrary,
  where the code takes them in the order of insertion.
* Of colours: the matrices and transfer functions between the other spaces, floating
  point, gamut mapping by local-minde, and how colors are written.
* The other parsers, the serializer and the built-in functions: some 50,000 lines of
  sequential code over data, in which nothing is shared, ordered by others or
  retried. The sass-spec suite tests them input by input; a specification of them
  would be a second implementation.

## 6. Plan

1. `ImportCache`, the rest: `ImportCanonical` and `ClearImport`.
2. Namespaces and functions as members in `ModuleLoading`; user code between loads.
3. Package importers: how `exports` of a `package.json` resolve.
4. `extendPseudo` and pseudo-classes with selectors in `Selectors`.
