# Verification of fapolicyd-analyzer

This directory holds a TLA+ model of fapolicyd-analyzer, the TLC runs that
check it and the TLAPS proofs about it. fapolicyd-analyzer reads the debug log
of the file access policy daemon, parses its audit records and turns them into
policy rules; beside that it lists installed packages and compares their files
with the digests the package database holds. Paths below are relative to the
repository; `lib/` stands for `src/libfapolicyd-analyzer/`.

## 1. Inventory

| component | code | state it keeps | operations |
|---|---|---|---|
| hash set | `lib/util/hash_set.c` | slot array, number of slots, number of used slots | add, contains, remove, clear, count, next |
| hash table | `lib/util/hash_table.c` | the same with a value per key | add, contains, remove, clear, count, next (a get is declared and not defined) |
| record parser | `lib/parse.c`, `lib/field_array.c` | two arrays of keys and values (subject, object), learned from an exemplar line | imbue_parser, parse, get_subject_field, get_object_field |
| analyzer (command line) | `src/cli/fapolicyd-analyzer.c` | the parser, a set of allow rules, a set of deny rules, the log's position | read the log, process a record, emit the rules |
| table and index | `lib/table.c` | columns of strings, rows, an index from the values of one column to row numbers | initialize, append_row, append_column, get_value, index create/find/next |
| package audit | `lib/rpm.c` | a table of packages, a table of files, hashes | get_rpm_info, get_rpm_files_info, hash_files, with a progress callback |
| digest | `lib/sha256.c` | chaining value, block buffer, length | create, update, final, sha256_file |
| array list | `lib/util/array_list.c` | a vector of pointers | push, get, set, pop, clear |
| path match | `lib/match.c` | none | one call of fnmatch |
| Python binding | `src/bindings/python/` | a ring of SWIG modules with their types; Python objects that hold a pointer, own it or not, and are chained | import, one wrapper per function, make, give back, own, disown and chain objects; generated by SWIG from `fapolicyanalyzer.i` |
| vendored containers | `lib/detail/uthash.h`, `utarray.h` | buckets of chained items, a list through all items; a vector | macros used by table.c: add, find, delete, iterate, expand; push, length, element, next |

How they interact. The program is sequential: there are no threads, and the
components call each other. The analyzer owns a parser and two hash sets: it
teaches the parser the record layout from the first audit record of the log
(imbue_parser), parses every following record with it, and puts one rule per
record into a hash set; after the last record it walks the sets and prints.
The parser hands out pointers into the line the caller gave it. rpm.c fills
tables row by row from the output of the `rpm` program and calls the digest for
each file; a callback lets the caller cancel. table.c keeps its columns in
utarrays and an index in a uthash whose items point to strings of the table. A
Python program reaches all of this through wrappers that convert every argument
to a pointer, copy texts for the time of the call, and make objects for results. Other processes change the
package database and the file system while it runs.

What is hard here. Not threads but **long sequences of legal calls** (add,
remove and grow of an open-addressing table; a parser that is taught again, or
used after it failed), **partial failure** (an allocation that fails in the
middle of an operation, whose result the caller does not look at), **values
that go stale** (an index computed before the array moved; a field that points
into a line already replaced, or is left from the previous record; an index of
a table that has got a row more), and **the environment changing between two
reads** of it (a package removed between two `rpm` calls, a file replaced
between access, stat and open).

What makes each component correct:

* hash set, hash table: a key is found exactly when it was added and not
  removed since; a search ends; a walk returns every key once; growing loses
  nothing.
* parser: a record is accepted exactly when it has the exemplar's fields in the
  exemplar's order; every value handed out belongs to the record parsed last;
  no call touches memory outside the arrays, whatever failed before.
* analyzer: the printed rules are those of the log, each once, and different records
  have different rules; nothing is printed when a record is malformed; it ends.
* package audit: every package file nobody touched has a row with what is in it;
  progress goes forward and is about the whole pass; the program ends early only
  when something vanished under it, or rpm broke off.
* digest: the blocks mixed in are the padded message, however it was cut.
* array list: it holds what was pushed and set, in memory that is its own.
* Python binding: C gets only pointers to live blocks of the right kind; a field
  is freed once; modules agree on what a type is.
* table, containers: an index finds exactly the rows that hold the value; the
  lists through the items agree, after every step; nothing is left behind.


## 2. Plan

Done, most important first: the two hash containers, because everything the
program prints goes through one of them; the parser, because every record does;
the program composed of both; then what a Python program uses: tables and their
index, the audit of packages with its digests, the binding itself; and the array
list.

| module | what it is | uses |
|---|---|---|
| `Probing` | the search of an open-addressing array, `_get_index` of both containers | |
| `KeySet` | abstract specification: what `hash_set.h` promises | |
| `HashSet` | `hash_set.c` | `Probing`; implements `KeySet` |
| `HashTable` | `hash_table.c` | `Probing`, an instance of `HashSet` |
| `LogLines` | a line of the log as the program sees it | |
| `Parser` | `parse.c` and `field_array.c` | `LogLines` |
| `Analyzer` | `fapolicyd-analyzer.c` | `LogLines`, instances of `Parser` and `HashSet` |
| `UtHash`, `UtArray` | the macros of `uthash.h` and `utarray.h` that table.c expands | |
| `Table` | `table.c` | instances of `UtHash` and `UtArray` |
| `Digest` | the streaming part of `sha256.c` | |
| `PackageAudit` | `rpm.c` and `sha256_file`, among other processes | |
| `ArrayList` | `array_list.c` | |
| `SwigTypes` | the types that modules made by SWIG share | |
| `SwigObjects` | the objects that stand for pointers | `SwigTypes` |
| `PythonBinding` | the wrappers, and a Python program that calls them | `SwigObjects` |
| `ProbingProofs`, `HashSetProofs`, `HashTableProofs`, `ParserProofs`, `TableProofs`, `AnalyzerProofs`, `LibraryProofs` (digest, array list, package audit), `PythonBindingProofs` | lemmas and theorems | `AnalyzerProofs`: instances of `ParserProofs` and `HashSetProofs`; most others: an instance of `ProbingProofs`, for induction over numbers |
| `MC...` | the instances that TLC checks | |

What is left: the binding could stand in front of the full models of parser, table
and digest, where today it has what matters for the life of their blocks; and
`RulesAreTheFiles` and `ExitTells` could be proved of every file `analyzer_files`
checks, where the theorems leave out the records cut before their colon. The same goes for
`RulesAreToldApart`.

## 3. How the modules correspond to the code

### Probing, KeySet, HashSet (`lib/util/hash_set.c`)

The variables are the members of `hash_set_t`: `nodes` (a slot holds a key or
`None`, the null pointer), `number_nodes`, `used_nodes`. A node is its key: the
hash the code stores with it is a function of the key. That function is the
rigid variable `hash`, chosen in `Init` among `Hashes`, so that one run covers
every way in which the keys can collide, and FNV-1a is one of them.
`_get_index` is `StopsAt`: the loop is described by where it stops, and the
result is empty where the code has gone all the way round and calls `abort()`.

Every public call is one action per outcome: `hash_set_add` is `AddPresent`,
`AddAbsent`, `AddGrowFails`, or `AddGrow` followed by one `RehashNode` per slot
and `AddAfterRehash`. No call starts in between, as the program has one thread.
Two details of the code decide what is true of it, and the model keeps both:
`index` is found before the array grows and used after (`growing.index`), and
the result of `_assign_node` is not looked at, so that a failed allocation
leaves an empty slot, a counted node and the answer OK (`AssignAndCount`).
`abort()` is a status in which no action is enabled. A client's walk with
`hash_set_next` is `StartWalk`, `NextKey`, `NextEnd`; `yielded` and `late` are
history variables that say what the walk has returned and what was added
during it. `Init` is the state after a `hash_set_initialize` that succeeded.

`KeySet` is the same interface with a set of members and nothing else. The
refinement maps the members to the keys stored, and what a walk still owes to
the keys from the cursor on that were not added during the walk.

### HashTable (`lib/util/hash_table.c`)

The file repeats `hash_set.c` but for two things, and so does the module: it
instantiates `HashSet` and adds to each of its actions what happens to the
values. The search that finds every slot taken is left out: as in `HashSet` it can
occur only in a table made with one slot or two. An add of a key that is there differs altogether: the entry is removed
and made anew (`Replace`). `latest` is a history variable, the value last given
for each key.

### LogLines, Parser (`lib/parse.c`, `lib/field_array.c`)

A line is a sequence of tokens: fields `key=value`, bare words, and the colon
that separates the subject from the object. A value may contain one more `=` or
`:`, because the code treats those characters the same wherever they stand; the
line may end in a blank or right behind its last colon, where `parse` in both cases
steps over the end of the text (`endsBlank`), and it is a rule, an audit record or neither
(`is_rule`, `is_audit_record`). The loops over the characters are folds over
the tokens: `CountToken` and `SetKey` are the two passes of `imbue_parser`,
`ParseToken` the loop of `parse`. The two `field_array_t` are records with their
number of fields, one key and one value per element, and whether `keys` is
null, live or already freed. A value is `"new"` when it points into the line
parsed last and `"old"` when into an earlier one.

An imbue draws how many of its allocations succeed before one fails, which
covers every place where an allocation can fail. Reading or writing past the
arrays, through a null pointer or into freed memory has no defined result in C:
the run ends there, in a status that says which it was. A client teaches a
context once with success before it parses with it, as the program does.

### Analyzer (`src/cli/fapolicyd-analyzer.c`)

`main` is a variable that says where the program is: before the file is opened,
skipping to the first audit record, in the loop, adding a rule, growing the set,
printing, or how it ended. Every step that uses the parser or the set is a step
of that module's instance, with its own variables. A file is a sequence of lines.
`getline` may fail before the end, and the code takes that for the end; the
history variable `erred` remembers it. `text` gives the values of the fields that
a rule is made of, as sequences of letters, because their length matters:
`rule_create` prints into a buffer of 2048 bytes, of which `snprintf` is told 2047
and needs one for the NUL, and what does not fit is dropped without a sign.
`WholeRule` is the text of a rule, `rule_create` what is left of it in a buffer of
`RuleSize` bytes, and `Rule` the rule of the record in hand. Values hold no blank
(the parser ends them there), and each of the fixed pieces between them (`Marks`,
`auid=1001` and `trust=1` among them) begins with one.

What the module simplifies: where a value is stale the run ends in the status
`"stale"` instead of going on with whatever the buffer of `getline` holds; when
there is no memory for a set of rules the program crashes later, or at once,
here at once; the deny set, to which nothing is ever added, is empty; the
search that finds a full set is left out, because the set has at least three
slots (theorem `NeverGoesRound`).

### UtHash, UtArray, Table (`lib/detail/uthash.h`, `utarray.h`, `lib/table.c`)

`UtHash` and `UtArray` have no actions: an operator is what a macro does to a hash
or an array, named as the macro is. An item of the hash carries a handle with
four pointers, because it is in two lists at once; the handles are functions
from items to items or `None`, and the chains, counts and expansion marks of the
buckets are kept as the macros keep them, so that an expansion can be seen to
relink every item. A list is what `Follow` meets along its pointers, one item more
at most than the hash counts, so that a list that is too long shows. `HASH_FSCK`
is the check that the header contains and the build leaves out. `rows` has an
array for every item that owns one. In `Table` a column is an array of strings; `table_index_create`
and `table_index_destroy` take a step per row and per item, and `indexed` is a
history variable that says of what the index was made. `hashv` is a rigid choice
of a hash per string, like `hash` above. A caller that asks for a column or a row
that does not exist ends in a status of its own, and so does one that looks into
an index whose table has been destroyed.

### Digest (`lib/sha256.c`)

A context has the four members of `sha256_ctx_t`, but for the chaining value,
which is the sequence of blocks mixed in so far: what is checked is that
the right blocks are given to the compression. `sha256_update` takes a byte a
step. `IsDigestOf` is the padding of the standard, by the place of a byte, and
is not built like the code. `message` and `finals` are history variables.
`bitlen` has no width here; in the code it is 64 bits, and wraps for messages of
2^61 bytes.

### PackageAudit (`lib/rpm.c`, `lib/sha256.c:163`)

`pc` says before which call of the operating system the program is: every such
call is a step, and between any two of them others may erase a package, remove,
replace or rewrite a file. A path leads to a file (`inode`) and a file has a
content, so that a file replaced while it is open goes on to be read, as it is
on Unix, and one rewritten shows the new bytes. A digest is named by the data
read. A line of `rpm -ql --dump` is reduced to its path, cut at the first blank
as the code cuts it, or it has too few blanks (`BrokenLine`): the message that the
package is not installed, or half a line of an rpm that broke off. The null pointer
then written to is a status. Lines that say `(contains no file)` are those that are
not there. An rpm may fail to start, or break off after any line or inside one, in
both passes; nobody looks at the status that `pclose` returns. `row_count` is the
local of the pass, and `told` what the callback was given last: it and the row. The
history variables are `touched`, what others changed; `unlisted`, the packages of
which rpm did not tell all; and `misread`, the rows whose file gave an error while
it was read, which `sha256_file` takes for its end.

### ArrayList (`lib/util/array_list.c`)

It has no bounds and no run: the one property is proved for lists of any length.
The members of the struct, a step per doubling, and the history of what the list
should hold. `array_list_get` changes nothing unless it reads outside of the
block, so only that is an action.

### SwigTypes, SwigObjects, PythonBinding (`src/bindings/python/fapolicyanalyzer_wrap.c`)

`SwigTypes` is the run-time part that all modules made by SWIG share in one
interpreter: the ring of modules, the types of each, the list of what each type
accepts with its move to front, and `SWIG_InitializeModule`, which lets a module
imported later take over the types that are there. `SwigObjects` has the Python
objects that hold a pointer, the flag that says whether they own it, the chain
that a second `__init__` makes, and the blocks of C memory behind them.
`PythonBinding` has an action per wrapper and a second module that knows the type
of fields and a richer one. The Python program is a careful one, as the module's
head says: it lets go of what it destroys and does not ask for what is not
there, because C takes its word for that.

What a wrapper can be given depends on what Python can make. No object stands
for a `char **` with entries, for bytes or for the length that `sha256_update`
takes by reference, so `sha256_update` and `sha256_final` raise `TypeError` for
whatever they are called with, and a table made here has no columns: the actions
say so by not being there, or by an outcome.

## 4. The runs

| run | asks |
|---|---|
| `set_client` | Is the set, below the growth threshold, the abstract set `KeySet`, answers and walk included? |
| `set_grow` | With any collisions, removes, one growth and failing allocations: does a search always end, is the count never behind, does a key leave only on request, and is it, but for growth, only a remove that makes a search miss a stored key? |
| `set_small` | In a set made with two slots, is every slot in use when a search aborts? |
| `parser` | Of 25 layouts of records, each taught and parsed with each other one in any order: are those accepted that have the exemplar's fields, and is the only crash that of a record with more? With records that lack a half, hold extra separators or end in a blank, failing allocations and repeated teaching: are accepted values wholly new, is one spare key enough, is a taught context safe to destroy? |
| `table_map` | Does a replacement never grow the table? Does each key have one node, with the value last added? |
| `analyzer_files` | For every log of up to three lines, read to its end or to an error: which rules are printed, which records are told apart, what does the exit status tell, does the program end? |
| `table_index` | Does an index find exactly the rows it was made from, for every hash function and through expansions? Do the lists of the hash agree after every add and delete, and is nothing left when index and table are destroyed in either order? |
| `digest_padding` | Are the blocks mixed in those of the padded message, however it was cut? Is the buffer never overrun, after a digest too? Is a second digest ever right? |
| `package_audit` | While others change packages and files: has what nobody touched a row, and of one content? Does the program end early only because of what was touched, or of what rpm did not tell? Does each call of the callback tell the number of rows of its pass and a later one of them, and does it not hear only of what could not be read? Does the audit end? |
| `python_client` | Two SWIG modules, imported in either order, and a program that makes, chains, disowns, deletes and fills objects: is C handed only live blocks of the right kind, is a field freed once, do the modules agree on types? |
| `set_rehash_aborts`, `python_parse` | two disagreements of section 6 |

**Restricted clients.** The code does not keep its promises to every client
(section 6), so some runs state for which clients it does. `set_client` takes
every hash function when the client never removes; it removes only if no two
keys share a home slot (`Spread`), and stays below the size at which the array
grows (`CarefulSpec` in `HashSet`). `table_map` empties single slots before the
array grows only under such hash functions (`CarefulSpec` in `HashTable`); an
entry is emptied by a remove and by a replacement that fails. Properties
that mention `NotGrown` speak of the time before the array first doubles, which
with the 1024 slots of the program means up to 666 keys. The other runs of the
containers have no such restriction.

**Bounds.** The containers do arithmetic on the array size and hash only, so
small arrays show all that large ones do, provided that collisions, wrapping
round the end and the 65% threshold occur. Three slots doubling to six are the
smallest with all of these (three keys, hash values 0 to 5: every home slot
before and after growth). `set_client` has five slots: room for three keys below
the threshold (four may be used), so that probe sequences can wrap. `set_small`
has two because the only aborts occur there. `MaxNodes` stops a second growth.
`table_map` looks at states without the client's index of a walk, which no
property mentions (`View`).
The parser's state depends on the numbers of fields of the halves and on one
line of history, and the layouts have up to two fields and two words a half. One
run holds two clients, so that the well-formed layouts are not multiplied by the
odd ones (`family` in `MCParser`). A
log of three lines has a first record, one before the last, and a last; the
lines have four rules, so that a set of three slots grows on the third; two records
differ only in the end of their paths, and their rules are too long for the buffer
of ten characters (`RuleSize`, 2048 in the code), which just holds all others. The
program asks for 1024 slots (`RequestedNodes` 0); the run asks for three, to have
the growth happen on the third rule instead of the 667th. Allocations may fail
wherever `MallocMayFail` is true.

A table has up to four rows of four strings and two columns; the hash starts
with one bucket and expands as soon as two items share one, so that it expands
to four buckets and beyond, with chains whose items stay together and chains
that split, and with expansions that help too little and are inhibited; hash
values 0, 1 and 4 collide in some numbers of buckets and not in others. Arrays
start with one slot and double twice. A block of the digest has 4 bytes, 2 of
them for the length, and a byte 3 bits: messages of up to 9 bytes have every
place of the marker in a block, a block of padding of its own, and a length that
needs both its bytes; the theorems cover 64, 8 and 8. An audit has two packages,
one with a file and a path whose first word is that file, two files that can be
there at a time (named by numbers, and taken in one order at the start, as
nothing depends on the names), contents of up to two reads, and two changes: one change may
undo another, or meet two of the calls of one row. A Python program has three
objects and three blocks: two in a chain and one more; `FewBlocks` in `MCPython`
lists the kinds of blocks that are there together, which are those that meet in
some call, and keeps the third block for fields alone, whose chains and ownership
are where a third one matters.

**Fairness.** `Analyzer` and `PackageAudit` have a liveness property. The fairness of
the first says that the
program, which is one thread, does not stop in the middle: either it has ended
or it takes another step. That needs the operating system to schedule it, and
`getline` and `printf` to return, and nothing of the code. The formula is weak
fairness of `Next`, written without `ENABLED`: until the program has ended some
step is enabled, which the run checks as the absence of deadlock. The containers
and the parser are libraries; whether they are called again is the client's
choice, so their runs do not check for deadlock. In `PackageAudit` the fairness is
weak fairness of `Program`, the disjunction of the program's own steps, and of
nothing the others do: the scheduler runs the process, and `popen`, `getline`
and `read` return. Others are never required to act or to stop; that they change
only so much during an audit is the bound `MaxChanges`, without which a file that
grows faster than it is read would keep the program reading.

## 5. What is proved

TLAPS checks these for every number of slots, set of keys, hash function and
choice of failing allocations, or for any set of lines, or for every size of block,
byte and length, or every sequence of calls, or any packages, files and
interleaving with others, or any modules, objects and blocks.

* `TypeCorrect`, `CountCovers` (`HashSet`): type correctness, and `used_nodes` is at
  least the number of slots in use. A remove decrements it, so this is also why
  it does not wrap.
* `NeverGoesRound`: with three slots or more the search never aborts.
* `RoundMeansFull`: in a set of any size, a search aborts only when every slot is
  in use, which is what the comment at the `abort()` says.
* `EmptySlotIsAnAnswer`: if the client never removes, a search that ends in an
  empty slot is right, until the array grows.
* `NoKeyIsLost`: a key leaves the set only by a remove of it or by a clear; growth,
  rehash and stale index overwrite nobody.
* `KeysHideBehindRemoves`: but for growth, a key that is stored stops being found only by
  a remove, and only if its search now ends in the slot that the remove emptied.
* `SetImplementsKeySet`, `KeysAreFound` (`HashSet`): for the careful client of
  `set_client`, with memory, every step is a step of `KeySet` or none, the walk
  included, and, what its answers rest on, a search that ends in an empty slot is right.
* `TypeCorrect`, `ReplacementStaysInPlace` (`HashTable`): type correctness; replacing
  an entry never grows the array.
* `LastValueIsKept`, `OneNodeForAKey`: until the table grows each key has one node,
  with the value last added, for the client of `table_map`; `MapUntilItGrows`: for
  every client that does not remove, whatever the hash function, with memory.
* `TypeCorrect`, `AcceptsTheExemplarsFields`, `OnlyMoreFieldsCrash`,
  `KeysStayTheExemplars`, `ValuesOfTheRecord`, `RoomForAWord`, `SafeToDestroy`
  (`Parser`): all that the run `parser` checks, and why it is so, for any set of lines
  of any length and whichever allocations fail. A context taught by a plain exemplar has
  that exemplar's fields as its keys, accepts the plain records that have them and
  no others, and does something undefined only on a record that goes on in one
  half; what it accepts with a colon leaves no value of an earlier line; the one
  spare key is enough for one bare word in each half; and no context that was
  taught with success is freed twice.
* `ColumnsOfOneLength`, `TypeCorrect`, `HashPassesItsChecks`, `OwnersAreListed`,
  `IndexIsFaithful` (`Table`, with `UtHash` and `UtArray`): all that the run
  `table_index` checks, for every table, hash function, threshold and number of
  slots. Columns keep one length; both kinds of lists of the hash pass `HASH_FSCK`
  after every add, expansion and delete; an index finds the rows that hold a
  string, and no other; the items that own row numbers are those a destroy meets.
* `TypeCorrect`, `RulesPrintedOnce`, `OnlyCutRecordsAreStale` (`Analyzer`): for files
  of any length and lines of any kind, no rule is printed twice before the set
  grows, and a rule holds text of another record only if its own was cut before
  the colon.
* `RulesAreTheFiles`, `RulesAreToldApart`, `ExitTells` (`Analyzer`): for a file of
  ordinary records among any other lines, and a buffer of any size, a program that
  succeeds has printed the rule of every record, as much of it as the buffer holds,
  and nothing else, if there was memory and reading did not fail before; two records
  that differ in what a rule tells have different rules, unless both are too long
  for the buffer; success means that all have the fields of the first, failure with
  memory enough and no error that one has not, or that there is none.
* `FirstDigestIsRight`, `LaterDigestsAreWrong`, `DigestTypeCorrect` (`Digest`): the first
  digest of a context is that of its bytes, however they were cut; no later one
  is; the block buffer is never overrun.
* `KeepsTheList` (`ArrayList`): until a reallocation fails on a list that has a
  block, the list holds what was pushed and set and touches only its own cells,
  with a default capacity of 1024 and lists of any length.
* `RowsHold`, `NothingLeftOut`, `StopsForAReason`, `ProgressIsTold` (`PackageAudit`):
  what nobody touched has a row, of one content; the program ends early only
  because of what was touched or what rpm did not tell; the callback is told the
  number of rows of the pass and ever later ones, and misses only what could not be
  read. With no bound on packages, files, contents or changes.
* `NamesMeanOneType`, `CGetsWhatItExpects`, `NothingFreedTwice` (`PythonBinding`, with
  `SwigTypes` and `SwigObjects`): all that the run `python_client` checks, for any
  number of modules, types, objects and blocks. Modules that name the same type mean
  the same one, whichever was imported first, the binary search finds it in each,
  and no type accepts a name twice; what C gets for a parameter is a live block of the
  kind it expects; a field has one object at most that will free it.

The argument. None of the properties is inductive. `SafeInv` adds two facts:
`LoadBounded`, that apart from the node counted last the load is at most 65%
(an add looks at the load before it takes a slot), and `GrowthInv`, that while
the array grows the slot at `growing.index` stays empty: that is why assigning
there later loses no key. From the load bound follows an empty slot, because
100(u-1) <= 65n gives u < n from three slots on, and from an empty slot that the
search ends (`SearchEnds` in `ProbingProofs`: a probe sequence visits every slot).
`EmptySlotIsAnAnswer` adds `PathsKept`: each node can be reached from its home slot
without passing an empty one. Filling a slot keeps that (`FillingKeepsPath`),
emptying one does not, hence the assumption that `"remove"` is not among the calls;
growth changes the home slots, hence `NotGrown`. `KeysHideBehindRemoves` compares the
searches of one step: filling an empty slot hides nobody (`FillingHidesNone`), and emptying
one changes only the searches that it ends (`EmptyingHides`). For `HashTable` a load bound
alone is inductive (`LoadInv`): one entry fewer than the count is never crowded.

The refinement is by `CareInv`: each node can be reached from its home slot and,
where no two keys meet, is in it (`PlacesInv`), so that emptying a slot cuts no
probe sequence; what a walk has returned lies in front of its index
(`WalkInv`), so that what it still owes are the keys from there on but for
those added during it. The values of a `HashTable` follow from the same fact
about places: an add finds the node of its key, if there is one, and replaces it.
`HomeIsReached` in `ProbingProofs` is the case of a search that ends at once.

The parser's definitions are folds over the tokens of a line, and folds are
recursive. A fold is first turned into a run, a function from positions to
states in which each state follows from the one before (`CountRun`, `KeyRun`,
`ParseRun`; `PartRun` for the fields of a half): it is built position by
position, and all that is said of every line is shown along its run by induction
on the position (`UpTo`, from the least element of a set of numbers). `Safe` says
what the arrays are made of, and that after an imbue that succeeded neither is
left pointing to freed memory. Along the runs of a plain exemplar the first pass
counts the fields (`CountsAreKeys`) and the second stores them, a bare word at
the end of a half going into the spare element (`Learning`, `KeysLearned`): that
is `Learned`, the invariant that later calls leave alone. Along the run of a plain
record `Following` holds as long as it is not refused: the index is the number
of fields of the half so far, and they are the exemplar's as far as both go.
Hence the colon and the end, where the fields are counted, decide that the two
are the same (`ParsedFollows`), and as long as the record is not longer the
key it meets is one of the exemplar's and not null. `RecordFresh` follows from
`Keeping`, that the values in front of the index are new, and `OneSpareKey` from
`Spared`, that a half has no more keys than fields counted but for one word.
Proving `OneSpareKey` showed two things that the layouts of the run had not: a
line with two colons, or with none where the context was taught before, can
write past the array too.

`Table` is proved from two invariants. `ColumnsInv` says that every column is an
array with as many strings as the first. `IndexInv` speaks of the hash as a whole:
it is null and nothing owns row numbers, or there are a list `app` and a chain for
every bucket (`IsHash`), each without repetition and linked both ways, such that
the items of the list, of all chains together and of `rows` are the same, a chain
has only items that hash to it, and the counts are the lengths. The lemmas follow
what the macros do to that picture: `Follow` along such a list gives the list back
(`FollowIs`, `ChainIs`), a search finds an item if and only if it is there
(`FindTells`), the picture passes `HASH_FSCK` (`HashPasses`), an add puts the item
at the end of the list and at the head of its chain (`AddedIsHash`), a delete joins
its neighbours in both (`DeletedIsHash`), and an expansion, which puts the items of
one chain after the other into twice as many, leaves each item in the chain it now
hashes to and in no other (`RehashedIs`, by induction on the items taken, and
`ExpandedIsHash`). Over it lie `Covered` and `RowsAreGrouped`: the rows passed so
far are in the array of their string, ascending. The length of a chain never
matters, so the threshold and the inhibition of expansions are free to be anything.

`Analyzer` is proved from the invariants of its two parts. `AnalyzerProofs` takes
`ParserProofs` and `HashSetProofs` as instances, over the program's own variables,
and shows first that a step of the program is a step of each part or leaves it
alone, so that their invariants hold in it without being proved again. Over them
lie `PlaceInv`, where `main` is in the file; `ParserInv`, that the context was taught
the first record of the file and that what it answered last is about the line in
hand; `SetInv`, that a call of the set ends before the program goes on, and that
nothing is removed; and `EmitInv`, that what was printed is what the walk has
passed. These hold for all lines. `RulesOfTheFile` and `ExitTellsTheFields` need to
know what a record's answer means, which `AcceptsTheSameFields` tells of plain
records only: `OrdinaryFile` says that the records of the file have both halves, no
`=` or `:` in a value, some field in front of the colon, and bare words only at the
end of a half. What the fields are, how many, and whether they are the first
record's, is left open. `RecordsInv` is the invariant of such a file: the records
behind the line in hand have the exemplar's fields, every rule of the set is the
rule of one of them, and while there was memory the rule of each is in the set, an
unfinished growth included. `RulesAreToldApart` needs besides that different fields
make different texts, which is so because no value holds a blank and each mark begins
with one: the texts agree up to the first blank, so the first values do, and so on.
`RuleOfTheRecord` connects the two parts: what
`Learned` and `RecordFresh` say of the arrays makes the rule that is added that of
the record.

`Digest` is proved from `DigestInv` in `LibraryProofs`: before its first digest a context
holds its bytes, block by block in `state` and the rest in `data`, with
`bitlen` counting the blocks (`Gathers`); from then on it has taken at least a
block more than its bytes fill (`Ahead`), which is why a later digest is wrong:
it has more blocks than the padding needs. `ArrayList` needs that the capacity is
the number of cells, or the block was lost, and that a push asks for one cell
more than there are (`ListInv` there).

`PackageAudit` is proved from `Inv` in `LibraryProofs`, which says at every
call of the operating system what the calls before it have found: a file being
hashed that nobody touched is the one `stat` saw, and what was read is the
beginning of it (`FileHeld`); what the packages passed list is in the table, and of
the package at hand what is not is still to be printed (`FilesListed`); the files
passed have their row (`FilesHashed`), and a row whose file gave an error has the
beginning that was read (`MisreadKnown`); rpm prints a broken line only of a package
that was erased after the first pass, or where it broke off (`OutputKnown`); and
what the callback was told last lies behind the row at hand, with only missed rows
between (`ToldBehind`). All of it speaks of untouched packages
and files, so a step of the others disturbs it only through `UntouchedStay`: they
change only what they touch, because no two paths lead to one file (`OneName`; the
model leaves hard links out) and a new file is not one that is open.

`PythonBinding` is proved from `TypesInv` and `ObjectsInv` in `PythonBindingProofs`;
neither holds without the other. `TypesInv` says that the modules imported so far are
a ring without repetition that ends at the one the interpreter keeps (`Ring`), that
each has types of its own names in its own order (`Named`), that two of them with a
name have the same type for it (`Shared`), and that what a type accepts are types
of known names, none twice, and only such as some module says (`CastsRight`).
`SearchFinds` shows that the binary search finds a name in a sorted list if it is there:
after n rounds what is left is shorter by n. `QueryFinds` follows the walk along the
ring, `RowAdded` the insertion of casts one by one, and `JoinKeepsTypes` puts them
together: a module that joins finds each of its names in the others exactly when one of
them has it. A conversion moves a type to the front of the list, which changes the
order and nothing else (`AskingKeepsTypes`), but only a conversion of an object that
fits does, which is where `ObjectsInv` comes in. That one says what kind of
block an object's type stands for (`PointersRight`): an object that owns is a field's, its
block is there, and no other object is in a block that a field's object is in. A
chain has one link: only an object the program holds has another chained to it, of
its own type, a field that nobody else refers to (`ChainsRight`). So a conversion
takes the object itself and never one chained to it (`ConvertIs`), an object given back
takes its one link with it (`DyingIs`), and the blocks the two free are different ones
(`CountedApart`). Whether the class of a type is known when an object goes does not
matter to any of this; it decides only what is left behind.

The assumptions on the constants are those the modules name: the null pointer
is no key and no file, hashes are natural numbers, sizes are natural numbers, the
database has finitely many packages, and a line without blanks enough is no path; a line is made of fields, bare words and colons, of which
none stands at its beginning or after another, and no key is the null pointer; the
rules of the program include those made of a record's values, or of some of them,
and no value is what stands for reused memory or holds a blank, with which each mark
begins; the buffer of a rule has room for more than its NUL;
the codes that a call returns are different; a table starts with as many columns as
it may have or fewer, rows and columns are appended at their full length, the
hash starts with a power of two up to the 32 buckets of the header, and the null
pointer is neither a string nor a number. The modules made by SWIG are finitely many,
each with its types sorted by different names and a row of different casts for every
type, as SWIG writes them; the library's has the types of its parameters, the other
one those of fields and of rich fields, and of all modules only the other one lets
something go for a parameter of the library that is not of its type: a rich field for
a field.

Every invariant that the passing runs check is proved, and every action property and the
refinement. Only model-checked: what the program prints and answers for files with
records that are not ordinary, of which `analyzer_files` has those cut before their
colon; and the liveness of the program and of the audit, which needs fairness,
out of this prover's reach.

## 6. Where the code departs from its own text

Two of these are runs that find the property violated.

* `set_rehash_aborts`: growing the set looks up every node in the doubled array,
  where its home slot may be an empty slot of the new half, and aborts
  (`lib/util/hash_set.c:88`), without any remove; the comment there says that it
  should never happen. `hash_table.c` has the same loop. `analyzer_files` shows
  what it means: a log with enough different rules ends in `"aborted"`.
* `python_parse`: the wrapper of `parse` frees its copy of the line before it returns
  (`fapolicyanalyzer_wrap.c:3702`); the values that Python gets from the context
  afterwards are read from freed memory.

The following are in the models, and the properties are stated around them:

* removing a key empties its slot, and a search for a key behind it stops there, though
  the comment has it that such a key is "not here" (`lib/util/hash_set.c:51`, `:182`); it
  can then be added twice. `OnlyRemovesHide` says that nothing else hides a key but
  growth, and which keys a remove can hide; `set_client` has a client that removes only
  when no keys share a home slot, and theorem `EmptySlotIsAnAnswer` one that never does;
* an error of `read` is taken for the end of the file (`lib/sha256.c:176`), and
  `sha256_file` returns zero with the digest of a beginning, where `sha256.h` promises
  non-zero: `RowsAreOfOneFile` says how wrong such a row is;
* a record cut off before its colon is accepted if it has as many fields as the
  object should have, with the object's values of an earlier line
  (`lib/parse.c:169`): `RecordFresh` speaks of records with both halves;
* a record with more fields than the exemplar passes a null key to `strcmp`
  (`lib/parse.c:141`), where the header documents an error:
  `CrashesOnMoreFieldsOnly` says that no other plain record does;
* after a failed allocation in `imbue_parser`, destroying the context frees its
  keys twice (`lib/field_array.c:19`), unless a later one succeeded
  (`DestroyableOnceImbued`);
* `sha256_file` ends the process when it cannot open the file (`lib/sha256.c:173`),
  where its caller handles a result, and a package erased after the first pass
  makes the second write through a null pointer (`lib/rpm.c:104`):
  `StopsOnlyWhenVanished` says that nothing else ends an audit early;
* an rpm that breaks off leaves its pass with too few packages or files, and the
  audit goes on with them (`lib/rpm.c:52`, `:112`): `UntouchedFilesAreHashed` speaks of
  the packages of which rpm told all;
* a file that cannot be read is passed over without a call of the callback
  (`lib/rpm.c:148`), which for the last file means that the client never hears that
  the pass is complete: `ProgressTells`;
* a rule of more than 2046 characters loses its end, and records whose paths differ
  only there have one rule (`fapolicyd-analyzer.c:79`, `:93`): `RulesOfTheFile` says
  what is printed, `RulesToldApart` that this is the only way to be mixed up;
* after an error of `getline` the program prints the rules of what it has read and
  succeeds (`fapolicyd-analyzer.c:149`): `RulesOfTheFile`, `ExitTellsTheFields`;
* a path with a blank shifts the columns of its row (`lib/rpm.c:103`), and a
  file with that shorter name is reported in its place: `UntouchedFilesAreHashed`;
* a failed `realloc` loses the list (`lib/util/array_list.c:29`): `KeepsTheList`.

Seen while modelling, and in no property:

* an add that doubles the array stores its entry at the index found before, where the
  next add of the key may not find it, so that the existing entry, which line 121 says is
  removed, stays beside the new one (`lib/util/hash_table.c:144`); the set does the same
  (`lib/util/hash_set.c:125`). `ValueIsLatest`, `OneNodePerKey` and `NoRuleTwice` speak of
  the time before;
* every rule goes to the allow set and is printed where its hash puts it
  (`src/cli/fapolicyd-analyzer.c:94`), so that a rule that denies may come before one that
  allows, where lines 18 and 19 have all allow rules first;
* `hash_table_get` is declared in the header and defined nowhere; `sha256_update` and
  `sha256_final` are wrapped so that Python cannot call them.

## 7. What is not modelled

* `match.c` is one call of `fnmatch` with constant flags and has no state; only its
  wrapper is in `PythonBinding`.
* Of the vendored containers, the macros that nothing in `src/` uses: sorting,
  selecting, replacing and inserting in order; insert, erase and resize of
  arrays; the other hash functions; and what is compiled out, Bloom filters and
  going on after a failed allocation.
* Of the binding: packed objects, constants, the repr and comparison of objects,
  what is compiled for Python 2 or with `-builtin`, allocations that fail, and
  `fapolicyanalyzer.py`, which forwards each call to the wrapper.
* The hash table: a table made with one slot or two, where a search may abort.
* The audit: packages that are installed while it runs, which no pass looks for;
  the first pass reads the list of packages as it was at one moment.
* Failing allocations outside of the containers, the parser and the program: table.c,
  rpm.c and the containers under them end the program then; `sha256_create` returns
  null, and no caller in `src/` looks at it.
* The array list: a doubling that wraps for sizes near the limit of `size_t`.
* Digests: a `bitlen` that wraps, and `to_hex`, which prints the digest into a
  buffer its only caller makes large enough.
* The parser: two colons in a row and lines that begin with a blank, which the
  daemon does not write; a constructor that fails for lack of memory, since
  there is no context then.
* The program: the check of its arguments, and the text of its messages.
* FNV-1a itself and the SHA-256 compression function: arithmetic that TLC could
  only repeat. The properties of the containers hold for every hash function.
* The build does not compile the command line program at present
  (`src/Makefile.am`, line 50, is a comment); it is modelled as it stands.
