# A TLA+ model of libgit2pp

libgit2pp wraps the C library libgit2 (0.19) in C++ classes.  It starts no
threads and keeps no files of its own: what can go wrong is in the long
sequences of calls a client makes.  Who frees which native object, what a
buffer still holds after a parse, which call an error message belongs to, what
a callback's answer does.  The modules here model these parts, TLC checks them
on small instances, and the TLA+ proof system proves the main properties for
every instance.  Paths below are relative to the repository; `common.hpp:66`
means line 66 of `src/common.hpp`.

## Inventory

| Part | State it keeps | Operations | What makes it correct |
|---|---|---|---|
| Ownership: `Git2PtrWrapper` (`common.hpp`) and the classes on it | shared pointers, libgit2's reference counts | factories, copies, assignment, replacement, destruction | each native object is freed once, after its last owner |
| Bare pointers: `Config`, `Remote`, `SignatureBuilder`, `Database`, `DatabaseBackend` | a pointer, sometimes freed | open, copy, assign, close, destroy | freed once, never used uninitialised or after the end |
| Views: `Signature`, `TreeEntry`, `StatusEntry`, `RefLogEntry`, `RefSpec`, raw pointers | a pointer into another object | accessors | a view does not outlive what it points into |
| Calls: `exception.cpp`, the trampolines in `repository.cpp`, `diff.cpp`, `remote.cpp` | libgit2's pending error message; iterations under way | `git2_assert`, tolerated errors, iterations with callbacks | a stop is final, the return value is true, each message is delivered once, by the right exception |
| Calls with options: diffs, checkouts, status, `resetDefault` | arrays and lists allocated for one call | fill, call, notify, free | everything is freed once, however the call ends |
| `OId` | a vector of at most 20 bytes | parse, raw data, copies, native reads and writes | it denotes what it was last given and mixes no two ids; libgit2 stays in its allocation |
| `Reference`, `Branch`, `RefLog` | a snapshot of a reference | set target, rename, delete, move, log | an object that wrote shows the store; HEAD stays on a branch |
| `Index`, `IndexEntry` | the in-memory index, borrowed entries | read, write, add, remove, conflicts, trees, resets, checkouts | no edit is lost unnoticed; an entry shows what the index holds |
| `RevWalk` | libgit2's walk | push, hide, sort, next, reset | a walk shows what was asked for; the end is told from an error |
| `DiffList`, `DiffPatch`, `StatusList`, `Object`, `Commit`, `Tree`, `Tag`, `Blob` | handles | accessors, conversions, iterations | see ownership, views and calls |
| `Repository` | a handle; no other state | about ninety methods that call the rest | see the parts |

The parts interact in three ways.  Methods of one class create objects of
another (`Repository::index`, `Commit::tree`), which share libgit2's counted
objects.  Iterations call back into the client, which may call the library
again before it answers.  All calls share one error message, `giterr_last`.

The behaviours that are hard to test are listed in `PROJECT.json` under
"hazards", each with its line and the properties that would show it.

## Modules

| Component | Modules |
|---|---|
| ownership of handles | `Handles`, which implements `Ownership`; `MCHandles`, `HandlesProofs` |
| bare pointers and views | `Borrowing`, which implements `Ownership` too; `MCBorrowing`, `BorrowingProofs` |
| codes, messages, iterations | `Calls`, `MCCalls`, `CallsProofs` |
| what a call allocates | `Options`, `MCOptions`, `OptionsProofs` |
| ids | `OIdBuffer`, `MCOIdBuffer`, `OIdBufferProofs` |
| references | `References`, `MCReferences`, `ReferencesProofs` |
| the index | `IndexFile`, `MCIndexFile`, `IndexFileProofs` |
| walks | `RevWalk`, `MCRevWalk`, `RevWalkProofs` |

Each component has a module of its own; an `MC` module gives the constants
their values and holds the statements of the documentation that the code does
not keep; the proofs extend the component.  `Ownership` is abstract: an object
lives exactly as long as somebody owns it, but for the objects a client has
`forfeited` by handling them as their class does not support.  `Handles`
implements it with none forfeited, where C++ keeps the account, and `Borrowing`
with those forfeited that the client is accused of.

A definition whose comment begins with "mutation" is not part of the model.
It is a bug put next to the definition it stands in for, and `PROJECT.json`
names the property that finds it.

### Handles

A wrapper object `h` in `scope` points to a `std::shared_ptr` control block
`ptr[h]`, and the block to a native object, `raw[b]`.  `refs[n]` is libgit2's
own count and `held` are the objects a repository keeps a reference to (its
index, its object cache).  The shared_ptr's counter is not a variable: `Last`
computes whether another object is on the block.

The classes come in two kinds.  *Sharing* classes (`Repository`, `Object`,
`Commit`, `Tree`, `Tag`, `Blob`) copy the base wrapper, so the copy joins the
control block.  *Adopting* classes (`Reference`, `RefLog`, `Branch`,
`RevWalk`, `Index`, `DiffList`, `DiffPatch`, `DatabaseObject`, `StatusList`)
write `_Class(other.data())`, which makes a second control block on the same
pointer.  The constant `Copied` says which adopting classes the client copies,
passing by value included.  Assignment is the implicit operator and shares for
both kinds, so `Assign` needs no such condition.

| Action | Code |
|---|---|
| `Open` | `Repository::init`, `open`, `openBare`, `discoverAndOpen` |
| `HandOut` | every factory: `lookup*`, `head`, `index`, `create*`, diffs, `Commit::tree` ... |
| `ConstructNull` | default constructors |
| `CopySharing`, `CopyAdopting` | copy constructors; `Object::toCommit` and its like |
| `Assign` | `operator=` |
| `Replace` | `Reference::setTarget`, `rename`, `Branch::move`, `Index::open` |
| `Reset` | `Reference::deleteReference` |
| `Destroy` | destructors |
| `Evict` | libgit2's object cache (external) |

`HandOut` requires the repository to be open, because the wrapper keeps no
reference to it: a client that calls through a handle of a closed repository
is outside the model.  So are calls that fail, which create no handle.

### Calls

`stack` holds the iterations under way, innermost last; each has the items
`shown`, the verdicts `told` by the client's callback, and whether the callback
is `asking` the client now.  `slot` is the message pending in libgit2, numbered
by the failure that set it; `tolerated` and `thrown` are history.  `Code` and
`Result` are tables of what the trampolines make of a verdict and the methods
make of libgit2's code.  The methods are grouped by these:

| Group | Methods | Verdict to code | Code to result |
|---|---|---|---|
| `Keeping` | `statusForeach`, `stashForeach`, `Remote::list` | true 0, false EUSER | 0 true, EUSER false |
| `Notifying` | `checkoutHead`, `checkoutIndex`, `checkoutTree` | true 0, false EUSER | EUSER is thrown |
| `Naming` | `foreachReference`, `foreachReferenceName` | true 1, false 0 | 0 false, EUSER true |
| `Printing` | `printCompact`, `printRaw`, `printPatch`, `DiffPatch::print` | true 1, false 0 | 0 true, EUSER false |
| `Misdirected` | `DiffList::foreach` | undefined | 0 true, EUSER false |

libgit2 stops an iteration at any code other than 0 and returns `GIT_EUSER`.
`Asserting` methods throw at a negative code, `Tolerating` ones return a value,
`Selecting` ones do either, by the code.  A failing native call sets a message
or leaves the old one: `exception.cpp:29` allows for both.  A callback that
throws, or is an empty `std::function` (the test against `nullptr` is of its
address and never fails), unwinds the native frames (`Unwind`).

### OIdBuffer

`size` and `cap` are the vector's size and capacity, `mem` its bytes.  libgit2
reads and writes 20 bytes at the vector's address (`Parse`, `GitFills`,
`GitReads`), except in lookups by prefix; nothing in `oid.cpp` looks at the
size first, and nothing in the module does.  A call that leaves the allocation
is a step of its own, `Crash`, after which the behaviour is undefined and the
model stops: `fault` names the variable.  The client is not restricted: it
parses prefixes of even and odd length into any OId, copies prefixes, and
hands any OId to libgit2.

Three history variables say what to expect of an OId.  `want` is the id or
prefix it was last given, `NoId` after a parse error.  `held` are the OIds that
were complete at some time since their construction, whose allocation is
therefore large enough: a vector never gives memory back here.  `outgrown` are
those that were given more bytes than they counted, by a parse (`resize` clears
what it adds) or by `RevWalk::next` (which does not resize), and their copies.

| Action | Code |
|---|---|
| `Construct`, `CopyConstruct`, `Assign` | constructors, the implicit assignment |
| `Parse`, `ParseFails` | `fromHex`, `fromString`; the same on a bad digit, which leaves the old size |
| `FromRawData` | `fromRawData` |
| `GitFills`, `GitReads` | `RevWalk::next`; the comparisons, `format`, `isZero`, `push`, `setTarget` ... |
| `LookupPrefix` | `lookupCommit` and its like, which pass `length()` along |

### Borrowing

Each variable `v` has a `class[v]` and a pointer `at[v]`; `alive` are the
native objects allocated.  C++ keeps no account of who owns what here, so the
module keeps two that the client would have to: `from[v]` is the variable a
view looks into, as long as the client knows that one to be in place, and
`accused` are the objects that were handled in a way their class does not
support (a `Config` or `Remote` copied, an owner assigned, a `Database` closed
or forgotten, a backend made).  The properties say that nothing else goes
wrong: `fault` and leaks are accused, and the rest has one owner.

| Action | Code |
|---|---|
| `New`, `NewBackend` | constructors, open functions and factories |
| `OpenFails` | `Config::openDefaultConfig`, `openLevel`, `openOnDisk` with an error nobody looks at |
| `OpenGlobal` | `Config::openGlobalConfig`, which leaks the default configuration |
| `Borrow`, `NullView`, `BorrowTemporary` | methods that return views and raw pointers; views of nothing; `Signature(SignatureBuilder(..))` |
| `CopyBuilder`, `CopyPointer`, `CopyView`, `CopyBackend`, `Assign` | copy constructors and the implicit assignment |
| `Destroy`, `Close` | destructors, `Database::close` |
| `DropElements` | `removeRefspec`, `clearRefspec`, `RefLog::drop` |
| `Use..` | every method that reads through the pointer, by class |

### Options

`stack` holds the calls under way with the `array` and the `list` each has
allocated.  `Checking`, `Showing` and `Silent` methods free the array in the
destructor of a `StrArrayFiller`; the diffs (`Diffing`) free it by hand after
the native call; the array of a `Fetching` method comes from libgit2.  A
callback may make calls of its own, throw, or be empty: the trampolines test
the address of the `std::function`, never null, and an empty one throws
(`AskNobody`).  The notification of a diff wraps the list under construction
in a `DiffList`, whose destructor frees it (`AnswerDiff`); `notified` records
the lists it was made for.

### References

`store` maps names to ids, names (symbolic) or nothing; HEAD is one of them.
`snap[h]` is the snapshot a `Reference` or `Branch` object is on: libgit2 never
updates a snapshot, so `setTarget`, `rename` and `move` replace the object's
own.  `behind` are the objects whose reference was changed by a call that gave
them no new snapshot.  Writes go by name and do not look at what is stored:
`SetTarget` on an outdated object brings a deleted reference back, at once
(`ref.hpp:175-180` says that the reference becomes direct and that changes wait
until they are written back; see the differences below).  Two calls fail
half-way: after `RenameFails` the reference is moved and HEAD is not, after
`BranchMoveFails` HEAD may be moved as well, and the object keeps its old
snapshot in both.

Methods without an action of their own have the transitions of one that has:
`stashSave` and `Remote::updateTips` write their references as `Create` does,
`stashDrop` of the last stash deletes as `DeleteTag`, and `Remote::rename` is
one of each for every reference of the remote.

### IndexFile

`mem[i]` is the index in memory of a repository or of an `Index::open`, `disk`
the file.  Index methods edit `mem`; `Load` and `Save` carry it whole, and
methods of a `Repository` do so as well without saying it.  `edits` and `stale`
record what was changed in memory, and which memories were written past.
`view[e]` is the entry an `IndexEntry` points to, or `Gone` once libgit2 has
freed that entry.  A dangling entry is a legal outcome here, as it is in the
code: that an entry shows something else is not.  Conflicts are paths with sides
(stages 1 to 3), whose content is not kept, and `getConflict` hands out entries
on them.  `add(entry)` leaves a conflict at its path, `add(path)` resolves it.

| Action | Code |
|---|---|
| `AddEntry`, `AddPath`, `Remove`, `RemoveStaged`, `Clear`, `ReadTree` | the methods of `Index` of these names |
| `AddConflict`, `RemoveSides`, `GetSides` | `addConflict`; `removeConflict`, `cleanupConflict`, `remove` of a stage; `getConflict` |
| `Load`, `Write`, `Get` | `Index::read`, `write`, `get` |
| `Status` | `listStatus`, `status`, `statusForeach` |
| `Checkout`, `CheckoutIndex` | `checkoutHead`, `checkoutTree`, `checkoutIndex`, and the checkout in `stashSave`: with or without a refresh, of the paths a strategy and a pathspec pick, which are none by default |
| `CheckoutCut` | the same, cancelled, failed or unwound by a callback: the paths it had come to stay in memory |
| `Reset`, `ResetDefault` | `reset`, mixed or hard, and `resetDefault` |

libgit2 may skip the reading when the file has not changed since the last one;
then the memory stays as it is, a stutter.

### RevWalk

`roots` and `hidden` are the marks of the walker, `todo` what is left of the
walk under way.  `client` follows a loop `while (walk.next(id))`: marking,
looping, left by a break, over after a false.  `meant` is what the client has
asked for, `shown` what it got.  A `next` that fails returns false like the end
but does not reset the walker: the client, who cannot tell, is `cut` then.

Marks can be made at any time: before a loop, inside one, after a break, and on
a walk an error had cut.  What libgit2 still shows of a walk that marks meet is
left open (`Disturbed`), but for a commit it showed before.  `astray` records
what has parted client and walker: `mixed` are marks that met an older walk,
`reference` those on a `Reference`, whose name is taken for a glob that matches
nothing, and `sorted` those made before `setSorting`, which resets the walker
only when a walk is under way.  `WalksAreExact` says nothing of a walk that is
astray; the differences below show each reason at work.  `astray` is empty
again when the walker is blank: after `Reset`, or after an end that left
nothing.  `Others` are other processes: they move references and make objects
unreadable, or readable again.

## Runs

| Run | Shows | Bounds |
|---|---|---|
| `handles` | balanced counts, no double free, no dangling handle, no leak; implements `Ownership` | 7 handles, 7 native objects, 4 control blocks |
| `handles_copy` | copying an `Index` frees it twice (`index.cpp:82`) | the same |
| `oid` | libgit2 leaves the allocation exactly of OIds that were short from the start; ids denote what they were given and are never mixed | 2 variables, ids of 3 bytes, bytes 0 and 1 |
| `calls` | a stop is final, returns are honest, messages come once and in order | 2 items, 2 nested iterations, 3 failures |
| `calls_references` | false continues `foreachReference` (`repository.cpp:416`) | the same |
| `calls_foreach` | `DiffList::foreach` never asks its client (`diff.cpp:150`) | the same |
| `references` | only objects passed over by another call overwrite an update; branches stay direct; HEAD keeps its commit but where a move fails half-way; HEAD is detached on purpose | 2 branches, HEAD, one more name, 2 ids, 2 objects |
| `indexfile` | unsaved differences are the client's edits or what a checkout left half done; writes that are not stale lose nobody else's; entries are current or gone | a repository and an open index, 2 paths, 2 contents, 1 entry |
| `borrowing` | faults and leaks are accused, the rest has one owner; implements `Ownership` but for what is accused | 4 variables of at most 3 of 19 classes, 3 objects |
| `options` | arrays go with their calls; only notified lists are freed twice | one method of each kind, 2 nested calls, 2 items, 5 addresses |
| `options_notify` | a notification frees the list libgit2 builds (`repository.cpp:737`) | the same |
| `revwalk` | walks are exact, every `next` advances its loop, every loop on `next` ends | 3 commits, HEAD, two commits that get unreadable |

Why the bounds are enough.  `handles` has two handles of the repository (so
that one can die first), an `Object` and a `Commit` handle that can meet on one
cached commit, a tag the `Object` may hold instead, two `Index` handles on the
repository's index and on a stand-alone one, and a `Reference` handle with a
second native reference to be replaced by.  Four control blocks suffice to
have all native kinds live at once; when all are in use the client creates
nothing.  `oid` needs three bytes so that a prefix can be shorter by one and by
two bytes than a complete id and by one than another prefix; an id of 20 bytes
differs in nothing else.  Both variables see every id, every prefix of 0 to 6
digits and every failing parse.  `calls` needs two items to tell a stop before the
last item from one at it, two levels to have an inner and an outer iteration,
and three failures to have a tolerated one, one that throws and one that could
echo.  The failures are bounded by `MaxErrors`, the nesting by `MaxDepth`.

`references` needs two branches to move one over the other and HEAD to either,
a name that is no branch to be symbolic or a tag, two ids to be out of date,
and two objects so that one writes behind the other's back; chains of symbolic
references are followed `Nesting` deep, for as many names as there are.
`indexfile` needs a second memory to write past the first, two paths so that
one edit can be lost while another is kept, and two contents; one entry
suffices, since entries do not affect each other.  Conflicts are added at one
path (`Disputed`), the paths picked out are that one or none (`Pathspec`), and
the trees have a file there and none at the other path (`Tree`), so that taking
a tree over adds, replaces and removes; entries added one by one reach every
other content.  `borrowing` has an owner, a copy of it, a view and a
copy of the view at the same time, and a third class behind these two
(`RefLog`, its entry, the entry's signature): no property relates more than
three classes (`MaxClasses`).  `options` has a diff inside another call's
callback and the reverse, a second item so that libgit2 goes on after a
notification, and addresses for two arrays, two lists and one list kept.
`revwalk` has a commit with two children, so that ranges and hidden ancestors
differ from plain marks; HEAD leads to one child or nowhere (`Tip`), that child
and the shared ancestor get unreadable (`Fragile`), so that a mark can fail as
well as a `next`.

Symmetry is used where nothing distinguishes the values: control blocks,
addresses, ids, objects, variables, contents.  `revwalk` checks a liveness
property and uses none.  Deadlock is checked everywhere but in `borrowing`,
where an address that was accused is not used again, so that a client of
nothing but leaked objects runs out of addresses, and in `oid`, where the
program is undefined, and the model stops, once libgit2 left an allocation.

Fairness.  Only `RevWalk` states any: `WF_vars(LoopStep)`, the calls of `next`
in a client's loop `while (walk.next(id))`.  The program has one thread, which
is in that loop and does nothing else until it ends or is left, so that a call
that stays possible is made.  Nothing is assumed of other processes.  With it
`LoopsEnd` holds because every call shows a new commit, ends the walk, or
fails; it would not if a failing `next` answered true.  All other properties
are about safety, and the library has no work in the background.

### Where code and documentation differ

The four violation runs show the differences with the largest consequences.
Configurations beside them show more with the same modules, each with one
property that TLC finds violated:

| Configuration | Property | The code | The documentation |
|---|---|---|---|
| `MCCallsPrints.cfg` | `FalseStopsPrinting` | `diff.cpp:167`: false continues the printing of a diff | `diff.hpp:65` |
| `MCOIdOdd.cfg` | `LengthIsDigits` | `oid.cpp:66`: a prefix of odd length loses a digit | `oid.hpp:72` |
| `MCOIdReparse.cfg` | `DenotesAlways` | `oid.cpp:66`, `revwalk.cpp:117`: an id parsed or filled into a shortened OId is cleared in part, or stays short | `oid.hpp:66`, `revwalk.hpp:221` |
| `MCOIdOverrun.cfg` | `NoOverrun` | `oid.cpp:117-125`: libgit2 reads or writes 20 bytes of a copied prefix | `oid.hpp:61` |
| `MCReferencesTarget.cfg` | `TargetsAreDeferred` | `ref.cpp:106`: `setTarget` writes at once | `ref.hpp:178-180` |
| `MCRevWalkReference.cfg` | `ReferencesAreStarts` | `revwalk.cpp:62`: marking a `Reference` marks nothing | `revwalk.hpp:118` |
| `MCRevWalkSorting.cfg` | `SortingResets` | `revwalk.cpp:123`: marks made before a walk survive `setSorting` | `revwalk.hpp:229` |
| `MCRevWalkReset.cfg` | `OverIsReset` | `revwalk.cpp:117`: a walk with hides and no start ends and keeps its hides | `revwalk.hpp:77` |
| `MCRevWalkCut.cfg` | `FalseIsTheEnd` | `revwalk.cpp:118`: an error is answered like the end | `revwalk.hpp:222` |

## Proofs

All proof modules are checked to the last leaf.  They hold for all constants
that satisfy the named assumptions of the modules.  Assumptions about the
client are hypotheses of the theorems.

- *Handles*, when `Copied = {}`.  `OwnershipInv` is inductive.  Its main part,
  `RefsBalance`, says that libgit2's count of an object is the number of
  control blocks on it plus the repository's reference.  `NoDoubleFree` is not
  inductive without it: that a free is allowed follows from the count being
  positive, which follows from there being a block.  `HeldByOpenRepository` is
  needed since freeing a repository also drops what it holds.  `NeverDangling`
  and `NothingLeaks` follow from the balance; `HandlesImplementOwnership` takes
  each step to a step of `Ownership`, where an object dies exactly when its
  last owner lets go.  A copied object is beyond any such theorem: the runs show
  the double free.
- *Borrowing*.  `BorrowingInv` is not inductive: a `Database` goes without
  freeing its object, so a backend taken from it needs to know that a copy is
  left (`BackendsKnown`), and an owner's pointer must lead to an object that is
  alive or accused (`OwnersKnown`), or its destructor would be a fault nobody
  was accused of.  The classes matter only by their kind (freeing, closing,
  keeping, looking), which two lemmas extract.  `BorrowingImplementsOwnership`
  needs both halves of the account: `SoleOwners` gives every object that is
  alive and not accused its owner, and `OwnersKnown` the reverse.  That a step
  is on behalf of one variable, and that an accusation stays, is shown action
  by action.
- *Calls*, for any set of methods.  `Messages`: a pending message belongs to a
  tolerated failure and is newer than all delivered ones.  From it both message
  properties follow.  `Iterations`: a conforming iteration under way has been
  told no stop and its client answered for all items shown but the current.
  The properties of iterations are about the groups `Keeping` and `Notifying`.
- *Options*.  `ArraysWithTheirCalls` is inductive with what was lost still
  being allocated.  The lists need more than the model says: no two calls build
  one list, the list of a call exists unless it was notified, and it was
  notified while its callback runs.
- *OIdBuffer*, for any client.  `Allocated` bounds the size by the capacity.
  `OverrunsAreShortCopies` is inductive with it: the capacity of an OId is large
  enough from the step on in which it was complete, since assignments and
  parses never lower it, and only a copy starts with less.  `Denotes` and
  `NeverMixed` are inductive as well.  Every step but a crash stores into one
  variable (`Storing`), which one lemma takes to the invariant; the rest is one
  lemma for each action.
- *References*.  `TypeOK` and `UpToDate`, that an object not in `behind` shows
  the store, are inductive together; nearly all actions are instances of `Put`,
  so one lemma carries both.  `OutdatedOverwrites` follows, since the calls that
  overwrite go through an object.  That only calls
  meant for it detach HEAD is proved action by action.  `BranchesKeepHead` asks
  where a chain of symbolic references ends, which `End` computes with a
  recursive function of the number of steps.  The induction theorems of the
  library cannot be used with a predicate here, so `Induction` proves what is
  needed from the least counterexample (`WFMin`): `StepsExist` and `EndOfSteps`
  say what the chain does at no step and at one more, `EndIsName` and
  `TerminalIsName` that it stays among the names, and `SameChains` that it ends
  where it did when only references change that are not symbolic before or
  after.  This last needs branches to be direct, hence `BranchesDirect`, which
  joined the inductive invariant: no snapshot on a branch is symbolic either,
  or an old object could write one.  A move that fails half-way
  (`FailingMoves`) either took HEAD along or left the commit at the new name.
- *IndexFile*.  The two properties are inductive given the types; lemmas are
  about `Edit`, `Load`, `Save` and the checkouts that were cut.  An action has
  to free every entry it replaces or removes: those it leaves must be shown by
  the new content (`Covered`).  `FreshWritesKeepOthers`, about
  single steps, follows from `UnsavedAreEdits`.
- *RevWalk*, for any graph.  `Accounted` relates the client's account to the
  walker's as long as nothing parted them, in each stage of a loop: before the
  first `next` the marks agree, during the loop what was shown and what is left
  make up the walk, after its end that was shown, after an error nothing else.  What a walk shows, `Wanted`, is never expanded.
  `LoopsAlwaysAdvance` needs one thing more, `NotShown`: nothing that is left
  for a loop was shown to it, whatever was marked inside it.  For finitely many commits `LoopsAreBounded` then
  makes the number of those not shown yet a measure that every `next` lowers.

Only model-checked: `LoopsEnd`, since the proof system does not reach liveness.
What it rests on besides fairness is proved, `LoopsAlwaysAdvance` and
`LoopsAreBounded`.

## What the properties leave out

Some properties exempt what the code cannot keep, and name it in a history
variable so that the exemption is exact: a reader should know what they do not
say.  `outgrown` OIds and those left by a parse error need not denote anything.
`accused` objects of `Borrowing` were copied, assigned or closed as their class
does not support; the properties say that all damage is on their account, not
that there is none.  `lost` arrays are leaked by a diff whose callback threw
and `notified` lists are freed under libgit2's hands.  Objects in `behind` may
overwrite, a `stale` index may write over another's update, a refresh discards
edits, an `IndexEntry` may dangle, and a walk that is `astray` may show
anything but a commit twice.

## Not modelled

What libgit2 computes (diffs, status, merges, the order of a walk, packs, the
transports of a remote, the values of a configuration, the lines of a reflog)
is external: only what it returns, counts, calls and frees is in the models.
Accessors that read a native field, flag tests, formatting, version macros, the
one static trace callback and the build files have nothing to check.  Memory
exhaustion is left out.  A client that calls through an object of a repository
it closed is left out too: the wrapper keeps nothing that could tell.
Accessors that build a `std::string` from a null pointer (`pushUrl`, `workdir`,
`messageEncoding`, the message of a reflog entry) or read through one
(`StatusEntry::path` when the entry has no change in the working directory,
`status.cpp:139-151`) fail at the call itself and need no model.

## Plan

1. A branch's upstream, which is an entry of the configuration, and the lines
   of the reflogs, as state beside `References`.
2. Composition: `References` and `IndexFile` over `Calls`, so that operations
   fail half-way and callbacks of an iteration write what it iterates over.
