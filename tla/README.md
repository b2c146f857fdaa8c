# TLA+ specifications of ThisAndThat

ThisAndThat is a collection of small programs: two search trees, a downloader on
libcurl, a tool for nested zip archives, a study of string optimisations and a program
that clicks through the Windows system tray. The programs are independent of each
other; each has one module here (the trees share several). All paths below are relative
to `src/projects/ThisAndThat/`.

## The system

| Component | Source | State it keeps | Operations | What is hard |
|---|---|---|---|---|
| Binary search tree | `DataAndAlgorithm/Tree/BinarySearchTree.cpp` | nodes on the heap with left, right, parent and a side flag; a root pointer | `find`, `insert`, `DeleteNode`, `swapNode` (private, unused), `printTree` | series of calls; pointers into the tree that deletions invalidate; freed addresses handed out again |
| AVL tree | `DataAndAlgorithm/AVLTree.cpp` | the same, and a height per node | the same, and `MeasureHeights` | heights that are uninitialised or stale, and an int that is added to |
| Downloader | `GetDataAndPrintDataUsingCurl/test.cpp` | curl context, download buffer, file handle, result file | `DownloadFile` twice, each time with a separator appended; libcurl calls `WriteMemoryCallback` back | every call can fail; transfers break off; the context is shared by the downloads |
| Nested zip tool | `zip_unzip/zip_unzip.py` | the files of the working directory, which outlive a run | pack n levels, unpack n levels | interrupted and repeated runs, names that clash |
| String optimisation | `OptimizedC++/4_String_Optimization.cpp` | loop variables, one caller's array | ten versions of `remove_ctrl` | signed characters, block boundaries, a string that shrinks under its index, a result that is also the input |
| Tray automation | `WindowsAutomation/WindowsAutomation.cpp` | a process handle, a buffer in another process, the mouse | expand the tray, right-click a button, choose a menu item in one of four ways | a desktop that everybody changes between two steps |

What makes each component correct:

* *Trees*: definitions 1 to 4 at the head of the files hold after every call; no memory
  is lost or used after it was freed; a call touches only the key it was given; a
  pointer returned by a call stays good; every call returns. For callers, the tree is a
  map.
* *Heights*: after `MeasureHeights` every node is above its children and leaves are at 0,
  as far as an int reaches.
* *Downloader*: only whole responses with code 200 get into the file; handles are closed;
  memory is lost in bounded amounts; the return code tells what happened; the context is
  usable by the next download.
* *Zip tool*: what is found under an archive name is a whole chain, or lacks something at
  its outermost level; unpacking an archive brings back what is at its bottom.
* *Strings*: all versions return the same, whatever the caller's buffers hold.
* *Tray*: the item chosen is the one asked for, by place or by name; nothing is left open.

## The modules

There are two abstract specifications, `OrderedMap` for the tree and `ResultFile` for the
downloader. `OrderedMap` is a map with `find`, `insert` and `DeleteNode`, each invoked and
then answered in one step. It says of `insert` that a key that is there keeps its value (the
code returns the node and ignores the new value).

`BinarySearchTree` is the detailed one. Memory is explicit: `heap` maps allocated addresses
to nodes, `delete` removes an address, `new` hands out any free one. A call is one action to
enter it (`CallFind`, `CallInsert`, `CallDelete`) and then one action per loop iteration or
recursive call; `DeleteNode` has one action per branch. `pc` names the function that runs. A
dereference of null ends in `crashed`; one of memory that is freed and not reused ends in
`undefined`, where nothing is claimed. `DeleteNode` ends without a return statement after it
has deleted something, so it returns `Indeterminate`. The last branch of its two-children
case (lines 472-479) cannot be reached, since the loop before it stops at leaves only; it is
therefore not an action.

Deletion does not work for every key. `Hazardous` names the shapes on which it goes wrong:
the root with fewer than two children (its null parent is dereferenced, line 403); and a
node with two children whose predecessor is not a leaf (the loop of line 447 walks past it
to null) or is the left child itself (line 468 clears the wrong pointer and the right
subtree is lost). `Spec` lets callers do anything; `ContractSpec` has the callers who never
delete a hazardous key. Everything above the raw memory is claimed of the latter.

`PrintTree` adds `printTree` (one action per level). `AVLTree` adds `MeasureHeights` (one
action per leaf taken and per step of a climb) and composes it with the tree and with
`printTree`. `AVLTree.cpp` repeats the code of the plain tree word for word, so `find`,
`insert` and `DeleteNode` are its actions, those in which they could fault included
(`TreeStep`). A new node's height is any member of `Garbage`: the constructor initialises a
local variable of that name (line 48) and not the field. Heights are ints: where line 548
adds one to `MaxInt` the result is undefined, and `RaisedHeights` has what compilers make of
it: the sum wraps to the smallest int and the old height is kept, or the comparison is made
as if it had not wrapped and the smallest int is stored. No operation rotates, so
definitions 5 and 6 at the head of the file are not implemented at all (`Balanced`).

`SwapNode` has `swapNode` as one action that folds its assignments over the memory in their
order. Nothing calls it, so it is applied to any two nodes of any tree.

`ResultFile` is what the reader of the downloader's file may rely on: in each round the
server answers once, the answer is appended at once or not at all, and then a separator or
nothing. (An answer longer than a DWORD counts loses its end, or all of it: line 162 passes
a `size_t` where `WriteFile` takes a DWORD. `Stored` has that.) `Downloader` is `main`,
`DownloadFile` and the write callback, one action per external call with its success and its
failures. The buffer is the sequence of bytes received, in chunks of any length; `memory` is
its pointer and `blocks` counts the blocks of the heap, which `malloc` and `realloc` take
and nobody gives back. The error macro frees the caller's context; a call that gets a freed
context may crash or return anything, so the behaviours go on both ways. The refinement
mapping is `Phase`: the program's place, and at the end of a call its return code, tell what
became of the answer.

`NestedZip` has the working directory as a function from names to contents. Every run of the
program is interleaved with kills between two statements and inside them (`Kill`,
`StopWriting`, `KillExtracting`), and with a user who repeats runs or takes any archive to
an empty directory. A file that was opened for writing is a broken archive until it is
closed. An exception is not a kill: Ctrl-C, or an error of one of the two calls of
`zf.write`, leaves the `with` statements, which close a *valid* archive of what was added so
far: nothing, a member that is cut off, or all but the text (`Interrupted`, and `AddMissing`
for an input that is not there). Contents are values: `Original`, `Text(n)`, `Broken`, or an
archive with its members.

`RemoveCtrl` has one state machine for the four algorithms behind the ten functions. The
versions that append character by character differ in copies and allocation and in their
index: the first four have an int, which ends at `MaxInt`. What then happens is undefined,
and the model lets the loop end there or go on (`Overflown`). Two functions write to
something of the caller's; it holds anything before, and may be what is read. The C version
works in place, since it never writes ahead of what it has read (`ReadIsFiltered`); the one
that clears its result first loses a string passed for both.

`TrayAutomation` has the program's steps and, between any two of them, what others do to the
desktop: buttons come and go, menus come up and go, and the user moves the mouse anywhere,
onto an item of any menu too. A point on the screen is the place that somebody took it for,
and `Under` tells what may be there when the click arrives: that place, if it is there
still, or an item of another menu that lies over it. (The items of one menu do not lie over
each other.) `MenuHeight` gives the menus heights in pixels, since the code divides.

`MenuChoice` adds the other ways to choose an item of the menu that is open: by its name
with MSAA (`ClickMenuItemByName`), by its name without (`ClickMenuItemByNameNoMSAA`), and
with two keys (the `Select...Option` functions). The program uses the position; the others
have no caller and are put where the commented-out calls of them stand, after the menu has
been opened. Others may close the menu between any two of their steps, and COM calls may
fail or never be answered. A default action that reports failure may have been carried out
(`ActedAndFailed`); and `GetMenuItemRect`, which is asked with whatever window is in the
foreground, may give the rectangle of anything (`FindRect`).

Operators marked *Mutant of* are deliberately wrong forms of the definition that follows
them, used to see that a property notices the error. They are in no specification.

## The runs

| Run | Bounds | Question and answer |
|---|---|---|
| `BST_any` | 5 keys, 5 addresses, `Spec` | Holds for any caller: types, the root stays, handles stay valid, only `DeleteNode` breaks a good tree, and it does so *exactly* on the hazardous shapes. Damaged trees are followed while at most 4 nodes are left (`FewDamaged`). |
| `BST_contract` | 4 keys, 4 addresses, 2 values, `FixedRootSpec` (`FairContractSpec` with the root at one fixed address) | Holds under the contract: well-formed memory, no fault, the loop invariant of the walks, `ImplementsMap` and `EveryCallReturns`. No SYMMETRY, because of the liveness property; fixing the root's address is sound for it, since the model treats all addresses alike. |
| `BST_lost_keys` | 4 keys | Violated: deleting 2 from the tree 2, 1, 3 loses 3 as well (finding). |
| `Swap_pairs` | 5 keys | `swapNode` exchanges two nodes exactly for the pairs in `Swappable`. It fails for the root as first argument (the assignment in line 291), for two inner nodes (the negation in line 349), and for stale side flags. |
| `AVL_tree` | 4 keys, `MaxInt` 4, garbage -2, 3, 4 | Heights dominate after every measurement exactly if no node but the root has the largest int, measuring twice changes nothing, every step of a measurement leaves less to do, the printed picture is ordered and complete, the level vector is bounded by 2^n. |
| `AVL_stale` | 4 keys, garbage 0 | Violated: after a deletion the heights measured before stay (finding). |
| `AVL_balance` | the same | Violated: sorted insertions make the tree a list (finding). |
| `Download_file` | 2 downloads, 5 responses of 0 to 4 bytes in all chunkings, 3 values of a DWORD | Holds whatever fails: the program implements `ResultFile`, the handle is closed, one block is lost per download, the return code and the code of the answer tell what was saved, the program ends or waits for the server. |
| `Download_context` | the same | Violated: after an error of libcurl the context that `main` reuses is freed (finding). |
| `Zip_chain` | 3 levels, 5 user actions, 7 inputs with the names the program uses among them | Holds: only the outermost level of an archive can lack something, packing keeps its input (an input `tmp1.txt` in the working directory is exactly the one that is lost), the round trip works, also from an archive that an interrupted run left, and for a file that comes back over an archive of the chain. |
| `Ctrl_ctrl` | strings of up to 4 of 6 boundary bytes, `MaxInt` 2 | Holds: all versions agree with the reference (those with an int at least up to its end), keep their loop invariants and return; the C version for every `size`, in place too. |
| `Tray_click` | 2 buttons, 2 programs and whatever else has a menu, menus of 3 items and 66, 68 and 20 pixels, all four ways of choosing | Holds: which item is chosen when nobody interferes, by position and by name; which names can be hit when somebody does; what is released and let go of on which path; the program ends or waits for Explorer or a COM server. |

Why the bounds are enough. A hazardous shape needs at most five nodes: a node, its left
child, that child's right child with a left child of its own, and a right child; five
nodes also give every relation of two nodes in `swapNode` (strangers at different levels,
siblings, parent and child, grandparent). Five addresses for five keys mean that every
deletion makes the next insertion reuse a freed address. In four nodes a leaf's climb meets
heights that an earlier climb raised, and with garbage at and next to `MaxInt` there are
climbs that stay below it, reach it and overflow. Two downloads are what `main` does, and two
bytes are what it takes to lose one; with three values of a DWORD one answer has all and one
has some of its bytes cut. With three levels there is a first, a middle and a last
one; five user actions are two packings, a removal, a further run and an unpacking, any of
them interrupted. Four characters hold a block that ends in two dropped characters, and one
character more than an int of two counts. With two buttons there is one that can come before
the one with the index; a menu of three items has the name that is searched twice, or after
a separator, and one height leaves no remainder while another's takes the click one item
further up. `Zip_chain` does not check for deadlock: the user may stop.

Five things that the passing runs show and that a reader of the source's comments would not
expect: `DownloadFile` returns 0 for a response whose code is not 200
(`ReturnCodeTellsSaved` says so), although the comment in its lines 76-77 reserves 0 for
success; `remove_ctrl` drops every control character and every byte above 0x7f, since
`char` is signed (`VersionsAgree`), although line 7 speaks of newlines;
`create_zip_with_tmp` packs the text "1" for an input named `tmp1.txt`, which it has
written over (line 10) before it adds it as "the file that was input" (line 15);
`ClickMenuItemByName` can return false after it has chosen an item, when the default action
reports a failure that it carried out; and `ClickMenuItemByNameNoMSAA` can click an item with
another name (`NamesAreRight` says when: another menu came up over the one it searched, or a
wrong rectangle or the user's hand took the mouse elsewhere) and reports success.

### Fairness

All programs are sequential, and fairness says no more than that a call or program that
runs is scheduled: `WF_vars(Run)` in `BinarySearchTree` excludes the caller's decision to
make a call; in `RemoveCtrl` it is the function's loop; in `Downloader` it excludes the
network, and in `MenuChoice` (`FairChoiceSpec`) the answers of
Explorer and of the menu's owner and what other people do, which is why the liveness
properties there are disjunctions with waiting for ever. The zip tool has no
liveness property: nobody need restart it.

## The proofs

Every safety invariant and every action property of a passing run, and both refinements,
are theorems: TLC checks them on the bounds above, TLAPS for all values of the constants.
They stand in one module of proofs per component (four for the trees: `TreeContractProofs` rests on
`BinarySearchTreeProofs`, and `SwapNodeProofs` and `AVLTreeProofs` on both).

| Module | Theorem | States |
|---|---|---|
| `BinarySearchTreeProofs` | `TypeCorrect`, `RootIsPermanent`, `HandlesAreStable` | `Spec => []TypeOK`, `[]RootStays`, `HandlesStay` |
| `TreeContractProofs` | `OnlyDeleteDamages`, `HazardIsExact` | `Spec => OnlyDeleteBreaks`, `DeleteBreaksExactlyOnHazard` |
| | `ContractKeepsTree`, `ContractNeverFaults`, `ContractWalksNarrow` | `ContractSpec => []WellFormed`, `[]NoFault`, `[]WalkNarrows` |
| | `TreeIsMap` | `ContractSpec => ImplementsMap` |
| `SwapNodeProofs` | `SwapIsExact` | `SwapSpec => []SwapExchangesExactlySwappable` |
| `AVLTreeProofs` | `AVLTreeStaysGood`, `AVLTreeIsMap` | `AVLSpec => [](WellFormed /\ NoFault)`, `ImplementsMap` |
| | `MeasuringPutsInOrder`, `MeasuringTwiceIsOnce`, `MeasuringAdvances` | `AVLSpec => MeasuredDominate`, `MeasureAgainKeeps`, `MeasureAdvances` |
| | `VectorStaysBounded`, `PictureStaysOrdered`, `PrintingIsComplete` | `AVLSpec => []VectorIsBounded`, `[]PictureIsOrdered`, `PrintsEveryKeyOnce` |
| `DownloaderProofs` | `DownloaderTypeCorrect`, `HandleAlwaysClosed`, `LeakIsBounded` | `Spec => []TypeOK`, `[]HandleIsClosed`, `[]OneBlockPerDownload` |
| | `ReturnCodeIsTrue`, `Implementation` | `Spec => ReturnCodeTellsSaved`, `ImplementsResultFile` |
| `NestedZipProofs` | `EveryArchiveIsWhole`, `InputIsKept`, `UnpackingBringsBack` | `Spec => []ArchivesAreWhole`, `PackingKeepsInput`, `RoundTrip` |
| `RemoveCtrlProofs` | `AllVersionsAgree`, `EveryTurnFilters` | `Spec => []VersionsAgree`, `[]ReadIsFiltered` |
| `MenuChoiceProofs` | `EverythingIsGivenBack`, `ChosenNamesAreRight`, `NamedItemIsFound`, `PositionIsSelected` | `ChoiceSpec => []NothingIsHeld`, `[]NamesAreRight`, `[]NamedItemIsChosen`, `[]PositionSelects` |

**Assumptions.** The proofs rest on nothing but what the modules assume of their constants,
and TLC evaluates that in every run. Keys are integers, and no address is null
(`KeyAssumption`, `AddrAssumption`); no key is printed like an empty place
(`PrintAssumption`, needed for `PrintingIsComplete` alone, since the picture does not tell
an X from a key of that name); an int counts beyond 0 (`MaxIntAssumption`) and the garbage
in a height is an int (`GarbageAssumption`). Answers are finite sequences and there is one
at least (`ResponsesAssumption`), a DWORD has some number of values (`DwordAssumption`), and
the number of rounds is a natural number (`RoundsAssumption`). There is a level to pack
(`CountAssumption`), and inputs are files here or elsewhere that do not have the name of the
first archive, which the program opens for writing before it adds the input
(`InputsAssumption`). Bytes are bytes (`ByteAssumption`), and the largest int is a natural
number (`IntAssumption`). A menu has items and a height (`ParameterAssumption`,
`MenuAssumption`), and what is not an item of a menu can be told from one
(`OtherAssumption`). Nothing is assumed finite: the set of keys and the set of addresses may
be infinite; that the *allocated* nodes are finitely many is part of an invariant.

Four things are assumed of the outside by the way the models are written. The `WriteFile` of
Windows writes as many bytes as it is asked to or fails (`dwBytesWritten` is not looked at). A
zip file that was opened for writing and not closed is not valid, wherever a kill cut it off.
The items of one menu do not lie over each other. And the user's keyboard is left out: only
the mouse, the tray and the menus are disturbed.

**How the proofs go.** Each has an inductive invariant, the lemmas `Init...` and `Next...`
that establish and keep it with one case per action, and a theorem that combines these two
with PTL. The sections below say what the invariants are and why they are needed. Two arguments
recur, because induction over data in the form of a rule is out of the prover's reach:

* *the least counterexample*: the numbers at which a claim fails, if there are any, have a
  smallest one (`SmallestOf`, from `NatLessThanWellFounded`). This replaces induction over
  numbers: prefixes of a string, levels of a picture.
* *the lowest counterexample*: the nodes of a finite tree at which a claim fails, if there
  are any, have one below which it holds (`LowestOf`, from the well-founded order of finite
  sets by inclusion). This replaces induction over trees.

With them the recursive functions of the models (`Filtered`, `Innermost`, `VisitNode`,
`Below`) are shown to exist before anything is said of their values.

### The tree, for every caller

`BinarySearchTreeProofs` is about `Spec`. The invariant is `IInv`, the conjunction of
`TypeOK`, `RootStays` and `TargetStays`: while the second loop of `DeleteNode` runs, the node
to delete is still allocated. The third part is what makes the others inductive: the end of
a deletion writes into that node before it frees another, and only if it is allocated does
the memory keep its type and the root its links. The actions that write memory (`Writes`) go
through lemmas on `Free`, `Relinked`, `Attached` and the update of one node, which say what
the new memory's domain and links are; all others leave `heap` and `RootNode` alone
(`QuietStepType`). `HandlesAreStable` uses the same invariant and `KeepsSteps`, which says of
each kind of write whose keys it keeps.

### The tree under the contract

`TreeContractProofs` speaks of subtrees without recursion: `Sub(h, a)` is the least set of
nodes that has `a` and with each node its children, in any memory, damaged ones included.
`Good(h)` is `WellFormed` of any memory, so that a memory before and one after a write can be
compared. The lemmas say what attaching a leaf, splicing a node out and replacing a
node's contents do to all `Sub`s.

The invariant of the walks, `WalkInv`, is conditional: *if* the tree is good, then every node
with the key is at or below the walk's node (`SearchInv`), and the second loop of `DeleteNode`
is on its way to the largest key of the left subtree, and passes it only if it has a left
child, which makes the deletion hazardous (`LeftMaxInv`). It holds for every caller, and for
every caller it gives `OnlyDeleteDamages` and both directions of `HazardIsExact`: a deletion
of a key without a hazardous shape ends in a good tree, and one of each of the shapes
does not. `ContractInv` adds that the tree is good and that no deletion of a hazardous key
is under way, so the condition is always met.

`TreeIsMap` adds `UniqueIn` (no key in two nodes), without which the map that a tree stands
for would not be a function of its nodes. Every step is shown to be the answer of the map that
belongs to it, or to be invisible: a step of a walk changes neither the map nor the answer; the
last one of `insert` adds one pair; the one that frees a node removes one pair, the
contents that were copied from the predecessor included.

### swapNode

`SwapIsExact` needs no assumption on how two nodes are related. The four groups of writes are
described field by field (`ParentsSwappedIs` and its companions: which pointer of which node
has what after them). From this `FlagsServe` says for which side flags the first group
exchanges the nodes as children, and a case for each relation (strangers, siblings, a
parent and its child on either side) shows the result to be the exchanged tree or not. The
invariant `SwapInv` says that until the call the tree is good and that the flags below the root
are 1 or 2 (`FlagsIn`): truly or not, since `DeleteNode` leaves them stale.

### Heights and the picture

`AVLTreeProofs` is about `AVLSpec`, in which the caller keeps to the contract. `KeptTree`
says that the tree is good and finite; `Below` is shown to be `Sub`, and `VisitNode` to
collect every leaf once (`VisitCollects`).

For `MeasureHeights` the invariant is `OrderInv`: while it runs, a leaf is at zero or still
to be taken, and a node is above a child of its, or a climb has still to come by that child
(`Pending`: the climb is in the subtree of the child, or a leaf of that subtree is waiting).
When the list of leaves is empty nothing is pending, which is `MeasuredDominate`, whatever
the heights were. The one exception is `Overflowed`: a node below the root that is not a
leaf and has the largest int. Once there is one, there is one until the end (a parent at the
largest int is lowered only by a child that is there itself), and its parent cannot be above
it, which gives the other direction. `MeasureAgainKeeps` and `MeasureAdvances` use the same
invariant: on heights in order the maximum is the old value; and `Above` loses one node in
each turn, since a node is below its parent and never above.

For `printTree` the invariant is `PictureInv`: there is a series of levels, the first of which
is the root alone and each next one has the children of the one before at twice its places
(`Descends`), and the printed lines are their keys. `LevelByLevel` goes down the series: each
level has twice the places of the one before (`LevelLength`), a node of the nth level has n
ancestors (`LevelIsDepth`) and one place only (`OnePlace`), what is in the range below a place
is in the subtree of the node there (`RangeBelow`), and a node that has not been printed is
below the level to print (`NoneMissed`). A level is printed only if it has a node, which has
as many ancestors as levels have been printed; so there are at most as many levels as nodes,
which bounds the vector. Powers of two are proved to grow by counting subsets (`FS_SUBSET`).

### The downloader

`DownloaderProofs` is about every set of responses (sequences of anything), every number of
rounds, every combination of failures, and calls on a context that was cleaned up. Besides
the types, `IInv` says that no error is recorded before the end of the call (`NoErrorYet`:
otherwise a return code could speak of an earlier failure), that a call belongs to a round
(`InRound`), that the buffer is empty before the transfer and the whole answer after it
(`StartsEmpty`, `AnswerIsWhole`: this is what makes `WriteFile` a `Save`), where the handle
can be open (`HandleIsHeld`), and that a null buffer has no block yet (`BlocksAreCounted`:
`realloc` may then take one). `TypeOK` has the buffer as a prefix of the answer, and the
lemmas on prefixes carry that over a chunk. What a DWORD cuts off (`Stored`) is cut off in
`ResultFile` as well, so that `AnswerIsWhole` suffices. `NextRefines` maps each action to one of
`ResultFile` or to nothing.

### The zip tool

An archive may hold one from an earlier run, which holds one of a run before that; a property
that follows the chain down to its end is not inductive for one file. `GoodFiles` says instead
that there is a set of named contents which has all files and is closed (`ClosedChain`):
every archive in it has another content of the set in it, complete, and its own text
(`Links`), or is one of the archives that an exception leaves (`Partial`). Writing a file adds
to the set or leaves it alone, an extraction adds at most members that were cut off
(`Extractable`), and from the set the whole chain follows by the least counterexample.
`PackInv` says that what the next archive is made of is there and complete (`Full`): this is
why what an interrupted run leaves is never packed further.

`InputIsKept` adds `KeepInv`: the input is as it was when packing began until it is packed,
and the last archive closed has it at its bottom; the exception of an input `tmp1.txt` is in
`Expected`. `UnpackingBringsBack` adds `CarryInv`: in the directory that an archive was taken
to, this archive stays as it is and none appears above it, and its extraction finds at every
level what is left of the chain, with the same bottom. Extractions of lower archives, killed
ones included, do not break that.

### The strings

`Filtered`, the reference, is a recursive function; `RemoveCtrlProofs` shows it to exist and
to be unique, to grow by a character at the end or by nothing (`FilteredNext`) and to
distribute over concatenation (`FilteredConcat`). The invariant
`IInv` then has one part per algorithm: what is in the result is what the part of the string
that was read keeps (`AppendInv`), so that a loop ended by its int index returns what that
part keeps; in the C version the place to write is never behind the place
to read, which is what makes it right in place (`CopyInv`); between two blocks the index is at
the dropped character or at the end (`BlockInv`); and the erased part and the filtered rest
make up the result (`EraseInv`). `EveryTurnFilters` follows from it and is not itself inductive.

### The tray

`IInv` ties the program's place to what it holds: the handle and the buffer (`BufferIsHeld`),
the menu's object (`PlacesOfMethods`), that nothing has been chosen before the end but by
default actions that reported failure (`NothingYet`), and that the index found has the name
looked for (`NameIsFound`), although the menu may close and another program's may come up
afterwards. `ChosenNamesAreRight` adds that of the menu which the mouse is over an item of, no
other item can be hit (`UnderItem`). `PositionIsSelected` and `NamedItemIsFound` need
`UndisturbedInv` in addition, what is true as long as nobody else has touched the desktop:
the button is where it was (`ButtonIsThere`), its menu is the only one and is the one found
(`OnlyMenu`), and the mouse is where the program put it, past no item with the name
(`AimIsTaken`). The first of them needs one fact of arithmetic as well (`RoundedDown`):
`k * (h / n)` pixels below the top of a menu is in item k exactly if n divides h or k is 0.

### What stays with the model checker

* *Liveness*: `EveryCallReturns`, `EndsOrWaits` of the downloader, `EveryVersionReturns` and
  `EndsOrAsks`. They rest on fairness, hence on ENABLED, which is out of the prover's reach.
  What makes them true is proved in part: `WalkNarrows`, `MeasureAdvances` and
  `VectorIsBounded` say that the loops close in on their ends.
* *The findings*: each is one counterexample, which TLC shows.
* *`Height`*, the function by which two findings measure the heights and the balance: it occurs in
  no property of a passing run.

## Not modelled

* `WindowsAutomation/UIAutomation.py`: two lines that start the calculator.
* `GetToolbarButtonInfo` and `printButtonInfo` of `WindowsAutomation.cpp`: they print what
  they read, are called by nobody and change nothing.
* The timing and printing in the `main` of the string program, and its two functions that
  return a constant; the `main` of the tree programs, which make a fixed series of the calls
  modelled here.
* Project files, build logs and binaries; and everything under `src/Opensource`, the headers
  and build output of curl and OpenSSL. These are declarations, constants and macros of
  other projects without any code of their own that this program's behaviour depends on
  (libcurl is external to `Downloader`). They are by far the largest part of the files in
  the repository: the seven source files of ThisAndThat have less than 2,300 lines, the
  headers about 70,000, so the share of all lines that the modules cover stays small however
  completely the programs are modelled.

## Plan

All components have a module, a run and a module of proofs, and what TLAPS can prove of the
passing runs' properties is proved. What is left, in order of use to a reader:

1. General forms of the findings: of which trees it is true that a deletion leaves stale
   heights, or that the insertion of a sorted series makes a list. The runs show an example
   of each.
2. An abstract specification of `MeasureHeights` and one of `printTree` (each a single
   step), for which the theorems above are most of a proof of refinement.
3. Shorter proofs where a lemma on levels or on prefixes is used once only.
