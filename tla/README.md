# Verification of YVPN

YVPN is a Windows program that keeps a list of PPTP and L2TP servers and dials
them through RAS. This directory holds TLA+ models of its own code
(`src/yvpn/`) and of the parts of its window library (`src/DuiLib/`) that keep
state, the TLC configurations that check them and TLAPS proofs of their main
properties.

    tlc -config VpnSession_safety.cfg MCVpnSession    # one run
    tlapm VpnSession_proof.tla                        # one module of proofs

`PROJECT.json` lists runs, mutants, hazards and theorems, and maps every
definition to the lines it models.

## 1. Inventory

| Part | State | Operations | Talks to |
|---|---|---|---|
| Connections (`mainframe.cpp`: `Connect`, `RasDialFunc`, `InitData`, `closebtn`) | `m_HostList` (id -> `INFO` with the handle `h`), buttons `connbtn_<id>` | click, answer of a message box, reload, callback | RAS (both ways), table, list |
| Host book (`Save`, `Edit`, `Add`, `Set`, `Del`, `ClearControl`) | table `vpn`, the form, `m_EditId`, page of `tab_bar` | add, edit, save, delete, navigate | SQLite, `m_HostList` |
| Dial call (`ConnectionVPN`, `...XP`, `ConnectionL2tpVPN`, `...XP`) | phonebook `conf.yvpn` | write entry, credentials, key; dial | RAS, `m_Config` |
| Settings (`SaveConfig`, `ReadConfig`) | `m_Config`, `yvpn.conf` | save, read | dial call |
| IP locator (`IpFinder.cpp`) | `qqwry.dat`, read only | search, decode a record, convert an address | `InitData` (column "position", flag) |
| SQLite wrapper (`CppSQLite3.cpp`) | database and VM handles; the buffer of a blob | open, exec, step, copy, finalize, close; encode, decode | SQLite |
| List element (`hostlistitem.cpp`), conversions (`unit.cpp`), `WinMain` (`yvpn.cpp`) | - | name buttons by id, convert texts, run the window | DuiLib |
| Paint manager (`UIManager.cpp`) | pointers to the focus, hover, click and key control, name table, queue of notifications, controls to be deleted; timer table | dispatch messages, notify, attach, delete; set and kill timers | everything on screen |
| Hash table (`Utils.cpp`, `CStdStringPtrMap`) | buckets of linked items | find, insert, set, remove, resize, walk | names, images, groups |
| List and combo (`UIList.cpp`, `UICombo.cpp`) | items, their indices, current item | add, insert, remove, move, sort, select, enable | paint manager |
| Option groups (`UIOption.cpp`), tab layout (`UITabLayout.cpp`) | members and selection; pages and current page | join, leave, select; insert, remove, show | paint manager |
| Tree view (`UITreeView.cpp`) | tree of nodes, the list that shows it, check boxes | insert, remove, check | list |
| Rest of DuiLib; vendored SQLite, effects, unzip, stb_image | | | |

How they interact. All clicks arrive in `CMainFrame::OnClick` on the UI thread.
`RasDial` returns at once; RAS then calls the static `RasDialFunc` on a thread of
its own, which walks `m_HostList` and changes buttons. **No lock exists**: map,
`INFO`s and controls are shared by both threads. A message box disables the
window, so no click arrives while it is open, but callbacks and posted messages
do. The database is opened for each statement. There is no check for a second
instance, so two processes may share `yvpn.db`, `yvpn.conf` and `conf.yvpn`.
Inside DuiLib everything runs on the UI thread, but not one thing at a time: a
message handler calls `Event` of a control in its middle, and the application
that runs there may take controls away, also the one that is called.

What is hard:

* the callback against `Connect` (button, handle) and against `InitData`
  (which deletes the `INFO`s the callback walks over);
* long sequences of legal clicks: connect, edit, save, delete, leave;
* RAS calls, SQL statements and profile writes that fail one by one;
* the end of the process between two writes, a second window;
* off-by-one errors of the binary search, redirections of the records it finds;
* calls back into the application from the middle of a handler;
* indices and pointers kept twice: in a list and in its items, in a tree and in
  the list that shows it, in a bucket and in the links back;
* statements whose owner changes by copying.

What makes each part correct:

* connections - the map, the list and the table have the same ids; a connection
  that is up can be hung up, by one entry; a disabled button is enabled again;
* host book - what is shown is what is dialled and what will be written;
  deleted hosts stay deleted; saving without a change changes nothing;
* dial call - the phonebook read by `RasDial` is the one this host asks for;
* settings - what was written is what the next run reads;
* IP locator - the search ends and finds the entry that covers the address, the
  decoder ends and finds both texts, a legal address keeps its value;
* SQLite wrapper - every VM has one owner, every handle can be closed, a blob
  is the same after encoding and decoding;
* paint manager - no pointer to a deleted control is kept or in use, a removed
  control is deleted in the end, a tick comes to the timer it belongs to;
* containers - indices follow insertions, removals and moves, the current one
  stays the same element, the list shows the tree, the hash table is a map.

## 2. Modules

| Module | Models | Runs | Proofs |
|---|---|---|---|
| `VpnSession` | connections: UI thread, RAS thread, RAS | `session_safety`, `session_live`, `session_close` | `VpnSession_proof` |
| `Lines`, `SessionLines` | what connections promise, and that they keep it | `session_safety` | `VpnSession_proof` |
| `HostBook` | table, form and list, several windows | `book_one`, `book_two` | `HostBook_proof` |
| `DialCall` | RAS calls, phonebook, settings | `dial` | `DialCall_proof` |
| `IpSearch` | `CIpFinder::SearchIp` | `search`, `search_last` | `IpLocator_proof` |
| `IpRecord`, `IpText` | records and texts of the IP locator | `search` | `IpLocator_proof` |
| `IpLocator` | search, decoder and conversion side by side | `search` | `IpLocator_proof` |
| `SqlWrapper`, `SqlBinary` | owners of statements; blobs | `sqlite3` | `Sqlite3_proof` |
| `PaintManager` | event pointers and the life of controls | `paint_safety`, `paint_live` | `PaintManager_proof` |
| `ListSelection` | items of list and combo | `containers` | `Containers_proof` |
| `OptionGroups`, `TabPages`, `Timers` | option groups, tab layout, timers | `containers` | `Containers_proof` |
| `StringPtrMap`, `KeyMap` | hash table, and the map it promises to be | `containers` | `Containers_proof` |
| `TreeView`, `TreeCheck` | tree view: nodes and list; its check boxes | `containers` | `TreeView_proof` |
| `Containers` | all of the tables and containers side by side | `containers` | `Containers_proof`, `TreeView_proof` |

`MC*` modules hold the values of constants and the symmetry sets for TLC. Three
modules, `IpLocator`, `MCSqlite3` and `Containers`, put components side by
side: the variable `part` says of which one a behaviour is, and the others stay
as they began. These components share no state, so that an interleaving of two of
them could not show more. The mutants (`...Keeps...`, `...Unchecked` and the
like, marked "Mutant of") stand before the definition they vary; each is a bug
somebody could write there, and makes TLC find the property it belongs to
violated.

### VpnSession

`m_HostList` is three variables: its keys (`known`), `INFO.h` (`h`) and the keys
whose `INFO` has been deleted while the map still points to it (`freed`).
`listed` and `button` are the list on screen. `ui` is where the UI thread is:
idle, in a message box, or between two statements of a handler at which the
other thread can interfere:

* `RasDial` returned | `SetText`, `SetEnabled(false)` (`DialStarts` / `ShowDialing`),
* `RasHangUp` returned 0 | `h = NULL`, `SetText` (`HangUpSucceeds` / `ShowHungUp`),
* `RemoveAll`, delete of the `INFO`s | clear, load (`InitDataClear` / `InitDataLoad`),
* hang-up and delete of every `INFO` | end of the process (`Close` / `Quit`),
* in `RasDialFunc`: walk (match, `RasHangUp`, `h = NULL`) | `SetText`,
  `SetEnabled(true)` (`Walk` / `Update`).

`SetText` and `SetEnabled` of one button are one step, and the walk visits all
matching entries at once. Progress states that only write a status text are left
out. Reads of a freed `INFO` are undefined: `WalkFreed` and `UpdateFreed`
crash, miss the entry, or act on some contents. `FindControl` of a name without a
button returns NULL and the call faults. A `CppSQLite3Exception`, which nobody
catches, ends the process (`DatabaseThrows`).

`overlap` is a history variable: it becomes true when the two threads are at
work on the same entry, or when two entries have got the same handle. It guards
nothing; `ButtonsTellTruth` uses it to say what holds when neither has happened. What
can happen otherwise (the button stays disabled after an early report; the caption
of an old report over a new dial) contradicts no document of the repository and is
listed under the hazards.

Assumptions about RAS, which is not in the repository: any `RasHangUp` may fail, the
two whose result the code does not look at (mainframe.cpp:127, 891) like the one in
`Connect` (1108); a failed `RasDial` may leave a handle; a connection whose dial has
failed stays with RAS until it is hung up; a hung-up connection may still be reported;
a dropped connection is reported or not; an error or a disconnection is reported
once. A handle `RasDial` returns is that of no connection RAS still has, and
`RasDialFunc` is not at work for it any more, but it may be one that an `INFO` still
stores, since a drop need not be reported.

### HostBook

A row is the texts of the edit controls and the positions of the two combos. Each
window has its copy of the table (`hostList`, what `InitData` read), its form,
its page and its `m_EditId`; `Stop` and `Start` end and start a process at any
moment, `Stop` also being what an uncaught exception does. `CanSave`, `Accepted`
and `Stored` are the three parts of `Save`: the fields it insists on, whether
SQLite takes the statement, what it then stores. `StoredAs` abstracts `'%s'` in a
statement: in the model checked, a text with one apostrophe is refused and doubled apostrophes
are stored as one. `ClearControl` leaves the combos alone; `main_frame.xml`
preselects PPTP and optional encryption. Texts survive the conversions between
UTF-16 and UTF-8, which are exact for them, and are abstract values.
`touched` is a history variable: the windows whose user changed the form.

### DialCall

`pc` names the next call; `ok` is what it returns. The four functions differ in
whether the pre-shared key is written (L2TP), whether the result of the first
`RasSetCredentials` is looked at (PPTP), and which mask it gets (on XP and for
PPTP user and password; otherwise 16, the pre-shared key). `WriteKey` is one
`WritePrivateProfileString`; `Restart` may come between any two calls. `stale` is
a history variable: a write of the settings in force has failed.

### Lines and SessionLines

`Lines` is the abstract specification of the connections: lines that are up (from the
dial on), down, or broken (the dial has failed and nobody has hung up), each with the
hosts that remember it. A host dials (`Dial`) only a line that is down, and only when it
remembers none; lines `End`; a line that is not up may be forgotten (`Forget`); one that
is up only when all are (`Abandon`), as the list is rebuilt. `UpLinesRemembered` is what
follows for the user. `SessionLines` maps the state of `VpnSession` to it - `lineState`
from what RAS has of each handle, `lineOwner` the entries of `m_HostList` whose `h` is
that handle - and states `Abstract!Spec` as the property `ImplementsLines`. What is
between two statements of a handler (`RasHangUp` has returned, `h` is still set) is
hidden by the mapping. It says more than `LostOnlyByReload`: no second line for a host
that stores a handle, no change of a second line while one is dialled or forgotten.

### IpSearch, IpRecord, IpText

`IpSearch`: one action is one turn of the `do` loop; offsets are bytes, as in the
code, so that rounding down to whole entries is part of what is checked. The file
is a sequence of first addresses. `m_indexEnd` is the offset of the last entry (in
the shipped `qqwry.dat` that entry starts at 255.255.255.0).

`IpRecord`: a file is made from a record (shape of the country, form of the area,
texts, byte that follows) as the comments of `GetAddressByOffset` describe the
format, and is decoded byte by byte: the mode of the record, `GetString` once for
each text, the mode of the area. `ulCount` counts what `GetString` has read, since
the area may follow the country's text. The second `fgetc` of the area's test
reads the byte behind the first, as in the code.

`IpText`: `IsRightIpString`, then one action per part of the text in
`IpString2IpValue`, modulo the width of an `unsigned long`.

### SqlWrapper and SqlBinary

`SqlWrapper`: the members of `CppSQLite3DB`, `CppSQLite3Query` and
`CppSQLite3Statement` that decide who frees what, and what SQLite has allocated.
Constructors from a const reference and assignments move the VM and empty their
source; a query made by a statement borrows its VM; `close` throws while a VM of the
handle lives, and the destructor swallows that. A destroyed object is an empty
one, ready to be made again. Two calls break ownership, and both are steps of the
model: a failing `nextRow` finalizes the VM whoever owns it (CppSQLite3.cpp:597,
against the comment at 308), and an assignment to a statement forgets the VM it holds
(930). The history variables `spoiled` (addresses freed while another object has them;
finalizing a statement under its borrower does it too) and `leaked` are what the properties
except. SQLite refuses what it is asked to do with a freed VM, unless the memory is a
new VM's by then, which the model includes. `CppSQLite3Query::mpDB` is left out: the copy
constructor and the assignment do not copy it (305-313, 341-357), but it is read for the
text of an error only (599, 615).

`SqlBinary`: `mpBuf` is what has been written of the one buffer, as bytes or as
text. The encoder tries all offsets, the decoder works in place. Bytes are
0..`W`-1 with one of them the quote; the arithmetic of the lengths and of the offset
is that of the code with `W` for 256. `setEncoded` is given the encodings of all blobs and
all short texts, most of which encode none and have no value (`ILL`).

### PaintManager and Timers

`PaintManager` keeps the call stack of the UI thread in `calls`: the last entry
runs, the others are what the callers do when it returns ("setClick" stores the
click target after `Event`, "leave", "enter" and "move" are the three parts of
`WM_MOUSEMOVE`). Code of the application runs in "event" and "notify" and may
remove or add a control, queue a notification, set the focus, attach another
dialog or open a message box. `life` is where a control is: not yet added, in the
tree, waiting in `m_aDelayedCleanup`, deleted. `DelayedCleanup` is the handling of
`WM_APP + 1`, which is posted with every removal; `ReapObjects` what the
destructors take out of the manager. A message box may be open inside any event or
notification; its loop dispatches messages, `WM_APP + 1` among them, so that controls are
deleted that a call further down the stack has in hand. `pulled` is the history variable
of those. `Event` of a deleted control goes on as if its memory still read as
before, and a new control is not given the address of a deleted one.

`Timers` is the table of `SetTimer`, `KillTimer` and `ReapObjects`, with the ids of
window timers counted modulo `Wrap`. `shared` is a history variable: an id was
given out while another entry had it.

### Containers

`ListSelection` has one action per public operation of `CListUI` and `CComboUI`
that changes items, indices or selection; `isCombo` chooses between the two where
they differ. `lost` is a history variable: `SetItemIndex` was given an index outside the list,
which takes the item out and returns (UIList.cpp:81); what follows is followed from the next
sort or `RemoveAll` on, which number the items anew. `SelectItem` is one operator, since insertions, removals and sorts
end in it. `OptionGroups` splits joining a group from being attached to a window, because
`SetGroup` and `Selected` may come first. Its history variables are `strays`, the options that
forgot the name of their group before they left it (`SetGroup(NULL)`, UIOption.cpp:45), and
`doubled`, the groups that a selected option has joined with no selection in them since (32, 55). `TabPages` has the visibility of the pages next to the
current index. `TreeView` keeps the tree (`mTreeNodes`, `pParentTreeNode`) and the
flat list of the `CListUI`; its removals are the recursions of the code, with the
loops that index children while they disappear: `After` is the function from a call
(which one, in which state, of which node) to the state when it returns. `astray` is a history
variable: the last call after which the tree and its list are apart (section 3). `TreeCheck` follows the mutual
calls of `Selected`, `SetItemCheckBox` and `IsAllChildChecked` for every shape of
tree; `After` is the function from a call to the boxes selected when it returns. `StringPtrMap` has the links of `CStdStringPtrMap` one by one; its
refinement to `KeyMap` (`ImplementsMap`) reads the map off the buckets. A loop over
`GetAt(i)` that looks keys up as it goes is `walk`, and `seen` what it has met.

## 3. Runs, bounds, fairness

| Run | Instance | States | Shows |
|---|---|---|---|
| `session_safety` | 2 ids, 2 handles, symmetric | 4.0 million | safety of the session, refinement of `Lines` |
| `session_live` | 1 id, 2 handles, fair | 0.3 million | `DisabledButtonReturns` |
| `session_close` | 2 ids, 2 handles | - | violation of what `closebtn` announces |
| `book_one` | 1 window, 2 ids, 4 items, 5 texts | 0.5 million | untouched saves |
| `book_two` | 2 windows, symmetric, 2 ids | 0.6 million | captions, forms, deletions |
| `dial` | 2 secrets, 2 DNS servers, 1 address | 1.5 million | dial call and settings |
| `search` | indexes of 1 to 10 entries, 10 addresses; 720 files; texts of 1 to 5 parts | 0.1 million | search, records, addresses |
| `search_last` | the same indexes | - | violation for the last entry |
| `paint_safety` | 3 controls, 2 names, 3 calls, 1 notification, 1 message box | 3.1 million | no stale pointer, names, callers |
| `paint_live` | 2 controls, 2 calls, 1 message box, fair | 14 thousand | removed controls are deleted |
| `containers` | 3 elements and options, 4 nodes, pages, items | 0.19 million | indices, selection, tree, timers, hash table |
| `sqlite3` | 2 databases, 3 queries, 2 statements, 2 handles, 2 VMs; blobs of 0 to 3 bytes | 0.15 million | owners, blobs |

Bounds. `MaxId` caps the ids AUTOINCREMENT hands out. Two ids are enough for
every pair of entries the handlers can confuse: one being worked on, one left
alone, one deleted and one new. Two handles give a forgotten connection next to a
new one, and RAS can return the value an entry still stores. The initial states of `VpnSession` and `HostBook` are all tables an earlier run
can have left. `session_live` has one id because it is about one entry; with two
handles that entry can be dialled again while its lost connection is still up.
Five texts give every outcome of `StoredAs`; `book_two` needs only a filled and
an empty text, and one kind of encryption besides "no selection", because its
properties do not look at encryption. Two values tell "this host's" from "another" in `dial`.
In `search` every length up to ten gives
even and odd intervals at three levels of halving; the bases put the texts of a
record right behind the header and where their offsets need a second byte; the
texts include one of no characters and one with a byte 255; the address parts are
legal, too large, padded with zeros, empty and no number, and `Base` 16 stands for
256.
`paint_safety` has two controls of one name (a successor while the removed one
waits) and a third beside them; three calls are a handler, an event and a call
out of that event, `MaxCalls` counting the calls on which the application may
still call; one message box is open at a time, at any depth of the stack. `paint_live` has no queue, so that what is waited for is only
the end of the calls.
Three elements put something before, at and behind the current one, and an item can be moved
over one that stays; three options make a stray member, a selected newcomer and a bystander;
four nodes are every shape of tree up to depth four. `Wrap` 3 with `MaxTimers` 3
makes the ids wrap around while timers with them live, and `FirstId` 16 is a
first value outside the range, as 0x1000 is. The hash values 0, 1, 2, 4
share buckets, three of them one with two buckets, and a resize goes to one bucket or none. In
`sqlite3` the third query lets a VM that a statement lent be borrowed twice and another be
owned; two VMs are one that an object has and one that is freed, and used again, beside it;
`W` 6 with `Quote` 4 leaves few free offsets, so that the best one has escapes
even in blobs this short.
Symmetric sets are only compared for equality (handles, windows, secrets, the objects and
VMs of `sqlite3`, and the elements and options of `containers`, which are three of the
four model values that are its nodes, pages and items), and no run with symmetry has a liveness property.

`CHECK_DEADLOCK FALSE` is set where the system really stops: the process ends
(`VpnSession`), a computation returns (`IpLocator`), all controls
or nodes have been destroyed (`Containers`).

Fairness. `session_live` assumes that a handler that has started runs to its end
(weak fairness of `Continues`: the UI thread is in plain code there), that RAS
ends every dial (`DialResolves`) and delivers what it has to report
(`RasThread`). Nothing is assumed of the user: no click and no answer is fair. RAS ends a dial because its own timeouts do.
`search` assumes that its computations go on. `paint_live` assumes that handlers
run on, that the code of the application returns (strongly at each depth of the
stack, because it may call again and again before it does) and that `WM_APP + 1`
is handled if it can be handled again and again: `GetMessage` prefers a posted
message to input. No input is fair.

### Preconditions

Most ways in which the library can be led astray are steps of the models, and the
properties name them by a history variable:

* `PaintManager`: a control in hand of a call may be deleted by the message loop of a box
  opened inside that call (`pulled`; UIManager.cpp:793-797 against the comment at 1435-1437,
  which delays the cleanup so as not to "pull the internal memory of the calling code"). The dialer opens boxes
  in its click events (mainframe.cpp:117, 177, 387-397, 1104). The pointer stored after `Event`
  (UIManager.cpp:1165, 1220, 1260) may then be to such a control. No control is pulled with no
  box (`NothingPulledWithoutBox`).
* `ListSelection`: after `SetItemIndex` to an index outside the list (`lost`) nothing is followed but
  sorts and `RemoveAll`, which put the indices right. `SetVisible` is called in a list that is shown.
  An element disabled while it is selected (a step of the model) stays selected beside the next.
* `OptionGroups`: a stray member (`strays`) stays in its group, beyond its destruction; a
  group may have two selected options after a selected one joined it (`doubled`). Left out is `SetManager`
  with `bInit` FALSE: the builder lends an option the manager while it sets its attributes and takes it back
  (UIDlgBuilder.cpp:505, 522), and delayed cleanup gives it one without joining (UIManager.cpp:1831).
* `TreeView`, by what the last call led to (`astray`):
  - "tail": a child was put behind the last one by its index while children have children. The
    search at UITreeView.cpp:268-273, meant to go down, takes the place of the last child or goes up and calls a
    method of NULL (`fault`). The order is lost, nothing else; the tree is followed further.
  - "branch": a node with children was added to a shown parent. `AddAt` of the view returns after the first
    child (705-713), so that only the first line of the branch reaches the list. No pointer dangles.
  - "view": the view was told to remove a node that is no root, which leaves its parent a destroyed child, or
    a root that has several children (757 counts up while they disappear) or, in `RemoveAt`,
    none (776, and then nothing happens) - against the comments at 748 and 771, which say that the node
    and all nodes below it are removed together. Even so nothing is destroyed that was not to be (`OthersStay`).

  After a `fault`, "branch" or "view" nothing is followed.
* `SqlWrapper`: `leaked` and `spoiled`, section 2.

What remains is taken for granted of the callers, in a named guard or a sentence at the
head of the module:

* `TabPages`: a page inserted before the current one is not visible
  (`NextBehind`, the part "tabBehind") - for `OnlyCurrentShown` only; the inherited `RemoveAt` and
  `SetItemIndex`, which leave `m_iCurSel` alone, are not called.
* `SqlWrapper`: the caller opens a database object once and destroys it after the queries and
  statements made from it. Nothing more: a VM that has leaked keeps its database from closing, and the
  model lets it.
* `StringPtrMap`: pointers are not NULL; `Insert` takes NULL for "not there".
* `IpRecord`: the area comes back if it is inline and not empty, or redirected
  with 0x02. An area of mode 1, which the second test at IpFinder.cpp:316 seems meant for, is
  read as text, because the test looks at the following byte.

### Findings

* `session_close`: `closebtn` asks "是否真的退出程序？将挂断所有VPN！"
  (mainframe.cpp:117), but `InitData`, which follows every save and delete,
  replaces all `INFO`s by new ones with `h = NULL` (252, 270). A VPN connected before is
  not hung up: no hang-up is tried for it (one that is tried and refused does not count). `LostOnlyByReload` shows
  that there is no other way to lose a connection that is being dialled or is up, whichever hang-up
  RAS refuses; one whose dial has failed may also be forgotten by `RasDialFunc` (891-892).
* `search_last`: an address in the range of the last entry is resolved by the
  entry before it, against the comments at IpFinder.cpp:116 and 132.

Read while modelling, and not stated by a run of its own: the comments at UIManager.cpp:1435-1437, UITreeView.cpp:748
and 771 and CppSQLite3.cpp:308 do not hold in the cases that the preconditions name; the decoder rejects
a wrong escape only, and takes other texts that are no encoding (comment at CppSQLite3.cpp:1562); `IsRightIpString` accepts texts with
any number of dots and of any size (IpFinder.cpp:454), of which `LegalTextsRoundTrip`
says nothing; an element disabled while it is selected stays selected beside the
next one (UIList.cpp:1807, 358), so `CurrentIsSelected` speaks of the current element
only; the encoder subtracts the offset its comment adds
(CppSQLite3.cpp:1540, 1464), and so does the decoder the other way round.

## 4. Proofs

All proofs are for any value of the constants under the named assumptions of the
modules (`MaxId` a number, `NULL` no handle, `Required` part of `Edits`, ...).

* `VpnSession_proof`. `TypeCorrect`; then `SessionInv`, the inductive
  invariant. `ListMirrorsTable` is not inductive by itself: it speaks of the idle
  UI thread only, so the invariant adds that every other point of a handler except `InitData`
  also works on matching sets, that inside `InitData` the list is empty and all
  `INFO`s of the map are freed (so that clearing the map empties it), that a
  delete was confirmed on page 0 (so the form is closed) and that after
  `RasHangUp` returned 0 the stored handle is no longer held. The last part is what
  makes `LostOnlyByReload` an action property of the invariant.
  `ButtonsAlwaysTellTruth` needs `TruthInv` besides: each handle is in one entry,
  so that a report reaches one button; an update that RAS still owes is the right
  one for what its connection has become; no update is due for the entry a handler is
  working on; inside `InitData` all updates are dangling. All but the first part
  only as long as the threads have not met (`overlap`).
  The second and the third are about single entries: two may store one handle (`overlap`).
  Every step of `VpnSession` is a step of `Lines` or leaves the lines alone
  (`DialerImplementsLines`), with no assumption on which calls RAS refuses. `Dial` needs that a handler
  which dials has found no handle in its host's entry, the part of `SessionInv` about stored
  handles; `Forget` that `RasDialFunc` forgets only what has failed or is gone.
  `UpLinesAlwaysRemembered` is the promise of `Lines` itself, read back for the dialer.
* `HostBook_proof`. `BookInv`: every row, in the table, in a window or in a form,
  has a type with an item in `typecombo`, and `FormShowsHost`. The captions
  follow; `DeletedStaysDeleted` is a property of single steps. `TypeCorrect`.
  `UntouchedSavesKeepRows` is for one window: then its copy is the table
  (`CopyInv`), and what the form shows is what is stored. With two windows it is
  false, since the other one may have saved in between.
* `DialCall_proof`. `DialInv`: what the phonebook holds after each call of the
  chain, and which keys of `yvpn.conf` are already written at each point of
  `SaveConfig`. Lemma `ReadsBack`: a complete file is read as it is. `TypeCorrect`.
* `IpLocator_proof`, of `LocatorSpec`, a behaviour of one of the three parts.
  - Search: `SearchInv`: both ends are offsets of entries, the middle is the entry half
    way between them, rounded down; the address is not below the left entry and below
    the right one, except at the ends of the index. When the loop ends the two are
    neighbours or equal, which gives `FindsEntry`. Sortedness is not needed.
  - Records: `RecordInv`: at each point of `GetAddressByOffset` the decoder knows where
    the text it is about to read begins, and while `GetString` reads it has a prefix
    of that text (`Reading`). Where the texts are is lemma `PlacesInFile`, which finds the
    pieces of `FileOf` at their offsets; `ReadOffset` puts the three bytes of an
    offset together again. For files below 2^24 bytes (`PartsAssumption`): no other
    offset fits into a record.
  - Addresses: `AddressInv`: when the turn for a part begins, `ulIp` is what the parts
    read so far are worth, each in its place (`SumIs`), for every legal text. `LegalDots`
    says where `strchr` finds the ends of the parts, `LegalIsRight` that the text is accepted,
    `FourBytes` that shifting loses nothing and that the quotients give the numbers back.
* `Containers_proof`, of `PartsSpec`, a behaviour of one of the parts.
  - List: `ListInv`: types and, until an item is `lost`, no element twice (from the indices), each item at its
    index, the current one selected. The lemmas say what insertion, removal and
    moving do to positions; a sort or `RemoveAll` establishes the invariant anew.
    `SelectionAlwaysFollows` is the action property of the same invariant.
  - Option groups: `OptionsInv`: the members of a group are the attached options of
    its name and its strays, and at most one of its name is selected unless it is `doubled`. Neither half is
    inductive alone: who is unselected is read from the members.
  - Tab layout: `TabInv`: types, no page twice, and the page at `m_iCurSel` is visible. `PageAlwaysCurrent` follows from it step
    by step; that the other pages are hidden is kept by all operations where
    nothing visible is inserted before the current page ("tabBehind").
  - Timers: `TimersInv`: entries of controls that live only, every window timer is that of
    a running entry, and as long as no id has been given out twice (`shared`) no two
    entries have the same one and every running entry has its own. The loop of `ReapObjects`,
    which removes while it counts, is a recursion: lemma `OthersRemain` says that what
    it leaves is a part of the table in the same order, without the entries of the
    control that goes.
  - Hash table: `TableInv`. The links alone cannot be reasoned about, so
    `LinksInv` says that for each bucket there is a sequence of items that `m_aT` and
    `pNext` lead through in order and `pPrev` back (`Linked`), that all items with a
    text are in the sequence of the bucket they belong to and in no other, and that
    buckets out of use are empty. Each change of links is then a change of one of
    the sequences (`Changes`): an item put in front, moved to the front or taken out;
    `ChainsChange` shows the other sequences untouched, since no item is in two.
    `LookupIs` and `ChainIs` evaluate the loops of `Find` and `GetAt` on such a
    sequence. `KeysInv` (no text twice, an item has a text just when it has a pointer)
    and `CountInv` give `TableAlwaysIntact` but for the walk: there, a search moves an
    item to the front of its own bucket, which changes the order of `GetAt` only up to the
    place where the item was (`ToFrontPrefix`), and in a walk that is a place already
    visited. So `WalkInv` says that what has been seen are the keys of the places
    before the position. `TableIsMap` is the step-by-step refinement of `KeyMap`, from
    `EntriesAre`: the map read off the buckets has just the pairs of text and pointer
    that the items hold.
* `TreeView_proof`, of the same `PartsSpec`.
  - Tree view: `TreeInv` has three parts. `TreeShape` says what the pointers are: no node
    twice in the list or below two nodes, the children form a forest, parent and child
    agree about each other, are of the same view and exist together, the list is
    just the existing nodes that know the view, and removed nodes do not exist. It holds until
    a branch or the view leads astray, and then what is left is `Torn`, which no step follows
    (`BranchTorn`, `ViewTorn`). `TreeOrder`
    says that the list is the preorder of its roots, one after the other, and that no
    insertion went wrong; it is kept as long as `astray` is "no". Neither is
    `TreeIntact`: the places at which the code inserts are found from the index of the
    parent or of the last node below a sibling (`GetLastNode`, `LastOf`), so that the
    order of the list is needed to know where they are (`PlaceInside`, `TailFound`), and the
    agreement of parents and children to know that a removal from the one is one from
    the other. A preorder stands in the list as one segment (`ListSegment`), and
    what an insertion or a removal does to the list is what it does to that segment,
    by the laws of `Spread` and `Without`.
    `Preorder` and `After` are recursive functions over trees: that they exist is by
    well-founded recursion, over the nodes below a node, and over what is left to remove.
    `RemoveAtIs` and `ViewRemoveIs` are what the removals come to: the list without
    the subtree, no children in it, and its nodes destroyed if they were in the list
    - for the loop over indices if the node has one child at most. For every other number of children
    `ViewRemoveTakes` says that it takes nothing that is not below the node.
  - Check boxes: `BoxesInv` is short (types, and no parent is left to change); what
    needs an argument is that the calls, which descend and climb through one another and
    visit some boxes several times, come to an end and what they come to. `ClickIs` is the
    answer: the clicked box and all below it get the new state (`Give`), then the
    parents look, one above the other, and each that changes gives its state to all
    below it in its turn (`Climb`). On the way down, a box whose parent has the new
    state already moves nothing but what is below it (`AllGiveBelow`, from the last node
    to the first, with `LoopGives` for the loops); that an answer exists at all is
    `AnswersExist`, since `After` is a recursive function and could be no function of
    the calls. A change below a box disturbs no parent but the one above it
    (`GiveFollows`), and the climb ends where none is left to change (`ClimbFollows`).
* `Sqlite3_proof`. `OwnersInv` for `SqlWrapper`: `OneOwner` and `NoStaleVM` are
  inductive only together and with what makes a borrowed VM safe: a query that does
  not own its VM borrows it from a statement that has one, unless the address is `spoiled`
  (`BorrowsFromStatement`); what is `leaked` is allocated and nobody's. `BinaryInv` for `SqlBinary`, for blobs of any length and
  any number `W` of bytes: the buffer of 3 + 257 * n / 254 bytes has room for the
  text because the best of the `W` - 2 offsets has at most one escape in so many bytes
  (`OffsetAlwaysFound`, by counting the pairs of an offset and a byte it escapes in two ways), and
  `DecodeUndoesEncode`, by induction over the bytes, with the decoder's state in
  between two bytes of the text.
* `PaintManager_proof`. `PaintInv`: not only the pointers, the names and the queue
  are live but also all that the calls in progress have in hand, because the pointers
  are set from it when they return - all but the controls that are `pulled`, which a box let be
  deleted. No theorem needs an assumption on the number of boxes; `NothingPulledWithoutBox` says that
  without any, deletions happen only with no call in progress.

Induction. The provers cannot take a predicate as a parameter, so that the library's
induction theorems are of no use; `Least`, `UpTo` and `RecursionExists`, in
`TreeView_proof`, `Sqlite3_proof` and (the first two) `IpLocator_proof`, have sets and functions in place of operators and come from
`WFMin`. Whatever is computed by a loop is a recursive function in the modules proved
about (`Lookup`, `AllItems`, `EncodedWith`, `Walk`, `OthersThan`, `Number`, `Told`, `Preorder`, `GetLastNode`, `After`), and each has a lemma that it
exists and what it yields.

Only model-checked: the liveness properties `DisabledButtonReturns`,
`AlwaysReturns` and `RemovedIsDeleted` (fairness and ENABLED are beyond the
prover). Every invariant and every action property of the passing runs is proved, with
the exceptions its history variables name and under the preconditions of section 3.

## 5. Not modelled

Status texts and decoration of the settings page; lengths of texts (1024-byte
statements, 15-character DNS texts), formats and code pages (a `%` in a
password goes through `wsprintf` as a format); SQLite beyond atomic
statements, literals and AUTOINCREMENT; DNS and gateway effects inside RAS;
`OutputData*` of the IP locator, `SetTypeSelect` and `SetCryptSelect`, which
nobody calls.

Of `CppSQLite3.cpp`: `CppSQLite3Table` and `CppSQLite3Buffer`, each the owner of one
allocation, getters and bindings. Of DuiLib: painting, fonts and images, tooltips,
drag and drop, native windows and the order of tab stops in the manager; scrolling,
headers, expansion and edit cells of the lists; expanding in the tree; and all of
rendering, layout, markup, rich edit and ActiveX. They decide where something is
drawn, not what the dialer does.

Vendored code - SQLite's `sqlite3.c` and `sqlite3.h`, the effects, unzip, and
stb_image - is not modelled either. It is nine tenths of the lines under `src/`, so
that the modelled share of all lines stays small.

## 6. Plan

1. `CppSQLite3Table` on top of `SqlWrapper`: `setRow` and the results that
   `sqlite3_free_table` takes back.
2. The tab order of the paint manager, which follows controls that come and go, and
   the expansion of tree nodes, which hides parts of the list.
3. A composition of `PaintManager` with `HostBook`: the list of hosts is emptied in a
   click on one of its own buttons.
