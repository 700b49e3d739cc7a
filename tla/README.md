# JokeDSE in TLA+

JokeDSE copies the files of a directory tree from one Windows process to
another on the same machine.  A DLL in the sending process (`JokeAssist`)
walks the tree, and eight threads send the files over TCP connections to
127.0.0.1:55555.  A dialog (`JokeDSE`) accepts the connections, writes the files
below a destination directory and shows a list of them.  Three named events
start a copy, stop it and report its end.

This directory holds TLA+ models of that program, the TLC configurations that
check them on small instances, and proofs that the TLA+ proof system checks.
Names in the models are the names in the code; paths below are relative to
the repository.

## 1. Inventory

The solution builds two projects, `JokeDSE` (the dialog) and `JokeAssist` (the
DLL), from their own sources and a few files of `Include`.  Everything else is
vendored (`Asio1.81`, `Include/Markup.*`, ...), an older version (`JokeLib`,
`Include/_SocketServer.h`), or not reached.

| part | code | state | operations | interacts with |
|---|---|---|---|---|
| frame format | `JokeAssist/FileHeader.h` | none | build, check prefix and CRC, sizes | sender writes it, receiver reads it |
| directory search | `JokeAssist.cpp` `AccessDirectory`, `CheckFilter` | `m_FileListtoSend`, `m_nFoundFiles`, `m_nFiltedFiles` | one recursive walk | polls the Stop event, fills the list for the send pool |
| send pool | `JokeAssist.cpp` `FindFiles`, `SendThread`, `SendFile` | `m_FileListtoSend`, `m_nSendFiles`, a socket and a buffer per thread | start threads, take a file, send it, wait, set Finished | TCP to the sessions, the Finished event |
| receiver sessions | `JokeDSEDlg.h/.cpp` `do_accept`, `session` | `pBuffer`, `nDataLength`, `nFileSize`, `nSavedLength`, `FileSave`, `pFileItem` per connection | accept, read, parse, write, close | rows and counters shared with the dialog under `m_csList`, `m_csClients`, `m_csMessage` |
| dialog | `JokeDSEDlg.cpp` | `m_vecFileTemp`, `m_vecFileList`, the counters, the event handles | Inject button, `OnTimer` every 50 ms, list requests, `OnDestroy` | swaps rows out of the sessions' list, waits for Finished |
| event handshake | both programs | Joke, Stop, Finished (auto-reset) | create, open, set, wait, reset, close | connects dialog and DLL |
| `CSocketServer`, `CFileClient` | `Include/SocketUtils.h`, `JokeDSEDlg.h` 199-440 | a pool of threads with slots for clients | accept, event loop, remove, stop | the dialog derives from it, but starts the asio acceptor instead |
| `CSockClient` | `Include/SocketUtils.h` | a socket, totals, statistics | `Connect`, `Send`, `Recv` | used by the send pool |
| helpers | `AutoLock.h`, `CriticalSectionAgent.h`, `TimeUtility.h`, `Runlog.cpp`, `Utility.cpp` | locks, timers, a log | | `MemMerge` is used by the sessions |

### What makes each part correct, and what is hard about it

*Sessions.*  TCP gives no frames: a read returns any part of what was sent.
Parser and GetFile keep their place across reads in four variables and the rest
of a buffer.  Correct means that the files written are the files sent, whatever
the cuts, that a failure of one connection changes nothing on the others, and
that the dialog's rows and counters agree with the files.  Hard: cuts within a
header, several frames in one read, empty files, exceptions thrown half-way,
a sender that breaks its word about a length, the UI thread that takes the
rows in the middle of a handler.

*Send pool.*  Correct means that every file found is sent once by one thread,
that the headers' counters end up right, and that Finished is set once, after
the last thread.  Hard: eight threads on one list, a counter raised in one
critical section and read in another, threads that cannot be started or cannot
connect, sends that fail in the middle of a file.

*Search.*  Correct means that every file the filter does not match is listed
once and lands where it belongs, that the counters agree with the list, and
that Stop stops the search.  Hard: an auto-reset event polled inside a
recursion, places used as lengths, a filter searched as one text.

*Handshake.*  Correct means that a Stop or a Finished belongs to the copy it is
taken for, that a DLL is not unmapped under its own thread, and that the
buttons come back.  Hard: signals and handles left over from the copy before,
waits that time out, two processes that crash or end at any time, reference
counts and the loader lock.

*Dialog.*  Correct means that what it shows is about the current copy, that the
list control is never asked for a row that is not there, and that its handlers
return.  Hard: resets without a lock while sessions of the copy before still
run, a count that is unsigned, a worker thread that is started and joined by
different clicks.

*CSocketServer.*  Correct means that each slot belongs to one client, that
each client is removed once, and that no event is lost.  Hard: indices
into arrays that another thread appends to, an event reset twice, records of
several events at once.

`PROJECT.json` lists the hazards, each at its line, with the properties that
cover it or the reason why none does.

## 2. Modules

| module | models |
|---|---|
| `Frames` | `FilebufHeader` and the byte stream, as cells |
| `FileCopy` | abstract: each connection's files are copied in order, a copy is reported only when whole, broken connections disturb no other |
| `Session` | the receiving side: accept, session, list half of `OnTimer`; implements `FileCopy` |
| `SendPool` | the sending side: `FindFiles` after the search, eight `SendThread`s, `SendFile` |
| `Transfer` | composes `SendPool` and `Session` over shared connections |
| `Search` | `AccessDirectory` over a tree, with the Stop event |
| `Paths` | `CheckFilter`, the full path `CFileFind` makes of a source, the relative path and the destination path |
| `Texts` | the dialog's edit fields, and what `Paths` makes of what is typed there |
| `Handshake` | both programs from the click on Inject to the unloading of the DLL: events, handles, section, loader |
| `Rerun` | the dialog over several copies: Inject's resets, `OnTimer`, the list control, the worker, `OnDestroy` |
| `SocketServer` | `CSocketServer` at work: `ListenThread`, `MonitorThread`, `RemoveConnect` |
| `ParserData` | the receiver on `CSocketServer`: `CFileClient`'s parser |
| `SessionProofs`, `SendPoolProofs`, `TransferProofs`, `SearchProofs`, `HandshakeProofs`, `RerunProofs`, `SocketServerProofs` | theorems about the module of that name |
| `SequenceLemmas` | lemmas about sequences for `SessionProofs`, `TransferProofs` and `SearchProofs` |
| `MC...` | the instances TLC checks |

How they fit together: `Handshake` has the search and the sends as one step
each, which `Search` and `SendPool` spell out; `MCSearch` takes what is filtered
from `Paths`, and has the edit fields of `Texts` next to the search, in which the
filter and the source are typed one character at a time; `Transfer` puts `SendPool`'s threads and `Session`'s sessions on the
two ends of the same connections; `Rerun` has a session as what it does to the
dialog, which `Session` spells out.

Definitions introduced as "Mistake" are not part of any `Next`.  Each is a
plausible wrong version of the definition after it, and replaces it in a
mutant (`PROJECT.json`, "mutants"): a property is listed only if it tells the
two apart.

### Frames

A stream is a sequence of cells.  A cell knows of which frame it is which part
and which cell of that part.  So the receiver's variables hold exactly the
information bytes would give it, and a receiver that has lost its place looks at
cells that are not the first ones of a header, as the program looks at bytes
that are no header.  `ValidHeader` is `CheckPreFix() && CheckCRC()`: all cells
of the fixed part, of one frame, in order.  The name is not covered by the CRC,
and neither is it by `ValidHeader`.  Assumed: file content never contains the
bytes of a header with a valid CRC (the code takes such bytes for a header only
after it has lost its place).

A cell names its frame by the frame's header only, so that it does not change when
more of the file goes out.  A frame has two lengths: `nFileSize`, the content it
announces, and `sent`, the cells of header and content that really go out.  They
agree (`IsWhole`) unless the file changed between `GetLength` and the reads, or a
read or a send failed on the way, the send of the header included.

### Session

One thread runs `io_context::run`, and so one handler at a time, to its end.
`pc` is the place inside the handler and `cur` its session.

| action | code |
|---|---|
| `Accept`, `AcceptError` | `do_accept`'s handler; the client is counted before `ec` is looked at |
| `Read`, `ReadEnd` | `do_read`'s handler: `MemMerge` of a read of any length, then `Parser`; at the end of the stream `Parser` runs once more with nothing new |
| `ParserContinue`, `ParserThrows`, `ParserFresh` | `Parser` with and without a file under way |
| `GetFileHeader`, `OpenFile`, `GetFileStore`, `GetFileThrows`, `GetFileDone` | one iteration of `GetFile`'s loop: counters and row, `FileSave.Open`, `FileSave.Write`; and its end |
| `CloseFile`, `CloseThrows` | `CloseFile`, after which `GetFile` goes on |
| `Compact`, `Catch` | the end of `Parser`, and its catch blocks, which leave the buffer as it is |
| `ReadAgain`, `SessionGone` | the end of the handler; without another read the last `shared_ptr` goes and the file is closed |
| `OnTimer` | swap `m_vecFileTemp` under `m_csList`, append to `m_vecFileList` |
| `PeerSend`, `PeerReset` | the sender's next file (well-formed or not, as `Scripts` has it); the connection is reset |

The handler is cut into actions where it enters or leaves a critical section or
calls something that can throw; in between only other threads' variables could
change, and there the UI thread only runs `OnTimer`.  A disk that fails does so
by `CFile::Open` returning `FALSE` (the code ignores it), by `CFile::Write`
throwing with a part written, or by `CFile::Close` throwing.  A `Write` to a
file that could not be opened always throws.

Abstracted: names and directories (each row is a file of its own), the growth
of `pBuffer`, messages, drawing.  `items` and `disk` collect every row ever
made, so that properties can speak of rows the session no longer points to.

### SendPool

`fpc` is where `FindFiles` stands, `tpc[t]` where thread `t` does.  The steps
are the accesses to what the threads share:

| action | code |
|---|---|
| `LookAtList`, `Spawn`, `AllSpawned`, `WaitReturns`, `SetFinished` | `FindFiles` from the size of the list on; `_beginthreadex` can return 0, and then the wait fails at once |
| `Connect` | `CSockClient::Connect`: connected; or `INVALID_SOCKET`; or a socket that is not connected and no error code |
| `TryLock`, `TakeFront`, `PopFront`, `Unlock` | the critical section of `SendThread`'s loop; `front()` and `pop_front()` are two steps |
| `OpenFails`, `OpenFile` | `PathFileExists`, the `CFile` constructor, `GetLength` |
| `CountFile`, `BuildHeader` | `m_nSendFiles++` in one critical section, its value copied in the next |
| `SendHeader`, `SendPacket`, and `...Fails` | `CSockClient::Send`; it fails on an unconnected socket always, on a connected one when the bound allows |
| `ReadBlock`, `ReadThrows`, `EndOfFile` | `fileRead.Read` into the block buffer |

A file of `MayChange` can be shorter or one packet longer when it is read than
when `GetLength` was called.  After every failure the thread goes on with the
next file on the same connection: this is what the code does, and `Session`'s
frames that are not whole are what the receiver sees of it.

### Transfer

`SendPool`'s `Next` and `Session`'s actions, as an `INSTANCE`, side by side.
`SendPool` keeps in `out` what each thread put on its connection; the frames
`Session` reads are made from it, and `wire` grows by what a step adds to `out`.
When the `Send` of a header fails, a part of it may have gone out (`PartCells`).  A
connection closes when its thread ends (`~CSockClient`).  All of the sender's failures
can happen; the receiver's (`MaxFaults`, `MaxResets`, `MaxBadAccepts`) are bounded to
none, and are what `Session`'s own runs are about.

### Search, Paths and Texts

`stack` holds the calls of `AccessDirectory` that have not returned, each with
its directory and the next entry.  One round of the loop is `TakeStop`,
`SkipDots`, `LeaveOut`, `EnterDirectory` or `ListFile`, in the order of the
code's conditions; `Return` ends a call.  `SetStop` is the dialog's `SetEvent`,
at any time; `Init` allows a Stop left over.  `Unreadable` directories are those
`FindFile` fails for.  The ghost variables `entered` and `cut` remember which
directories were opened and where a Stop cut one.

`Paths` has no state.  Texts are sequences of characters; `Find`, `ReverseFind`,
`Right` and `PathFindExtension` are written after `CString`'s and the shell's
documentation.  The paths the code compares and cuts are not what was typed:
`CFileFind::FindFile` keeps `_tfullpath` of its argument, and `GetFilePath` puts a
name behind that.  `FilePath` is the second step, `FullDirectory` the first: from
the drive, the current directory of the drive or the current directory, with empty
segments and `.` left out and `..` taken back.  `IsFullPath` is a source that stays
as it is.

`Texts` gives `Paths` its inputs.  `TypeFilter` and `TypeSource` put one character
more into an edit field, any one: a backslash, a dot, a blank, a semicolon, a colon
or a letter.  `Directory` says of which sources the search finds files and what
their full path is; `name` is a file there.  `Texts` assumes of `Directory` only
that full paths are texts and that a source typed as a full path is its own.  TLC's
instance (`MCSearch`) takes `FullDirectory` for it, in one drive with the current
directory `A:\A`.  Its input restrictions, all of them:

- sources of the network and of devices (two backslashes first) name no directory
  there, and neither does a single backslash, of which the code makes `\\*.*`;
- a colon stands behind the letter of the one drive and nowhere else;
- no name in a source ends in a dot, whether the system drops that or not; `.` and
  `..` are there;
- `/` and lower case are not typed (what is compared is made upper case before);
- `name` is one of seven, of one to four characters, with dots, blanks and
  semicolons, and lies directly in the source directory.

Files further down have a longer full path; nothing else is different for them, but
that `strDirectory.GetAt(m_nDirLength - 1)` (`JokeAssist.cpp` 232) throws when the
source was typed longer than the full path of a directory below it is.  That
exception, which ends the other process, is not modelled.

### Handshake

| action | code |
|---|---|
| `StartDialog` | `m_hInjectProcess` has no initialiser: null or junk |
| `Inject` | `OnBnClickedButtonInject` up to `UnInjection(false)`, with `EnableJoke` |
| `OnTimer`, `OnDestroy` | up to `UnInjection(true)` |
| `AskStop`, `AskFinished`, `WaitFinished`, `WaitTimesOut`, `ResetFinished`, `CloseEvents`, `FreeOldLib` | `UnInjection`, between any two system calls of which the other process can do something |
| `ExcuteJoke`, `InitInjection`, `InitInjectionFails` | the rest of the Inject handler: the shared section, the events, `CreateRemoteThread` of `LoadLibrary` |
| `Crash` | the dialog's process ends, also by the `ExitProcess` in `UnInjection` |
| `Attach`, `LoadAgain`, `Free` | the remote threads: `InitInstance` on the first reference only |
| `TimerCallBack`, `SearchStopped`, `SearchEnds`, `SendsEnd`, `SetFinished`, `ThreadEnds` | the one-shot timer and the search thread |
| `Detach`, `HostCrashes`, `HostCloses` | `ExitInstance` and the unmapping; the unmapping under the DLL's timer or a thread that runs in it; the other program is closed |

An event remembers the copy it was set for and the DLL the copy it runs for;
only the properties look at that.  A named event, and the section, live as long
as somebody holds a handle.  Of the C runtime the project's toolset (v142) uses is
modelled that `_beginthreadex` takes a reference of the DLL for the thread it
starts; so a FreeLibrary alone does not unmap a DLL whose search runs, and the
thread that gives the last reference back runs `ExitInstance` itself and waits
15 s for itself.  LoadLibrary and FreeLibrary wait while a DLL is in
`ExitInstance` (the loader lock).

`SettledIn5s` is the one assumption about time: when `UnInjection`'s 5 s are
over, the other process has done what it was about to do, but for a search, the
sends, an `ExitInstance` that waits for its thread, and what waits for the
loader lock.  A timer of 5 s in the model would be a number with no meaning.

### Rerun

Three threads.  The io thread loads a number (`Load`) and stores it in a second
step, since the UI thread resets the numbers without their locks; the UI thread's
handlers are cut where another thread can see the difference (`ClearList`,
`ResetFound`, `ResetClients`, `JoinWorker`, `StartCopy`; `Swap`, `Show`; `Close`,
`Destroy`); the worker tests its flag and works.  `m_nClients` is a UINT:
its stores are taken modulo `UINT_MAX + 1`.  `do_accept`'s handler also runs for an
accept that failed (`AcceptError`) and has then counted a client without a session;
`failed` is the number of these since `m_nClients` was reset.  `clean` says that
nothing of an earlier copy was left when Inject began, and that no such handler was
between its load and its store when `ResetClients` came.  Assumed: a sender makes its
connections before it sets Finished (`SendPool`'s `FinishedIsQuiet`).

### SocketServer and ParserData

Both are compiled into the dialog, which derives from `CSocketServer`, but it
starts its asio acceptor instead: no thread of them runs.  They are modelled
because they are what `session` was rewritten from.  Of Winsock `SocketServer`
models what `WSAEventSelect` promises: the record of network events, the event,
and that FD_READ is recorded again only after a `recv`.  `ParserData` computes a
whole `OnRecv` in one step, as a recursive function of the client.

## 3. What TLC checks

| run | instance | properties | states |
|---|---|---|---|
| `session_chunks` | 1 connection, 3 files of 0..2 cells each (27 combinations), or the second one short, header of 2+1 cells, reads of 1 to 8 cells, one reset | `TypeOK`, `Residue`, `AllSaved` | 37 000 |
| `session_two` | 2 connections with 2 or 3 files and 1, headers of 2+1 cells; every file sent whole, or the second one of a connection short by one or two cells, or by all but a cell of its header, or long by one; one accept that fails | `RowsOnce`, `ClientCount`, `CountsAreMaxima`, `ImplementsFileCopy`, `LostForGood` | 117 000 |
| `session_disk` | 2 connections, which may meet disk errors at any Open, Write and Close | `SavedCount`, `SavedIsFinal`, `ImplementsFileCopy` | 685 000 |
| `pool_faults` | 2 threads, 3 files (3, 1 and 0 packets), blocks of 2 packets, two failures of Connect and one of each other kind | `TypeOK`, `OneOwner`, `FinishedIsQuiet`, `CountsIncrease`, `SentIsWhole`, `LastCountArrives`, `FinishedComes` | 427 000 |
| `pool_spawn` | 2 threads, one may fail to start | `WaitsForAll`, violated | |
| `search` | all filters and sources of up to 5 of six characters together, seven names; then a tree of 6 directories in 4 levels with 8 files, up to 3 Stops and one left over | `ListedInOrder`, `CountsAreSeen`, `OneLevelPerStop`, `FilterReadsText`, `DestinationOfSource` | 759 000 |
| `search_comment` | all filters and sources of up to 2 characters together | `SlashNotLast`, violated | |
| `handshake` | 3 clicks on Inject in up to 3 dialogs, crash and close at any time | `NoStaleSignals`, `HostSurvives`, `CleanInject`, `SearchesItsOwn`, `ButtonsReturn` | 569 000 |
| `rerun` | 2 copies, 2 connections with up to 1 file each, one accept that fails between two resets, `UINT_MAX` 3 | `ControlAgrees`, `RowsOnceSinceCleared`, `NeverTooFew`, `CleanRerun`, `EndOfDialog`, `HandlersReturn` | 1 353 000 |
| `transfer` | 2 threads and sessions, an empty file and one of 2 packets, one `Connect` and one `Send` that may fail | `SavedAsSent`, `NumbersAgree`, `EndToEnd` | 528 000 |
| `socket_server` | 3 clients with 2, 1 and 0 pieces of data, 1 thread with 2 slots | `SlotOnce`, `EventsServed` | 201 000 |
| `parser_data` | 3 files of 0..2 cells each, reads of up to 10 cells | `LostOnlyByCuts` | 1 700 |

What the properties say:

- `Residue`: between two handlers a healthy session has consumed all it can,
  and nFileSize, nSavedLength, the row, the open file and its length agree; and when
  all that was sent has been read, each file that went out whole is saved, but for an
  empty one that came last.
- `AllSaved`: what is sent is saved in the end, with one exception.  GetFile takes a header only if at least one byte follows it
  (`nDataLength > HeaderSize() + nOffset`), so an empty file is recorded only
  when the next frame arrives, and as the last file of its connection never.
- `RowsOnce`, `ClientCount`, `CountsAreMaxima`, `SavedCount`: the rows and
  numbers of the dialog against the sessions and files.  `ClientCount` states
  the count as it is: each failed accept stays in it.
- `SavedIsFinal`: a file reported saved is never touched again.
- `ImplementsFileCopy`: `Session` implements `FileCopy`, with `copies` the
  contents of the connection's rows, `done` the number of its true rows, and
  `broken` the connections that met a disk error or whose sender broke its
  word at a file that has been started.
- `OneOwner`: a file is on the list once, or with one thread, or done with.
- `SentIsWhole`: a file `SendFile` answered true for has gone out once,
  header and content; a file under way is the last one of its connection.
- `CountsIncrease`, `LastCountArrives`: the counts in the headers rise on each
  connection although they are read in a second critical section, and the
  largest one is right in the end if no send failed.
- `FinishedIsQuiet`: Finished means no thread is left and nothing is half sent,
  and the list is empty if any thread ever got a socket.
- `FinishedComes`: Finished is set in the end.
- `WaitsForAll`: the comment above the wait ("all send threads must be waited
  for").  It does not hold: `_beginthreadex` is not checked, and one null handle
  makes the wait return at once.
- `LostForGood`: a session that looks at bytes which are no header never saves
  anything again: its buffer only grows.
- `SavedAsSent`, `EndToEnd`, `NumbersAgree`: the same from end to end.  What
  `SendFile` answered true for is on the disk in the end, up to the first
  failure of the connection, and not only in the end: as soon as all that was sent
  on the connection has been read (`SentIsSaved`); behind a failure a row can be true whose file was
  filled up with the next header.
- `ListedInOrder`, `CountsAreSeen`: what the walk leaves on the list and in the
  counters, for a tree with filtered, empty and unreadable directories.
- `OneLevelPerStop`: one Stop ends one call of `AccessDirectory` and not its
  callers; a search n levels deep needs n Stops at the right times.
- `FilterReadsText`, `DestinationOfSource`: what the code's
  arithmetic on texts means.  An entry `.C` is dead after an entry `.CPP`; an
  extension with a blank or semicolon in it is found across two entries, and then its
  last word is one; a name is compared by the last n characters of the whole path, n
  the length of its directory's path, and below a directory longer than the name that
  takes a backslash in the filter.  The relative path is cut by the length of the
  source as it was typed: one typed as a full path is replaced by the destination; a
  relative one that is shorter leaves the rest of the directory's full path behind
  the destination, without a separator; one that is longer (a backslash at
  its end, `.` or `..` in it) loses the separator and then characters of the name,
  and from two characters more on two files of a directory can fall together.
- `NoStaleSignals`, `HostSurvives`, `SearchesItsOwn`: a copy is disturbed by
  another one only if the two overlapped, that is, the old DLL was still around
  when Inject was clicked.  Otherwise `OnTimer`,
  which has consumed Finished before `UnInjection` waits for it, waits in vain:
  the UI thread stands still for the 5 s.
- `CleanInject`: when Inject can be clicked no event of before is open, so the
  handler's `SetEvent(m_hEventFinished)` has no handle and no effect.
- `ButtonsReturn`: the buttons come back after a copy, unless it overlapped
  another: then its Finished may be reset, or the DLL already mapped, in which
  case `InitInstance` does not run, and they never do.
- `ControlAgrees`, `RowsOnceSinceCleared`: the list control, the list and the
  rows waiting.  Rows that wait when Inject is clicked appear in the
  list of the next copy.
- `NeverTooFew`, `CleanRerun`: what the unlocked resets can do to the numbers:
  too much may be shown, too little not; and nothing is wrong if everything of
  the copy before had been served, but for the accepts that failed since, which are
  counted as clients.  (`m_nClients` is not in `NeverTooFew`: an old
  connection that ends after the reset takes it below zero, and it wraps.)
- `EndOfDialog`: the dialog's destructor finds the last worker joinable whenever
  Inject was clicked, and so ends in `std::terminate`.
- `HandlersReturn`: the UI thread's joins end.
- `SlotOnce`: the slots, the index used outside `csThread`, and the count, which
  keeps clients that found no slot.
- `EventsServed`: with two exceptions, an event set between
  `WSAEnumNetworkEvents` and `WSAResetEvent` and a close recorded together with
  another event, data is read and closes are seen.
- `LostOnlyByCuts`: `ParserData` subtracts `nOffset` twice,
  which drops cells when a read ends behind a frame that was parsed but with a
  part of the next one; when nothing was dropped the rows are right.

Bounds.  In `session_chunks` `MaxRead` is larger than a frame, so reads below, at
and above every boundary happen, also reads that hold the end of one frame, a
whole one and the beginning of a third; the other runs take at most a frame
with one or two cells of content.  File sizes 0, 1, 2 are: none;
complete in one cell; and one that can be cut in the middle.  Three files give
a frame before and after each kind.  Two sessions are enough for interference
since sessions share only the dialog's variables, pairwise.  Two
threads can meet at every pair of steps of the list and the counter; three
files let one thread take two while the other holds one.  `BlockPackets = 2`
with a file of 3 packets gives a full and a partial block.  `MaxFaults`,
`MaxResets`, `MaxBadAccepts` and the `Max...` of `SendPool` bound the failures
of the environment only; the code has no such limits.  Deadlock is not checked
since a copy ends: every sender done, every session gone, `FindFiles` returned.

The other instances: three copies let a third meet what two that overlapped left
behind, each of them can be in a dialog of its own, after the one before has
crashed; `Handshake` has no bound on anything else.  In `rerun` two connections let one belong to each copy
or both to either, and one file each is enough since the numbers are changed one
file at a time; a failed accept can come before, between and after the resets; a
`UINT_MAX` of 3 lets the count wrap.  In `search` every kind of entry
comes before and after a directory, and four levels are deeper than three Stops
can end.  In `socket_server` three clients for two slots give a full thread,
a compaction with an entry behind it and a refused client.  In `parser_data` a
read of 10 cells can hold two whole frames and a part of the third.
In `search` 5 characters for the filter hold two entries of which one contains the
other, or one entry with a backslash or a separator before it, together with a source
of one or two; as a source they are a full path, a relative one, each with a
backslash at its end, or one that goes back with `..`; so sources are shorter
than their full path, as long, and longer by up to 3 characters.  The names are longer and shorter than the
path of their directory.  In `transfer` the first file is empty: as the threads take the two
files in any way, it is the last on its connection and it is followed by another.

Fairness.  `Session!Fairness`: `io_context::run` runs a handler while
completions are ready and ends the one it is in; the window timer fires every
50 ms.  Nothing is assumed of senders.  `SendPool!Fairness`: each thread that
can move is scheduled; `Send` returns because `Connect` sets `SO_SNDTIMEO`, and
`TryLock` is retried every 20 ms.  Weak fairness suffices for it because a
thread leaves the loop for good once the list is empty.  `Handshake!FairSpec`: the
window timer fires, the dialog's handlers go on, and the other process runs its
threads; nothing is assumed of the user, of crashes, or that a Stop is seen (it
is not in `Host`).  `Rerun!Fairness`: each thread goes on with what it has begun,
the io thread with its store, the UI thread with its handler, the worker with
its loop; nothing is assumed of new handlers.  `Transfer` needs each of the two
programs to go on while it can: `SendPool`'s fairness per thread implies its
part, as no thread can loop for ever.  `SocketServer!FairSpec`: `ListenThread` goes
on with a client it has accepted, and every `MonitorThread` that can move does;
nobody has to connect.  No liveness is claimed of `Search`.

## 4. What is proved

`SendPoolProofs`, for every set of threads, list of files, size and number of
failures (`SendPoolAssumption` only):

- `TypeCorrect`: `Spec => []TypeOK`.  `TypeOK` is not inductive: `SendPacket`
  takes one packet off `inBuffer`, and `PopFront` needs a list that is not
  empty.  The invariant `Typed` adds `AtWork`: a thread between `open` and
  `send` holds a file, and one in `send` has a packet left in its block and a
  header out.
- `OneOwnerAlways`: `Spec => []OneOwner`.  The invariant `Owned` adds
  `LockHeld` (a thread between `take` and `unlock` is the only one in the lock)
  and `FrontHeld` (a thread between `front()` and `pop_front()` holds the head
  of the list), which is what makes the pair of calls safe.
- `FinishedIsQuietAlways` adds `PoolEnds` (from where `FindFiles` sets Finished on,
  all threads are over, if none is missing) and `ThreadsEnd` (a thread that
  ended with a socket left its loop over an empty list), since the property
  looks only at the moment Finished is set and the list was found empty long
  before.
- `CountsIncreaseAlways` adds `CountAhead`: while a thread is between the counter
  and its header, the counter is above the last count on its connection.  This
  is why two critical sections are enough.
- `SentIsWholeAlways` adds where a file can be at all: `NotOutBefore` (what a
  thread has not yet sent a header of is on no connection), `OneHeader` (no file
  on two), `TakenIsLast` (the file a thread is at is the last of its connection),
  `SentIsOut` (what is reported sent is on one, whole), and `AllAccountedFor` (what
  has gone out and what is still to be read and sent are the file).
- `LastCountArrivesAlways` needs `CountOnItsWay`: the largest count is in a header
  that has gone out, or with a thread on its way to one.

`SessionProofs`, for every finite set of connections, all frame sequences, read
sizes and bounds on failures (`SessionAssumption` and `FrameAssumption`):

- `TypeCorrect` and `ClientCountAlways`: `TypeOK` needs `ClientCount`, or the
  client a session takes off could make `m_nClients` negative, and `ClientCount`
  needs `Serving`: the handler's session lives, so the one that goes was in the
  count.  The three are proved together as `Counted`.
- `SavedIsFinalAlways` and `SavedCountAlways`: both rest on `Owned`, which adds
  `OneFile` (a session's open file is the one of its last row, this row is not
  true, and a session with no size announced has no file open but between
  `FileSave.Open` and `CloseFile`) and `Underway` (what holds at each place
  inside the handler: in `open`, `store` and `close` the last row is not true,
  and `GetFile` looks at a header with no file open or has no cell left to look
  at).  The crux is that a first part shorter than its file has used up the
  whole buffer (`FirstPartLength`), so `GetFile` cannot find another header
  while the file is open.  It holds after exceptions too, whatever the buffer
  then is.
- `RowsOnceAlways`: by `Counted` and the sequence lemmas alone.
- `CountsAreMaximaAlways`: a row keeps the frame it was made for, so the invariant
  `Largest` can say of each number that it is carried by a row, or zero, and that
  no row carries a larger one; `Max` of the rows follows.

`SessionProofs` again, on what the sessions make of the byte streams:

- The inductive invariant is `Copying`, four parts.  `Owned` is the one above.  `Listed` says that `RowsIn` is the increasing list of the
  indices of a connection's rows.  `Placed` bounds `nOffset` and says where it is
  0.  `InOrder` is about healthy sessions: what is in the buffer behind `nOffset`,
  on the wire and unsent is a beginning of what has to come (`InStep`); the rows
  are the first frames, all saved with their content but the one under way
  (`RowsRight`); the numbers, the row and the open file of that one agree
  (`Current`); and where `GetFile` has returned nothing is left that it could use
  (`Drained`).  What has to come is one expression for every place of the
  handler (`Expected`): the rest of the content, if a file is being filled, and
  the frames behind it.  Neither `Residue` nor `Residue` with the rows is
  inductive: in the middle of a handler the buffer is anything.
- `ResidueAlways`: that all is consumed is what `Copying` says between two handlers
  (`CopyingConsumes`).  That what was read is saved needs more, as `Copying` allows
  that something of the script never comes, which a reset makes true.  `AllComes` says
  that without one all of it does, and `Unsent` that what was not sent yet is the end
  of the script.  Then the frames up to the last one that came have rows
  (`ServedSoFar`): if one had none, the session would have a whole header, and a byte
  behind it, in its buffer, which `Drained` excludes (`DueIsSaved`).
- `ImplementsFileCopyAlways`: `Init` maps to `FileCopy`'s `Init`; then by the cases of
  `Next`: `GetFileHeader` is a `Begin` of its connection, `ParserContinue` and
  `GetFileStore` are an `Extend` or nothing, `CloseFile` is a `Finish`, whatever
  makes a session unhealthy is a `Broken`, and every other step changes nothing
  `FileCopy` sees.  That a write is an `Extend`, that is, adds the next cells of
  that file and no others, is what `Copying` is for.  On connections that are not
  served nothing changes because `RowsIn` of another connection is the same before
  and after.
- `LostForGoodAlways`: cells appended behind a whole bad header do not make it a
  valid one, and `GetFileHeader`, which makes rows, is not enabled at a bad one.
  `Grounded` excludes that a session out of step is in the middle of a row: in
  `open` and `store` it has a good header before it, and it only closes a file
  that has a size or whose header it has gone past.

`TransferProofs`, for any threads, files, sizes, reads and failures, with what
`SendPoolAssumption` and `TransferAssumption` say of the constants:

- `SavedAsSentAlways` puts `Delivered` (of `SentIsWholeAlways`) and `Copying` together.
  `Copying` is about scripts that are fixed before the first byte is sent, while here
  a script is written as it is read.  So `Session` is instantiated a second time (`P`),
  with the script the sender means to send (`Sending`): each entry of `out` as it went
  out, and the last one as it goes out if no `Send` fails any more.  A step of the
  receiver is a step of `Session` with that script, which it does not change
  (`CompletionIsP`, `HandlerIsP`, `OnTimerIsP`), and all that `SessionProofs` shows of a
  step holds of it.
- The inductive invariant `Carried` says that each connection is `OnTrack` or `Astray`.
  `OnTrack`: it is healthy, and what has still to come of `Sending` is what is on
  its way and then what the sender has not put on the wire (`Missing`).  `Astray`: a
  row has been made for an entry that did not go out as announced, and all before
  it are right; so it stays.
- The sender's steps keep it although they rewrite `Sending`: one more packet of the
  last file moves from what is missing to what is on the wire; a header adds a frame,
  or finds the last one unfinished, which then stays as short as it is
  (`WireStep`, `SendsOn`).  That the receiver's place in the script means the same
  afterwards is `StillTuned` of `SessionProofs`, by cancelling what was already
  to come.
- `CarriedSaves`: a true row is not under way, so `RowsRight` gives its content; and
  without a failure the last entry is at most under way (`UndamagedIs`), and when its
  row is true nothing is missing.  `ServedSaves`: when nothing is on its way, what has
  still to come is what the sender has not put on the wire, which is less than the
  last frame, so all before it have rows (`ServedSoFar` again).
- `NumbersAgreeAlways`: `Carried` is not enough, as it does not say that a connection
  has come to its end.  The invariant `Agreeing` adds to it `EndSeen` (a session
  closes only behind the last byte of a thread that has ended), `Followed` (a row for
  the last entry is made only when something comes behind its header, so an empty file
  at the end has none), and what is proved of the counts of each side on its own:
  `SavedCount` and `Largest` of the receiver, `CountsIncrease`, `CountAhead` and
  `CountReaches` of the sender.  `ServedWhole` says which rows a connection has
  that has been served without a failure.  Rows and files are then equally many by
  bijections: each row has one file of its own that is not an empty last one
  (`RowsAreFiles`, from `EntryHasRow` and `RowHasEntry`), and those are as many as
  the threads that sent them (`EmptyEndsCount`).  `SavedNumber` and `DecryptNumber` are
  the two halves of the property.

`SearchProofs`, for any tree of finitely many directories, any filter and any number of
Stops:

- `TypeCorrect`, and `OneLevelPerStopAlways` by counting the directories cut
  (`FiniteSetTheorems`).
- `CountsAreSeenAlways`: the set `Seen` of the places the calls have passed, running
  or not, grows by one place per round of the loop, and by none otherwise
  (`OneMoreSeen`, `NothingSeen`).  For that no directory may be entered twice:
  `Calls` says that each running call is in a directory of its own, whose cut is not
  set yet, and `Found` that what was entered was passed before.  Then the
  counters are the sizes of parts of `Seen` (`Tally`).
- `ListedInOrderAlways`: `Below`, which says recursively what a directory comes to, is
  a function because nothing lies below itself; that it exists and that two
  functions which solve its equation agree is proved by induction on the height
  (`SolutionExists`, `SolutionsAgree`).  The invariant `Comes` says that the list is what
  the running calls have passed so far, outermost first.  When a call returns, what
  it has passed is `Below` of its directory, as the directories it entered are
  finished (`FinishedClosed`).
- `FilterReadsTextAlways`, for every filter and source, any `Directory` and any names
  (`TextAssumption` only): the first place of a text without
  a separator lies in an entry (`SpanAround`), which is the first one that holds it
  (`FirstHolder`), as entries do not overlap (`SpansApart`); the place ends the entry
  just if the entry ends with it (`ExtensionDecides`).  In a text with separators
  the last one is where an entry of the filter begins, so what follows it is that entry
  (`LastWordDecides`).  By name, the text that is looked for holds the last backslash of
  the path when it is longer than the name, and so does the filter where it was found
  (`NameDecides`).
- `DestinationOfSourceAlways`, for every source, any `Directory` and any names: the
  full path is the part as long as the source and a rest, which `Right` takes
  (`ShorterSource`); a source longer than that takes from the name (`LongerSource`);
  that two files do not meet follows by cancelling what is before their names.

`RerunProofs`, for any number of copies, connections, files and failed accepts:

- `TypeCorrect` needs `Handled` (a handler runs for a connection some copy made
  and which has what the handler is about) and `Begun` (Inject is at work for a
  copy that may be started).
- `ControlAgreesAlways` needs that `m_vecFileSize`, `nItemCount` and the list's
  length agree except in `OnTimer`.
- `EndOfDialogAlways` needs `Worked`, which says when the worker is joinable.
- `RowsOnceSinceClearedAlways` needs `Kept`: outside `OnTimer` nothing is in
  `vecTemp`, so that Inject, which clears only the list, clears a front of the
  rows.
- `NeverTooFewAlways`: the invariant `Enough` compares what the io thread has
  loaded with the rows of the last copy.  No row or connection is of a later copy
  (`NoneLater`), so that a value from before the resets can only be too large for
  the new copy.
- `CleanRerunAlways`: between the first reset and the new copy nothing moves on
  the io thread (`CleanStart`), since no sender connects while Inject can be
  clicked (`Buttons`); from there on every store adds to what was loaded
  (`CleanCopy`), a file under way has a row of its own that is not saved
  (`OwnRows`), and the count of clients does not reach the end of a UINT (the
  assumption that there are no more connections and failed accepts than that).  A
  failed accept moves in between: it adds to the count and to `failed` alike, and what
  it has loaded before the reset it must not store after it, which `clean` excludes.

`HandshakeProofs`, for any number of copies and dialogs:

- `TypeCorrect` needs that a mapped DLL has a reference to give back.
- `CleanInjectAlways` adds `ClosedBefore`: the events are closed before the dialog
  starts and after `UnInjection(true)`, and Inject's handler keeps the buttons
  disabled.
- `HostSurvivesAlways`: the invariant `Lone` says of copies that met no other that
  Inject finds nothing of an older one (`NothingOlder`), that its load is the
  only one (`OneLoad`), that no more references are freed than loaded
  (`FreedIsLoaded`), and that a dialog past its wait for Finished has no timer
  ahead of it (`NoTimerAhead`): only all four together keep a `FreeLibrary` from
  reaching a DLL whose timer is armed.  It rests on `CleanInject`.
- `NoStaleSignalsAlways` and `SearchesItsOwnAlways`: both from `Fresh`.  A Joke that is
  set is the last copy's, and so is the path in the section by then (`JokeIsNew`);
  a copy that met no other finds no DLL and no event when it begins, and only
  its own signals from then on (`FirstThere`); and what its search runs on
  stays its own when the next copy comes (`OwnRun`).

`SocketServerProofs`, for any number of clients, threads and slots: `TypeCorrect`
and `SlotOnceAlways`.  Both need `IndexHolds` (`dwIndex` is one of a slot before it is
raised), `NewWaits` (the client to be placed is in no slot) and `Removers`
(who deletes a client, and that it is out of the arrays before); the arrays'
part rests on what `Compacted` returns for any index (`CompactedIs`).

`SequenceLemmas` has what the proofs about streams and listings rest on: induction
over the natural numbers and over sequences, stated with the set of
what is to be shown as a parameter; what `FlattenSeq` is on a sequence with one
more at its end or its beginning; and cuts and prefixes.  `FlattenSeq` is a
recursive function, and these lemmas are all that is used of it.

Each proof has the three parts Init, step and conclusion; the step has a lemma
or a step per action.

The assumptions on constants say what the code cannot be without: numbers are
numbers, sets of processes are finite, a header has a cell.  `SearchAssumption`
has besides that the listings are those of a tree, in which each entry lies in one
directory and has a height; `PathsAssumption` says that the five special characters are
different, `TextAssumption` that no letter is one of them and that a source typed as a
full path is its own; `RerunAssumption` that all connections and failed accepts
together fit into a UINT.

What only TLC checks, and why:

- liveness (`AllSaved`, `FinishedComes`, `ButtonsReturn`, `HandlersReturn`, `EndToEnd`,
  `EventsServed`), which is out of the prover's reach.  Of `AllSaved` and `EndToEnd` only
  the progress is left to TLC: that what has been read is saved is proved
  (`ResidueAlways`, `SavedAsSentAlways`);
- `LostOnlyByCuts`: `ParserData`'s `GetFile` is a recursive function on clients, and its
  invariant would be `Copying` over again for another parser.

## 5. Findings

- `pool_spawn`: see `WaitsForAll` above (`JokeAssist.cpp` 172-181).
- `search_comment`: the comment at `JokeAssist.cpp` 126 says that a backslash that
  is the last character is excepted; the condition excepts the last but one.

Behaviour that contradicts no comment or document, but that a maintainer should
know of, is stated as it is: the empty file in `AllSaved`, `ClientCount`,
`LostForGood`, the case in `FinishedIsQuiet` where no thread gets a socket, the
exceptions in `ListedInOrder`, `FilterReadsText` and `DestinationOfSource`, the
overlapping copies in the properties of `Handshake` and the wait in vain in
`NoStaleSignals`, the wrapping `m_nClients` and the rows of the copy before in
`Rerun`, `EndOfDialog`, and the exceptions in `EventsServed` and `LostOnlyByCuts`.

## 6. Not modelled

Of the two programs' own logic only what the next list and the hazards without a
property name is not modelled; what could still be added are larger instances.  Left without a proof are only the properties
listed at the end of section 4.

Left out for good:

- `CSocketServer::Start`, `Stop`, `ClearClient`, `CheckFreeClient`: nothing calls
  them; `CJokeDSEDlg::Start` and `Stop` hide the first two.  With `Start` goes what it
  could do to a first client: it sets `dwEventCount` of each thread to 0
  (`SocketUtils.h` 1168) when `ListenThread` runs already and may have placed one.
- the handlers beside Inject's: `OnBnClickedButtont` (`JokeDSEDlg.cpp` 778-785), which
  writes the shared section and loads a `JokeLib.dll`, and the empty
  `OnBnClickedButtonT` (638-642) belong to buttons that the dialog template does not
  have; `OnBnClickedButtonSavecache` (645-652) writes the list to the log, on the UI
  thread; the browse buttons (672-719) fill the edit fields, which `Texts` leaves to
  the user.
- the exception of `GetAt` in `AccessDirectory` (see Search, Paths and Texts).
- what the end of a process destroys: an exception that leaves a handler of
  `io_context::run` (`remote_endpoint` in `do_accept`) ends the program.
- which process the DLL is loaded into and by what rights (`Handshake` models that
  the calls for it succeed or fail).
- windows, layout, messages, the log, conversions of text, sizes of 2 GB and more.
- asio and everything vendored; `TimeUtility`, `JokeLib` and the rest of
  `SocketUtils.h` and `Utility.cpp`, which the two programs do not use.
