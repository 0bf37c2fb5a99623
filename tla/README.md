# aria-libc in TLA+

aria-libc gives programs in the Aria language the C library: a C shim
(`src/shim/aria_libc_*.c`) with flat parameters, and Aria modules
(`src/src/*.aria`) that wrap the shim, each function of theirs one call. This
directory models the parts of it that keep state between calls, checks the
models with TLC and proves theorems about them with TLAPS.

Paths below are relative to the repository root, which is `src/` in
`PROJECT.json`: `shim/aria_libc_posix.c` there is `src/shim/aria_libc_posix.c`.

## 1. The system

Aria code cannot hold a C pointer safely, nor be called back from C. Nearly
all state of the library follows from that: fixed pools of slots whose index
is the handle, "last result" variables that a second call reads, flags that a
signal handler sets, and one sticky `last_errno` per shim module, which some
modules set to 0 when a call succeeds (io, mem, string, math, time, process)
and others only ever overwrite with the next error (posix, net, fs, regex).

| component | source | state | operations |
|---|---|---|---|
| mmap pool | `aria_libc_posix.c` 325-464 | 64 slots (address, length, in use); the kernel's mappings | mmap, munmap, mprotect, msync, read/write of a byte, an int64, a string |
| signals | `aria_libc_posix.c` 82-149 | 64 flags; the kernel's dispositions | trap, check, reset, ignore, raise, kill, and the handler |
| children | `aria_libc_posix.c` 155-235 | `last_wait_status`; the kernel's child table | fork, waitpid, wait_exited ... wait_termsig, exec_shell, spawn, spawn_bg, exit_now |
| pipes, descriptors | `aria_libc_posix.c` 241-298 | `last_pipe_fds`; the descriptor table | pipe_create, pipe_read_fd, pipe_write_fd, dup, dup2, fd_read_string, fd_write_string, fd_close |
| whole files | `aria_libc_io.c` 388-473 | the file; open descriptors | read_file, write_file, append_file |
| buffers, directories | `aria_libc_io.c` 67-228, 330-384 | 32 buffers (data, capacity, used), 16 DIR pointers | buf_create, buf_release, read, write_bytes, buf_to_string; opendir, readdir_next, closedir |
| path calls of io | `aria_libc_io.c` 232-328 | none | stat_*, mkdir, rmdir, unlink, rename |
| fs | `aria_libc_fs.c` | 16 glob results, the path of the last mkstemp | access, chmod, links, truncate, realpath, mkdtemp, mkstemp, fnmatch, glob_* |
| regex | `aria_libc_regex.c` | 32 compiled patterns with the groups of their last exec, the last error text | compile, release, is_match, exec, group_*, replace_first, replace_all, count_matches |
| net | `aria_libc_net.c` | sockets (kernel) | socket ... accept, send/recv, options, non-blocking mode, poll, resolve, tcp_connect, tcp_listen |
| mem, string | `aria_libc_mem.c`, `aria_libc_string.c` | the heap | allocation, copies, searches, conversions |
| math, time, process | `aria_libc_math.c`, `aria_libc_time.c`, `aria_libc_process.c` | none of their own | libm; clocks and sleeps; environment, cwd, system(3) |
| pure-Aria io and stat | `src/_io_core.aria`, `src/_stat.aria` | mapped buffers during a call | whole-file calls and stat over raw system calls |
| numbers and names | `src/_errno.aria`, `src/_constants.aria`, `src/_identity.aria` | none | tables; getpid and the like |
| glibc compatibility, scripts, tests | `shim/glibc_compat.c`, `scripts/`, `tests/` | none | static link, build, test drivers |

How they interact. The Aria wrappers hand their arguments on unchanged, so the
state is the shim's. Shim modules do not call each other; they meet in the
kernel: a descriptor of one module is read by another, a child shares the
descriptors of its parent, `signal_ignore(SIGCHLD)` changes what `waitpid` and
`spawn` can collect, and a handler installed by `signal_trap` (with
`SA_RESTART`) interrupts every other call.

What is hard. Handlers run between any two instructions. Children end in any
order and their pids are reused. Handles are reused. Several processes work on
one file, and a call is several system calls of which each can fail, after the
first have had their effect. The arithmetic of the bounds tests is on 64 bits,
signed and unsigned. Each hazard is listed in `PROJECT.json` at its line, with
the properties that cover it or the reason why none does.

What makes each part correct:

- a pool: a handle means one resource, to one client, from the call that
  returned it to the call that released it, and nothing leaks (mmap, buffers,
  directories, globs, regexes: the same promise, `HandleTable`);
- accessors: no access leaves the mapping behind its handle;
- signals: none is lost, none is reported twice;
- children: the child asked for is the child collected, and the stored status
  is that child's;
- whole files: what is read is what was there, what is reported written was
  written, appends do not overwrite each other, every error path closes the
  descriptor and reports an error;
- scans (regex, string): the loops compute what their comments say, for empty
  matches and at the ends too.

## 2. The modules

| module | what it is |
|---|---|
| `HandleTable` | abstract specification of a pool of handles |
| `SlotScan` | the scan for the first free slot |
| `MmapPool` | the mmap pool, its accessors, the kernel's mappings, several clients |
| `MmapPool_proofs` | its invariants and its refinement of `HandleTable`, proved |
| `SignalFlags`, `SignalFlags_proofs` | the flags, their handler and the calls that poll them |
| `ChildWait`, `ChildWait_proofs` | children, waiting and the stored status |
| `IoPools`, `IoPools_proofs` | the read buffers and the directory streams of io, several clients |
| `WholeFile`, `WholeFile_proofs` | read_file, write_file and append_file by several processes |
| `Regex`, `Regex_proofs` | the pattern pool with the groups of the last exec, and the loops of replace and count |
| `NetSockets`, `NetSockets_proofs` | stream sockets between processes; tcp_listen and tcp_connect system call by system call |
| `MemBlocks`, `MemBlocks_proofs` | strings in allocated blocks: the calls of mem and string on one heap |
| `MC*` | instances for TLC; a `.cfg` without a module of its name uses the module given in `PROJECT.json` |

A definition whose name has the form `Action_Slip` is a wrong version of the
`Action` after it: a dropped test, a forgotten reset, a loop one too long. No
specification uses it. It is there to see that the property it is paired with
in `PROJECT.json` notices it.

### MmapPool

`mmap_pool` is the static array of lines 325-333, `last_errno` the sticky error.
`mapped`, `size`, `prot` and `bytes` are the kernel's side: regions are address
ranges that can be mapped again once unmapped. `held` is what each client (a part
of the program that uses the pool and does not know of the others) believes it
owns; a client passes the handles it holds and `StrayHandles`, numbers no call
returned. One action is one call: the shim has no lock and the calls are made by one thread. The
bounds tests are written out in the arithmetic of C, with `Half` for 2^63 and
`2 * Half` for 2^64, `IntHalf` for 2^31 and `WordBytes` for 8: `Sum64` wraps where
C leaves the sum undefined and the build wraps, `SizeT` is the cast to `size_t`.

Not in the model: handles whose cast to int falls on a slot (an assumption on
`StrayHandles`), a mapping of a file that is truncated under it, `MAP_FIXED` (the
shim passes a NULL address), the copy of the pool in a forked child.

### SignalFlags

One thread and a handler that interrupts it. `signal_trap` (install, then clear)
and `signal_check` (test, then clear) are two steps each, with `pc` in between, and
`Deliver` can come between any two steps. A signal without a handler kills the
process, or not, as its default is. `owed` and `received` are history: what has
arrived and has not been answered, with and without the arrivals inside trap.

### ChildWait

One thread, blocked or not (`pc`), and children that end when they like. A pid is free
again once its child is collected, so `child` gives each pid a job number and the
history `outcome` and `waited` speak of jobs, not pids. An ignored SIGCHLD makes the
kernel collect children itself, and waitpid then fails in a spawn that is waiting.
A blocked waitpid is not interrupted by a signal since handlers are installed with
`SA_RESTART`.

### IoPools

`buffers` and `dir_handles` are the static arrays of `aria_libc_io.c`. The heap is modelled as far as the
buffers use it: which blocks are allocated, with what size, and what each byte holds; malloc leaves
junk. `delivered` is history: what the last read through a buffer delivered, which is all that may go
out of it. One action is one call. The calls on raw descriptors and on paths change `last_errno` only.

### WholeFile

Processes on one path, one system call per step: open (with truncation), fstat, read
or write, close. Any step can fail, a write can be short, a process can die between
any two. The content is a sequence of the names of its writers. `quiet`, `alone` and
`appended` are history: whose file no one else has changed, which write_file has had
only appends beside it, and what has been appended as long as there was nothing but
appends. Since write_file truncates at its open and writes at offset 0 later, an append
that falls between the two may be overwritten; what write_file reports to have written
stays where it is all the same (`SoleWriteStands`), until another write_file comes. `HasSize = FALSE` stands for files
whose `st_size` is 0 whatever they hold.

### Regex

`regex_pool` is the static array of lines 65-70, with the groups the last exec left in each slot. regexec
is a constant: `Regexec[p][t]` lists the offsets of the first match, and the instance gives it the leftmost
longest match of four small patterns. `call` holds the locals of a replace_first, replace_all or
count_matches: a pass of a loop is a step, and the buffer's capacity is kept beside its contents, so that
a copy past it shows (`overrun`). `examined` and the `cuts` of a call are history: the text of the last
exec, and the matches dealt with. The branch that grows the buffer for one character (lines 244-249) and
the last realloc (262-266) are in the model and never taken: the room computed at each match is enough.
Of a pattern compiled with REG_NOSUB regexec reports no offsets, and replace and count, which do not ask how
it was compiled, go by a local `match` that nothing has set. That is undefined in C; in the build the local
holds whatever the stack left there, the same throughout the call, and regexec never writes to it: `match` is
the variable for it, and a call begins with any of `Leftovers` in it. Offsets that lie in the text lead a
call to some answer, which no property calls right: `AnswerIsExact` is about patterns with offsets, while
`BufferIsNotOverrun` and `LoopsEnd` are about all. Offsets outside the text make the code read or write
where nothing is known; the call is then `strayed`, and the model follows it no further. `BufferIsNotOverrun`
says that only a REG_NOSUB pattern can do that. A handle of no pattern is answered by a copy of the text, or
0 (`NoPattern`), and a replace without memory likewise (`GivesUp`).

### NetSockets

`sockets` is the kernel's side: states, addresses, the queue of a listening socket, the number of bytes
that wait for a reader. `held` is what each process was handed and has not closed. A call of one system
call is one action, tcp_listen and tcp_connect are several, with `call` as their locals and other processes
in between; every system call may fail at any time. A process that sends where nobody reads, or on a
socket it has never connected, dies (SIGPIPE), and the kernel closes what it had. `last_errno` keeps where its
value came from: the shim, a call that failed, a close. `toldEnd` is history: the sockets whose reader was answered an empty string.
Of datagrams, options, polls, addresses, names and conversions only the branch that sets `last_errno` is
there (`DatagramFails` ... `ConversionFails`). The calls of one family share that branch, and so one definition;
`map` names it in the first of them.

### MemBlocks

One heap with the calls of both shims, since string's calls write to the pointers mem hands out. The shim
knows no sizes: `heap` has the size and the bytes, with a guard behind each block. The program passes the
sizes it asked for and takes a block for a string only when results say it is one: that is `text`, with the
string it relies on. A copy_to_n that answers n leaves no zero and so no text; a realloc keeps the text
that fits.
`MemFails` and `StringFails` are the EINVAL and ENOMEM of every call that has one, `MemReads` every call that
only reads.

## 3. What TLC checks

| run | instance | what it shows |
|---|---|---|
| `mmap_pool` | 2 clients, 2 slots, 3 regions, lengths up to 2, int64 of 16 values | handles stay their owner's, no access leaves its mapping, no bytes end up with another client, no mapping leaks; the pool implements `HandleTable` |
| `signal_flags` | 5 signals: ordinary, harmless by default, uncatchable, with the last flag, with no flag | no signal is lost or reported twice; a polling program sees each one |
| `child_wait` | 2 pids, 3 children, exit codes 0 and 127, one fatal signal | the right child is collected, the status stays its, spawn leaves nothing behind, no call blocks for ever |
| `whole_file` | 2 processes, contents of 0 to 2 bytes, a disk full at 3 | no descriptor leaks, errors are told, appends concatenate, undisturbed reads and writes are whole, a write among appends alone stands |
| `io_pools` | 2 clients, 2 buffers of 1 or 2 bytes, 2 directories, 3 blocks and 3 streams, 2 byte values | no access leaves a block, only the owner's last read goes out of a buffer, both pools implement `HandleTable` |
| `regex` | 2 slots of 2 groups, 4 patterns (one with empty matches, one anchored, one with 2 groups, one REG_NOSUB), texts up to 4 letters, replacements of 0 and 3, 4 values of a `match` never set | groups are those of the last exec, the buffer is never overrun, the answer is exact, the loops end |
| `net_sockets` | 2 processes, 3 sockets, 1 address, 1 byte in flight each way | nothing leaks, failures report their own errno, an empty string is the end of the stream |
| `mem_blocks` | 2 blocks of up to 3 bytes, 2 letters | blocks hold the strings the results tell of, nothing behind a block is touched |
| `regex_twice` | as `regex` | a counterexample to lines 203, 241 and 276 of `aria_libc_regex.c`: see below |
| `signal_lost` | as `signal_flags` | a counterexample to lines 77-79 and 104: see below |
| `wait_status` | as `child_wait` | a counterexample to lines 162-164 and 178: see below |
| `proc_file` | one process, a file without a size | a counterexample to line 386 of `aria_libc_io.c`: see below |

Why the bounds are enough. *mmap_pool*: with one region more than slots the pool can be
full while the kernel still maps; two clients and two slots reuse each other's; the
offsets and lengths are the values at which a test changes its answer: -1, 0, the last
byte, the largest int64. The proofs do not depend on the bounds. *signal_flags*: flags do
not interact but through the calls, so one signal of each kind shows what there is;
again the proofs are for any number. *child_wait*: the third child reuses a pid, which is
the case that matters. *whole_file*: two processes are the smallest number that interfere;
two bytes can be cut into one and one, and three do not take two such writes. *io_pools*: a
buffer of one and one of two bytes tell a clamp by the capacity from one by the count; two byte values
tell a stale byte from a fresh one; there is a block and a stream more than slots. *regex*: a third group is one more
than a slot holds; "abba" has text before, between and after matches, and a replacement nearly as long as the
text makes the buffer grow (`Spare` is 1 for the 256 of the code); the leftovers are
offsets in the text, offsets the wrong way round, and ones with the start or the end outside the text. *net_sockets*: a listener and the two ends of a
connection; one byte in flight is the difference between a quiet and an ended stream. *mem_blocks*: three bytes hold a
string, its zero and a stale byte behind it.

Fairness. *signal_flags*: `Polling` is the program of lines 77-79, one that goes on polling:
the steps of a call are weakly fair (a call that has begun is carried on) and a check is
strongly fair in each signal, since the flag may be tested between other calls without end.
*child_wait*: children end, and the kernel wakes a waitpid whose child has ended or that
has none. *regex*: a pass of a loop is weakly fair, since nothing in it waits. The other runs
check safety only.

`CHECK_DEADLOCK FALSE` where the program may really stop: killed by a signal or a protection
fault, or by exit.

### Disagreements between code and comments

- `signal_trap` clears the flag after it has installed the handler (lines 99-100). A signal in
  between is caught and forgotten, where line 104 has check tell "if signum was received".
  What does hold, and is proved, is `NoSignalLost`: signals after trap returned are kept.
- `waitpid` stores the status of a WNOHANG poll that found the child running (line 171), which is
  0: `wait_exited` answers 1. Lines 163-164 and 178 promise the status of a waited child.
- `read_file` reads `st_size` bytes (line 402): files under `/proc` come out empty, without an
  error, where line 386 promises the entire file.
- `count_matches` and `replace_all` look for an empty match at the start of the rest only (lines 242 and
  287): one found after some text moves the cursor to itself and is found again. `$` on "abba" counts 2, and
  replacing it by "!" gives "abba!!" (a C program that calls the shim shows the same), where line 276
  promises the number of non-overlapping matches. Since the rest is matched without REG_NOTBOL, `^a` also
  matches anew after each match. What does hold, and is proved, is `AnswerIsExact`: disjoint matches in
  order, one replacement each, all text between them kept.

## 4. What is proved

All proofs are checked by tlapm to the last leaf, for every value of the constants that meets the
named assumptions of the module (pool sizes, integer widths, sets of clients, signals, pids).

Each component with state has an inductive invariant `IInv` in its module (for *SignalFlags* the
properties themselves), and a `_proofs` module with `Init => IInv`, one lemma per action for
`IInv /\ [Next]_vars => IInv'`, and the theorems that follow from it. TLC checked each `IInv` on the
component's instance before it was proved. The pools share the lemma `FirstOfIsLeast`: a scan of a
non-empty set of slots stops at its least one, since `<` on the naturals is well-founded.

*MmapPool.* `IInv` is inductive (`InductiveInvariant`). The properties alone are not: that a handle's slot
names a live mapping of the right length is only preserved by munmap and mmap when all slots are
distinct in what they name and everything mapped is accounted for (`PoolMatchesKernel`), since
otherwise unmapping one slot could unmap the region of another, and the kernel could map what a slot
still names. From it follow `TypeCorrect`, `HandlesStayOwn`, `AccessesStayInside`,
`BytesStayTheOwners`, `MappingsAccounted`, and `ImplementsTable`: the step of each call is a step of
`HandleTable` or a stutter. The bounds tests have lemmas of their own, one per accessor; they use
`WidthAssumption`: a mapping is shorter than 2^63, and so is a word.

*SignalFlags.* `TypeOK`, `NoSignalLost` and `EveryReportIsOwed` are inductive together; the middle one needs
that a call in progress holds a flag's number and that trap has installed its handler.

*ChildWait.* `IInv` adds that pids stand for distinct, started jobs, none of them the one collected last
(`JobsAreDistinct`), and that a blocked call still means the child it was made for
(`CallMeansItsChild`): nobody else can collect it, so its pid cannot be reused. From it `TypeCorrect`,
`StatusStaysTheCollected`, `SpawnCleansUp`, and the action property `CollectsTheRightChild`.

*Regex.* For any patterns, texts and replacements, and any regexec that reports its matches inside the text
it is given (`RegexecAssumption`). That no copy of replace_all passes the buffer is not inductive by itself:
`IInv` adds that a buffer in use always has room for the rest of the text and a NUL (`RoomIsLeft`). A pass
computes the room for what it copies and all that follows, so it restores the bound, also when an empty
match copies one character more, which it takes from that rest. The proof shows on the way that the second
growth (lines 244-249) is never needed. `GroupsAreStored` ties each slot's groups to the text of its last
exec. From `InductiveInvariant` follow `TypeCorrect`, `BufferStaysWithin` and `GroupsStayFresh`. The calls
leave the pool alone and the pool's steps the call, so each part of `IInv` (`CallInv`, `AnswerInv`,
`PoolInv`) is preserved by lemmas of its own.

That an answer is exact (`AnswersAreExact`) is stated without a recursive definition of the answer: `IsReplaced`
says where each character outside the matches and each replacement stands in the buffer, by counting (`Kept`,
`Before`, cardinalities) what comes before it, and how long the buffer is. The induction over the matches is then
the one over the steps of the loop: `AnswerSoFar` says the same of the text up to the cursor, and a pass keeps it
by two lemmas, `TextCopied` (characters behind the matches) and `ReplacementCopied` (one match more). Of REG_NOSUB
patterns no answer is claimed, but their calls keep within the buffer too: the proof of that asks only that the offsets lie in the
rest of the text (`Inside`), wherever they come from. That the loops
leave no match out holds of patterns without anchors and empty matches, by `SimpleAssumption`: what regexec finds
does not start behind a part of the text that itself has a match, and a loop that stands at the end of a match finds
what lies between it and the next (`NothingBetween`). For other patterns it is false: see `regex_twice`.

*IoPools.* For any clients, slots, heap blocks, streams, byte values and capacities. That a handle's slot is
active (`HandlesAreOwn`) and that no copy leaves its block need that active slots and allocated blocks
correspond one to one, each slot with the capacity its block was allocated with and a count within it
(`SlotsMatchHeap`): freeing one slot's block would otherwise free another's. The same correspondence of used slots
and open streams is `SlotsMatchStreams`. That only the last read's bytes go out needs that the first `used` bytes of the
block are those the last read delivered; a read that fails sets `used` to 0.
The two pools share only `last_errno`, so the invariant is proved in two halves. From `InductiveInvariant`
follow `TypeCorrect`, `HandlesStayOwn`, `BuffersStayInside`, `OnlyReadBytesGoOut`, and the refinements
`BuffersImplement` and `DirsImplement`: every call of a pool is a step of its `HandleTable` or a stutter, and the other
pool's calls are stutters.

*WholeFile.* For any processes, contents, disk size and bound on one transfer. The hypotheses "undisturbed" and "only
appends" are about the past; `CallsAgree` turns them into facts of the state: a quiet reader past fstat knows the file's
size and, past read, its bytes; a quiet writer past open finds the file empty and, past write, its own bytes in it; a writer
with only appends beside it finds, past write, its bytes at the start of the file; while
the history has only appends no write_file is under way. With it the invariant is
inductive, and `EveryPathCloses`, `FailuresLeaveAnError`, `AppendsAreNotLost` and the action properties
`UndisturbedWritesAreExact`, `WritesStandAmongAppends` and `UndisturbedReadsAreWhole` follow. The last one assumes `HasSize`, that st_size is the length of
the file: without it the theorem is false, which is what the run `proc_file` shows.

*NetSockets.* For any processes, sockets, addresses and channel capacities. `SocketIsSound` says that peers point at each
other and that what is queued is queued on a listener; `OwnersAgree` that every socket that is open and not queued belongs
to exactly one process or call; `CallIsSound` that a call in progress holds a socket exactly in the steps that need
one, an address list only where it is still to be freed, and, while it closes the socket of a failure, that failure's
errno. None of the three is inductive alone: close could free the socket of another's call without `OwnersAgree`, and a
step of tcp_connect could work on a closed socket without `CallIsSound`. From `InductiveInvariant` follow `TypeCorrect`,
`NothingIsLeaked`, `EmptyIsTheEnd` and the action property `ErrnoSurvivesClose`.

*MemBlocks.* For any blocks, sizes and letters. `StringsAreKept` speaks of read_string and strlen, which scan; its
inductive form is about single cells (`IsBlock`, `HoldsText`): the cells inside a block are bytes and those behind it
are untouched, and a known text is in the first cells letter by letter with a zero behind. It is about one block at a
time, and the proof shows that each call makes sound blocks of sound ones. That the scans then stop at the end of the
text follows since no letter is a zero (`StrLenIsTheTexts`, `ReadStringIsTheText`). From `InductiveInvariant` follow
`TypeCorrect` and `StringsStay`.

What the theorems assume is named in the modules and evaluated by TLC: sizes are positive, null values are not
members of the sets they stand apart from, and what the section of a module above says of its kernel or library.

Only model-checked: liveness (`EventuallyReported`, `BlockedCallsReturn`, `LoopsEnd`), which the provers
do not reach, and of course the instances of the four counterexamples. Every other property of a passing run is a theorem.

## 5. What is not modelled

- Threads: the shim has no locks and its statics are shared, so it is for one thread, and the models
  take it so. The copy fork makes of the shim's state. Stop and continue signals. Other processes that
  unmap or truncate.
- Pipes and descriptors of posix, and fs: one system call each around one static pair, one static path and
  a pool of globs; what a model would hold is the kernel's. Their hazards are listed all the same.
- In net: what datagrams, options, poll and address calls answer (their failures are there), O_NONBLOCK as
  a flag (a call that would block may fail instead), descriptors shared by fork or dup, more than the first
  address of a host.
- In mem and string: write_int64, which stores eight bytes at once; pointers that are not a block's; the
  pure functions (comparison, search, case, substring), which are libc's.
- math, time, process: no state of their own but an errno; floating point and formatting.
- The pure-Aria io and stat: the calls of `WholeFile` over raw system calls, by `sys`, a primitive of the
  Aria compiler whose behaviour on errors is not in the repository.

## 6. Plan

1. done: `HandleTable`, `SlotScan`, `MmapPool`, `SignalFlags`, `ChildWait`, `Regex`, `WholeFile`, `IoPools`,
   `NetSockets`, `MemBlocks`, with proofs of all their safety properties.
2. `FsHandles`: the glob pool, whose failing globs leave their lists behind.
3. `Supervisor`: SIGCHLD's flag (`SignalFlags`) with `ChildWait`: a program that polls the flag and
   collects with WNOHANG misses no child.
