# Verification of exwp

exwp is a wallpaper daemon for Wayland, `ewd`, with a command-line client,
`ewctl`, and the program that builds both, `make.c` with its library `cbs.h`.
This directory holds TLA+ models of all of them, the TLC configurations that
check the models on small instances, and proofs checked by TLAPS.  Paths and
line numbers are those of the repository (`main.c` is `src/ewd/main.c`, `da.h`
is `src/ewd/da.h`, unless `ewctl` is named).

## 1. The system

| component | state | operations | interacts with |
|---|---|---|---|
| table of outputs (`da.h`, `outputs` in `main.c`) | a block of `struct output`, its length and capacity | `da_append`, `da_remove`, `da_foreach` | every listener of an output holds a pointer *into* the block |
| registry handling (`reg_add`, `reg_del`) | the bound services `comp`, `shm`, `lshell`; the table | bind a service, bind and append an output, release and remove an output | called back from `wl_display_dispatch` |
| surfaces and listeners (`surf_create`, `out_layer_free`, `ls_conf`, `ls_close`, `out_mode`, `out_name`) | an output's surface, layer surface, name, size, `safe_to_draw` | create, acknowledge a size, free; record mode and name | called back, with the pointer given to `add_listener` |
| pixel buffers (`mkbuf`, `draw`, `buf_free`) | an output's latest mapping and `wl_buffer` | allocate and scale into, attach and commit; destroy and unmap when the compositor releases one | called for messages; called back on release |
| client messages (`main`, 232-306) | the message in hand | accept, receive, map the image, walk over the outputs | `ewctl` and other clients of the socket |
| start and end (`main`, `cleanup`) | signals, socket, connection | two roundtrips, bind the socket, event loop, `atexit` cleanup | compositor, other daemons |
| scaling (`scale.c`) | none | one call of pixman | `mkbuf` |
| layer shell bindings (`wlr-layer-shell-unstable-v1.h`, `.c`) | the requests and events on the wire | marshal a request by opcode and version; dispatch `configure` and `closed` | `main.c` on one end, the compositor on the other |
| socket path (`common.c`) | the path, computed once | `ewd_sock_path` | daemon and client |
| `ewctl` | the encoded and the decoded image | read, decode (JPEG XL), swap channels, send | the daemon's socket |
| build program (`make.c`) | what is left to do; the dates of files | rebuild itself, clean, install, compile, link | child processes, the user's editor |
| `cbs.h`: files, processes, commands | a `cmd_t` with its array; a pipe | add, clear, show, execute, wait; compare dates; ask `pkg-config` | `make.c` |
| `cbs.h`: thread pool | a list of jobs, a mutex, a condition variable, `_stop` | `tpinit`, `tpenq`, `tpwait`, `tpfree`, the threads' `_tpwork` | nobody yet: `make.c` does not define `CBS_PTHREAD` |

The daemon has one thread.  What makes it hard is not parallelism inside it but
the order in which two independent parties reach it: the compositor, whose
events change the table and its objects, and the clients, whose messages are
applied to whatever the table is at that moment.  On top of that, listeners
remember *addresses* in an array whose items move, and requests and events cross
on the wire.  The thread pool has real parallelism; the build has parallel
processes, a pipe between them, and a user who edits and interrupts.

What makes each part correct:

- **table** - it holds every bound output exactly once; a listener's pointer
  leads to the output it was registered for; growth and removal keep both.
- **registry** - an output that has been removed leaves; one that has been
  added is served; a missing or old service ends the start in an orderly way.
- **surfaces** - each belongs to one output, none is lost or freed twice, none
  is drawn on before it has been configured.
- **buffers** - a buffer and its memory live exactly as long as the compositor
  uses them, and the memory comes back in the end.
- **messages** - an image reaches all displays that are named, and no others.
- **start** - it ends, and then the names and sizes of the displays are known.
- **layer shell** - no request breaks the protocol, every configure event is
  answered, both ends agree in the end.
- **a picture** - it is read whole, converted before anybody sees it, and read
  only where it is mapped.
- **build** - what a successful run leaves is current; nothing is made twice; it
  ends.
- **commands and queries** - `execvp` finds its NULL, what is shown can be given
  to a shell, an answer is taken whole, nobody waits for a pipe for ever.
- **thread pool** - jobs run once and in order, no wakeup is lost, nothing is
  left behind.

`PROJECT.json` lists the hazards of the code line by line and the properties
that would catch each.

## 2. The modules

```
DynArray         da.h: growth, append, removal on a block of slots
  Ewd            main.c: state and every handler of the daemon
    Wayland      the compositor, Init, Next, fairness, Spec, FairSpec
      EwdProperties   type invariant, safety, action and liveness properties;
                      Promise == INSTANCE Wallpaper WITH ...
        MCEwd         values for TLC
        EwdProofs     types; the table and its growth; surfaces, listeners, images
          EwdFaultProofs    removal, the start, buffers, messages, faults
            WallpaperProofs   the refinement of Wallpaper
Wallpaper        what the daemon promises: displays, images, orders
LayerShell       the bindings, the handlers that use them, the compositor's checks
  LayerProperties
    MCLayer
    LayerProofs       types, errors, agreement
Session          several daemons and clients around the socket; ewctl
  SessionProperties   what is to hold of them
    MCSession         values for TLC
Picture          what happens to the pixels, from the file to the screen
  PictureProperties
PictureSession   composes Session and Picture: when the pixels change
  MCPicture         values for TLC
  SessionProofs     types, the socket, crashes, serving; the picture
JobPool          what a thread pool promises: jobs, without threads
ThreadPool       cbs.h: the threads, the list, the mutex, the condition variable
  PoolProperties      with Pool == INSTANCE JobPool WITH ...
    MCPool
    PoolProofs        safety, and the refinement
Build            make.c and the part of cbs.h that compares dates and runs children
  BuildProperties
    BuildProofs       types, dates, what a successful run leaves; answers of Query
Command          cbs.h: command lines, stored and shown
  CommandProperties
    CommandProofs     the room for the NULL; reading back what is shown
Query            cbs.h: pcquery, a child and the pipe to it
  QueryProperties
    MCBuild      composes Build, Command and Query
```

`Ewd` and `Session` meet where a message is handed over: `Session` follows a message
from `ewctl` to the end of `recvmsg` and `readv` (`Receive`), and knows nothing
of outputs; `Ewd` starts with a message that has arrived (`Accept`), and knows
one daemon and no clients.

**DynArray.**  The block is a function from slots to contents.  Slots past
`len` keep what was last written to them, because the daemon's stale pointers
may still read and write there.  `Removed` is the `memmove`: `Grown` the
capacity after an append.

**Ewd.**  One action per handler, named as in the code where there is a name.

| code | state and actions |
|---|---|
| `outputs.buf`, `.len`, `.cap` | `buf`, `len`, `cap`; `gen` counts how often `realloc` has moved the block |
| `struct output` | `Output`; `surf` stands for `surf` and `layer`, which are set and cleared together, `dim` for `dw`, `dh`; `iw`, `ih` are written and never read, and are left out |
| a listener's `data` | `Pointer`: a slot of the block after `gen` moves, kept with the proxy in `wlout`, `surf` and `pix` |
| `wl_output`, surface with layer surface, mapping with `wl_buffer` | entries of `wlout`, `surf`, `pix`, numbered in order of creation; `mapped` is the set of mappings |
| `reg_add` | `BindService`, `BindOutput`, `GrowFails`, `TooOld` |
| `reg_del` | `reg_del`, `reg_del_unknown` |
| `out_mode`, `out_name`, `ls_conf`, `ls_close`, `buf_free` | actions of the same names |
| `wl_display_dispatch` | `Take`, `Deliver`; `Discard` for the event of a destroyed proxy, `Dangle` for a pointer into a freed block |
| the message branch of the loop | `Accept`, `map_source`, then one of `Skip`, `Unnamed`, `mkbuf_fails`, `draw` per output, `apply_done` |
| `main` before the loop, `cleanup` | `Roundtrip1`, `Missing`, `Roundtrip2`; `Terminate`, `ProtocolError`, each with the `Cleanup` that `exit` runs (`CleanupAfter`) |

A step that C leaves undefined (a NULL or freed proxy, a NULL name, a pointer
into a freed block) records what happened in `faults` and stops the daemon in
`pc = "dead"`.  The exceptions are what the machine does define: a stale slot of
the *same* block is ordinary memory, and the model reads and writes it.

**Wayland.**  The compositor is not part of the repository.  It is modelled
from what `main.c` listens to: it advertises globals, describes outputs, sends
sizes, closes surfaces, releases buffers, answers a sync after it has described
the outputs bound before, and falls silent after a protocol error.  The
constant `Behaviours` switches its awkward habits on and off
(`hotplug`, `unplug`, `close`, `resize`, `any_order`, `deficient`,
`late_info`, `late_configure`, `late_release`) and those of the machine
(`oom`: a system call or an allocation fails).  Properties say which of them
they need to exclude, so that each run shows *what it takes* for something to
go wrong, and not only that something can.

**Wallpaper.**  What a user of the daemon may rely on, without table, slots,
surfaces or buffers: the displays that are there, what each shows, the order in
hand, and the displays on which it is still to be carried out.  Three constants
name what may go wrong: the daemon breaks down (`Fragile`), gives an order up
(`Forgetful`), or a display cannot show anything any more (`Shaky`).
`EwdProperties` maps the daemon and its compositor to it:

| `Wallpaper` | in `Ewd` and `Wayland` |
|---|---|
| `phase` | `pc`: both roundtrips are the start, the loop with its message branch is serving; `"broken"` is a dead daemon, one with faults, and one whose table an output has left |
| `there` | the outputs with a live `wl_output`, from the bind in `reg_add` on |
| `shown` | the image of the buffer last attached to the output's surface |
| `dark` | outputs without a surface, or with one the compositor has closed |
| `order` | `msg` while the loop walks over the outputs: `map_source` begins it, `apply_done` ends it |
| `todo` | the outputs at `idx` and behind it that the message names |

`Skip` and `draw` are `Show` for an output that is named and a stutter for another;
`Unnamed` and `mkbuf_fails` are `GiveUp` or `Break`; `ls_close` and an event
`closed` on its way are `Darken`; `reg_add` is `Appear`; the end is `Quit` or
`Break`.  Growing, configuring, naming, releasing and everything on the wire
stutter.  `MayBreak`, `MayGiveUp` and `MayLose` give the three constants their
values: which `Behaviours` it takes.  With an output leaving the table the
mapping ends in `"broken"`, because from then on pointers into the table may lead
to the wrong display (see `EwdStale`); what remains true then is `RightDisplay`,
`ListenersInPlace`, `TableOK` and `NoOrphans`.

**Session.**  Any number of runs of `ewd` and `ewctl` on one machine, each with
its own environment.

| code | state and actions |
|---|---|
| `main`, up to the loop | `dpc` = `connect`, `bind`, `listen`, `fork`, and the actions `Connect`, `Bind`, `Listen`, `Fork`; `launched` holds the daemons whose command has returned |
| the loop (213-308) | `poll` and `recv`: `Leave`, `Dispatch`, `Accept` in the order of the `if`s, `Receive` |
| `recvmsg` returning 0 | `ReceiveNothing`: `CMSG_FIRSTHDR` is NULL, and its data is read |
| the end | `CloseAll`, `cleanup` with `Unlinked` (`sock_bound`) |
| `ewd_sock_path` | the operator of that name, over directories that are set, empty, unset, relative or too long for `sun_path` |
| `jxl_decode` | `NeedBuffer`, `FullImage`, `BadImage`; with `-c` nothing is decoded (`ClearImage`) |
| `socket`, `connect`, `srv_msg` | `Connected`, `Refused`, `Unconnected`, `srv_msg`, which sends or fails; a client whose call has failed is at `error` |
| the file system, the kernel's backlog, signals | `node`, `backlog`, `Signal` (SIGINT, SIGQUIT), `Kill` and `Interrupt` (the others) |

`ewctl` sends 16 bytes, its display name and one descriptor in a single
`sendmsg`, which arrives whole, so a message is one step.  Two facts about
`daemon()` matter: the child does not inherit signals that were pending for its
parent, and it works in `/`, where a relative path computed before leads
elsewhere.  `malloc` failing while a message is received is left out.  The
variable the code reads is `EWD_SOCK_PATH` (common.c:48); the `EWD_SOCK_DIR` of
ewd.1:16 is not read anywhere.

**Picture.**  The pixels of one client's picture, each named by its column and
row.  `PictureSession` runs it in step with `Session`, which decides *when*: the file
is read before it is decoded, the picture appears with the decoder's last
status, `abgr2argb` runs between `connect` and `sendmsg`, and the daemon draws
in the step that receives the message.

| code | state and actions |
|---|---|
| `process` | one action per `read`; `len`, `eof` |
| `jxl_decode` | `pix`, the dimensions |
| `abgr2argb` | one action per pixel; `swapped`.  The memory is shared, so ewd would see the rest of the work |
| `mmap` of `w * h * sizeof(xrgb)` | `Mapping`: the product `w * h` has `Word` values, the one with `sizeof` does not wrap |
| `scale` | the operator `scale`: which pixel of the picture is at which place of the screen, after the transformation by `s` *and* the offset `s` that scale.c:28 passes.  The middle of a pixel stands for pixman's filter |

**LayerShell.**  The bindings translate calls into opcodes, the table in the `.c`
file translates opcodes back, and both are in the model: a request travels as
opcode, version of its object and argument.  `surf_create`, `out_layer_free`,
`ls_conf`, `ls_close`, `draw`, `reg_add`, `reg_del` and `cleanup` are modelled by
the requests they make.  The compositor executes requests in order and checks
what the header's comments say it checks (`Fault`).  An output here has its own
surface: pointers that have gone astray are `Ewd`'s subject.
`wl_display_disconnect` sends what fits and does not wait, so of the requests of
`cleanup` any beginning may be executed.

**ThreadPool** and **JobPool.**  What happens under the mutex is one step, except
for `_stop`, which `tpfree` sets without it.  `pthread_cond_signal` wakes *any*
sleeper: threads of the pool and users in `tpwait` sleep on the same variable.

| code | state and actions |
|---|---|
| `_tpwork` | `Top`, `Lock`, `Test`, `Sleep`, `Quit`, `Take`, `Run`, `Release`, `Finish` |
| `tpinit`, `tpenq`, `tpwait`, `tpfree` | `tpinit`; `tpenq` with `Signal`; `tpwait`, `tpwait_sleeps`, `tpwait_returns`; `tpfree`, `tpfree_wakes`, `tpfree_joins`, `tpfree_drains`, `tpfree_returns` |
| `_head`, `_tail`, `_next` | `head`, `tail`, `next`, over numbers of jobs; `live` are those not freed |

`JobPool` is the specification in the comments of cbs.h (261-312): jobs are
started in the order they came, `tpwait` answers when all are done, and what is
left is dropped after the pool has been given up.  `PoolProperties` maps a
`ThreadPool` to it.

**Build.**  Contents of files are not modelled.  In their place `stale[t]` says
what has been written since it was read for target `t`, and `hidden[t]` which of
that the dates cannot show: written in the same tick of the clock, or while the
child was at work.  `make.c` sees `mtime` only.  A child
that was killed may leave half of its file (`Left`, `Tear`); `torn` are these
files.  Half a file has a recent date, so `make` takes it for current until
something it is made of changes, or `clean` removes it.

| code | state and actions |
|---|---|
| `fmdcmp`, `foutdatedv` | operators of the same names; `Narrow` is the return of a `long` as an `int` |
| `_rebuild` | `Rebuild`; a fresh `make` starts over |
| `main` | `Start`, `Begin`, `Clean`, `Install`, `_mkoutpath`, `NextDir`, `Exit` |
| `build_common`, `build_ewctl`, `build_ewd` | `Cflags`, `Compile`, `Libs`, `Link`, for the directory at the head of `dirs` |
| `cmdexec`, `cmdwait`, `cmdprc` | `Spawn`; `Succeeds`, `Fails` (with `-k`, on it goes) |
| the user | `Edit` at any moment, `Bootstrap`, `Kill` |

**Command.**  `cmdaddv` and `cmdclr` by lengths and capacities; `cmdput` by
characters, because what it does is a matter of characters.  `_next_powerof2`
works on words of limited size, with `|` and `&` as recursive functions on
numbers.  Its loop counts `i` to `sizeof(size_t)`, in bytes, so that it shifts by 1,
2 and 4 and no further; `Spread` is one turn of it, left out where `SizeofSize`
ends the loop before.  Above 256 the result need not be a power of two.

**Query.**  `pcquery` asks about one library after the other: `cmdexecb` makes the
pipe and forks, the parent closes its writing end and reads to the end of the
file, `cmdwait` collects the child, `wordexp` splits the answer.  `errno` is a
variable, because the decision at cbs.h:718 reads whatever has set it last:
the comment at cbs.h:249 promises false when pkg-config is not found, but that is
only so when an earlier call of the *parent* (here the search of PATH in
`binexists`) has left ENOENT there.

A definition whose name ends in `_Something` after the name of another
(`Removed_After`, `Roundtrip1_Only`) is that definition with a mistake a
programmer could make.  No action uses it; it serves to confirm that a property
would notice.

## 3. Properties

| property | says |
|---|---|
| `TypeOK` | types and bounds of all variables |
| `TableOK` | the table holds the live `wl_output`s, each exactly once |
| `SurfacesOwned` | an output's surface was made for it, and every living surface is some output's |
| `ListenersInPlace` | below the lowest slot ever vacated, and until the block moves, listeners lead to their own output and have stored only its data there |
| `NoOrphans` | without early `closed` events, an output whose removal has been handled is out of the table |
| `BuffersLiveInUse` | while the daemon runs, without unplugging, with punctual releases and calls that succeed, a buffer and its mapping live exactly while the compositor uses the buffer |
| `GrowthFaults` | no pointer into a freed block without more outputs than `da_init` makes room for |
| `FaultCause` | for each other kind of crash, what is necessary for it: an output that is no longer at the slot its listeners point to (`Moved`), one that has been removed (`Left`), or the habits of the compositor and the machine |
| `RightDisplay` | an image is attached to a surface of a display the client named |
| `Applied` | a message that is done with is on every display it named, at the display's size |
| `KnownWhenServing` | after the two roundtrips, names and sizes of the displays present at the start are known |
| `WallpaperKept` | the daemon implements `Wallpaper`: an order is carried out on each display it names, once, and on no other, and is finished before the daemon ends; what a display shows changes by an order alone |
| `WallpaperGoesOn`, `MemoryReturns` | the start ends, and so does every order; mapped memory is given back |

Of `Session`:

| property | says |
|---|---|
| `TypeOK` | types; a running daemon has a connection open exactly while it serves one |
| `OwnSocket` | the socket at a running daemon's path is its own, whoever else starts or fails |
| `SocketLeft` | only a daemon that was killed, crashed, or lost its relative path leaves a socket behind |
| `CrashCause` | a daemon crashes only on a client that has connected to it and ended before it sent: it was killed, or a call of its own failed |
| `LaunchedReachable` | no client is refused after the command `ewd` has returned, while that daemon is in its loop |
| `Delivered` | a message sent is received, unless its daemon ends or is told to stop |
| `SignalEnds` | SIGINT and SIGQUIT end a daemon in its loop |

Of a picture, of the layer shell, of the pool and of the build:

| property | says |
|---|---|
| `PictureRight` | the whole file is decoded (`DecodedWhole`); pixels are read only where memory is mapped, for fewer than `Word` pixels, and only after they were converted (`SeenInOrder`); a picture smaller than the screen is seen whole, one as large loses its first row and column (`SeenWhole`) |
| `TypeOK` (`LayerShell`) | types; no request or event names a wallpaper that was never made |
| `ErrorCause` | the protocol is broken in two ways only: drawing before the first configure event is acknowledged, and `zwlr_layer_shell_v1_destroy`, a request of version 3, at the end of a daemon that bound version 2 |
| `InSync` | with nothing on the wire, the compositor has a wallpaper exactly for the outputs that have one, as background, anchored to all edges, and `safe_to_draw` tells whether it has been configured |
| `Attended` | every configure event is answered, and every wallpaper gets ready to be drawn on |
| `TypeOK` (`ThreadPool`) | types |
| `PoolSafe` | the list is whole and none of it freed, no job runs twice, no argument is freed twice or before its job has run, and after `tpfree` nothing is left |
| `WakeupsKept` | a job in the list has a thread that is awake to see it; after the broadcast of `tpfree` none sleeps |
| `PoolKept` | `ThreadPool` implements `JobPool` |
| `NothingHangs` | jobs are run, `tpwait` and `tpfree` return |
| `SuccessCurrent` | after a build without `-k` that ends well, no object of a part it was asked for, those of `src/common` included, is older than its source and listed headers were when it began, and no program is older than an object; whatever interrupted or failed runs have left.  Three exceptions, see below |
| `NothingTwice` | nothing is made again without a change of something it is compared with |
| `MakeEnds` | a run ends |
| `ArgvRoom` | there is room for the NULL behind the arguments |
| `EchoReadable` | a shell reads from the line shown the words that are executed; empty words excepted |
| `AnswerWhole` | the words of a whole answer are added, or none |
| `QueryEnds` | a question ends, also if nobody kills the child, and leaves no child behind unless `make` gives up |

`ListenersInPlace` and `RightDisplay` carry the condition `Settled`: it
describes exactly where the code's pointers into the array remain right.  They
do not hold without it, and `CloseStaysLocal` (below) exhibits why.

`SuccessCurrent` says what the code does, and that is less than one may expect of
a build that reports success:

- `Common`: the objects of `src/common` are linked (make.c:239, 311), but a
  program is not compared with them (make.c:232, 304).  After a change of
  `common.c` alone, its object is made again and both programs keep the old
  one, until an object of their own is newer.  The property names exactly this
  case; without the exception TLC refutes it.
- `Unseen`: a change in the tick in which the target was written, or while it
  was being made; and half a file that a killed process has left.
- `since`: what is changed during the run.

Headers that `make.c` does not list, and another `-d`, are not in the model.

## 4. Runs

All end within four minutes with two workers.  `MaxSlots` and `MaxSurfs` equal
the number of outputs, which are never reused (the registry never reuses a name
either), so neither bound cuts a behaviour off.  `MaxBufs` limits the number of
images drawn, `MaxQueue` the events in flight when the compositor adds one
unasked; replies are not limited.

| run | instance | shows |
|---|---|---|
| `EwdCalm` | 2 outputs, one plugged in later, 2 sizes, 2 buffers, queue 2, capacity 2, fair | `BuffersLiveInUse`, `GrowthFaults`, `FaultCause`, `Applied`, `KnownWhenServing`, `WallpaperKept`, `WallpaperGoesOn`, `MemoryReturns`: with nothing but late displays, changing sizes and missing services nothing goes wrong: here the daemon neither breaks down, nor gives up, nor loses a display |
| `EwdUnplug` | 3 outputs come, go and change their size, 2 buffers | `ListenersInPlace`, `NoOrphans`, `FaultCause`, `RightDisplay` |
| `EwdClose` | 3 outputs come and go, surfaces closed, no messages | `TypeOK`, `TableOK`, `SurfacesOwned` |
| `EwdLate` | a compositor late in every way | `FaultCause`: only `null_name`, `freed_buffer`, `protocol` and what follows from them |
| `EwdStart` | 3 outputs before services, services missing, closing, failing calls, capacity 1 | `FaultCause` for these, while the block grows, moves, or fails to |
| `SessionDaemons` | 2 daemons, 1 client, 3 environments for each, kills, failing calls, bad images | `TypeOK`, `OwnSocket`, `SocketLeft`, `CrashCause`, `LaunchedReachable` |
| `SessionFair` | 1 daemon, 2 clients, backlog 1, one of the clients with a picture (5 sizes, 3 screens, words of 16 values), fair | `Delivered`, `SignalEnds`, `PictureRight` |
| `LayerShell` | 1 output, 2 wallpapers one after the other, 2 sizes, compositors that offer version 1 or 4, 1 repeated configure event, fair | `TypeOK`, `ErrorCause`, `InSync`, `Attended` |
| `Pool` | 2 threads, 2 users, 3 jobs, 1 spurious wakeup, fair | `TypeOK`, `PoolSafe`, `WakeupsKept`, `PoolKept`, `NothingHangs` |
| `Build` | a source per directory, 2 headers, 2 runs, 1 edit, 1 mishap; commands of up to 600 arguments, commands of two words of up to 2 of 5 characters; 2 questions, a pipe of 2 characters, blocks of 3 | `SuccessCurrent`, `NothingTwice`, `MakeEnds`; `ArgvRoom`, `EchoReadable`; `AnswerWhole`, `QueryEnds` |

Two daemons are needed for one to find the path taken, and the proofs cover
more; two clients and a backlog of one for a client to wait behind another at
`accept` and at `connect`.  Real backlogs are longer, which only makes clients
wait less.  `MaxWakeups` bounds the events of the compositor: see Fairness.

Three outputs are needed for `da_remove` to move an output over a vacated slot
and leave one in place below; two outputs for a message to meet one display that
is ready and one that is not; two buffers of one output for `buf_free` to take
the wrong one; a capacity of 1 and three outputs for two growths.

In `SessionFair` a word counts to 16, so that a picture of 4 by 4 has exactly as
many pixels as wrap to 0, and one of 5 by 4 more; the others are smaller than,
as large as and larger than the screens, in one direction or both.  The file has
three bytes and blocks two: one read is full, one is short, one is empty.

In `LayerShell` a second wallpaper of the output is made after the first was
closed or the output left, while requests and events of the first are still under way; `MaxReqs` holds back
`draw` alone.  Several outputs share nothing on the wire but its order.

In `Pool` two threads and two users can all sleep at once, and a signal can go to
the wrong one; three jobs make the list empty, shorter and longer than one, and
leave jobs over when `tpfree` comes.

In `Build` a second run follows one that was interrupted, failed, or went well,
and the edit may come before, during and between them, in the same tick or a
later one.  The run joins three models that share no state: a behaviour takes up
one of them at its first step (`Use`, `Try`, `Ask` in `MCBuild`), so their states
add up and do not multiply.  More than 256 arguments are where `_next_powerof2`
with its three shifts falls short of a power of two; the
pipe holds less than an answer, so that the child waits for the reader.

Deadlock is not checked: the daemon exits, or has crashed, and then nothing
happens any more; `WallpaperGoesOn` and `MemoryReturns` say that it does not stop
earlier.

Two runs end in a violation, each of a sentence of the documentation:

| run | sentence | what happens |
|---|---|---|
| `EwdClear` | ewd.7: a width times height of 0 clears the display | `mmap` refuses the length 0 (main.c:276), the `clear` branch at 286 is never reached |
| `EwdStale` | main.c:517: "Don't trust 'output' to be valid" | `ls_close` reads through the pointer; after `da_remove` it is another output's slot, and that output loses its surface |

That `draw` does not look at `safe_to_draw` (main.c:402) is stated by `FaultCause`
and `ErrorCause`, which say when it matters.

### Fairness

The `FairSpec` of `Wayland` is used by `EwdCalm` only.

- `WF(Dispatch)`: the loop polls, and dispatches whenever the compositor's
  descriptor is readable; the roundtrips do nothing else.
- `WF(pc # "loop" /\ Serve)`: a message that has been accepted is carried
  through; the code does not return to `poll` in between.  No fairness is
  assumed for accepting a message.
- `SF(Describe)`, `SF(SyncReply)`, `SF(Release)`: the compositor answers.  It is
  strong fairness because the model lets the compositor act only between two
  steps of the daemon's dispatching, whereas the real one acts in parallel and
  is not held up.

The `FairSpec` of `Session`, which `FairPictureSpec` in `PictureSession` repeats for
the composed steps, has `WF(DaemonSteps(d))` and `WF(ClientSteps(c))`: these are processes the
kernel schedules.  It assumes two
things the code does not provide for: that the compositor pauses (`MaxWakeups`;
the socket is only looked at when no Wayland event is pending), and that no
client is suspended between `connect` and `sendmsg`.  A daemon whose client is
waits in `recvmsg` (main.c:257) for as long, and neither signals nor other
clients get through to it: `SignalEnds` and `Delivered` fail without the
fairness of clients.  Signals, hangups and kills are never required to happen.

`LayerShell` has `WF(Dispatch)` and `WF(pc = "loop" /\ Execute)`: the daemon's loop
flushes and dispatches, and the compositor executes what it reads; after the
daemon has ended nobody need read what it left.  `WF(Configure(n))`: a first commit
is answered.  `ThreadPool` has `WF` of every thread's steps, of a user's way through
`tpwait` and of the rest of `tpfree`, as the mutex is never held for long; weak
fairness is enough because `MaxJobs` bounds how often others can take it.  Handing
in jobs and giving up the pool are never required.  `MCBuild` has `WF` of
`MakeSteps` (make and the processes it waits for), and of both processes of
`Query`: the child starts, writes as far as there is room, and ends by itself when
it has said all (`ChildSteps`).  That a signal ends it earlier may happen
(`Signalled`), but is never required: a child that waits for room in the pipe waits
until somebody reads.

## 5. Proofs

The theorems hold for every value of the constants that `EwdAssumption`,
`SessionAssumption`, `PictureAssumption`, `PainterAssumption`, `LayerAssumption`,
`PoolAssumption`, `BuildAssumption`, `QueryAssumption` and `CommandAssumption`
allow: any number of outputs, daemons, clients, wallpapers, threads, jobs,
sources and words, pictures and screens of any size, any bounds, any behaviours.

| theorem | module | invariant | what makes it inductive |
|---|---|---|---|
| `TypeCorrect` (`TypeOK`) | `EwdProofs` | `TypeInv` | that `draw` never numbers a buffer beyond `MaxBufs` needs the room `Accept` has asked for, which shrinks by one per output (`Room`) |
| `TableCorrect` (`TableOK`) | `EwdProofs` | `TableInv` | a name is announced once, and not while it is bound (`QueueOK`).  Most handlers are `Quiet` about the table, which leaves six steps to look at (`StepKinds`) |
| `SurfacesCorrect` (`SurfacesOwned`) | `EwdProofs` | `PlaceInv` | surfaces are numbered in the order of creation (`Numbered`), so a new one is nobody's yet |
| `ListenersCorrect` (`ListenersInPlace`) | `EwdProofs` | `PlaceInv` | a listener's output is at the slot its pointer names or below it (`NotBelow`): outputs only move down |
| `ImagesRight` (`RightDisplay`) | `EwdProofs` | `PlaceInv` | follows from the step `draw` and `ListenersInPlace` |
| `GrowthCorrect` (`GrowthFaults`) | `EwdProofs` | `GrowthInv` | the table's outputs are distinct globals, so there are never more than the capacity: a counting argument over the injection from slots to outputs (`TableRoom`) |
| `FaultInvariant` | `EwdFaultProofs` | `FaultInv` | the invariant of the next five, see below |
| `OrphansNever` (`NoOrphans`) | `EwdFaultProofs` | `OrphanInv` | the `name` of an output is cleared by `ls_close` alone, so `reg_del` finds it; what a later `reg_add` appends has not been announced as gone |
| `StartKnows` (`KnownWhenServing`) | `EwdFaultProofs` | `SyncInv` | the answer to the second roundtrip stands in the queue behind the descriptions of all displays bound before it (`SyncKnown`) |
| `MessageApplied` (`Applied`) | `EwdFaultProofs` | `FaultInv`, `AppliedSoFar` | the displays before `idx` show the message; a display in the table has been described before the message was taken (`Quietly`, `ToldKnown`), and has a surface (`ServiceInv`) |
| `MemoryCorrect` (`BuffersLiveInUse`) | `EwdFaultProofs` | `BufferInv` | a buffer is released once, its release stands in the queue once, and the output it was drawn for has no other until then (`ReleasedOnce`, `BufferInUse`) |
| `CausesKnown` (`FaultCause`) | `EwdFaultProofs` | `FaultInv`, `FaultsStop` | a fault ends the daemon, so one can ask of each step that ends it what it followed (`StoppingSteps`) |
| `WallpaperIsKept` (`WallpaperKept`) | `WallpaperProofs` | `PromiseInv` | `FaultInv` with five more parts, see below; each step of the daemon and the compositor is a step of `Wallpaper` or a stutter |
| `TypeCorrect` (`TypeOK`) | `SessionProofs` | `TypeOK` | itself inductive |
| `SocketOwned` (`OwnSocket`), `SocketsLeft` (`SocketLeft`) | `SessionProofs` | `SocketInv` | whoever is named by the socket file has bound it at the path its environment names; only `Bind` and `cleanup` touch the file, every other step is `OffSocket` |
| `LaunchedReached` (`LaunchedReachable`) | `SessionProofs` | `ServingInv` | a daemon that listens has bound its socket, and one whose command has returned is not starting any more |
| `CrashesCaused` (`CrashCause`) | `SessionProofs` | `CrashInv` | the client at the other end of a held connection is about to send, has sent, was killed, or has given up (`HeldClients`); who gave up after connecting has not sent (`Senders`) |
| `PictureIsRight` (`PictureRight`) | `SessionProofs` | `PictureInv` | what has been sent has been converted, and is neither decoded nor converted again; what is shown came from what was sent.  That all of a picture is seen is arithmetic: for each row of it there is a row of the screen that looks at it (`RowSeen`) |
| `LayerTyped` (`TypeOK`), `LayerErrors` (`ErrorCause`), `LayerAgrees` (`InSync`) | `LayerProofs` | `IInv` | for each wallpaper, what is under way continues what the compositor has seen of it (`Life`); serials on their way back are still open, in the order they were given out, and none is missing (`Order`, `Due`); what is drawn too early is known to be (`Drawn`) |
| `PoolTyped` (`TypeOK`) | `PoolProofs` | `TypeOK` | itself inductive |
| `PoolIsSafe` (`PoolSafe`), `NoWakeupIsLost` (`WakeupsKept`) | `PoolProofs` | `Inv` | who is where while holding the mutex (`MutexInv`), which jobs are in whose hand (`HandInv`), what the list links (`Linked`), what has become of the jobs before it (`HandledInv`, `PastInv`).  That a job in the list has a thread awake is inductive only with the count of jobs left (`CountInv`): a user of `tpwait` who swallows the signal for a job leaves somebody else awake, because the broadcast of the job before it is still to come |
| `PoolKeepsItsPromise` (`PoolKept`) | `PoolProofs` | `Inv` | each step of `ThreadPool` is a step of `JobPool` or a stutter: `tpenq` submits, `Take` starts, `Release` and `Finish` finish, `tpwait_returns` answers, because nothing left means everything done (`CountInv`) |
| `DatesCompare` | `BuildProofs` | - | arithmetic: `fmdcmp` orders any two dates less than half the range of an `int` apart |
| `BuildTyped` | `BuildProofs` | `Typed` | the place make is at says how many directories are left |
| `DatesAreRight` (`TimesTell`) | `BuildProofs` | `Dated` | the clock is never behind a date, and a change that is not hidden has a later one |
| `NothingIsMadeTwice` (`NothingTwice`) | `BuildProofs` | `Dated` | what make finds outdated is so, by `DatesAreRight` |
| `SuccessIsCurrent` (`SuccessCurrent`) | `BuildProofs` | `Typed`, `Dated`, `WrittenThere`, `ChildPlace`, `Course` | what this run has looked at or made so far is current but for what has been edited since (`Fresh`, `Linked`), and what it has not looked at is still on its list (`Course`) |
| `AnswersAreWhole` (`AnswerWhole`) | `BuildProofs` | `Together`, `Flow` | what was read, what is in the pipe and what is left are together what was said |
| `RoomIsKept` (`ArgvRoom`) | `CommandProofs` | the same, with types | what `_next_powerof2` returns is never smaller than its argument (`NextPower`), because ORing only adds bits (`OrBounds`, `SpreadBounds`), and `SIZE_MAX` is never reached |
| `EchoIsReadable` (`EchoReadable`) | `CommandProofs` | `shown` is the line for `argv` | a reader who has read one part goes on with the next (`ReadsBoth`, `ReadsParts`); a quoted word is read as the word, character by character (`QuotedWord`), a harmless one as well (`PlainWord`) |

`TypeOK` and `TimesTell` of `Build` are theorems that no run repeats.
`SuccessIsCurrent` is proved of behaviours in which the dates of existing files
are always comparable (`AllComparable`): less than half the range of an `int`
apart, which the run has too, and without which `fmdcmp` errs (`NothingTwice`
carries the same condition).  What it leaves open is what `SuccessCurrent` leaves
open (section 3): it is a theorem about what dates show, and about the objects
of `src/common` only as far as `make.c` looks at them.  The others have no
hypothesis.

`FaultInv` is the invariant of a daemon between two handlers that no unit test
could set up.  Its parts say, each under the habits it needs:

- `PlaceInv`, `Born`: the table, its surfaces and listeners (from `ListenersCorrect`).
- `SlotInv`: as long as no output has left and none has moved, each is at the
  slot its listeners point to, and so is what they have stored.
- `SurfacesAlive`: a surface of the table is alive unless one may be closed
  *and* outputs may leave.
- `ServiceInv`: services are bound before outputs, so outputs have surfaces.
- `ToldKnown`, `Quietly`, `SyncInv`: what the compositor has said is known or
  under way, and when a message is taken nothing is under way any more.
- `NoErrors`, `BufferInv`: errors and releases that are under way have a cause.

The proof of `CausesKnown` corrected the property.  An earlier `FaultCause` said
that a `NULL` surface takes `"close"` or `"any_order"`, and TLC agreed on every run.
In the proof the case of an output that has moved away from the slot its
listeners point to did not close, and with changing sizes TLC has the behaviour:
output 1 leaves, and 2 moves into its slot; 3 is bound in the slot that 2 had, and
leaves again, so that the slot past the end of the table has no surface; now 2 is
configured twice with the same size, and `ls_conf` commits the surface of that slot,
which is `NULL` (main.c:503-505).  `Moved` and `Left` name such cases, and in
`EwdUnplug` sizes change now, so that TLC meets them.

The theorem about `Wallpaper` needs more of the daemon than `FaultInv`:

- `GoneFirst`: only a display that has gone is taken out of the table;
- `Unpainted`: nothing is drawn before the daemon serves, so a new surface is
  never mistaken for one that shows something;
- `ClosedSeen`: a `closed` event is about a surface the compositor has closed,
  and none is closed without a cause;
- `NamesRight`: as long as no output has left, each has its own name or none, so
  a message meets the displays it names and no others;
- `Painting`: what is drawn is an image.

This proof corrected the mapping as well.  `MayGiveUp` asked for `"late_info"` or
`"oom"` alone, and the case of `mkbuf_fails` stayed open when surfaces may be closed
and displays unplugged.  TLC has the behaviour: a display is bound, and closed and
unplugged before it has been described; `out_layer_free` has cleared the `name`
(main.c:545) by which `reg_del` would find it, so it stays in the table for ever;
its size will never be told, and the buffer of size 0 for it cannot be mapped,
which ends each order for all displays at this one.

`WallpaperIsKept` and `PoolKeepsItsPromise` have the same layout: one lemma per
step of the abstract specification, which says what the steps that implement it
do to the mapped state, and lemmas that name the steps that keep it.

Proofs by induction over numbers (`CommandProofs`) do not use the library's
induction theorems, which take an operator.  They use that `<` is well-founded on
sets (`WFMin`): the set of numbers for which the statement fails has no least
element (`Induction`, `CountUp`).  That a recursive function satisfies its equation
is proved in the same way (`Recursion`, `OrExists`), and so is that concatenating parts
one by one is `FlattenSeq` (`FlattenSteps`).

Only model-checked:

- liveness (`WallpaperGoesOn`, `MemoryReturns`, `Delivered`, `SignalEnds`, `Attended`,
  `NothingHangs`, `MakeEnds`, `QueryEnds`): its proofs need `ENABLED`.

Every invariant, action property and refinement of the passing runs is a theorem.

## 6. Not modelled, and the plan

- **Clients other than `ewctl`**: a message in several pieces, a short one, and
  one without a descriptor.  Killing `ewctl` before it sends is modelled.
- **A decoder status `jxl_decode` does not know** (ewctl/main.c:225) is reported
  and asked for again; which statuses can come is not known from this code.
- **`clear`** is unreachable (see `EwdClear`), so no action calls it.
- **Colours**: a pixel is its place, and whether its bytes have been swapped.
- **`shm_fmt`, `out_geom`, `out_scale`, `out_desc`, `out_done`** have empty bodies.
- **The compositor's own bookkeeping** beyond what it sends and what it checks of
  the layer shell.
- **`xdg-shell.h`, `xdg-shell.c`**: generated, linked for one name, never called.
  They are almost half of the repository's lines.
- **Accessors of the layer shell bindings** (user data, version): they read only.
- **Liveness of clients**: the socket is only looked at when no Wayland event is
  pending (main.c:229-232), so nothing is promised to a client while events keep
  coming.
- **A coarse clock**: with `"coarse"` in `Behaviours` a child may end within the
  tick in which it began.  The run `Build` leaves it out: a compilation takes
  longer than the tick of a file system's clock.
- **The size of a mapping** (`buf.size`): `mkbuf` sets it before `memfd_create`
  (main.c:363).  If that fails after a resize, `munmap` later gets a size that is
  not the mapping's; in the model a mapping is given back whole.
- **`cmdclr` of a command without words** writes through a NULL array
  (cbs.h:435); `make.c` clears a command after it has been run only.
- **What a shell does with the words of an echoed line**: a first word like `A=b`
  would be an assignment.
- **`-d`** changes flags and no file: an object made without it counts as current.
- **`nproc`, `cbsinit`, `_getcwd`** copy what the system tells; **`fmdnewer`** is
  called by nobody.
- **`pthread_create` failing** (cbs.h:802): joining a thread that was never
  created has no defined outcome.

Order of work:

1. (done) `DynArray`, `Ewd`, `Wayland`, their runs, and the theorems about
   types, table, surfaces, listeners, images and growth.
2. (done) `Session`: daemons, clients, the socket path, `ewctl`; its runs, and
   the theorems about the socket and about crashes.
3. (done) `JobPool`, `ThreadPool`, the refinement between them and its proof.
4. (done) `Build`, `Command`, `Query`; the theorems about dates.
5. (done) `LayerShell`: the wire; `Picture`: the pixels, in step with `Session`.
6. (done) Proofs of every invariant and every action property of the runs.
7. (done) `Wallpaper`: what a client may rely on, and the proof that the daemon
   with its compositor implements it.
8. Messages of arbitrary clients, cut at any byte.
