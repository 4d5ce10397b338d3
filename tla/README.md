# Formal models of RRTO

RRTO runs the CUDA calls of an application on another machine. A library
preloaded into the application turns every call into a remote procedure call;
a server executes it on the GPU, keeps a log of the calls that shaped the
device, and can write a checkpoint and start again from it. On top of that RRTO
records the kernels of the first inference of a model and replays them for the
next ones. This directory holds TLA+ models of that program, TLC runs over
small instances of them, and theorems checked by the TLA+ proof system.

## 1. Inventory

| Component | Source (`src/RRTO/...`) | State it keeps | Operations | Interacts with |
|---|---|---|---|---|
| Growable list | `cpu/list.c` | block, capacity, length | init, free, append, append_copy, at, get, insert, rm | every table below |
| Resource manager | `cpu/resource-mg.c` | `new_res`, sorted `map_res`, bypass | init, create, get, add_sorted | server handlers, restore |
| Record and replay of inferences | `cpu/cpu-client-runtime.c`, `cpu/cpu-server-runtime.c` | `input_times`, `output_times`, `operator_count` on both sides, `input_address[100]`, `recorded_*[1000]` on the server | cudaMemcpy, cudaLaunchKernel and their handlers | device memory, all clients of the server |
| API recorder | `cpu/api-recorder.[ch]` | `api_records` | RECORD_API, RECORD_RESULT, free | every handler, checkpoint |
| Checkpoint and restore | `cpu/cr.c`, `cpu/cpu-server.c` | files `rpc_id`, `api_records`, `mem-0x...` | dump, restore, signal handler | recorder, resource managers, device |
| Multi-threaded memcpy | `cpu/mt-memcpy.c`, `cpu/oob.c` | `mt_memcpy_list`, listener and copy threads, barrier | mt_htod, mt_dtoh, mt_sync and the client side | list, device memory, TCP |
| Host memory in shared segments | both runtime files | `hainfo[64]`, `hainfo_cnt` on each side | cudaHostAlloc, cudaFreeHost, memcpy_shm | POSIX shared memory |
| GPU scheduler | `cpu/gsched_none.c` | list of ids, device table, mutexes | init, retain, release, rm, deinit | driver, cublas and cudnn handlers |
| Server main | `cpu/cpu-server.c` | initialisation order, transports | RRTO_main, checkpoint, signals | everything on the server |
| Client start-up | `cpu/cpu-client.c`, `cpu/cpu-libwrap.c` | `clnt`, `initialized`, `kernel_infos` | init_rpc, repair_connection, dlopen, registerFunction | RPC library |
| RPC transport | `submodules/libtirpc/src/clnt_vc.c` | fd lock, xid, receive state | clnt_vc_call, control, freeres, destroy | client stubs |
| Driver API and ELF loading | `cpu/cpu-server-driver.c`, `cpu/cpu-client-driver.c`, `cpu/cpu-elf2.c` | `rm_modules`, `rm_functions`, `rm_globals` | elf_load, elf_unload, register_function, register_var, module calls | resource managers |
| Library stubs (cuBLAS, cuDNN, cuSOLVER, NVML) | `cpu/cpu-{client,server}-*.c` | one resource manager per handle type | one handler per library call | resource managers, recorder |
| InfiniBand transport | `cpu/cpu-ib.c` | queue pairs, memory registrations | only with `WITH_IB` | host memory |
| GDB checkpoint tool | `gpu/src/*.c` | stopped kernel, call stacks, jump tables, registers | patch, checkpoint, restore, of a running kernel | cuda-gdb, the kernel's binary |

### How the parts interact

An application call runs through the preloaded client library (`cpu/cpu-client-*.c`),
which turns it into one remote procedure call. All threads of a process share
one connection; the lock of `clnt_vc_call` lets one call at a time use it. The
server (`cpu/cpu-server.c`) is one thread in `svc_run`: it takes one request of
one connection, runs its handler to the end, answers and looks for the next.
Every client of a server therefore shares every global of the server.

A handler that changes the device logs the call (`RECORD_API`), translates the
addresses and handles it was given (`resource_mg_get`), calls CUDA, and stores
the result in the record. The log and the translations are growable lists. A
checkpoint writes the log and the memory it names; a restore walks the log,
allocates again, and fills the resource managers with pairs of the client's
address and the new one. The record and replay of inferences lives in four
handlers of `cpu-server-runtime.c` and four entry points of
`cpu-client-runtime.c`, which count the same events separately.

Besides that thread there are: the threads of the application, the listener and
copy threads of a multi-threaded memcpy, the signal SIGUSR1 that asks the server
for a checkpoint at any instruction, and the signal that makes a client
reconnect.

### What is hard about it

* **Two copies of one count.** The client decides by its own counters whether a
  call goes out, the server by its own what to do with it. Nothing compares
  them, and calls can be lost, late, or unanswered.
* **State shared by accident.** The counters, the noted targets and the log are
  globals of the server; clients come, go, are restarted, and share them.
* **A log that is replayed through the functions that write it.** Each restore
  logs again what it repeats.
* **Addresses of several generations.** After a restore, an address a client
  holds may be the device's of this run or of an earlier one.
* **Signals and deaths between any two steps.**
* **Searches with unsigned bounds, tables without a bound check, and errors that
  are noticed after the pointer has been overwritten.**

PROJECT.json lists each of these at the line where it bites ("hazards").

### What makes each component correct

| Component | Correct when |
|---|---|
| Growable list | it is the sequence `list.h` describes; no cell in use lies outside the block, and what was stored can be reached, even when allocation fails |
| Resource manager | it is a dictionary; it stays sorted; both searches end and never read outside the list |
| Record and replay | both sides agree on the inference each call belongs to; each upload reaches the address it names; the first inference does what would be done without RRTO; every call returns |
| API recorder, checkpoint and restore | after a restore every client finds each of its allocations, with its contents, apart from all others, and nothing that was freed is back |
| Multi-threaded memcpy | every copy ends, each byte is moved once, a synchronised copy is forgotten |
| Host memory | both tables mean the same segment by the same index and never overflow; what is freed leaves neither memory nor a name |
| GPU scheduler | retain and release pair up on every path |
| RPC transport | a caller gets the answer to its own request or an error; the lock is released on every path |
| Driver registry | a function or variable is usable from its registration until its module is unloaded |
| Client caches | a cached answer is the one the server would give |
| GDB checkpoint tool | a restored warp is at the instruction, in the regions and calls, and with the lanes it was saved with; the tables fit into the breakpoints they replace |

## 2. Plan

Modules are ordered by what the system is for: first the structures everything
rests on, then RRTO's own mechanism, then recovery, then the parts beside them.

| # | Module | Composes with | State |
|---|---|---|---|
| 1 | `AbstractList`, `CList` | | modelled, checked, proved |
| 2 | `HandleMap`, `ResourceMg` | uses the sequences `CList` implements | modelled, checked, proved |
| 3 | `InferenceReplay` | client, wire and server in one module | modelled, checked, every invariant proved |
| 4 | `CheckpointRestore` | the mapping is the dictionary `HandleMap` | memory calls modelled, checked, every invariant proved |
| 5 | `MtMemcpy` | clients, RPC thread, listeners and copy threads of both sides | modelled, checked, every invariant and the partition into chunks proved |
| 6 | `HostMemory` | the tables of all clients and the server | modelled, checked, every invariant proved |
| 7 | `ModuleRegistry` | registration and the managers (as the dictionaries `HandleMap` describes) | modelled, checked, every invariant proved |
| 8 | `JumpTable`, `KernelCheckpoint` | the second uses the tables the first builds | modelled, checked, every invariant proved |
| 9 | `RpcChannel` | would refine the wire of `InferenceReplay` | open |
| 10 | `ServerStart`, `ClientCaches` | initialisation, restore and clean-up; cached device queries | open |

Abstract specifications: the sequence (`AbstractList`) and the dictionary
(`HandleMap`) exist as modules. *Direct execution*, a device that runs each
upload and launch as it is asked to, is stated as the properties
`FirstInferenceIsDirect` and `UploadsReachTheirTargets`; *durable memory* as
`ClientsSeeTheirData` and `ClientsKeepTheirMemory`; the warp a debugger stopped
as `AsSaved` in `KernelCheckpoint`. A mailbox of one call for the channel is
open.

Theorems left to prove: none of the safety properties the runs check. What is
left are the three liveness properties, whose proofs need ENABLED (section 6),
and what `RpcChannel` and `ServerStart` will promise.

## 3. The modules

### `CList` and `AbstractList` - the growable list

`AbstractList` is the sequence of `list.h`: 0-based positions, an operation that
does its work and returns 0, or leaves the sequence alone and returns 1.

`CList` is `list.c`. `elements`, `capacity` and `length` are the fields of
`list`; `buffer` says what `l->elements` points to, because a failed `realloc`
overwrites it with NULL and callers carry on with the list all the same.
`elementSize` is 0 after a list_init that failed: it has cleared the list, and
callers go on with that too (`cpu-client.c:185`). The actions are the functions:
`Reinit` (list_init), `Free`, `AppendCopy`, `Insert`, `At`, `Rm`. `AddUnsized` is
an append or insert after a failed list_init: it asks realloc for no bytes, copies
none, and counts the element. `UseAfterFailure` is a caller that reads or writes
an element where there is none, through NULL, a freed block or one without cells,
after which nothing is defined. list_append and list_append_copy
differ in who writes the new cell; the model has the second, since every caller
of the first writes the cell at once. Elements are values; the memmoves are
functions on the cells.

The run lets any allocation fail. The refinement is a property of steps, so it
says what a step that does not fail does even in a list that has seen failures.
`UsedCellsExist` holds for a list whose list_init succeeded, whatever fails later;
after one that failed it does not, as the first append makes length 1 over capacity 0.

A failed `list_append` loses what was stored: `GrowFails` makes the pointer NULL
while `length` still counts the elements, although the comment at `list.c:68`
says that the old pointer remains valid. It does, but nothing points there
any more: the run `list_failed_append` has TLC show it.

### `ResourceMg` and `HandleMap` - the resource manager

`HandleMap` is the promise: a dictionary in which an address without an entry
stands for itself, and a bypass in which every address does.

`ResourceMg` is `resource-mg.c`. The two binary searches run one probe per step
(`GetProbe`, `AddProbe`), so that `start` and `end` are state and the width of
`size_t` (`SizeMax`) is part of the model: at the front of the list, `mid - 1`
on an unsigned bound would be the largest size_t, which the test of line 66
prevents (`AtFront`). `GetBegin`, `GetMiss`, `AddBegin` and
`AddInsert` are what comes before and after the loops.

### `InferenceReplay` - record and replay

*Client.* `client[p]` holds `input_times`, `output_times` and `operator_count`
of process `p`; `thread[t]` says where a thread is in its call. `Upload` is
cudaMemcpy to the device, and cudaMemcpyToSymbol and the large or shared-memory
copies as kinds of it; `Download` is the other direction; `Launch` is
cudaLaunchKernel. The test of the counters and their increment are two steps
(`Upload` then `Bump`), since no lock is held between them. `Send`, `Timeout`
and `SendFails` are `clnt_vc_call`.

*Wire.* One sequence of requests per connection. A request remembers, for the
properties only, the phase its client was in when it was made. An answer that
comes too late is skipped, as clnt_vc_call skips answers of other transactions.

*Server.* `Handle` takes one request of one connection and does all its handler
does: `ServeUpload`, `ServeDownload`, `ServeFar`, `ServeLaunch`. `input_address`
and `recorded_func` are arrays of `InputMax` and `OperatorMax` cells. Writing
past `input_address` sets `overrun`, after which the model stops: what the
program does then is undefined. The launch handler returns no value, so
whether its answer is sent is a free choice.

*Failures.* A client process may be restarted at any point (`Restart`; its
counters begin again, its requests are still on their way); the server may be
(`ServerRestart`; every connection breaks, no checkpoint holds the counters) and
clients reconnect (`Repair`) with the counters they have.

### `CheckpointRestore` - log, checkpoint and restore

The log `api_records`, the manager of memory (`map_res`) and device
memory (`mem`, from address to contents) are the server. `held` is what the
client holds: for each of its addresses the contents it knows, or 0 while it
cannot know them. `AddrOf` says which addresses each process hands out: any, also
those of an earlier process. `clash` is history: a new allocation was given an
address that the manager translates, so that the code takes it for the older one
(`resource-mg.c:101`). No property promises anything after that.

A call has two steps, so that the signal can come between them: `MallocBegins`,
`FreeBegins` and `WriteBegins` log the record, with its result field holding
whatever was there (`Unset`); `CallEnds` does the call and stores the result. A
checkpoint goes record by record: `CheckpointBegins` truncates the file of the
log, `DumpRecord` writes a record, `DumpMemory` the memory of one.
cr_dump_memory_entry reads from the address in the record; memory it cannot read
is skipped and the file of an earlier checkpoint stays. `Dies` may come at
any point. `Restart` starts a new process from a checkpoint that was completed,
with the client as it was then. `RestoreRecord` handles one record:
`RestoreMemory` allocates, copies the file back and maps; `RestoreNothing` skips
copies; `CallRecord` repeats any other call and, because the handler logs it and
the restore logs it too, leaves it twice in the new log. `RestoreEnds` is
cr_launch_kernel, which launches nothing (a new process has counted no input)
and reads outside the list when the log is empty.

### `MtMemcpy` - copies through several sockets

`client` is the calling thread of each client, `rpc` the server's only RPC
thread, `listener`, `worker` and `sender` the threads of each copy. ServeCopy
does cuda_memcpy_mt_htod up to pthread_create; `Allocate` or `AllocateFails`,
then `PassBarrier`, are the rest of the handler, between which the listener opens
its socket (`OpenSocket`). `Accept`, `JoinWorkers` are the listener's loop and
its end; a worker receives and copies, or copies and sends
(`ReceiveFromClient`, `CopyToDevice`, `CopyFromDevice`, `SendToClient`).
`JoinThreads`, `ServeSync` and `JoinListener` end a copy. A cell of memory
holds the index of the cell it was copied from, so a chunk in the wrong place
shows.

Failures are the ones the code tests for: the staging memory, the listener's
socket, a thread on either side, a connection, and cudaMemcpy in a worker. Most
are swallowed, and the actions do the same: a client goes on with the port and
index its variables happen to hold, a listener without a socket returns before
the barrier at which the RPC thread waits. There may be any number of copies; a
copy starts while its record fits into the first block of the list (`FirstBlock`,
four), because a fifth record at a time moves records that listeners point to.

### `HostMemory` - pinned memory in shared segments

`table` is the `hainfo` of each client, `hainfo` the server's, `names` the POSIX
names `/RRTOhostalloc-<n>`. cudaHostAlloc is `HostAlloc` (the handler creates the
segment under the next index), `MapSegment` (the client opens it), `Register`
(the second call) and `Unlink`; `HostAllocFails` and `MapSegmentFails` are what
fails on either side. `FreeHost` is cudaFreeHost, with the handler that releases
only entries whose own index matches and never entry 0. `Copy` is a copy from a
pinned buffer: cudaMemcpy sends the entry's index, cudaMemcpyToSymbol the
position in the client's own table.

A call the client gives up on may have been handled or not, and the actions have
both cases: cudaHostAlloc fails and the entry stays; the second call fails, and
the client returns without removing the name (`cpu-client-runtime.c:1297`);
cudaFreeHost reports success. `ClientEnds` is a client process that ends, or is
replaced, at any point, of which the server hears nothing; `ServerRestarts` a new
server with an empty table, while clients keep theirs and the names stay. `run`
numbers the server's processes. `abandoned` (entries nobody will free),
`lingering` (names nobody will remove) and `strays` (frees that named another
client's entry) are history: they are what `NothingIsLeftBehind` excepts, each
by the step that caused it.

### `ModuleRegistry` - kernels and variables by name

`RegisterFatBinary`, `RegisterFunction` and `RegisterVar` are the calls the
compiler emits at start-up, each with its handler, which enters the client's
address in one of the server's three managers (`rm_modules`, `rm_functions`,
`rm_globals`). `Enter` is what the client notes of a binary by itself; it does
not call the server for a function whose name it has not noted (`Registers`).
`LoadFails` is a binary that cannot be read to its end or loaded, `LoadLost` a
load whose call fails, handled or not, after which the client takes its
uninitialised result for a handle or for none. `RegisterFunctionFails` and `Exit`
are the end of a client process, of which the server hears nothing. `Launch`
looks the function up by its address in `kernel_infos` and asks the server, which
translates that address. The managers are shared by all clients and never
emptied, so an address of another program, or of an earlier process, may be
found; `layout` says whether two programs have the same addresses. The scheduler
that these handlers call is left out, as it does nothing: gsched_none_retain
starts with a result of 1, never sets it to 0, and so returns before it takes
the mutex; its callers ignore that, and release unlocks what nobody locked.

### `JumpTable` and `KernelCheckpoint` - kernels stopped by the debugger

`JumpTable` is the patching of a function: the run of breakpoints found in it
(`FirstBpt`, `Room`), what a table needs (`Needed`), its instructions with a
control word in every fourth place (`Table`), where they start (`Index`), and
the function with the table in place (`Patched`).

`KernelCheckpoint` takes a kernel stopped anywhere. `CheckpointWarp` lets the
warp run to where it can be restored (`Checkpointable`) and saves stack, program
counter and lanes; `CheckpointFails` is a warp for which it gives up. `StartRestore`
launches the patched kernel; then, warp by warp and level by level,
`EnterTable`, `RestoreSsy`, `RestoreSubcall`, `EnterCalled`, `SetLanesAside`
and `RestorePc` are what the tool does with single steps and writes to the
branch register; `Crash` is its use of a table that is not there. `Execute` is
the GPU, as far as the tool relies on it: SSY, PBK and PRET push, SYNC sets lanes
aside, BRX jumps, a control word is skipped.

At a checkpoint the tool reads the original functions, at a restore the new binary
(`main.c:213`). There `RegionThere` finds the entries of the jump table as if
they were regions of the function, if the table lies before the warp.

## 4. What the runs check

| Run | Question | Instance and bounds | Why they are enough |
|---|---|---|---|
| `list` | does list.c implement a sequence, and do its cells stay in the block when allocation fails? | 2 values, capacity 2, up to 5 elements, any allocation may fail | two doublings, a failure at each and at init followed by every call; insertion and removal at both ends and in the middle of a full and a half-full block |
| `list_failed_append` | can what was stored still be reached after a failed append, as `list.c:68` says? | as `list` | violated by the first doubling |
| `resource_mg` | is the manager a dictionary, sorted, searched inside its bounds, and does every search end? | 5 client addresses, 2 device addresses, size_t of 8 bits | lists of 0 to 5 entries, so 0 to 3 probes, with keys below, between and above the entries |
| `replay_session` | does a well-behaved application get what it asks for? | 1 thread, 3 inferences, 2 uploads each to the same targets, 2 kernels, 2 requests on the wire | one inference is recorded, one replayed, and one begins after a replayed one; time-outs leave requests behind |
| `replay_shared` | what survives clients that share, restart, and make copies that only one side counts? | 2 processes, each reconnects once, after a restart of its own or of the server, 1 inference per process, counted, far and symbol copies, 1 request on the wire | both orders of every pair of increments, and counters that one side has lost or never moved |
| `replay_targets` | do uploads reach their targets whatever the application does? | as `replay_session`, targets free | violated in the second inference |
| `ckp_once` | does a client find its data after one restore? | 2 addresses per process of which the next process hands out one again, 2 values, 5 logged calls, signals, result fields with old contents | allocate, write, free and allocate again at the same address, and write again, with the signal inside any of them; new allocations at addresses restored memory had |
| `ckp_cycles` | does each allocation keep memory of its own, and does nothing leak, over two cycles? | 3 processes with 2 addresses each, one of them shared with the next, 5 logged calls | the second restore reads a log in which the first has doubled records |
| `mt_memcpy` | do overlapping copies move every byte once, and do all threads come back? | 2 clients, one in each direction, 3 copies of 5 cells in 2 chunks, one failure of any kind on the first copy | the second copy overlaps the first in every way, the third begins after one of them; the chunks differ in length |
| `host_memory` | does a copy use the buffer it names, and what stays behind? | 2 symmetric clients, tables of 3, 2 failures, lost calls or processes that end, both kinds of socket | every index is used and freed, and an entry given up is followed by allocations of either client; any two failures in a row, a second one in what the first left |
| `module_registry` | does a launch run the kernel it names? | 2 programs of 2 binaries that share a kernel name, one restart, one failed or lost call, symmetric programs | the same name registered twice by one program and by two, at the same address and at two, before and after a process or the server is replaced |
| `kernel_ckp` | is a restored warp where it was? | 13 kernels, 1 or 2 warps, 2 lanes, calls to depth 3 | tables in each of the three places in four words, behind the code, before it and in the middle, exact and spare room, none; regions in regions, in loops, and two that end at the same place; every position, converged and diverged |

Deadlock is checked in `resource_mg`, `replay_session` and
`replay_targets`. It is not checked where the system, or its bound, may stop: a
list whose block is undefined, restarts or copies used up, a server that is dead
or waits at a barrier for ever, a tool that has ended.

What they show:

* list.c implements its interface while allocation succeeds. When realloc fails
  it does not write outside a block, but loses what was stored; a list whose
  list_init failed counts an element that has no cell.
* The manager answers as a dictionary would; the unsigned search is safe at the
  front of the list, because of one explicit test.
* For one single-threaded application that makes plain copies and uploads to the
  same targets in the same order in every inference, RRTO's counters agree on
  both sides, request by request, with time-outs at any point, and each upload
  lands where it was asked to (`InStep`, `UploadsReachTheirTargets`).
* With any clients, the server's counts stay at most one apart
  (`ServerPhases`). A client whose count the other side has lost, or that shares
  the server, agrees with it again at every copy both count on whether an inference
  is under way (`StagesMeet`). That is all they agree on: which upload of
  which inference it is they may take differently. The record is not protected
  either: uploads that other clients make while it is recorded are noted as
  targets, in the order they come in, and after that the noise of others can
  select the wrong entry of it.
* One checkpoint and one restore give every client its data back, although a
  signal may have cut through a call, and although addresses are used again.
  Over two cycles allocations stay apart and nothing leaks. All of it ends at a
  new allocation whose address the manager translates (`clash`), which nothing in the
  code prevents: without that exception TLC finds the two allocations that share
  memory.
* Large copies land whole in whatever order threads connect and however copies
  overlap; the index a client holds stays right, because only the last record is
  ever removed; the RPC thread is lost only to a listener without a socket, a
  connection that is not made, or a failed allocation.
* A copy from pinned memory uses the buffer it names; cudaMemcpyToSymbol does
  only while a client's positions happen to be the server's indices. Memory and
  names that stay behind are those of entry 0, of calls that were lost, of mappings that
  failed and of processes that ended.
* A launch that runs, runs a kernel of the caller's binary and name, and of the
  caller's own process unless programs share addresses.
* The tool restores every warp that is `Restorable`; that definition lists what
  it cannot bring back (below).

### Disagreements found

By a run that TLC finds violated:

* `list_failed_append`: a failed realloc in list_append leaves no pointer to what
  was stored (`list.c:65`), although the comment there says otherwise.
* `replay_targets`: an application that uploads its weights once and then a batch
  per inference, as `src/test/simplecnn.py` does, has its second batch written over
  the first weight (`cpu-server-runtime.c:1424`).

Met while modelling; the models do what the code does:

* A kernel launched before the first upload, or in any later inference, is
  answered and does not run (`cpu-server-runtime.c:908`);
  `tests/test_apps/cuda-lib.cu:29` launches one before any copy.
* After a list_init that failed, list_append asks realloc for no bytes, succeeds,
  and makes length 1 over capacity 0 (`list.c:64`).
* After a restart of the server a client's pinned buffers keep their indices, and
  a copy from one may use the entry the new server gave another client
  (`cpu-server-runtime.c:1642`).
* A client whose second call of cudaHostAlloc is lost returns success and leaves
  the segment's name (`cpu-client-runtime.c:1297`).
* The dump of memory does not translate addresses (`cr.c:406`), so a checkpoint
  of a restored server keeps the contents of the previous one.
* resource_mg_get translates new addresses as well as restored ones
  (`resource-mg.c:105`), so an address that is handed out again can be taken for
  an older one.
* cuda_memcpy_to_symbol tests for a NULL that resource_mg_get never returns
  (`cpu-server-runtime.c:1731`): an unknown variable is copied to at the client's
  own address.
* The GDB tool reads the stack of lane 0 whether it is active or not
  (`cricket-cr.c:615`). Its loop that sends a warp out of functions without a
  table ends one level early (`cricket-cr.c:843`): the second level stays where it
  is, although `main.c:623` expects tables in all but the innermost, and the restore
  uses an index that is not there.
* Of the regions a level is in, only the innermost that was opened last is
  restored; an open PBK is lost; a warp at an SSY opens its region twice; the
  first instruction of a function counts as the end of a region at address 0.
* At a restore regions are looked for in the new binary (`main.c:213`,
  `cricket-elf.c:557`), whose jump table has an SSY for each of them. Where the table
  lies before the code, as in the kernels of `tests/test_apps/matmul.cu:148`, a warp
  behind it that has not come to the function's next SSY is given the region
  of the table's last entry, which it was not in.
* The table of a called function is entered, and its SYNC left, without regard
  to a control word that may follow (`main.c:510`, `:580`).
* A table of s regions and c calls has 2s + 2c + 4 instructions; the test of the
  room asks for 2s + 2c + 3 (`cricket-elf.c:1061`), so with exactly that room the
  last one replaces the instruction behind the breakpoints. A kernel with
  breakpoints but too few is checkpointed, and "not found" at the restore
  (`main.c:313`).

`Restorable`, `OneRegion` and `Reckoned` in `KernelCheckpoint` state the first
five of the GDB tool's as the conditions under which `RestoredWhereSaved` holds.
`OneRegion` counts regions, not the places where they end: of two that are open
and end at the same place only one is restored. An earlier form compared the ends,
its proof failed there, and the kernel `SameEnd` is the counterexample TLC then
gave. `TablesFit` asks that a table replaces breakpoints only where there is more
than the room asked for, and `NoTableIsMissed` excepts the stacks whose second
level has no table.

## 5. Fairness

`resource_mg` and `replay_session` check that calls return.

* `ResourceMg!FairSpec` is weakly fair for the steps of a running search: the
  server is one thread in a loop without waiting.
* `InferenceReplay!FairSpec` is weakly fair for each thread's own progress
  (`Proceed`: count, send, fail, time out) and for the server's handling of each
  connection (`Handle`). A thread inside a call is not stopped by the code;
  clnt_vc_call polls with a time-out, so `Timeout` does come; svc_run polls all
  its connections in every round, so none is passed over for ever. Nothing makes
  an application begin a call, and nothing does in the model.

* `MtMemcpy!Spec` is weakly fair for `ThreadStep`, the steps of all threads
  together: as long as some thread can run, one does. A copy has finitely many
  steps (`ThreadsGoForward`), so this is enough, and less than what the operating
  system gives.
  Applications need not start a copy, and nothing need fail.

The other specifications have no fairness and check safety only.

## 6. What is proved

The proofs hold for every value of the constants that the assumptions allow.

* `CListProofs!CellsStayInBlock`: `ListTypeOK /\ UsedCellsExist` for any elements,
  capacity and failures (the second of lists whose list_init succeeded;
  `NoCellsUnsized` adds that the others have no cells). The conjunction is inductive: type correctness needs
  `length <= capacity` to know that a write stays in the block, and the bound needs
  the type. `GrownRoom` is the lemma on doubling (a capacity of at least one
  makes room for one more), used for append and insert.
* `CListProofs!ListImplementsSequence`: every step of `CList` between
  `Usable` states, failures before it or not, is a step of `AbstractList` under the
  mapping `content <- [i \in 1 .. length |-> elements[i - 1]]`. It uses the
  invariant above.
* `ResourceMgProofs!ManagerStaysSorted`, `SearchStaysInBounds` and
  `SearchesNarrow`: from `SearchInv`, which puts together order, the ranges of
  the bounds while a loop runs (`LoopState`) and what the loop knows
  (`SearchNarrows`: every entry left of `start` is smaller than the key, every
  entry right of `end` larger). Order is not inductive without it: it is the
  loop's knowledge that makes the place of insertion right.
* `ResourceMgProofs!SearchesHalve`: a turn of either loop that does not find the
  address leaves at most half of the entries between the bounds (and never a
  negative number of them). With `GetMiss` and `AddInsert` for an empty interval
  this is the bound on the number of turns behind `CallsReturn`, whose fairness
  argument stays with TLC.
* `ResourceMgProofs!ManagerKeepsTypes`: the types, from the same invariant; the
  range of `end` needs it, since -1 and `SizeMax` are both possible after a loop.
* `ResourceMgProofs!ManagerImplementsDictionary`: the lists and loops implement
  `HandleMap`, `dict` being the function the sorted list represents; a search that
  ends without a hit proves by `SearchNarrows` that the key is absent.
* `InferenceReplayProofs!ServerPhasesHold`: any clients, threads, restarts.
* `InferenceReplayProofs!StagesAlwaysMeet`: any single-threaded processes
  (`OneThreadEach`) and their restarts, that of the server, time-outs and kinds of
  copies, from `StageInv`: a counted request says by itself whether an inference is
  under way, on the wire too.
* `InferenceReplayProofs!PlainClientStaysInStep`: under `PlainApplication` (one
  thread, plain copies and launches, no restarts) the phases
  agree for any number of inferences and time-outs and any length of the wire.
  `InStep` says nothing of requests that are on their way; `PlainInv` does: the
  requests on the wire form a chain in which each was made in the phase the
  server will be in after the one before it, and the client is in the phase the
  server will be in after the last (`WireInStep`, `CallInStep`).
* `InferenceReplayProofs!FirstInferenceBehavesDirectly`: under the same assumption
  each upload of the first inference reaches the address it names and each kernel
  of it runs once; `DirectInv` adds to `PlainInv` the type of the targets.
* `InferenceReplayProofs!ReplayedUploadsLand` and `FittingUploadsNeverOverrun`: under
  `FixedApplication` (as above, and every inference uploads to the same list of
  targets, of any length) each upload of every inference, recorded or replayed,
  lands where it was asked to, and when the list is no longer than
  `input_address` nothing is written past it. `FixedInv` adds two things to
  `PlainInv`. `Noted`: the targets of the uploads counted so far, and all of them
  once an output has been counted, are the first cells of `input_address`.
  `Counts`: there is a number for every request on the wire, the value
  `input_count` will have when it has been handled, that fits its phase (zero
  exactly between two inferences), under which the request is the one the
  application makes at that point, and the last of which is the application's own
  count. Client and server never exchange that count; the existential is what
  carries it across requests on their way and calls that timed out.
* `InferenceReplayProofs!ReplayKeepsTypes`: the types, for any clients, threads,
  restarts and failures. It includes that the arrays of the server keep their
  length: a write past one sets `overrun` and leaves the array alone.
* `CheckpointRestoreProofs!CheckpointKeepsTypes`: memory and the mapping only name
  addresses of the running process.
* `CheckpointRestoreProofs!RestoreKeepsMemory`: each allocation is backed by memory of
  its own, over any number of checkpoints and restores, from `Keeping`. Replaying
  a log is described by a relation (`Follows`: which addresses are live after each
  of its records, with a free that was logged twice counted once), since a restore
  doubles records. `Accounted` says that this ends in what the clients hold,
  of the log (`Backed`) and of the checkpoint's records (`Checkpointed`); `Dumping`
  that the records written so far are the log's; `Restoring` that the new log, the
  mapping and memory are what the records before `next` leave. `Handling` excepts
  the call that a signal may have cut through.
  No hypothesis says which addresses processes hand out. `KeptSoFar` holds until a
  clash, and `ClashStays` that there is no way back from one.
* `CheckpointRestoreProofs!RestoreLeaksNothing`: until a clash and without
  signals inside calls, the device holds nothing but what clients have. With
  signals it does leak: a cudaMalloc whose record is dumped before its call
  returns is repeated, and nobody knows its address.
* `CheckpointRestoreProofs!RestoreKeepsData`: up to one restore and after it,
  clients read what they wrote, although the checkpoint may have cut through a
  call. `Seeing` adds to the invariant that what a client knows is in memory
  (`Known`), then in the files written so far (`Saving`), then in the complete
  checkpoint (`SavedContents`). One restore and no cudaMemset are hypotheses
  because the code does lose data otherwise (`cr.c:406`, `cr.c:771`).

* `MtMemcpyProofs!AnswersBelong` and `StagingIsHeld`: any number of clients,
  copies, sizes and failures (at most four records at a time, the first block of
  the list), from
  `MemcpyInv`. `AnswersAreTheirOwn` alone is not
  inductive: that sync joins the right listener needs `Indexed` (each running
  copy's index leads to its record, no two running copies are of one job, and the
  record the RPC thread is about to announce is the last), and `RemovedIsPrefix`,
  the lemma that a removal leaves the records before it where they were. `Staged`
  adds that the listener accepts only while memory is held, and that a worker that
  runs is among the connections it accepted; `Meeting` that a listener passes the
  barrier only with the RPC thread.
* `MtMemcpyProofs!ChunksPartition`: for any size and number of threads the
  chunks of `ChunkBounds` cover the buffer, stay inside and do not overlap.
* `MtMemcpyProofs!CopiesArriveWhole`: any sizes, numbers of threads and orders in
  which they connect. `CopiedWhole` speaks of the end of a copy only; `DataInv`
  says for every moment where the data of a chunk is. `Queues`: each
  thread connects once and is accepted at most once. `Wired`: a
  socket carries the chunk of the index that comes with it. `Worked`: what a
  worker has behind it is in place, in the staging memory or at the target.
  `Told`: a
  client that is told that its copy is done has had its threads and the server's
  joined. `Received`: a client thread that has ended has put the chunk it was
  sent in place. `Listened`: a listener that has ended has accepted as many threads as there
  are chunks, and its workers are done. So every chunk is in place (`EveryChunkArrived`),
  and by `ChunksPartition` the chunks are all there is.
* `MtMemcpyProofs!MemcpyKeepsTypes`: from both invariants.
* `MtMemcpyProofs!LoneClientCleansUp`: any number of copies. `LoneInv` adds whom
  the RPC thread served last: its copy is the one that runs, and the first to
  be served finds an empty list.
  `LargestAssumption` (the sizes in question have a largest one) is what makes the set
  of thread indices finite and enough for every copy.
* `MtMemcpyProofs!CopiesAreNeverStuck`: any clients, sizes, numbers of copies and
  orders of connecting; at four records nothing but a copy's start waits. `CanStep` is the disjunction of the guards of `ThreadStep`.
  Some thread can run while the RPC thread is at its barrier or join, unless an
  allocation, a socket or a connection failed, and while a client waits for its
  copy, unless anything failed; so a state in which everybody waits for somebody
  is reached only after a failure (and then it is, see section 4). `WaitInv` says
  that what a thread waits for exists: a connected thread is accepted or in the
  backlog, an accepted one has its worker, a thread that has ended has left its
  chunk in the socket, and a client that waits for its threads has started them.
  `PlacesOfThreads` counts: while a thread is not accepted yet, the listener
  has not reached the number of connections it expects.
* `MtMemcpyProofs!ThreadsGoForward`: each step of a thread moves one thread
  along a graph without cycles (`ClientEdges`, `CallEdges`, `ListenerEdges`,
  `SenderEdges`, `WorkerEdges`), and none back. So the threads have finitely many
  steps from each call to its answer.
* `HostMemoryProofs`: `CopiesHitTheirBuffer`, `TablesKeepTheirTypes`,
  `BuffersAreKept`, `LeftoversAreKnown`, for any clients, table sizes,
  failures, lost calls and processes that end, from `HostInv`: types, allocations
  under way (`Opening`), the counters as bounds of the entries in use (`Counted`),
  segments that differ (`Apart`), and the server's entry for each buffer a client
  has of the server that runs (`Mirrored`, over `Ours`).
* `ModuleRegistryProofs`: `RightSymbolIsUsed`, `LaunchedKernelsAreKnown`,
  `LastFunctionIsLaunchable`, for any programs, binaries,
  restarts and failures, from `RegistryInv`: what each entry of the three managers
  stands for, given the process that made it (`ModulesMatch`, `FunctionsMatch`,
  `GlobalsMatch`), and what a client can launch (`LaunchableKnown`,
  `LastRegistered`). The two that need the load to have been handled say so by
  `since`.

* `KernelCheckpointProofs!TablesAlwaysFit`: for every function that `IsFunction`
  admits. `Table` counts instructions word by word; the proof gives the place of
  instruction k in closed form (`Place`, from `WordOf`: the position of the first
  breakpoint in its four words decides) and shows that the words between are
  control words. `DestinationsHaveEntries` uses it for the look-up of an entry: each
  region and each call has one, with its branch behind it.
* `KernelCheckpointProofs!NoTableIsEverMissed`: any programs, depth of calls, warps
  and lanes, from `SaveInv` (a saved warp is at a position, its call
  stack leads from the kernel through calls, and only its two innermost functions may
  be without a table) and `WalkInv` (level and index while the tool walks up the
  stack).
* `KernelCheckpointProofs!RestoresWhereSaved` and `AlwaysKnowsWhereItIs`: the same
  generality, from `GpuInv`, which adds to these two what the tool never reads
  back: at which instruction of which table the warp is at each status, and which
  tokens it has then (`WalkedTo`). The tokens of a level are at most
  one region and one return address (`TokensOfStack`). `Sent` is
  the BRX by the computed offset, `Stepped` a single step over a word of a table,
  `Started` the step into it; one lemma per action (`EntryWalks`, `SsyWalks`,
  `CallWalks`, `JumpWalks`, `LanesWalks`, `PcWalks`) puts them together. `SettledInv`
  is needed because the warp has been run on before it was saved: its innermost
  function either has a table and the warp is where it was stopped, or it has
  none and the warp has left the region it was in, so nothing has to be opened that
  nobody could open. Of the new binary the proofs use that `OneRegion` compares its
  region with that of the function: then there is an entry for it.
  The assumptions are `KernelAssumption` and `CodeAssumption`: a function's
  addresses are 0 to some n; control words are where the hardware has them; regions
  are nested; a call returns behind itself; something follows the
  breakpoints, and the word before them, over which the tool steps, is no SSY.

`PlainApplication` and `FixedApplication` are assumptions of the theorems only;
TLC checks the same properties in `replay_session`, whose constants satisfy
both.

Only model-checked: the liveness properties `CallsReturn` (of two modules) and
`CopiesEnd`. The installed provers do not handle ENABLED, and so no weak fairness;
`SearchesHalve` is the safety half of `ResourceMg!CallsReturn`, and
`CopiesAreNeverStuck` with `ThreadsGoForward` that of `CopiesEnd`: some step can
be taken, and only finitely many can. Every other property a
run checks is stated by a theorem. That TLC checks them as well is no repetition:
it shows that the constants and assumptions of the theorems can be met, and,
through the mutants, that the properties depend on the code.

## 7. Bounds

`MaxLength` (calls that add to a list), `MaxEntries` and `MaxNew` (entries of a
manager), `MaxInferences`, `MaxUploads`, `MaxWire` and `MaxRestarts` (replay),
`MaxRestarts` and `MaxRecords` (checkpoint) bound what the program does not.
`MaxJobs` (copies), `Sizes` and `MemPerThread` (copies and chunks in cells),
`MaxFaults` and `FaultyJobs` (failures and what they may hit), `Uses` (who copies in
which direction), `MaxRestarts` (registry), `MaxDepth` (nested calls), `Warps`,
`Lane` and `Programs` (the kernels) bound the newer modules; `Entries` is the size
of a `hainfo` table, 64 in the code; `FirstBlock` (records of copies at a time) is
the list's INITIAL_CAPACITY.
`SizeMax`, `InputMax` and `OperatorMax` stand for the width of size_t and for
`input_address[100]` and `recorded_func[1000]`, in small.

## 8. What is not modelled, and why

* The RPC channel in detail (the lock, buffers and transaction numbers of
  clnt_vc_call), the order of initialisation and clean-up, and the cached answers of
  device queries: open (section 2). The stale answers are in "hazards".
* In `ResourceMg` and `ModuleRegistry`: managers that cannot allocate
  (`resource-mg.c:9`, `:34`, `:128`, `:157`); adding always succeeds.
* In `MtMemcpy`: the move of `mt_memcpy_list` past four records, under which a
  listener keeps a pointer into freed memory; connections that break in the
  middle of a chunk; a listener thread or barrier that cannot be created
  (`mt-memcpy.c:149`), and a list_append that fails (`cpu-server-runtime.c:1469`). A
  copy thread that cannot be created fails for the first one.
* In `HostMemory`: the InfiniBand variants, sizes, and several threads of one
  client that allocate at once.
* In `ModuleRegistry`: contents of binaries, arguments of launches, the modules an
  application loads by the driver API itself, and the hidden tables
  (`cpu-server-driver-hidden.c`).
* The scheduler (`gsched_none.c`): without effect, as said in section 3. Its rm is
  never called, and its device table never filled.
* In `KernelCheckpoint`: registers, parameters, shared memory and globals (their
  dump and load are loops over the debugger's API), errors of that API, the start
  of the program, and files an earlier checkpoint left in `/tmp/RRTO-ckp`.
* In `CheckpointRestore`: sizes of allocations (an address used again with
  another size makes the file too short, and cr_restore_memory then returns an
  uninitialised value), errors in the middle of a restore (cr_restore stops and
  reports success), torn checkpoints, streams, events, arrays and library
  handles, and kernels. RECORD_API is one step to the signal, so no record is dumped
  half filled in (`api-recorder.h:21`), and a repeated copy to the device does not
  look at the targets of the replay. `ClientsSeeTheirData` is checked without cudaMemset: the
  restore repeats a logged memset over the contents it has just put back.
* In `JumpTable`: PRET in a function as compiled, which the tool counts as a call
  (`cricket-elf.c:631`). An entry is taken to push the address it was made for,
  although the offset of a PRET is not reckoned as that of an SSY (`:1118`, `:1106`).
* In `InferenceReplay`: contents of memory and arguments of kernels, and the error
  return for a size that is not the data's (`cpu-server-runtime.c:1435`). A replay of
  recorded kernels never takes place because nothing counts `operator_count` up.
* ELF parsing, the stubs of the CUDA libraries, logging and InfiniBand: see
  "components" of PROJECT.json. Most lines of the repository are of these kinds:
  stubs that translate handles and call a library, and vendored headers.

## 9. Reading the source

Some lines do not compile as they stand: `cpu-server-runtime.c:843` (`tr func`),
`cpu-server-runtime.c:928` (`}input_address_old[input_count]`), and
`cpu-client-runtime.c:298` and `:1033` (a missing semicolon). The models read
them as what is evidently meant: a parameter named `func`, nothing, and the end
of the statement.

## 10. Running it

    tlc -workers 2 -config MCReplaySession.cfg MCInferenceReplay.tla
    tlapm InferenceReplayProofs.tla

Each run of PROJECT.json names its module and configuration. `mutants` there
gives, for each property, a plausible bug that makes it fail: the operators
marked "Mutant of" in the modules.
