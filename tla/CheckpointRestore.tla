-------------------------- MODULE CheckpointRestore --------------------------
(***************************************************************************)
(* Checkpoint and restore of the server's device memory (cpu/cr.c).        *)
(*                                                                         *)
(* Handlers log the calls that change the device.  A checkpoint writes the *)
(* log, then for each cudaMalloc in it the memory at the address it        *)
(* returned.  A server started with RRTO_RESTORE reads the log record by   *)
(* record: it allocates anew what was allocated, copies the saved contents *)
(* back, maps the address the client holds to the new one, and calls the   *)
(* handlers of the other calls, which log themselves a second time.        *)
(*                                                                         *)
(* A checkpoint is asked for by a call, or by a signal, which may arrive   *)
(* in the middle of a handler.  The server may die at any point; its       *)
(* client comes back, as CRIU restores it, as it was at the checkpoint.    *)
(***************************************************************************)
EXTENDS Integers, Sequences, Functions

CONSTANTS AddrOf,     \* the device addresses each server process hands out
          Val,        \* contents of memory; 0 is undefined contents
          Kinds,      \* the calls clients make
          Signals,    \* may a signal ask for a checkpoint?
          Unset,      \* what the result field of a new record may hold
          MaxRestarts,\* bound on restarts of the server
          MaxRecords  \* bound on calls logged, those of a restore apart

ASSUME CheckpointAssumption ==
    /\ MaxRestarts \in Nat
    /\ AddrOf \in [0 .. MaxRestarts -> SUBSET (Nat \ {0})]
    /\ Val \subseteq Nat \ {0}
    /\ Kinds \subseteq {"malloc", "free", "htod", "memset"}
    /\ Signals \in BOOLEAN
    /\ Unset \subseteq {0} \cup UNION {AddrOf[r] : r \in 0 .. MaxRestarts}
    /\ MaxRecords \in Nat

VARIABLES
    status,  \* what the server process does: serve, dump, restore, or nothing
    run,     \* the number of restarts so far
    next,    \* the record the dump or restore is at
    api_records, map_res, \* the log, and the manager of memory: its new_res is never looked at
    mem,     \* device memory: contents of the allocated addresses
    call,    \* the call being handled
    disk,    \* the checkpoint: log, memory files, and whether it was completed
    held,    \* the client: its allocations, with what it knows of the contents
    saved,   \* held, when the last checkpoint was begun
    clash    \* history: a new allocation got an address that the manager translates

server == <<api_records, map_res, mem>>
ckvars == <<status, run, next, server, call, disk, held, saved, clash>>

Addr == UNION {AddrOf[r] : r \in 0 .. MaxRestarts}
Record == [op : Kinds, ptr : Addr \cup {0}, val : Val \cup {0}]
NoCall == [op |-> "none", ptr |-> 0, val |-> 0]
Nothing == [a \in {} |-> 0]

\* A function with one more point, with one changed, or with one left out.
With(f, a, v) == [x \in DOMAIN f \cup {a} |-> IF x = a THEN v ELSE f[x]]
Without(f, a) == Restrict(f, DOMAIN f \ {a})
Set(f, a, v) == IF a \in DOMAIN f THEN With(f, a, v) ELSE f

Init ==
    /\ status = "serve" /\ run = 0 /\ next = 1
    /\ api_records = <<>> /\ map_res = Nothing /\ mem = Nothing
    /\ call = NoCall
    /\ disk = [records |-> <<>>, mem |-> Nothing, complete |-> FALSE]
    /\ held = Nothing /\ saved = Nothing /\ clash = FALSE

\* resource_mg_get: the first process bypasses the manager.
Resolve(a) == IF run > 0 /\ a \in DOMAIN map_res THEN map_res[a] ELSE a

-----------------------------------------------------------------------------
(* Handlers: the record comes first, with whatever its result field holds, *)
(* then the device, then the result.                                       *)

Log(r) == api_records' = Append(api_records, r)

Begin(r) ==
    /\ status = "serve" /\ call = NoCall
    /\ r.op \in Kinds
    /\ Len(api_records) < MaxRecords
    /\ call' = r
    /\ Log(r)
    /\ UNCHANGED <<status, run, next, map_res, mem, disk, saved, clash>>

\* The device has room for what clients ask for.
MallocBegins ==
    /\ AddrOf[run] \ DOMAIN mem # {}
    /\ \E unset \in Unset :
          /\ Begin([op |-> "malloc", ptr |-> unset, val |-> 0])
          /\ UNCHANGED held

FreeBegins ==
    \E c \in DOMAIN held :
        /\ Begin([op |-> "free", ptr |-> c, val |-> 0])
        /\ held' = Without(held, c)

\* A copy to the device or a cudaMemset: what the client knows is in doubt.
WriteBegins ==
    \E c \in DOMAIN held, op \in {"htod", "memset"}, v \in Val :
        /\ Begin([op |-> op, ptr |-> c, val |-> v])
        /\ held' = With(held, c, 0)

\* The effect of a call other than cudaMalloc on the device.
\* Mutant of Effect: the address of a cudaFree is not translated.
FreesUntranslated(r) ==
    IF r.op = "free" THEN Without(mem, r.ptr) ELSE Set(mem, Resolve(r.ptr), r.val)
Effect(r) ==
    IF r.op = "free" THEN Without(mem, Resolve(r.ptr))
    ELSE Set(mem, Resolve(r.ptr), r.val)

MallocEnds ==
    /\ call.op = "malloc"
    /\ \E d \in AddrOf[run] \ DOMAIN mem :
          /\ mem' = With(mem, d, 0)
          /\ api_records' = [api_records EXCEPT ![Len(api_records)].ptr = d]
          /\ held' = With(held, d, 0)
          /\ clash' = (clash \/ d \in DOMAIN map_res)

OtherEnds ==
    /\ call.op \in {"free", "htod", "memset"}
    /\ mem' = Effect(call)
    /\ held' = IF call.op = "free" THEN held ELSE With(held, call.ptr, call.val)
    /\ UNCHANGED <<api_records, clash>>

CallEnds ==
    /\ status = "serve"
    /\ MallocEnds \/ OtherEnds
    /\ call' = NoCall
    /\ UNCHANGED <<status, run, next, map_res, disk, saved>>

-----------------------------------------------------------------------------
(* Checkpoint.  A handler that a signal has interrupted goes on afterwards. *)

\* cr_dump opens the file of the log and thereby empties it.
CheckpointBegins ==
    /\ status = "serve"
    /\ call = NoCall \/ Signals
    /\ status' = "dump_log"
    /\ next' = 1
    /\ disk' = [disk EXCEPT !.records = <<>>, !.complete = FALSE]
    /\ saved' = held
    /\ UNCHANGED <<run, server, call, held, clash>>

DumpRecord ==
    /\ status = "dump_log"
    /\ \/ /\ next <= Len(api_records)
          /\ disk' = [disk EXCEPT !.records = Append(@, api_records[next])]
          /\ next' = next + 1
          /\ UNCHANGED status
       \/ /\ next > Len(api_records)
          /\ status' = "dump_mem"
          /\ next' = 1
          /\ UNCHANGED disk
    /\ UNCHANGED <<run, server, call, held, saved, clash>>

\* Mutant of Dumped: only the memory of the last record.
DumpedAtEnd(r) ==
    IF r.op = "malloc" /\ r.ptr \in DOMAIN mem /\ next = Len(api_records)
    THEN With(disk.mem, r.ptr, mem[r.ptr]) ELSE disk.mem
\* cr_dump_memory_entry takes the address from the record as it is; memory
\* that cannot be read leaves an older file where it is.
Dumped(r) ==
    IF r.op = "malloc" /\ r.ptr \in DOMAIN mem
    THEN With(disk.mem, r.ptr, mem[r.ptr]) ELSE disk.mem

DumpMemory ==
    /\ status = "dump_mem"
    /\ \/ /\ next <= Len(api_records)
          /\ disk' = [disk EXCEPT !.mem = Dumped(api_records[next])]
          /\ next' = next + 1
          /\ UNCHANGED status
       \/ /\ next > Len(api_records)
          /\ status' = "serve"
          /\ disk' = [disk EXCEPT !.complete = TRUE]
          /\ UNCHANGED next
    /\ UNCHANGED <<run, server, call, held, saved, clash>>

-----------------------------------------------------------------------------
(* Death and restore.                                                      *)

Dies ==
    /\ status # "dead"
    /\ status' = "dead"
    /\ UNCHANGED <<run, next, server, call, disk, held, saved, clash>>

\* The new process, and the client as of the checkpoint, which the last one
\* has reported to be complete.
Restart ==
    /\ status = "dead"
    /\ run < MaxRestarts
    /\ disk.complete
    /\ status' = "restore"
    /\ run' = run + 1
    /\ next' = 1
    /\ api_records' = <<>> /\ map_res' = Nothing /\ mem' = Nothing
    /\ call' = NoCall
    /\ held' = saved
    /\ UNCHANGED <<disk, saved, clash>>

\* Mutants of Mapped: the addresses swapped; of two allocations at one address
\* the first counts.
MappedBack(c, d) == With(map_res, d, c)
MappedOnce(c, d) == IF c \in DOMAIN map_res THEN map_res ELSE With(map_res, c, d)
\* resource_mg_add_sorted
Mapped(c, d) == With(map_res, c, d)

\* cr_restore_memory; without a file the contents are undefined.
RestoreMemory(r) ==
    /\ r.op = "malloc"
    /\ \E d \in AddrOf[run] \ DOMAIN mem :
          /\ mem' = With(mem, d, IF r.ptr \in DOMAIN disk.mem THEN disk.mem[r.ptr] ELSE 0)
          /\ map_res' = Mapped(r.ptr, d)
    /\ Log(r)

\* Copies to the device are in the saved memory already.
RestoreNothing(r) ==
    /\ r.op = "htod"
    /\ Log(r)
    /\ UNCHANGED <<map_res, mem>>

\* cr_call_record: the handler logs the call again.
CallRecord(r) ==
    /\ r.op \in {"free", "memset"}
    /\ mem' = Effect(r)
    /\ api_records' = api_records \o <<r, r>>
    /\ UNCHANGED map_res

RestoreRecord ==
    /\ status = "restore"
    /\ next <= Len(disk.records)
    /\ LET r == disk.records[next]
       IN  RestoreMemory(r) \/ RestoreNothing(r) \/ CallRecord(r)
    /\ next' = next + 1
    /\ UNCHANGED <<status, run, call, disk, held, saved, clash>>

\* cr_launch_kernel launches the last kernel of the log, which the handler does
\* not run because the new process has counted no input; with an empty log it
\* reads a record outside the list.
RestoreEnds ==
    /\ status = "restore"
    /\ next > Len(disk.records)
    /\ \/ status' = "serve"
       \/ api_records = <<>> /\ status' = "dead"
    /\ UNCHANGED <<run, next, server, call, disk, held, saved, clash>>

-----------------------------------------------------------------------------
Next ==
    \/ MallocBegins \/ FreeBegins \/ WriteBegins \/ CallEnds
    \/ CheckpointBegins \/ DumpRecord \/ DumpMemory
    \/ Dies \/ Restart \/ RestoreRecord \/ RestoreEnds

Spec == Init /\ [][Next]_ckvars

-----------------------------------------------------------------------------
(***************************************************************************)
(* Properties                                                              *)
(***************************************************************************)
CheckpointTypeOK ==
    /\ status \in {"serve", "dump_log", "dump_mem", "restore", "dead"}
    /\ run \in 0 .. MaxRestarts
    /\ next \in Nat \ {0}
    /\ api_records \in Seq(Record)
    /\ DOMAIN map_res \subseteq Addr \cup {0} /\ Range(map_res) \subseteq AddrOf[run]
    /\ DOMAIN mem \subseteq AddrOf[run] /\ Range(mem) \subseteq Val \cup {0}
    /\ call \in Record \cup {NoCall}
    /\ disk.records \in Seq(Record) /\ disk.complete \in BOOLEAN
    /\ DOMAIN disk.mem \subseteq Addr /\ Range(disk.mem) \subseteq Val \cup {0}
    /\ \A client \in {held, saved} :
          DOMAIN client \subseteq Addr /\ Range(client) \subseteq Val \cup {0}
    /\ clash \in BOOLEAN

(* Processes may hand out the same addresses.  What was restored is looked  *)
(* up in the manager first, so a new allocation at an address that an old   *)
(* one had is taken for the old one (resource-mg.c:101): clash.  From then  *)
(* on the code promises nothing.                                            *)

\* The client may rely on its memory.
Up == status \notin {"restore", "dead"}
Serving == Up /\ ~clash

(* Whatever was allocated, freed and allocated again at the same address,  *)
(* however often the server was restored since: each allocation the client *)
(* has is backed by device memory, and no two by the same, until a new one *)
(* gets an address that the manager translates (cr.c:359, cr.c:772).         *)
ClientsKeepTheirMemory ==
    Serving =>
        /\ \A c \in DOMAIN held : Resolve(c) \in DOMAIN mem
        /\ \A b, c \in DOMAIN held : b # c => Resolve(b) # Resolve(c)

(* The client reads what it has written, restored or not, and although the *)
(* checkpoint may have cut through a call, until a clash (cr.c:331, 367).  *)
ClientsSeeTheirData ==
    Serving => \A c \in DOMAIN held :
        held[c] # 0 => Resolve(c) \in DOMAIN mem /\ mem[Resolve(c)] = held[c]

(* The server has no memory allocated that no client can free: a restore   *)
(* frees again what was freed, and only that, until a clash (cr.c:700).    *)
NothingLeaks ==
    Serving /\ call = NoCall => DOMAIN mem = {Resolve(c) : c \in DOMAIN held}
=============================================================================
