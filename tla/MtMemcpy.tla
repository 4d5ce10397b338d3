------------------------------ MODULE MtMemcpy ------------------------------
(* Memory copies through several sockets and threads (mt-memcpy.c, oob.c, the *)
(* cuda_memcpy_mt_* handlers of cpu-server-runtime.c and the large copies of  *)
(* cudaMemcpy in cpu-client-runtime.c).                                       *)
(*                                                                            *)
(* A client asks for a copy; the server's only RPC thread appends a record to *)
(* mt_memcpy_list, starts a listener thread, allocates staging memory, meets  *)
(* the listener at a barrier and answers with a port and the record's index.  *)
(* The client connects one thread per chunk; the listener starts one worker   *)
(* per connection.  When its threads have ended the client calls sync with    *)
(* the index, and the RPC thread joins the listener.                          *)
(*                                                                            *)
(* Bound: a copy starts only while the record it adds fits into the first     *)
(* block of the list (FirstBlock), so list_append cannot fail.  A fifth       *)
(* record at a time would move the records of running listeners.              *)
EXTENDS Integers, Sequences, FiniteSets, SequencesExt

CONSTANTS Clients,      \* client processes, each with one thread that copies
          MemPerThread, \* MT_MEMCPY_MEM_PER_THREAD, in cells of the model
          Sizes,        \* sizes of the copies asked for
          MaxJobs,      \* bound: copies started in a behaviour
          FaultKinds,   \* faults that may happen
          FaultyJobs,   \* bound: the jobs that faults may hit
          MaxFaults,    \* bound: faults in a behaviour
          Uses          \* bound: the directions in which each client copies

ASSUME ClientsAssumption == Clients # {}
\* cudaMemcpy takes this path only for count > 2*MT_MEMCPY_MEM_PER_THREAD
ASSUME SizesAssumption ==
    /\ MemPerThread \in Nat \ {0} /\ MaxJobs \in Nat /\ MaxFaults \in Nat
    /\ Sizes \subseteq Nat /\ \A s \in Sizes : s > 2 * MemPerThread
\* AllThreads counts the threads of the largest copy: size is a size_t
ASSUME LargestAssumption == Sizes # {} => \E s \in Sizes : \A r \in Sizes : r <= s
ASSUME FaultsAssumption ==
    /\ FaultKinds \subseteq {"malloc", "socket", "thread", "connect", "cuda"}
    /\ Uses \subseteq Clients \X {"htod", "dtoh"}

VARIABLES
    client,   \* per client: what its thread waits for, what it asked and was told
    rpc,      \* the server's RPC thread: where it is, for whom, on which job
    list,     \* mt_memcpy_list: the job of each record
    job,      \* the fields of the record: size, direction, port, staging memory
    listener, \* the listener thread of each job
    backlog,  \* connections made and not yet accepted, oldest first
    peer,     \* accepted connections: worker i serves client thread peer[i + 1]
    worker,   \* the server's copy threads
    sender,   \* the client's copy threads
    wire,     \* what the socket of each client thread carries
    staging,  \* the cells behind mem_ptr
    target,   \* the cells copied to, on the device or on the client
    faults    \* history: the faults that happened and the jobs they hit

memory == <<staging, target>>
threads == <<backlog, peer, worker, sender, wire, memory>>
vars == <<client, rpc, list, job, listener, threads, faults>>

Jobs  == 1..MaxJobs
FirstBlock == 4 \* INITIAL_CAPACITY of list.c; bound: records at a time
NoJob == 0
Directions == {"htod", "dtoh"}
ThreadNum(size) == size \div MemPerThread
Threads(j) == 0 .. ThreadNum(job[j].size) - 1
AllThreads == 0 .. (IF Sizes = {} THEN 0 ELSE ThreadNum(CHOOSE s \in Sizes : \A r \in Sizes : r <= s) - 1)

Unused == [size |-> 0, dir |-> "htod", port |-> NoJob, mem |-> "none"]
NoData == [id |-> 0, data |-> <<>>]
Started == {j \in Jobs : job[j] # Unused}
-----------------------------------------------------------------------------
(* Chunks and memory.  A cell holds the index of the source cell it was       *)
(* copied from, so that data that lands in the wrong place is visible.        *)
Nothing == -1
Source(size) == [k \in 0..size-1 |-> k]
Fresh(size)  == [k \in 0..size-1 |-> Nothing]

\* Mutant of ChunkBounds: the remainder of the division is left out.
BoundsWithoutRemainder(size, n, t) ==
    LET memPerThread == size \div n
    IN  [first |-> t * memPerThread, len |-> memPerThread]
\* The cells thread t of n copies; the last thread takes the remainder.
ChunkBounds(size, n, t) ==
    LET memPerThread == size \div n
        memOffset    == t * memPerThread
    IN  [first |-> memOffset, len |-> IF t = n - 1 THEN size - memOffset ELSE memPerThread]
Bounds(j, t) == ChunkBounds(job[j].size, ThreadNum(job[j].size), t)
Cells(b) == b.first .. b.first + b.len - 1

\* What a socket carries when the cells of b are sent, and where it lands
Read(from, b) == [i \in 1..b.len |-> from[b.first + i - 1]]
Land(to, b, data) == [k \in DOMAIN to |-> IF k \in Cells(b) THEN data[k - b.first + 1] ELSE to[k]]
-----------------------------------------------------------------------------
Init ==
    /\ client = [c \in Clients |-> [pc |-> "idle", size |-> 0, dir |-> "htod", port |-> NoJob,
                                    id |-> 0, ret |-> 0, job |-> NoJob]]
    /\ rpc = [pc |-> "ready", client |-> CHOOSE c \in Clients : TRUE, job |-> NoJob]
    /\ list = <<>>
    /\ job = [j \in Jobs |-> Unused]
    /\ listener = [j \in Jobs |-> "none"]
    /\ backlog = [j \in Jobs |-> <<>>]
    /\ peer = [j \in Jobs |-> <<>>]
    /\ worker = [j \in Jobs |-> [t \in AllThreads |-> [pc |-> "none", id |-> t]]]
    /\ sender = [j \in Jobs |-> [t \in AllThreads |-> "none"]]
    /\ wire = [j \in Jobs |-> [t \in AllThreads |-> NoData]]
    /\ staging = [j \in Jobs |-> <<>>]
    /\ target = [j \in Jobs |-> <<>>]
    /\ faults = {}

Fault(kind, j) ==
    /\ kind \in FaultKinds /\ j \in FaultyJobs /\ Cardinality(faults) < MaxFaults
    /\ faults' = faults \cup {<<kind, j>>}
-----------------------------------------------------------------------------
(* The client's calling thread: cudaMemcpy.                                   *)

AskCopy(c, size, dir) ==
    /\ client[c].pc = "idle" /\ <<c, dir>> \in Uses
    /\ client' = [client EXCEPT ![c].pc = "asked", ![c].size = size, ![c].dir = dir]
    /\ UNCHANGED <<rpc, list, job, listener, threads, faults>>

\* mt_memcpy_client has joined its threads: it returns 0 whatever they returned.
JoinThreads(c) ==
    /\ client[c].pc = "copying"
    /\ client[c].job # NoJob => \A t \in Threads(client[c].job) :
                                    sender[client[c].job][t] \in {"done", "failed"}
    /\ client' = [client EXCEPT ![c].pc = "asksync"]
    /\ UNCHANGED <<rpc, list, job, listener, threads, faults>>

\* pthread_create fails for the first thread: cudaMemcpy fails without a sync.
\* (A failure for a later one leaves threads that use freed arguments.)
CreateThreadsFails(c) ==
    LET j == client[c].job IN
    /\ client[c].pc = "copying" /\ j # NoJob
    /\ \A t \in Threads(j) : sender[j][t] = "start"
    /\ Fault("thread", j)
    /\ client' = [client EXCEPT ![c].pc = "idle", ![c].ret = 1]
    /\ sender' = [sender EXCEPT ![j] = [t \in AllThreads |-> "none"]]
    /\ UNCHANGED <<rpc, list, job, listener, backlog, peer, worker, wire, memory>>
-----------------------------------------------------------------------------
(* The server's RPC thread: one handler at a time.                            *)

\* cuda_memcpy_mt_htod_1_svc and _dtoh_1_svc up to pthread_create
ServeCopy(c) ==
    /\ rpc.pc = "ready" /\ client[c].pc = "asked" /\ Started # Jobs
    /\ Len(list) < FirstBlock
    /\ LET j == Cardinality(Started) + 1  size == client[c].size IN
       /\ rpc' = [pc |-> "allocating", client |-> c, job |-> j]
       /\ list' = Append(list, j)
       /\ job' = [job EXCEPT ![j] = [Unused EXCEPT !.size = size, !.dir = client[c].dir]]
       /\ listener' = [listener EXCEPT ![j] = "opening"]
       /\ staging' = [staging EXCEPT ![j] = Fresh(size)]
       /\ target' = [target EXCEPT ![j] = Fresh(size)]
    /\ UNCHANGED <<client, backlog, peer, worker, sender, wire, faults>>

Allocate ==
    /\ rpc.pc = "allocating"
    /\ job' = [job EXCEPT ![rpc.job].mem = "held"]
    /\ rpc' = [rpc EXCEPT !.pc = "barrier"]
    /\ UNCHANGED <<client, list, listener, threads, faults>>

\* malloc fails.  The cancellation does not reach the listener (it has no
\* cancellation point before the barrier); destroying a barrier at which it
\* already waits does not return.  Otherwise the answer is an error without
\* port and index, which the client does not look at: it goes on with whatever
\* its variables hold, fails to connect, and calls sync.
AllocateFails ==
    /\ rpc.pc = "allocating" /\ Fault("malloc", rpc.job)
    /\ \/ /\ listener[rpc.job] = "barrier"
          /\ rpc' = [rpc EXCEPT !.pc = "destroying"]
          /\ UNCHANGED client
       \/ /\ listener[rpc.job] # "barrier"
          /\ rpc' = [rpc EXCEPT !.pc = "ready"]
          /\ \E id \in 0..MaxJobs :
                client' = [client EXCEPT ![rpc.client] =
                    [@ EXCEPT !.pc = "copying", !.id = id, !.job = NoJob, !.port = NoJob]]
    /\ UNCHANGED <<list, job, listener, threads>>

\* Mutant of BarrierIsFull: the RPC thread does not wait for the listener.
NoBarrier(j) == TRUE
BarrierIsFull(j) == listener[j] = "barrier"

\* Both leave the barrier, and the handler answers; the client's threads start.
PassBarrier ==
    LET j == rpc.job  c == rpc.client IN
    /\ rpc.pc = "barrier" /\ BarrierIsFull(j)
    /\ listener' = [listener EXCEPT ![j] = IF @ = "barrier" THEN "accepting" ELSE @]
    /\ client' = [client EXCEPT ![c] = [@ EXCEPT !.pc = "copying", !.id = Len(list) - 1,
                                                 !.job = j, !.port = job[j].port]]
    /\ sender' = [sender EXCEPT ![j] = [t \in AllThreads |-> IF t \in Threads(j) THEN "start" ELSE "none"]]
    /\ rpc' = [rpc EXCEPT !.pc = "ready"]
    /\ UNCHANGED <<list, job, backlog, peer, worker, wire, memory, faults>>

\* cuda_memcpy_mt_sync_1_svc up to pthread_join
ServeSync(c) ==
    /\ rpc.pc = "ready" /\ client[c].pc = "asksync"
    /\ \/ /\ client[c].id < Len(list)
          /\ rpc' = [pc |-> "joining", client |-> c, job |-> list[client[c].id + 1]]
          /\ UNCHANGED client
       \/ /\ client[c].id >= Len(list)
          /\ client' = [client EXCEPT ![c].pc = "idle", ![c].ret = 1]
          /\ UNCHANGED rpc
    /\ UNCHANGED <<list, job, listener, threads, faults>>

\* Mutant of Removed: the record is removed wherever it is in the list.
RemovedAnywhere(l, id) == RemoveAt(l, id + 1)
\* Mutant of Removed: the record is never removed.
NeverRemoved(l, id) == l
\* Only the last record is removed.  The loop that would remove the ones before
\* it looks for a dev_ptr of NULL, which no copy has.
Removed(l, id) == IF id = Len(l) - 1 THEN Front(l) ELSE l

JoinListener ==
    LET c == rpc.client IN
    /\ rpc.pc = "joining" /\ listener[rpc.job] \in {"done", "gone"}
    /\ client' = [client EXCEPT ![c].pc = "idle",
                                ![c].ret = IF listener[rpc.job] = "done" THEN 0 ELSE 1]
    /\ list' = Removed(list, client[c].id)
    /\ rpc' = [rpc EXCEPT !.pc = "ready"]
    /\ UNCHANGED <<job, listener, threads, faults>>
-----------------------------------------------------------------------------
(* The listener thread of job j.                                              *)

OpenSocket(j) ==
    /\ listener[j] = "opening"
    /\ listener' = [listener EXCEPT ![j] = "barrier"]
    /\ job' = [job EXCEPT ![j].port = j]
    /\ UNCHANGED <<client, rpc, list, threads, faults>>

OpenSocketFails(j) ==
    /\ listener[j] = "opening" /\ Fault("socket", j)
    /\ listener' = [listener EXCEPT ![j] = "gone"]
    /\ UNCHANGED <<client, rpc, list, job, threads>>

\* Mutant of Expected: the loop of the listener runs once too often.
OneTooMany(j) == ThreadNum(job[j].size) + 1
\* Mutant of Expected: the loop of the listener runs once too few.
OneTooFew(j) == ThreadNum(job[j].size) - 1
\* The connections the listener accepts
Expected(j) == ThreadNum(job[j].size)

Accept(j) ==
    /\ listener[j] = "accepting" /\ Len(peer[j]) < Expected(j)
    /\ backlog[j] # <<>>
    /\ peer' = [peer EXCEPT ![j] = Append(@, Head(backlog[j]))]
    /\ backlog' = [backlog EXCEPT ![j] = Tail(@)]
    /\ worker' = [worker EXCEPT ![j][Len(peer[j])].pc = "start"]
    /\ UNCHANGED <<client, rpc, list, job, listener, sender, wire, memory, faults>>

\* malloc, accept or pthread_create fails: the thread returns at once.
ListenerFails(j) ==
    /\ listener[j] = "accepting" /\ Len(peer[j]) < Expected(j)
    /\ Fault("thread", j)
    /\ listener' = [listener EXCEPT ![j] = "gone"]
    /\ UNCHANGED <<client, rpc, list, job, threads>>

\* Mutant of WorkersEnded: the listener does not wait for its workers.
DoNotJoin(j) == Len(peer[j]) = Expected(j)
WorkersEnded(j) ==
    /\ Len(peer[j]) = Expected(j)
    /\ \A i \in 0 .. Expected(j) - 1 : worker[j][i].pc \in {"done", "failed"}

\* Joins its workers, frees the staging memory and returns 0, even if a worker failed.
JoinWorkers(j) ==
    /\ listener[j] = "accepting" /\ WorkersEnded(j)
    /\ listener' = [listener EXCEPT ![j] = "done"]
    /\ job' = [job EXCEPT ![j].mem = "freed"]
    /\ UNCHANGED <<client, rpc, list, threads, faults>>
-----------------------------------------------------------------------------
(* Client thread t of job j: mt_memcpy_client_thread.                         *)

Connect(c, t) ==
    LET j == client[c].job  p == client[c].port IN
    /\ j # NoJob /\ p # NoJob /\ sender[j][t] = "start"
    /\ sender' = [sender EXCEPT ![j][t] = "connected"]
    /\ backlog' = [backlog EXCEPT ![p] = Append(@, t)]
    /\ UNCHANGED <<client, rpc, list, job, listener, peer, worker, wire, memory, faults>>

ConnectFails(j, t) ==
    /\ sender[j][t] = "start" /\ Fault("connect", j)
    /\ sender' = [sender EXCEPT ![j][t] = "failed"]
    /\ UNCHANGED <<client, rpc, list, job, listener, backlog, peer, worker, wire, memory>>

\* A chunk is larger than the socket's buffers: it leaves once it is received.
SendToServer(j, t) ==
    /\ job[j].dir = "htod" /\ sender[j][t] = "connected" /\ t \in Range(peer[j])
    /\ wire' = [wire EXCEPT ![j][t] = [id |-> t, data |-> Read(Source(job[j].size), Bounds(j, t))]]
    /\ sender' = [sender EXCEPT ![j][t] = "done"]
    /\ UNCHANGED <<client, rpc, list, job, listener, backlog, peer, worker, memory, faults>>

\* The index that comes with the data, not the thread's own, says where it belongs.
ReceiveFromServer(j, t) ==
    LET m == wire[j][t] IN
    /\ job[j].dir = "dtoh" /\ sender[j][t] = "connected"
    /\ m # NoData /\ Len(m.data) >= Bounds(j, m.id).len
    /\ target' = [target EXCEPT ![j] = Land(@, Bounds(j, m.id), m.data)]
    /\ sender' = [sender EXCEPT ![j][t] = "done"]
    /\ UNCHANGED <<client, rpc, list, job, listener, backlog, peer, worker, wire, staging, faults>>
-----------------------------------------------------------------------------
(* Worker i of job j: mt_memcpy_copy_thread.                                  *)

\* Mutant of WorkerIndex: indexes that count from one.
IndexFromOne(m, i) == m.id + 1
WorkerIndex(m, i) == m.id

ReceiveFromClient(j, i) ==
    LET m  == wire[j][peer[j][i + 1]]
        id == WorkerIndex(m, i)
    IN
    /\ job[j].dir = "htod" /\ worker[j][i].pc = "start"
    /\ m # NoData /\ Len(m.data) >= Bounds(j, id).len
    /\ staging' = [staging EXCEPT ![j] = Land(@, Bounds(j, id), m.data)]
    /\ worker' = [worker EXCEPT ![j][i] = [pc |-> "copy", id |-> id]]
    /\ UNCHANGED <<client, rpc, list, job, listener, backlog, peer, sender, wire, target, faults>>

\* cudaMemcpy to the device; an error is logged and nothing else.
CopyToDevice(j, i) ==
    LET b == Bounds(j, worker[j][i].id) IN
    /\ worker[j][i].pc = "copy"
    /\ \/ target' = [target EXCEPT ![j] = Land(@, b, Read(staging[j], b))] /\ UNCHANGED faults
       \/ Fault("cuda", j) /\ UNCHANGED target
    /\ worker' = [worker EXCEPT ![j][i].pc = "done"]
    /\ UNCHANGED <<client, rpc, list, job, listener, backlog, peer, sender, wire, staging>>

\* cudaMemcpy from the device; after an error the worker leaves its socket open.
CopyFromDevice(j, i) ==
    LET b == Bounds(j, worker[j][i].id) IN
    /\ job[j].dir = "dtoh" /\ worker[j][i].pc = "start"
    /\ \/ /\ staging' = [staging EXCEPT ![j] = Land(@, b, Read(Source(job[j].size), b))]
          /\ worker' = [worker EXCEPT ![j][i].pc = "send"]
          /\ UNCHANGED faults
       \/ /\ Fault("cuda", j)
          /\ worker' = [worker EXCEPT ![j][i].pc = "failed"]
          /\ UNCHANGED staging
    /\ UNCHANGED <<client, rpc, list, job, listener, backlog, peer, sender, wire, target>>

SendToClient(j, i) ==
    LET id == worker[j][i].id IN
    /\ worker[j][i].pc = "send"
    /\ wire' = [wire EXCEPT ![j][peer[j][i + 1]] = [id |-> id, data |-> Read(staging[j], Bounds(j, id))]]
    /\ worker' = [worker EXCEPT ![j][i].pc = "done"]
    /\ UNCHANGED <<client, rpc, list, job, listener, backlog, peer, sender, memory, faults>>
-----------------------------------------------------------------------------
RpcStep ==
    \/ Allocate \/ PassBarrier \/ JoinListener
    \/ \E c \in Clients : ServeCopy(c) \/ ServeSync(c)
ListenerStep(j) == OpenSocket(j) \/ Accept(j) \/ JoinWorkers(j)
SenderStep(j, t) ==
    \/ \E c \in Clients : client[c].job = j /\ Connect(c, t)
    \/ SendToServer(j, t) \/ ReceiveFromServer(j, t)
WorkerStep(j, i) ==
    \/ ReceiveFromClient(j, i) \/ CopyToDevice(j, i)
    \/ CopyFromDevice(j, i) \/ SendToClient(j, i)
ThreadStep ==
    \/ RpcStep
    \/ \E c \in Clients : JoinThreads(c)
    \/ \E j \in Jobs : ListenerStep(j)
    \/ \E j \in Jobs, t \in AllThreads : SenderStep(j, t) \/ WorkerStep(j, t)
FaultStep ==
    \/ AllocateFails
    \/ \E c \in Clients : CreateThreadsFails(c)
    \/ \E j \in Jobs : OpenSocketFails(j) \/ ListenerFails(j)
    \/ \E j \in Jobs, t \in AllThreads : ConnectFails(j, t)

Next ==
    \/ \E c \in Clients, size \in Sizes, dir \in Directions : AskCopy(c, size, dir)
    \/ ThreadStep
    \/ FaultStep

\* Some thread that can run does; applications need not copy, nothing need fail.
\* (A copy has finitely many steps, so no thread can keep another from running.)
Fairness == WF_vars(ThreadStep)

Spec == Init /\ [][Next]_vars /\ Fairness
-----------------------------------------------------------------------------
(* Properties                                                                 *)

ThreadStates == {"none", "start", "connected", "copy", "send", "done", "failed"}
\* Every variable holds values of the kind the code gives it.
MemcpyTypeOK ==
    /\ \A c \in Clients : /\ client[c].pc \in {"idle", "asked", "copying", "asksync"}
                          /\ client[c].job \in Jobs \cup {NoJob} /\ client[c].ret \in {0, 1}
    /\ rpc.pc \in {"ready", "allocating", "barrier", "destroying", "joining"}
    /\ list \in Seq(Started)
    /\ \A j \in Jobs :
          /\ listener[j] \in {"none", "opening", "barrier", "accepting", "done", "gone"}
          /\ job[j].mem \in {"none", "held", "freed"}
          /\ \A t \in AllThreads : /\ sender[j][t] \in ThreadStates
                                  /\ worker[j][t].pc \in ThreadStates
                                  /\ worker[j][t].id \in AllThreads
          /\ DOMAIN target[j] = DOMAIN staging[j]

Hit(kinds)    == \E f \in faults : f[1] \in kinds
HitJob(j)     == \E f \in faults : f[2] = j

\* A copy that cudaMemcpy reports as done has moved every cell to its place, in
\* whatever order the threads connected, unless a fault hit it (the worker that
\* cannot copy to the device only logs) or a client took a missing answer for
\* an index; and without faults it is reported as done
\* (mt-memcpy.c 30-46, 124-129; cpu-server-runtime.c 1525).
CopiedWhole ==
    \A c \in Clients :
        LET j == client[c].job IN
        client[c].pc = "idle" /\ j # NoJob /\ ~HitJob(j) /\ ~Hit({"malloc"})
            => client[c].ret = 0 /\ target[j] = Source(job[j].size)

\* What a client is told is about its own copy.  The port is the one its listener
\* listens on: the barrier keeps the answer back until the listener knows it
\* (mt-memcpy.c 95, 171).  The listener that sync joins is the one of its copy: no
\* removal moves the index it was given (cpu-server-runtime.c 1528).
AnswersAreTheirOwn ==
    /\ \A c \in Clients : client[c].pc = "copying" => client[c].port = client[c].job
    /\ rpc.pc = "joining" /\ ~Hit({"malloc"}) => rpc.job = client[rpc.client].job

\* A worker uses the staging memory only between its allocation and its release,
\* which are the work of two other threads (mt-memcpy.c 124, 159).
StagingOutlivesItsWorkers ==
    \A j \in Jobs, i \in AllThreads :
        worker[j][i].pc \in {"start", "copy", "send"} => job[j].mem = "held"

\* While one client copies alone the list holds no record but that of its
\* running copy; records are left behind only when copies of several clients
\* overlap (cpu-server-runtime.c 1528-1533).
LoneClientLeavesNoRecord ==
    (\E c \in Clients : \A d \in Clients \ {c} : client[d].job = NoJob /\ rpc.client # d) /\ faults = {}
        => Len(list) <= 1

\* The RPC thread, on which every client of the server depends, comes back from
\* the barrier and from the join: only a listener without a socket, a client
\* thread that cannot connect, or a failed allocation keeps it for ever
\* (mt-memcpy.c 90, 161, 180, 301).  And a copy that was started ends, if nothing
\* fails.
CopiesEnd ==
    /\ rpc.pc # "ready" ~> rpc.pc = "ready" \/ Hit({"malloc", "socket", "connect"})
    /\ \A c \in Clients : client[c].pc = "copying" ~> client[c].pc = "idle" \/ faults # {}
=============================================================================
