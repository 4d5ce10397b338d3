----------------------------- MODULE HostMemory -----------------------------
(* Pinned host memory in shared segments: cudaHostAlloc, cudaFreeHost and     *)
(* the copies from such buffers (cpu-client-runtime.c), with the handlers of  *)
(* cpu-server-runtime.c behind them.                                          *)
(*                                                                            *)
(* Each client numbers its buffers in its own hainfo table; the server        *)
(* numbers those of all clients in one.  An allocation takes two calls, and   *)
(* in between the client opens the segment by a name made of the server's     *)
(* index.  A client waits for each answer, so a call and its handler are one  *)
(* step; other clients' calls fall between the steps of an allocation.  A     *)
(* call the client gives up on may have been lost, or be handled unanswered:  *)
(* what the client does meanwhile only it sees, and its next call is handled  *)
(* after, so that too is one step.                                            *)
(*                                                                            *)
(* A client process may end at any point, and another takes its place; the    *)
(* server may be started anew, with an empty table, under clients that keep   *)
(* theirs.  Neither tells the other side.                                     *)
(*                                                                            *)
(* Not in the model: client_ptr, which this path writes and never reads on    *)
(* the server, sizes (an entry too small for a copy only refuses it), several *)
(* threads of one client that allocate at once, and a client and a server     *)
(* that disagree on being local.                                              *)
EXTENDS Integers, FiniteSets

CONSTANTS Clients,   \* client processes
          Entries,   \* entries of a hainfo table (64), and a bound: none is exceeded
          MaxFaults  \* bound: failures, calls lost, and processes that end, in a behaviour

ASSUME HostMemoryAssumption ==
    /\ Clients # {}
    /\ Entries \in Nat \ {0}
    /\ MaxFaults \in Nat

VARIABLES
    socktype,   \* how clients connect: a local TCP connection uses segments too
    table,      \* hainfo of each client: idx, the segment behind client_ptr, its server
    table_cnt,  \* hainfo_cnt of each client
    pending,    \* per client: the step of cudaHostAlloc it is at, the server's index
    hainfo,     \* the server's table, with the segment behind server_ptr
    hainfo_cnt,
    names,      \* the segment each name "/RRTOhostalloc-<n>" stands for
    segments,   \* segments that were mapped or kept a name, by number
    run,        \* the process that is the server now, by number
    faults,     \* history: failures so far
    abandoned,  \* history: entries whose client gave up, ended or freed them in vain
    lingering,  \* history: names whose removal failed, was lost or died with a process
    strays,     \* history: the cudaFreeHost calls that named another's entry
    copied      \* history: the copy the last step made, and if it moved what was passed

clientVars == <<table, table_cnt, pending>>
serverVars == <<hainfo, hainfo_cnt>>
history == <<faults, abandoned, lingering, strays, copied>>
vars == <<socktype, clientVars, serverVars, names, segments, run, history>>

Slots == 0 .. Entries - 1
NoSegment == 0
Zeroed == [idx |-> 0, seg |-> NoSegment]
Unused == [idx |-> 0, seg |-> NoSegment, run |-> 0]
NoCopy == [api |-> "none", ours |-> FALSE, agreed |-> FALSE, right |-> FALSE]
Idle   == [at |-> "idle", idx |-> 0, run |-> 0]
Live(c) == {i \in Slots : table[c][i].seg # NoSegment}

\* The buffers a client has of the server that runs now, and whether an
\* allocation it is in the middle of is that server's.
Ours(c) == {i \in Live(c) : table[c][i].run = run}
InAllocation(c, steps) == pending[c].at \in steps /\ pending[c].run = run
\* Do a client's positions agree with the server's indices?
Agrees(c) == \A i \in Live(c) : table[c][i].idx = i

Init ==
    /\ socktype \in {"UNIX", "TCP"}
    /\ table = [c \in Clients |-> [i \in Slots |-> Unused]]
    /\ table_cnt = [c \in Clients |-> 0]
    /\ pending = [c \in Clients |-> Idle]
    /\ hainfo = [i \in Slots |-> Zeroed]
    /\ hainfo_cnt = 0
    /\ names = [i \in Slots |-> NoSegment]
    /\ segments = 0 /\ run = 0
    /\ faults = 0 /\ abandoned = {} /\ lingering = {} /\ strays = 0 /\ copied = NoCopy
-----------------------------------------------------------------------------
(* cudaHostAlloc.                                                             *)

\* Mutant of NextIndex: indices of freed entries are given out again.
LowestFreeIndex ==
    CHOOSE i \in 0..Entries :
        /\ i \in Slots => hainfo[i].seg = NoSegment
        /\ \A j \in 0 .. i - 1 : hainfo[j].seg # NoSegment
\* Mutant of NextIndex: freed entries are not counted.
CountOfEntries == Cardinality({i \in Slots : hainfo[i].seg # NoSegment})
\* hainfo_cnt, in the name, in the entry and in the answer.
NextIndex == hainfo_cnt

Fault == faults < MaxFaults /\ faults' = faults + 1
GiveUp(c) == pending' = [pending EXCEPT ![c] = Idle]
\* The index of an allocation, if the server that gave it still runs.
Given(c) == IF pending[c].run = run THEN {pending[c].idx} ELSE {}

\* shm_open with O_CREAT opens what a failed allocation left under the name.
Opened == IF names[NextIndex] = NoSegment THEN segments + 1 ELSE names[NextIndex]
Created == IF Opened > segments THEN Opened ELSE segments

\* The server cannot open the segment; or cannot size it, and unlinks it; or
\* cannot map or register it, and leaves it for the next allocation.
HostAllocFails(c) ==
    /\ pending[c] = Idle /\ NextIndex \in Slots /\ table_cnt[c] \in Slots /\ Fault
    /\ \/ UNCHANGED <<names, segments>>
       \/ /\ names' = [names EXCEPT ![NextIndex] = NoSegment]
          /\ UNCHANGED segments
       \/ /\ names' = [names EXCEPT ![NextIndex] = Opened]
          /\ segments' = Created
    /\ copied' = NoCopy
    /\ UNCHANGED <<socktype, clientVars, serverVars, run, abandoned, lingering, strays>>

\* The handler enters the segment in the server's table and answers with its
\* index.  An answer that comes after the client's timeout is dropped: the
\* client reports a failure and the entry stays.
HostAlloc(c) ==
    /\ pending[c] = Idle /\ NextIndex \in Slots /\ table_cnt[c] \in Slots
    /\ hainfo' = [hainfo EXCEPT ![NextIndex] =
                      [idx |-> NextIndex, seg |-> Opened]]
    /\ hainfo_cnt' = hainfo_cnt + 1
    /\ names' = [names EXCEPT ![NextIndex] = Opened]
    /\ segments' = Created
    /\ \/ /\ pending' = [pending EXCEPT ![c] = [at |-> "open", idx |-> NextIndex, run |-> run]]
          /\ lingering' = lingering \ {NextIndex}
          /\ UNCHANGED <<faults, abandoned>>
       \/ /\ Fault
          /\ abandoned' = abandoned \cup {NextIndex}
          /\ lingering' = lingering \cup {NextIndex}
          /\ UNCHANGED pending
    /\ copied' = NoCopy
    /\ UNCHANGED <<socktype, table, table_cnt, run, strays>>

\* The client opens and maps the segment and fills its next entry.
MapSegment(c) ==
    /\ pending[c].at = "open"
    /\ LET idx == pending[c].idx IN
        /\ names[idx] # NoSegment
        /\ table' = [table EXCEPT ![c][table_cnt[c]] =
                         [idx |-> idx, seg |-> names[idx], run |-> pending[c].run]]
        /\ table_cnt' = [table_cnt EXCEPT ![c] = @ + 1]
    /\ pending' = [pending EXCEPT ![c].at = "register"]
    /\ copied' = NoCopy
    /\ UNCHANGED <<socktype, serverVars, names, segments, run, faults, abandoned, lingering, strays>>

\* shm_open fails, and must if the name is gone; or mmap does, and the client
\* removes the name.  Nobody tells the server, whose entry stays.
MapSegmentFails(c) ==
    /\ pending[c].at = "open"
    /\ LET idx == pending[c].idx IN
        /\ Fault \/ (names[idx] = NoSegment /\ UNCHANGED faults)
        /\ names' \in {names, [names EXCEPT ![idx] = NoSegment]}
    /\ abandoned' = abandoned \cup Given(c)
    /\ lingering' = lingering \cup Given(c)
    /\ GiveUp(c)
    /\ copied' = NoCopy
    /\ UNCHANGED <<socktype, table, table_cnt, serverVars, segments, run, strays>>

\* Mutant of NameToRemove: the client's position is sent instead.
PositionToRemove(c) == table_cnt[c] - 1
\* The index the client sends with cuda_host_alloc_regshm.
NameToRemove(c) == pending[c].idx

\* cuda_host_alloc_regshm: the handler removes the name.  A client whose call
\* fails, handled or not, returns without the second removal, and with success.
Register(c) ==
    /\ pending[c].at = "register"
    /\ \/ /\ names' = [names EXCEPT ![NameToRemove(c)] = NoSegment]
          /\ \/ pending' = [pending EXCEPT ![c].at = "unlink"] /\ UNCHANGED faults
             \/ GiveUp(c) /\ Fault
          /\ UNCHANGED lingering
       \/ /\ GiveUp(c) /\ Fault
          /\ lingering' = lingering \cup Given(c)
          /\ UNCHANGED names
    /\ copied' = NoCopy
    /\ UNCHANGED <<socktype, table, table_cnt, serverVars, segments, run, abandoned, strays>>

Unlink(c) ==
    /\ pending[c].at = "unlink"
    /\ names' = [names EXCEPT ![pending[c].idx] = NoSegment]
    /\ GiveUp(c)
    /\ copied' = NoCopy
    /\ UNCHANGED <<socktype, table, table_cnt, serverVars, segments, run, faults,
                   abandoned, lingering, strays>>
-----------------------------------------------------------------------------
(* cudaFreeHost sends the position in the client's table.                     *)

\* Mutant of Releases: the test for a used entry is inverted.
ReleasesNothing(index) == socktype = "UNIX" /\ hainfo[index].idx # index
\* An entry is released when its idx is its position and not 0, so never entry 0.
Releases(index) ==
    /\ socktype = "UNIX"
    /\ hainfo[index].idx # 0 /\ hainfo[index].idx = index

\* The client's entry is gone and success reported even if the call is lost.
FreeHost(c, i) ==
    /\ pending[c] = Idle /\ i \in Live(c)
    /\ table' = [table EXCEPT ![c][i] = Unused]
    /\ \/ /\ hainfo' = IF Releases(i) THEN [hainfo EXCEPT ![i] = Zeroed] ELSE hainfo
          /\ strays' = IF i \in Ours(c) /\ table[c][i].idx = i THEN strays ELSE strays + 1
          /\ UNCHANGED <<faults, abandoned>>
       \/ /\ Fault
          /\ abandoned' = IF i \in Ours(c) THEN abandoned \cup {table[c][i].idx} ELSE abandoned
          /\ UNCHANGED <<hainfo, strays>>
    /\ copied' = NoCopy
    /\ UNCHANGED <<socktype, table_cnt, pending, hainfo_cnt, names, segments, run, lingering>>
-----------------------------------------------------------------------------
(* Copies between a buffer and the device.                                    *)

\* Mutant of SentIndex: cudaMemcpy sends the client's position too.
SentPosition(c, i, api) == i
\* cudaMemcpy sends the server's index; cudaMemcpyToSymbol sends its own.
SentIndex(c, i, api) == IF api = "cudaMemcpy" THEN table[c][i].idx ELSE i

\* Mutant of Served: the handler does not compare the index with the entry.
ServedUnchecked(index) == index < hainfo_cnt
\* The tests of cuda_memcpy_shm.
Served(index) ==
    /\ index < hainfo_cnt
    /\ hainfo[index].idx = index

\* One copy; when the handler refuses, the caller gets an error.
Copy(c, i, api) ==
    /\ pending[c] = Idle /\ i \in Live(c)
    /\ LET index == SentIndex(c, i, api) IN
        /\ Served(index)
        /\ copied' = [api |-> api, ours |-> i \in Ours(c), agreed |-> Agrees(c),
                      right |-> hainfo[index].seg = table[c][i].seg]
    /\ UNCHANGED <<socktype, clientVars, serverVars, names, segments, run, faults,
                   abandoned, lingering, strays>>
-----------------------------------------------------------------------------
(* Processes that end.                                                        *)

\* A client's mappings end with it, the server's entries and the names do not:
\* deinit_rpc does not free, and its handler does nothing.
ClientEnds(c) ==
    /\ Fault
    /\ table' = [table EXCEPT ![c] = [i \in Slots |-> Unused]]
    /\ table_cnt' = [table_cnt EXCEPT ![c] = 0]
    /\ GiveUp(c)
    /\ abandoned' = abandoned \cup {table[c][i].idx : i \in Ours(c)}
                         \cup (IF pending[c].at = "open" THEN Given(c) ELSE {})
    /\ lingering' = lingering \cup
                         (IF pending[c].at \in {"open", "register"} THEN Given(c) ELSE {})
    /\ copied' = NoCopy
    /\ UNCHANGED <<socktype, serverVars, names, segments, run, strays>>

\* The new server's table is empty; names and the clients' tables are kept.
ServerRestarts ==
    /\ Fault
    /\ run' = run + 1
    /\ hainfo' = [i \in Slots |-> Zeroed]
    /\ hainfo_cnt' = 0
    /\ abandoned' = {}
    /\ lingering' = {n \in Slots : names[n] # NoSegment}
    /\ strays' = 0
    /\ copied' = NoCopy
    /\ UNCHANGED <<socktype, clientVars, names, segments>>
-----------------------------------------------------------------------------
Next ==
    \/ ServerRestarts
    \/ \E c \in Clients :
         \/ HostAllocFails(c)
         \/ HostAlloc(c)
         \/ MapSegment(c)
         \/ MapSegmentFails(c)
         \/ Register(c)
         \/ Unlink(c)
         \/ \E i \in Slots : FreeHost(c, i)
         \/ \E i \in Slots, api \in {"cudaMemcpy", "cudaMemcpyToSymbol"} :
                Copy(c, i, api)
         \/ ClientEnds(c)

Spec == Init /\ [][Next]_vars
-----------------------------------------------------------------------------
(* Properties.                                                                *)

Entry == [idx : Slots, seg : Nat]
Buffer == [idx : Slots, seg : Nat, run : Nat]
MadeCopy == [api : {"none", "cudaMemcpy", "cudaMemcpyToSymbol"},
             ours : BOOLEAN, agreed : BOOLEAN, right : BOOLEAN]
Call == [at : {"idle", "open", "register", "unlink"}, idx : Slots, run : Nat]

\* Types, and what the counters say about the tables.
HostTypeOK ==
    /\ socktype \in {"UNIX", "TCP"}
    /\ table \in [Clients -> [Slots -> Buffer]]
    /\ table_cnt \in [Clients -> 0..Entries]
    /\ pending \in [Clients -> Call]
    /\ hainfo \in [Slots -> Entry]
    /\ hainfo_cnt \in 0..Entries
    /\ names \in [Slots -> Nat]
    /\ segments \in Nat /\ run \in Nat /\ faults \in Nat /\ strays \in Nat
    /\ abandoned \subseteq Slots /\ lingering \subseteq Slots
    /\ copied \in MadeCopy

\* A cudaMemcpy that succeeds moves the data of the buffer the caller passed,
\* whatever failed before, whoever else allocates and whatever others freed;
\* cudaMemcpyToSymbol does where the client's positions are the server's.
\* Buffers of a server that has been restarted are nobody's to this one.
CopiesUseTheirBuffer ==
    copied.ours /\ (\/ copied.api = "cudaMemcpy"
                    \/ copied.api = "cudaMemcpyToSymbol" /\ copied.agreed)
    => copied.right

\* Two buffers of the running server, of one client or of two, never share a
\* segment: the name of a failed allocation is used again, a buffer's is not.
\* And while no cudaFreeHost has named another's entry, every one of them is
\* registered at the server, so that copies from it are served.
BuffersStayUsable ==
    \A c \in Clients : \A i \in Ours(c) :
        /\ \A d \in Clients : \A j \in Ours(d) :
              table[c][i].seg = table[d][j].seg => c = d /\ i = j
        /\ strays = 0 => /\ hainfo[table[c][i].idx].idx = table[c][i].idx
                         /\ hainfo[table[c][i].idx].seg = table[c][i].seg
                         /\ Served(table[c][i].idx)

\* Over a UNIX socket the server keeps no segment mapped that no client can
\* name, but for entry 0 (its handler never releases that one), until a stray
\* cudaFreeHost comes.  The exceptions are failures that cannot be undone: the
\* client gave up on the entry, ended without freeing it, or its call got lost.
MemoryIsReleased ==
    socktype = "UNIX" /\ strays = 0 =>
        \A n \in Slots \ ({0} \cup abandoned) :
            hainfo[n].seg # NoSegment =>
                \E c \in Clients :
                    \/ InAllocation(c, {"open"}) /\ pending[c].idx = n
                    \/ \E i \in Ours(c) : table[c][i].idx = n

\* No name outlives its allocation: one that exists is the one the next
\* allocation uses, is about to be opened or removed, or lingers because its
\* removal was lost or the client or server that was to remove it ended.
NamesAreRemoved ==
    \A n \in Slots :
        names[n] # NoSegment =>
            \/ n = hainfo_cnt
            \/ n \in lingering
            \/ \E c \in Clients : InAllocation(c, {"open", "register"}) /\ pending[c].idx = n

\* What is freed with an answer, or fails before the client has its index,
\* leaves neither memory nor a name behind.
NothingIsLeftBehind == MemoryIsReleased /\ NamesAreRemoved
=============================================================================
