--------------------------- MODULE InferenceReplay ---------------------------
(***************************************************************************)
(* RRTO's record and replay of a model's inferences.                       *)
(*                                                                         *)
(* Client library and server each count inputs (copies to the device) and  *)
(* outputs (copies from it): unequal counts mean an inference is being fed *)
(* or computed, the first upload after an output starts the next one.  The *)
(* counts never travel.  During the first inference the server notes the   *)
(* target of every upload and runs the kernels; from then on the k-th      *)
(* upload of an inference goes to the k-th noted target.                   *)
(*                                                                         *)
(* Client processes have threads that touch the counters without a lock    *)
(* and share one connection, on which one call runs at a time; a call can  *)
(* time out and a process can be started anew.  The server handles one     *)
(* request after the other; it outlives its clients, and when it is        *)
(* restarted itself they reconnect and keep their counts.                  *)
(***************************************************************************)
EXTENDS Integers, Sequences

CONSTANTS Procs, Threads, \* client processes and their threads
          ProcOf,         \* the process of a thread
          Addr, Kernel,   \* device addresses and kernels; 0 is none of them
          InputMax,       \* length of input_address
          OperatorMax,    \* length of recorded_func
          Kinds,          \* the calls the applications make
          Targets,        \* the targets of each inference's uploads, if fixed
          MaxInferences,  \* bound on inferences counted
          MaxUploads,     \* bound on uploads between two downloads
          MaxWire,        \* bound on requests in a connection
          MaxRestarts     \* bound on new connections of a process

ASSUME ReplayAssumption ==
    /\ ProcOf \in [Threads -> Procs]
    /\ Addr \subseteq Nat \ {0}
    /\ Kernel \subseteq Nat \ {0}
    /\ InputMax \in Nat
    /\ OperatorMax \in Nat \ {0}
    /\ Kinds \subseteq {"htod", "dtoh", "launch", "symbol", "htod_far", "dtoh_far"}
    /\ Targets \in Seq(Addr)
    /\ MaxRestarts \in Nat

VARIABLES
    \* client processes: the globals of cpu-client-runtime.c, the uploads the
    \* application has made since its last download, the current connection
    \* and the processes whose connection is broken
    client, uploads, conn, broken,
    thread,  \* what each client thread is at
    wire,    \* requests sent on each connection and not yet handled
    \* the globals of cpu-server-runtime.c, and whether input_address overran
    input_times, output_times, operator_count,
    input_address, input_count, recorded_func, overrun,
    last     \* the request handled last, and what handling it did

clientvars == <<client, uploads, conn, broken, thread>>
servervars == <<input_times, output_times, operator_count, input_address,
                input_count, recorded_func, overrun, last>>
ivars == <<clientvars, wire, servervars>>

Phase == [input_times : Nat, output_times : Nat]
Request == [op : Kinds, asked : Addr \cup Kernel \cup {0}, at : Phase]
NoRequest == [op |-> "none", asked |-> 0,
              at |-> [input_times |-> 0, output_times |-> 0]]
Idle == [pc |-> "idle", req |-> NoRequest, seen |-> 0]
Started == [input_times |-> 0, output_times |-> 0, operator_count |-> 0]

\* The phase of a client, and of the server.
PhaseOf(c) == [input_times |-> c.input_times, output_times |-> c.output_times]
ServerPhase == [input_times |-> input_times, output_times |-> output_times]
UnderWay(ph) == ph.input_times # ph.output_times

Connections == Procs \X (0 .. MaxRestarts)

\* The server's globals as a new process finds them.
NoTargets == [i \in 0 .. InputMax - 1 |-> 0]
NoKernels == [i \in 0 .. OperatorMax - 1 |-> 0]
NothingHandled ==
    [op |-> "none", asked |-> 0, at |-> PhaseOf(Started),
     phase |-> PhaseOf(Started), dst |-> 0, ran |-> <<>>]

Init ==
    /\ client = [p \in Procs |-> Started]
    /\ uploads = [p \in Procs |-> 0]
    /\ conn = [p \in Procs |-> 0]
    /\ broken = {}
    /\ thread = [t \in Threads |-> Idle]
    /\ wire = [c \in Connections |-> <<>>]
    /\ input_times = 0 /\ output_times = 0 /\ operator_count = 0
    /\ input_address = NoTargets /\ input_count = 0
    /\ recorded_func = NoKernels
    /\ overrun = FALSE
    /\ last = NothingHandled

-----------------------------------------------------------------------------
(* The client.                                                             *)

\* An upload starts an inference, a download ends one, if the counts say so.
StartsInference(c) == c.input_times = c.output_times
EndsInference(c) == c.input_times # c.output_times

\* Does cudaLaunchKernel call the server?  Nothing counts operator_count up.
CallsServer(c) == c.output_times = 1 \/ c.operator_count = 0

Uploading == {"htod", "htod_far", "symbol"}
Downloading == {"dtoh", "dtoh_far"}

\* The application: within its bounds, or uploading to its list of targets
\* from end to end for each inference.
MayUpload(p, a) ==
    /\ uploads[p] < MaxUploads
    /\ Targets # <<>> => uploads[p] < Len(Targets) /\ a = Targets[uploads[p] + 1]
MayDownload(p) == Targets # <<>> => uploads[p] \in {0, Len(Targets)}

\* A thread's next state: about to change a count it has read, or to send.
Bumping(op, a, n) ==
    [pc |-> "bump", req |-> [op |-> op, asked |-> a, at |-> PhaseOf(Started)], seen |-> n]
Ready(op, a, c) ==
    [pc |-> "ready", req |-> [op |-> op, asked |-> a, at |-> PhaseOf(c)], seen |-> 0]

\* cudaMemcpy to the device, the large copies and those from pinned memory
\* ("far") included; cudaMemcpyToSymbol leaves the counts alone.
Upload(t, op, a) ==
    LET p == ProcOf[t]
        c == client[p]
    IN  /\ thread[t] = Idle
        /\ op \in Kinds \cap Uploading
        /\ MayUpload(p, a)
        /\ IF op # "symbol" /\ StartsInference(c)
           THEN /\ c.input_times < MaxInferences
                /\ thread' = [thread EXCEPT ![t] = Bumping(op, a, c.input_times)]
           ELSE /\ op = "symbol" => input_times < MaxInferences
                /\ thread' = [thread EXCEPT ![t] = Ready(op, a, c)]
        /\ uploads' = [uploads EXCEPT ![p] = @ + 1]
        /\ UNCHANGED <<client, conn, broken, wire, servervars>>

Download(t, op) ==
    LET p == ProcOf[t]
        c == client[p]
    IN  /\ thread[t] = Idle
        /\ op \in Kinds \cap Downloading
        /\ MayDownload(p)
        /\ IF EndsInference(c)
           THEN /\ c.output_times <= MaxInferences
                /\ thread' = [thread EXCEPT ![t] = Bumping(op, 0, c.output_times)]
           ELSE thread' = [thread EXCEPT ![t] = Ready(op, 0, c)]
        /\ uploads' = [uploads EXCEPT ![p] = 0]
        /\ UNCHANGED <<client, conn, broken, wire, servervars>>

\* The increment after the test, of the count as read by the test or as it is.
Bump(t) ==
    LET p == ProcOf[t]
        r == thread[t].req
        c == client[p]
    IN  /\ thread[t].pc = "bump"
        /\ \/ /\ r.op \in Uploading
              /\ \E n \in {thread[t].seen, c.input_times} :
                    client' = [client EXCEPT ![p].input_times = n + 1,
                                             ![p].operator_count = 0]
           \/ /\ r.op \in Downloading
              /\ \E n \in {thread[t].seen, c.output_times} :
                    client' = [client EXCEPT ![p].output_times = n + 1]
        /\ thread' = [thread EXCEPT ![t] = Ready(r.op, r.asked, client'[p])]
        /\ UNCHANGED <<uploads, conn, broken, wire, servervars>>

\* A launch that does not call the server returns the recorded result.
Launch(t, f) ==
    LET c == client[ProcOf[t]]
    IN  /\ thread[t] = Idle
        /\ "launch" \in Kinds
        /\ CallsServer(c)
        /\ thread' = [thread EXCEPT ![t] = Ready("launch", f, c)]
        /\ UNCHANGED <<client, uploads, conn, broken, wire, servervars>>

\* The lock of the connection: one call at a time, and the socket.
Send(t) ==
    LET p == ProcOf[t]
        c == <<p, conn[p]>>
    IN  /\ thread[t].pc = "ready"
        /\ \A u \in Threads : ProcOf[u] = p => thread[u].pc # "waiting"
        /\ p \notin broken /\ Len(wire[c]) < MaxWire
        /\ thread' = [thread EXCEPT ![t].pc = "waiting"]
        /\ wire' = [wire EXCEPT ![c] = Append(@, thread[t].req)]
        /\ UNCHANGED <<client, uploads, conn, broken, servervars>>

\* Mutant of Timeout: a call waits for ever.
WaitsForEver(t) == FALSE
\* The call fails; its request stays where it is, a late answer is skipped.
Timeout(t) ==
    /\ thread[t].pc = "waiting"
    /\ thread' = [thread EXCEPT ![t] = Idle]
    /\ UNCHANGED <<client, uploads, conn, broken, wire, servervars>>

\* A call on a broken connection fails, after the counts have been touched.
SendFails(t) ==
    /\ thread[t].pc = "ready"
    /\ ProcOf[t] \in broken
    /\ thread' = [thread EXCEPT ![t] = Idle]
    /\ UNCHANGED <<client, uploads, conn, broken, wire, servervars>>

Connect(p) ==
    /\ conn[p] < MaxRestarts
    /\ conn' = [conn EXCEPT ![p] = @ + 1]
    /\ broken' = broken \ {p}

\* The process ends at any point and is started again: what it has sent is on
\* its way, the counts begin at zero.
Restart(p) ==
    /\ Connect(p)
    /\ client' = [client EXCEPT ![p] = Started]
    /\ uploads' = [uploads EXCEPT ![p] = 0]
    /\ thread' = [t \in Threads |-> IF ProcOf[t] = p THEN Idle ELSE thread[t]]
    /\ UNCHANGED <<wire, servervars>>

\* repair_connection, called by the signal that tells of a restarted server,
\* between two calls of the process.
Repair(p) ==
    /\ p \in broken
    /\ \A t \in Threads : ProcOf[t] = p => thread[t].pc # "waiting"
    /\ Connect(p)
    /\ UNCHANGED <<client, uploads, thread, wire, servervars>>

-----------------------------------------------------------------------------
(* The server.                                                             *)

Handled(req, phase, dst, ran) ==
    last' = [op |-> req.op, asked |-> req.asked, at |-> req.at,
             phase |-> phase, dst |-> dst, ran |-> ran]

\* Are the targets of uploads still being noted?
Recording == output_times = 0

\* Mutant of StartsAtServer: every upload counts.
EveryInputStarts == TRUE
StartsAtServer == input_times = output_times

\* cuda_memcpy_htod_1_svc, to which cuda_memcpy_to_symbol_1_svc comes down.
\* An upload too many writes past input_address: what follows is undefined.
ServeUpload(req) ==
    /\ req.op \in {"htod", "symbol"}
    /\ UNCHANGED <<output_times, operator_count, recorded_func>>
    /\ input_times' = IF StartsAtServer THEN input_times + 1 ELSE input_times
    /\ input_count' = input_count + 1
    /\ \/ /\ input_count < InputMax
          /\ input_address' = IF Recording
                              THEN [input_address EXCEPT ![input_count] = req.asked]
                              ELSE input_address
          /\ Handled(req, ServerPhase', input_address'[input_count], <<>>)
          /\ UNCHANGED overrun
       \/ /\ input_count >= InputMax
          /\ overrun' = TRUE
          /\ UNCHANGED <<input_address, last>>

\* Mutants of InputCountAfter: the next inference goes on counting, starts
\* one too high, or one too low.
GoesOnCounting == input_count
CountsFromOne == 1
BeforeFirst == -1
\* cuda_memcpy_dtoh_1_svc: the first download of an inference ends it.
InputCountAfter == 0

\* Mutant of EndsAtServer: every download counts.
EveryOutputEnds == TRUE
EndsAtServer == input_times # output_times

ServeDownload(req) ==
    /\ req.op = "dtoh"
    /\ IF EndsAtServer
       THEN output_times' = output_times + 1 /\ input_count' = InputCountAfter
       ELSE UNCHANGED <<output_times, input_count>>
    /\ UNCHANGED <<input_times, operator_count, input_address, recorded_func, overrun>>
    /\ Handled(req, ServerPhase', 0, <<>>)

\* The copies through threads or shared memory touch no counts, nor does a
\* copy to a symbol the server does not know.
ServeFar(req) ==
    /\ req.op \in {"htod_far", "dtoh_far", "symbol"}
    /\ Handled(req, ServerPhase, req.asked, <<>>)
    /\ UNCHANGED <<input_times, output_times, operator_count, input_address,
                   input_count, recorded_func, overrun>>

\* Mutant of RunsKernel: kernels run until the first output.
RunsUntilOutput == output_times = 0
RunsKernel == input_times = 1

\* cuda_launch_kernel_1_svc: in the first inference the kernel is noted and
\* run, later the noted ones below operator_count are.
ServeLaunch(req) ==
    /\ req.op = "launch"
    /\ \/ /\ RunsKernel
          /\ recorded_func' = [recorded_func EXCEPT ![operator_count] = req.asked]
          /\ Handled(req, ServerPhase, 0, <<req.asked>>)
       \/ /\ ~RunsKernel
          /\ Handled(req, ServerPhase, 0,
                     [i \in 1 .. operator_count |-> recorded_func[i - 1]])
          /\ UNCHANGED recorded_func
    /\ UNCHANGED <<input_times, output_times, operator_count, input_address,
                   input_count, overrun>>

\* The launch handler returns no value: the answer is sent or not.
MayAnswer(req) == IF req.op = "launch" THEN BOOLEAN ELSE {TRUE}

\* The thread an answer on connection c reaches: the one still waiting for the
\* request sent last.
Reached(c, t) ==
    /\ ProcOf[t] = c[1] /\ conn[c[1]] = c[2]
    /\ thread[t].pc = "waiting"
    /\ Len(wire[c]) = 1

\* svc_run picks a connection with a request, handles it and answers.
Handle(c) ==
    /\ ~overrun
    /\ wire[c] # <<>>
    /\ LET req == Head(wire[c])
       IN  /\ ServeUpload(req) \/ ServeDownload(req) \/ ServeFar(req) \/ ServeLaunch(req)
           /\ \E answered \in MayAnswer(req) :
                thread' = [t \in Threads |->
                            IF answered /\ Reached(c, t) THEN Idle ELSE thread[t]]
    /\ wire' = [wire EXCEPT ![c] = Tail(@)]
    /\ UNCHANGED <<client, uploads, conn, broken>>

\* The server is restarted: a checkpoint holds none of these counts.
ServerRestart ==
    /\ \A p \in Procs : conn[p] < MaxRestarts
    /\ broken' = Procs
    /\ wire' = [c \in Connections |-> <<>>]
    /\ input_times' = 0 /\ output_times' = 0 /\ operator_count' = 0
    /\ input_address' = NoTargets /\ input_count' = 0
    /\ recorded_func' = NoKernels
    /\ overrun' = FALSE
    /\ last' = NothingHandled
    /\ UNCHANGED <<client, uploads, conn, thread>>

-----------------------------------------------------------------------------
Proceed(t) == Bump(t) \/ Send(t) \/ SendFails(t) \/ Timeout(t)

Begin(t) ==
    \/ \E op \in Uploading, a \in Addr : Upload(t, op, a)
    \/ \E op \in Downloading : Download(t, op)
    \/ \E f \in Kernel : Launch(t, f)

Next ==
    \/ \E t \in Threads : Begin(t) \/ Proceed(t)
    \/ \E p \in Procs : Restart(p) \/ Repair(p)
    \/ ServerRestart
    \/ \E c \in Connections : Handle(c)

Spec == Init /\ [][Next]_ivars

(* A call goes on until it has its answer or its time is up; the server    *)
(* handles what it is sent.                                                *)
FairSpec ==
    /\ Spec
    /\ \A t \in Threads : WF_ivars(Proceed(t))
    /\ \A c \in Connections : WF_ivars(Handle(c))

-----------------------------------------------------------------------------
(***************************************************************************)
(* Properties                                                              *)
(***************************************************************************)
ReplayTypeOK ==
    /\ \A p \in Procs : PhaseOf(client[p]) \in Phase
    /\ conn \in [Procs -> 0 .. MaxRestarts] /\ broken \subseteq Procs
    /\ \A t \in Threads : /\ thread[t].pc \in {"idle", "bump", "ready", "waiting"}
                          /\ thread[t] # Idle => thread[t].req \in Request
    /\ wire \in [Connections -> Seq(Request)]
    /\ ServerPhase \in Phase
    /\ operator_count = 0
    /\ input_address \in [0 .. InputMax - 1 -> Addr \cup {0}]
    /\ input_count \in Nat
    /\ recorded_func \in [0 .. OperatorMax - 1 -> Kernel \cup {0}]
    /\ overrun \in BOOLEAN

(* Whoever calls the server, and whatever it has lost or forgotten: the    *)
(* server is at most one inference ahead of its outputs.                   *)
ServerPhases == input_times \in output_times .. output_times + 1

(* The two copies of the counts agree, request by request, although they   *)
(* are never compared: when the server has handled a call, its phase is    *)
(* the one the client was in when it made the call, timeouts included.     *)
InStep == last.op # "none" => last.phase = last.at

(* Processes of one thread each: however often a client or the server is   *)
(* started anew, whatever the other clients send in between and whichever  *)
(* copies pass the counts of one side by (through shared memory, threads or *)
(* to a symbol), caller and server agree again at every counted copy on    *)
(* whether an inference is under way.                                      *)
StagesMeet ==
    last.op \in {"htod", "dtoh"} => (UnderWay(last.phase) <=> UnderWay(last.at))

(* A kernel launched in a client's first inference runs, once, as itself:  *)
(* with the copies of that inference the device does what it would do      *)
(* without RRTO.                                                           *)
FirstInferenceIsDirect ==
    last.at.input_times = 1 =>
        /\ last.op = "htod" => last.dst = last.asked
        /\ last.op = "launch" => last.ran = <<last.asked>>

(* An application whose inferences upload to the same targets in the same  *)
(* order gets each upload where it asked for it, in every inference.       *)
UploadsReachTheirTargets == last.op = "htod" => last.dst = last.asked

(* An application that uploads no more than InputMax times between two     *)
(* downloads never makes the server write past input_address.              *)
NoOverrun == ~overrun

(* Every call returns, although the server may leave a launch unanswered.  *)
CallsReturn == \A t \in Threads : thread[t] # Idle ~> thread[t] = Idle
=============================================================================
