--------------------------- MODULE MtMemcpyProofs ---------------------------
(***************************************************************************)
(* For any clients, sizes, numbers of copies and failures: what a client   *)
(* is told is about its own copy, no worker touches staging memory that is *)
(* not allocated yet or already freed, and a copy that is reported as done *)
(* has arrived whole; a client that copies alone leaves no record; and no  *)
(* circle of waiting, nor of running, keeps a copy from its end.           *)
(***************************************************************************)
EXTENDS MtMemcpy, FiniteSetTheorems, SequenceTheorems, TLAPS

PCs == {"idle", "asked", "copying", "asksync"}
ClientRec == [pc : PCs, size : Nat, dir : Directions, port : 0..MaxJobs, id : Nat,
              ret : {0, 1}, job : 0..MaxJobs]
JobRec == [size : Nat, dir : Directions, port : 0..MaxJobs, mem : {"none", "held", "freed"}]

WorkerShape ==
    /\ worker = [j \in Jobs |-> worker[j]]
    /\ \A j \in Jobs : worker[j] = [i \in AllThreads |-> worker[j][i]]
    /\ \A j \in Jobs, i \in AllThreads :
          worker[j][i] = [pc |-> worker[j][i].pc, id |-> worker[j][i].id]

Shapes ==
    /\ client \in [Clients -> ClientRec]
    /\ rpc \in [pc : {"ready", "allocating", "barrier", "destroying", "joining"},
                client : Clients, job : 0..MaxJobs]
    /\ list \in Seq(Jobs)
    /\ job \in [Jobs -> JobRec]
    /\ listener \in [Jobs -> {"none", "opening", "barrier", "accepting", "done", "gone"}]
    /\ backlog \in [Jobs -> Seq(AllThreads)]
    /\ peer \in [Jobs -> Seq(AllThreads)]
    /\ WorkerShape

(* Jobs are started in the order of their numbers.                         *)
InOrder ==
    /\ \E n \in 0..MaxJobs : Started = 1..n
    /\ \A c \in Clients : client[c].pc = "asked" => client[c].size > 0
    /\ \A j \in Jobs \ Started : listener[j] = "none"

(* The RPC thread and the client it serves, the listener and its port.     *)
Serving ==
    /\ rpc.pc \in {"allocating", "barrier"} =>
          /\ client[rpc.client].pc = "asked"
          /\ rpc.job \in Started
    /\ rpc.pc = "joining" =>
          /\ client[rpc.client].pc = "asksync" /\ client[rpc.client].id < Len(list)
          /\ rpc.job \in Jobs
    /\ \A j \in Jobs : listener[j] \in {"barrier", "accepting"} => job[j].port = j
    /\ \A c \in Clients : client[c].pc = "copying" => client[c].port = client[c].job

Active(c) == client[c].pc \in {"copying", "asksync"}
Reached == ~Hit({"malloc"})

(* While no allocation has failed, every running copy has its own record,  *)
(* and its client the index of it.                                         *)
Indexed ==
    Reached =>
        /\ \A c \in Clients : Active(c) =>
              /\ client[c].id < Len(list) /\ list[client[c].id + 1] = client[c].job
              /\ client[c].job \in Started
        /\ \A c, d \in Clients : Active(c) /\ Active(d) /\ client[c].job = client[d].job => c = d
        /\ rpc.pc \in {"allocating", "barrier"} =>
              /\ list[Len(list)] = rpc.job
              /\ \A c \in Clients : Active(c) => client[c].job # rpc.job
        /\ rpc.pc = "joining" => rpc.job = client[rpc.client].job

(* Staging memory is there while it may be used.                           *)
Running(j, i) == worker[j][i].pc \in {"start", "copy", "send"}
Staged ==
    /\ rpc.pc = "barrier" => job[rpc.job].mem = "held"
    /\ \A j \in Jobs : listener[j] = "accepting" => job[j].mem = "held"
    /\ \A j \in Jobs : listener[j] \in {"none", "opening", "barrier"} => peer[j] = <<>>
    /\ \A j \in Jobs, i \in AllThreads : worker[j][i].pc # "none" => i < Len(peer[j])
    /\ \A j \in Jobs, i \in AllThreads : Running(j, i) => job[j].mem = "held"

(* The listener passes the barrier only with the RPC thread; the record is *)
(* in the list by then.                                                    *)
Meeting ==
    rpc.pc \in {"allocating", "barrier"} =>
        list # <<>> /\ listener[rpc.job] \in {"opening", "barrier", "gone"}

MemcpyInv == Shapes /\ InOrder /\ Serving /\ Indexed /\ Staged /\ Meeting

LEMMA Ranges == /\ MaxJobs \in Nat /\ MemPerThread \in Nat \ {0} /\ Sizes \subseteq Nat
                /\ \A s \in Sizes : s > 0
                /\ Jobs = 1..MaxJobs /\ AllThreads \subseteq Nat
  BY SizesAssumption DEF Jobs, AllThreads

LEMMA InitHolds == Init /\ Clients # {} => MemcpyInv
  <1> SUFFICES ASSUME Init, Clients # {} PROVE MemcpyInv
    OBVIOUS
  <1> USE Ranges DEF Init, NoJob, Unused
  <1>1. /\ client = [c \in Clients |-> [pc |-> "idle", size |-> 0, dir |-> "htod", port |-> 0,
                                        id |-> 0, ret |-> 0, job |-> 0]]
        /\ rpc.pc = "ready" /\ rpc.client \in Clients /\ rpc.job = 0
    OBVIOUS
  <1>2. Shapes
    <2>1. client \in [Clients -> ClientRec]
      BY <1>1 DEF ClientRec, PCs, Directions
    <2>2. job \in [Jobs -> JobRec]
      BY DEF JobRec, Directions
    <2>3. list \in Seq(Jobs) /\ backlog \in [Jobs -> Seq(AllThreads)] /\ peer \in [Jobs -> Seq(AllThreads)]
      BY EmptySeq
    <2>4. WorkerShape
      <3>1. \A j \in Jobs, i \in AllThreads : worker[j][i] = [pc |-> "none", id |-> i]
        OBVIOUS
      <3>2. \A j \in Jobs, i \in AllThreads : worker[j][i].pc = "none" /\ worker[j][i].id = i
        BY <3>1
      <3>3. \A j \in Jobs, i \in AllThreads :
               worker[j][i] = [pc |-> worker[j][i].pc, id |-> worker[j][i].id]
        <4> TAKE j \in Jobs, i \in AllThreads
        <4> QED BY <3>1, <3>2
      <3>4. worker = [j \in Jobs |-> worker[j]]
        OBVIOUS
      <3>5. \A j \in Jobs : worker[j] = [i \in AllThreads |-> worker[j][i]]
        OBVIOUS
      <3> QED BY <3>3, <3>4, <3>5 DEF WorkerShape
    <2>5. rpc \in [pc : {"ready", "allocating", "barrier", "destroying", "joining"},
                  client : Clients, job : 0..MaxJobs]
      BY <1>1
    <2>6. listener \in [Jobs -> {"none", "opening", "barrier", "accepting", "done", "gone"}]
      OBVIOUS
    <2> QED BY <2>1, <2>2, <2>3, <2>4, <2>5, <2>6 DEF Shapes
  <1>3. InOrder
    <2>1. Started = {}
      BY DEF Started
    <2>2. 0 \in 0..MaxJobs /\ 1..0 = {}
      OBVIOUS
    <2>3. \E n \in 0..MaxJobs : Started = 1..n
      BY <2>1, <2>2
    <2>4. \A c \in Clients : client[c].pc = "idle"
      BY <1>1
    <2>5. \A j \in Jobs : listener[j] = "none"
      OBVIOUS
    <2> QED BY <2>3, <2>4, <2>5 DEF InOrder
  <1>4. Serving /\ Indexed /\ Meeting
    BY <1>1 DEF Serving, Indexed, Active, Meeting
  <1>5. Staged
    BY <1>1 DEF Staged, Running
  <1> QED BY <1>2, <1>3, <1>4, <1>5 DEF MemcpyInv

(***************************************************************************)
(* A step of a worker changes the state of that worker alone.              *)
(***************************************************************************)
OnlyWorker(j, i, v) ==
    /\ WorkerShape'
    /\ \A k \in Jobs, l \in AllThreads :
          worker'[k][l].pc = IF k = j /\ l = i THEN v ELSE worker[k][l].pc

LEMMA TwoFields ==
  ASSUME NEW v, NEW n, NEW r, r = [pc |-> v, id |-> n]
  PROVE  r = [pc |-> r.pc, id |-> r.id] /\ r.pc = v
  OBVIOUS

LEMMA StateChanges ==
  ASSUME WorkerShape, NEW j \in Jobs, NEW i, NEW v, worker' = [worker EXCEPT ![j][i].pc = v]
  PROVE  OnlyWorker(j, i, v)
  <1>1. \A k \in Jobs, l \in AllThreads : k = j /\ l = i =>
           worker'[k][l] = [pc |-> v, id |-> worker[k][l].id]
    <2> SUFFICES ASSUME i \in AllThreads PROVE worker'[j][i] = [pc |-> v, id |-> worker[j][i].id]
      OBVIOUS
    <2>1. worker'[j][i] = [worker[j][i] EXCEPT !.pc = v]
      BY DEF WorkerShape
    <2>2. worker[j][i] = [pc |-> worker[j][i].pc, id |-> worker[j][i].id]
      BY DEF WorkerShape
    <2> QED BY <2>1, <2>2
  <1>2. \A k \in Jobs, l \in AllThreads : ~(k = j /\ l = i) => worker'[k][l] = worker[k][l]
    BY DEF WorkerShape
  <1>3. worker' = [k \in Jobs |-> worker'[k]]
    BY DEF WorkerShape
  <1>4. \A k \in Jobs : worker'[k] = [l \in AllThreads |-> worker'[k][l]]
    <2> TAKE k \in Jobs
    <2>1. worker'[k] = IF k = j THEN [worker[k] EXCEPT ![i].pc = v] ELSE worker[k]
      BY DEF WorkerShape
    <2>2. DOMAIN worker[k] = AllThreads
      BY DEF WorkerShape
    <2> QED BY <2>1, <2>2 DEF WorkerShape
  <1>5. \A k \in Jobs, l \in AllThreads :
           worker'[k][l] = [pc |-> worker'[k][l].pc, id |-> worker'[k][l].id]
    <2> TAKE k \in Jobs, l \in AllThreads
    <2>1. CASE k = j /\ l = i
      <3>1. worker'[k][l] = [pc |-> v, id |-> worker[k][l].id]
        BY <1>1, <2>1
      <3> QED BY <3>1, TwoFields
    <2>2. CASE ~(k = j /\ l = i)
      <3>1. worker'[k][l] = worker[k][l]
        BY <1>2, <2>2
      <3>2. worker[k][l] = [pc |-> worker[k][l].pc, id |-> worker[k][l].id]
        BY DEF WorkerShape
      <3> QED BY <3>1, <3>2, TwoFields
    <2> QED BY <2>1, <2>2
  <1>6. \A k \in Jobs, l \in AllThreads :
           worker'[k][l].pc = IF k = j /\ l = i THEN v ELSE worker[k][l].pc
    <2> TAKE k \in Jobs, l \in AllThreads
    <2>1. CASE k = j /\ l = i
      <3>1. worker'[k][l] = [pc |-> v, id |-> worker[k][l].id]
        BY <1>1, <2>1
      <3> QED BY <3>1, <2>1
    <2>2. CASE ~(k = j /\ l = i) BY <1>2, <2>2
    <2> QED BY <2>1, <2>2
  <1> QED BY <1>3, <1>4, <1>5, <1>6 DEF OnlyWorker, WorkerShape

LEMMA RecordChanges ==
  ASSUME WorkerShape, NEW j \in Jobs, NEW i, NEW v, NEW n,
         worker' = [worker EXCEPT ![j][i] = [pc |-> v, id |-> n]]
  PROVE  OnlyWorker(j, i, v)
  <1>1. \A k \in Jobs, l \in AllThreads : k = j /\ l = i => worker'[k][l] = [pc |-> v, id |-> n]
    BY DEF WorkerShape
  <1>2. \A k \in Jobs, l \in AllThreads : ~(k = j /\ l = i) => worker'[k][l] = worker[k][l]
    BY DEF WorkerShape
  <1>3. worker' = [k \in Jobs |-> worker'[k]]
    BY DEF WorkerShape
  <1>4. \A k \in Jobs : worker'[k] = [l \in AllThreads |-> worker'[k][l]]
    <2> TAKE k \in Jobs
    <2>1. worker'[k] = IF k = j THEN [worker[k] EXCEPT ![i] = [pc |-> v, id |-> n]] ELSE worker[k]
      BY DEF WorkerShape
    <2>2. DOMAIN worker[k] = AllThreads
      BY DEF WorkerShape
    <2> QED BY <2>1, <2>2 DEF WorkerShape
  <1>5. \A k \in Jobs, l \in AllThreads :
           worker'[k][l] = [pc |-> worker'[k][l].pc, id |-> worker'[k][l].id]
    <2> TAKE k \in Jobs, l \in AllThreads
    <2>1. CASE k = j /\ l = i
      <3>1. worker'[k][l] = [pc |-> v, id |-> n]
        BY <1>1, <2>1
      <3> QED BY <3>1, TwoFields
    <2>2. CASE ~(k = j /\ l = i)
      <3>1. worker'[k][l] = worker[k][l]
        BY <1>2, <2>2
      <3>2. worker[k][l] = [pc |-> worker[k][l].pc, id |-> worker[k][l].id]
        BY DEF WorkerShape
      <3> QED BY <3>1, <3>2, TwoFields
    <2> QED BY <2>1, <2>2
  <1>6. \A k \in Jobs, l \in AllThreads :
           worker'[k][l].pc = IF k = j /\ l = i THEN v ELSE worker[k][l].pc
    <2> TAKE k \in Jobs, l \in AllThreads
    <2>1. CASE k = j /\ l = i BY <1>1, <2>1
    <2>2. CASE ~(k = j /\ l = i) BY <1>2, <2>2
    <2> QED BY <2>1, <2>2
  <1> QED BY <1>3, <1>4, <1>5, <1>6 DEF OnlyWorker, WorkerShape

(* A later state has had the failures of the earlier one.                  *)
LEMMA FaultsStay ==
  ASSUME NEW k, NEW j, Fault(k, j)
  PROVE  faults \subseteq faults'
  BY DEF Fault

LEMMA ReachedBefore ==
  ASSUME faults \subseteq faults', Reached'
  PROVE  Reached
  BY DEF Reached, Hit

(***************************************************************************)
(* The threads that copy: senders, workers, and the listener's accept.     *)
(***************************************************************************)
Bystanders == UNCHANGED <<client, rpc, list, job, listener>> /\ faults \subseteq faults'

LEMMA BystandersKeep ==
  ASSUME MemcpyInv, Bystanders
  PROVE  InOrder' /\ Serving' /\ Indexed' /\ Meeting'
  <1>1. InOrder'
    BY DEF MemcpyInv, InOrder, Bystanders, Started, Unused
  <1>2. Serving'
    BY DEF MemcpyInv, Serving, Bystanders, Started, Unused
  <1>3. Indexed'
    BY ReachedBefore DEF MemcpyInv, Indexed, Bystanders, Started, Unused, Active
  <1>4. Meeting'
    BY DEF MemcpyInv, Meeting, Bystanders
  <1> QED BY <1>1, <1>2, <1>3, <1>4

LEMMA SenderHolds ==
  ASSUME MemcpyInv, Bystanders, UNCHANGED <<peer, worker>>,
         backlog' \in [Jobs -> Seq(AllThreads)]
  PROVE  MemcpyInv'
  <1>1. Shapes'
    BY DEF MemcpyInv, Shapes, Bystanders, WorkerShape
  <1>2. Staged'
    BY DEF MemcpyInv, Staged, Bystanders, Running
  <1> QED BY <1>1, <1>2, BystandersKeep DEF MemcpyInv

LEMMA WorkerHolds ==
  ASSUME MemcpyInv, Bystanders, UNCHANGED <<peer, backlog>>,
         NEW j \in Jobs, NEW i \in AllThreads, NEW v, OnlyWorker(j, i, v), Running(j, i)
  PROVE  MemcpyInv'
  <1>1. Shapes'
    BY DEF MemcpyInv, Shapes, Bystanders, OnlyWorker
  <1>2. i < Len(peer[j]) /\ job[j].mem = "held"
    BY DEF MemcpyInv, Staged, Running
  <1>3. \A k \in Jobs, l \in AllThreads : worker'[k][l].pc # "none" => l < Len(peer[k])
    BY <1>2 DEF MemcpyInv, Staged, OnlyWorker
  <1>4. \A k \in Jobs, l \in AllThreads : Running(k, l)' => job[k].mem = "held"
    BY <1>2 DEF MemcpyInv, Staged, OnlyWorker, Running
  <1>5. Staged'
    BY <1>3, <1>4 DEF MemcpyInv, Staged, Bystanders
  <1> QED BY <1>1, <1>5, BystandersKeep DEF MemcpyInv

LEMMA SenderStepHolds ==
  ASSUME MemcpyInv, NEW j \in Jobs, NEW t \in AllThreads, SenderStep(j, t) \/ ConnectFails(j, t)
  PROVE  MemcpyInv'
  <1>1. CASE \E c \in Clients : client[c].job = j /\ Connect(c, t)
    <2>1. PICK c \in Clients : Connect(c, t)
      BY <1>1
    <2>2. client[c].port \in Jobs
      BY <2>1, Ranges DEF Connect, NoJob, MemcpyInv, Shapes, ClientRec
    <2>3. backlog' = [backlog EXCEPT ![client[c].port] = Append(@, t)]
      BY <2>1 DEF Connect
    <2>4. backlog[client[c].port] \in Seq(AllThreads)
      BY <2>2 DEF MemcpyInv, Shapes
    <2>5. Append(backlog[client[c].port], t) \in Seq(AllThreads)
      BY <2>4
    <2>6. backlog' \in [Jobs -> Seq(AllThreads)]
      BY <2>3, <2>5 DEF MemcpyInv, Shapes
    <2> QED BY <2>1, <2>6, SenderHolds DEF Connect, Bystanders
  <1>2. CASE SendToServer(j, t) \/ ReceiveFromServer(j, t)
    BY <1>2, SenderHolds DEF SendToServer, ReceiveFromServer, Bystanders, MemcpyInv, Shapes, memory
  <1>3. CASE ConnectFails(j, t)
    BY <1>3, SenderHolds, FaultsStay DEF ConnectFails, Bystanders, MemcpyInv, Shapes
  <1> QED BY <1>1, <1>2, <1>3 DEF SenderStep

LEMMA WorkerStepHolds ==
  ASSUME MemcpyInv, NEW j \in Jobs, NEW i \in AllThreads, WorkerStep(j, i)
  PROVE  MemcpyInv'
  <1> WorkerShape
    BY DEF MemcpyInv, Shapes
  <1>1. CASE ReceiveFromClient(j, i)
    <2> DEFINE id == WorkerIndex(wire[j][peer[j][i + 1]], i)
    <2>1. worker' = [worker EXCEPT ![j][i] = [pc |-> "copy", id |-> id]]
      BY <1>1 DEF ReceiveFromClient
    <2> HIDE DEF id
    <2>2. OnlyWorker(j, i, "copy")
      BY <2>1, RecordChanges
    <2>3. Running(j, i) /\ Bystanders /\ UNCHANGED <<peer, backlog>>
      BY <1>1 DEF ReceiveFromClient, Running, Bystanders
    <2> QED BY <2>2, <2>3, WorkerHolds
  <1>2. CASE CopyToDevice(j, i)
    <2>1. OnlyWorker(j, i, "done")
      BY <1>2, StateChanges DEF CopyToDevice
    <2>2. Running(j, i) /\ Bystanders /\ UNCHANGED <<peer, backlog>>
      BY <1>2, FaultsStay DEF CopyToDevice, Running, Bystanders
    <2> QED BY <2>1, <2>2, WorkerHolds
  <1>3. CASE CopyFromDevice(j, i)
    <2>1. OnlyWorker(j, i, "send") \/ OnlyWorker(j, i, "failed")
      BY <1>3, StateChanges DEF CopyFromDevice
    <2>2. Running(j, i) /\ Bystanders /\ UNCHANGED <<peer, backlog>>
      BY <1>3, FaultsStay DEF CopyFromDevice, Running, Bystanders
    <2> QED BY <2>1, <2>2, WorkerHolds
  <1>4. CASE SendToClient(j, i)
    <2>1. OnlyWorker(j, i, "done")
      BY <1>4, StateChanges DEF SendToClient
    <2>2. Running(j, i) /\ Bystanders /\ UNCHANGED <<peer, backlog>>
      BY <1>4 DEF SendToClient, Running, Bystanders
    <2> QED BY <2>1, <2>2, WorkerHolds
  <1> QED BY <1>1, <1>2, <1>3, <1>4 DEF WorkerStep

LEMMA AcceptHolds ==
  ASSUME MemcpyInv, NEW j \in Jobs, Accept(j)
  PROVE  MemcpyInv'
  <1>1. Bystanders
    BY DEF Accept, Bystanders
  <1>2. peer[j] \in Seq(AllThreads) /\ backlog[j] \in Seq(AllThreads) /\ backlog[j] # <<>>
    BY DEF MemcpyInv, Shapes, Accept
  <1>3. Head(backlog[j]) \in AllThreads /\ Tail(backlog[j]) \in Seq(AllThreads)
    BY <1>2
  <1>4. /\ Append(peer[j], Head(backlog[j])) \in Seq(AllThreads)
        /\ Len(Append(peer[j], Head(backlog[j]))) = Len(peer[j]) + 1
    BY <1>2, <1>3
  <1>5. peer' \in [Jobs -> Seq(AllThreads)] /\ backlog' \in [Jobs -> Seq(AllThreads)]
    BY <1>3, <1>4 DEF MemcpyInv, Shapes, Accept
  <1>6. OnlyWorker(j, Len(peer[j]), "start")
    BY StateChanges DEF Accept, MemcpyInv, Shapes
  <1>7. Shapes'
    BY <1>1, <1>5, <1>6 DEF MemcpyInv, Shapes, Bystanders, OnlyWorker
  <1>8. \A k \in Jobs : peer'[k] = IF k = j THEN Append(peer[j], Head(backlog[j])) ELSE peer[k]
    BY DEF Accept, MemcpyInv, Shapes
  <1>9. \A k \in Jobs, l \in AllThreads : worker'[k][l].pc # "none" => l < Len(peer'[k])
    <2> TAKE k \in Jobs, l \in AllThreads
    <2>1. worker[k][l].pc # "none" => l < Len(peer[k])
      BY DEF MemcpyInv, Staged
    <2>2. Len(peer'[k]) = IF k = j THEN Len(peer[k]) + 1 ELSE Len(peer[k])
      BY <1>4, <1>8
    <2>3. l \in Nat /\ Len(peer[k]) \in Nat
      BY Ranges DEF MemcpyInv, Shapes
    <2>4. worker'[k][l].pc # "none" => worker[k][l].pc # "none" \/ (k = j /\ l = Len(peer[j]))
      BY <1>6 DEF OnlyWorker
    <2> QED BY <2>1, <2>2, <2>3, <2>4
  <1>10. job[j].mem = "held" /\ listener[j] = "accepting"
    BY DEF Accept, MemcpyInv, Staged
  <1>11. \A k \in Jobs, l \in AllThreads : Running(k, l)' => job[k].mem = "held"
    <2> TAKE k \in Jobs, l \in AllThreads
    <2>1. CASE k = j BY <1>10, <2>1
    <2>2. CASE k # j BY <1>6, <2>2 DEF OnlyWorker, Running, MemcpyInv, Staged
    <2> QED BY <2>1, <2>2
  <1>12. \A k \in Jobs : listener[k] \in {"none", "opening", "barrier"} => peer'[k] = <<>>
    BY <1>8, <1>10 DEF MemcpyInv, Staged
  <1>13. Staged'
    BY <1>1, <1>9, <1>11, <1>12 DEF MemcpyInv, Staged, Bystanders
  <1> QED BY <1>1, <1>7, <1>13, BystandersKeep DEF MemcpyInv

(***************************************************************************)
(* The listener's other steps.                                             *)
(***************************************************************************)
LEMMA OpenSocketHolds ==
  ASSUME MemcpyInv, NEW j \in Jobs, OpenSocket(j)
  PROVE  MemcpyInv'
  <1> USE DEF MemcpyInv
  <1>1. /\ listener' = [listener EXCEPT ![j] = "barrier"] /\ listener[j] = "opening"
        /\ job' = [job EXCEPT ![j].port = j]
        /\ UNCHANGED <<client, rpc, list, backlog, peer, worker, faults>>
    BY DEF OpenSocket, threads
  <1>2. j \in Started /\ job[j] \in JobRec /\ j \in 1..MaxJobs
    BY <1>1, Ranges DEF InOrder, Shapes
  <1>3. \A k \in Jobs : /\ job'[k].size = job[k].size /\ job'[k].dir = job[k].dir
                        /\ job'[k].mem = job[k].mem
                        /\ job'[k].port = IF k = j THEN j ELSE job[k].port
                        /\ listener'[k] = IF k = j THEN "barrier" ELSE listener[k]
    BY <1>1 DEF Shapes, JobRec
  <1>4. job' \in [Jobs -> JobRec]
    <2>1. [job[j] EXCEPT !.port = j] \in JobRec
      BY <1>2, Ranges DEF JobRec
    <2> QED BY <1>1, <2>1 DEF Shapes
  <1>5. Shapes'
    BY <1>1, <1>4 DEF Shapes, WorkerShape
  <1>6. Started' = Started
    <2>1. job'[j].port # Unused.port
      BY <1>2, <1>3, Ranges DEF Unused, NoJob
    <2>2. \A k \in Jobs : k # j => job'[k] = job[k]
      BY <1>1 DEF Shapes
    <2> QED BY <1>2, <2>1, <2>2 DEF Started
  <1>7. InOrder'
    BY <1>1, <1>2, <1>6 DEF InOrder
  <1>8. Serving'
    BY <1>1, <1>3, <1>6 DEF Serving
  <1>9. Indexed'
    BY <1>1, <1>6 DEF Indexed, Reached, Hit, Active
  <1>10. Staged'
    <2>1. \A k \in Jobs : listener'[k] = "accepting" => listener[k] = "accepting"
      BY <1>3
    <2>2. \A k \in Jobs : listener'[k] \in {"none", "opening", "barrier"}
                             => listener[k] \in {"none", "opening", "barrier"}
      BY <1>1, <1>3
    <2>3. rpc.pc = "barrier" => rpc.job \in Jobs
      BY DEF Serving, Started
    <2> QED BY <1>1, <1>3, <2>1, <2>2, <2>3 DEF Staged, Running
  <1>11. Meeting'
    BY <1>1, <1>3 DEF Meeting, Serving, Started
  <1> QED BY <1>5, <1>7, <1>8, <1>9, <1>10, <1>11

LEMMA ListenerGone ==
  ASSUME MemcpyInv, NEW j \in Jobs, OpenSocketFails(j) \/ ListenerFails(j)
  PROVE  MemcpyInv'
  <1> USE DEF MemcpyInv
  <1>1. /\ listener' = [listener EXCEPT ![j] = "gone"] /\ listener[j] # "none"
        /\ UNCHANGED <<client, rpc, list, job, backlog, peer, worker>> /\ faults \subseteq faults'
    BY FaultsStay DEF OpenSocketFails, ListenerFails, threads
  <1>2. \A k \in Jobs : listener'[k] = IF k = j THEN "gone" ELSE listener[k]
    BY <1>1 DEF Shapes
  <1>3. Shapes'
    BY <1>1 DEF Shapes, WorkerShape
  <1>4. Started' = Started /\ j \in Started
    BY <1>1 DEF Started, InOrder
  <1>5. InOrder'
    BY <1>1, <1>2, <1>4 DEF InOrder
  <1>6. Serving'
    BY <1>1, <1>2, <1>4 DEF Serving
  <1>7. Indexed'
    BY <1>1, <1>4, ReachedBefore DEF Indexed, Active
  <1>8. Staged'
    BY <1>1, <1>2 DEF Staged, Running
  <1>9. Meeting'
    BY <1>1, <1>2 DEF Meeting, Serving, Started
  <1> QED BY <1>3, <1>5, <1>6, <1>7, <1>8, <1>9

LEMMA JoinWorkersHolds ==
  ASSUME MemcpyInv, NEW j \in Jobs, JoinWorkers(j)
  PROVE  MemcpyInv'
  <1> USE DEF MemcpyInv
  <1>1. /\ listener' = [listener EXCEPT ![j] = "done"] /\ listener[j] = "accepting"
        /\ job' = [job EXCEPT ![j].mem = "freed"] /\ WorkersEnded(j)
        /\ UNCHANGED <<client, rpc, list, backlog, peer, worker, faults>>
    BY DEF JoinWorkers, threads
  <1>2. j \in Started /\ job[j] \in JobRec /\ job[j].mem = "held"
    BY <1>1, Ranges DEF InOrder, Shapes, Staged
  <1>3. \A k \in Jobs : /\ job'[k].size = job[k].size /\ job'[k].dir = job[k].dir
                        /\ job'[k].port = job[k].port
                        /\ job'[k].mem = IF k = j THEN "freed" ELSE job[k].mem
                        /\ listener'[k] = IF k = j THEN "done" ELSE listener[k]
    BY <1>1 DEF Shapes, JobRec
  <1>4. job' \in [Jobs -> JobRec]
    BY <1>1, <1>2 DEF Shapes, JobRec
  <1>5. Shapes'
    BY <1>1, <1>4 DEF Shapes, WorkerShape
  <1>6. Started' = Started
    <2>1. job'[j].mem # Unused.mem
      BY <1>3 DEF Unused
    <2>2. \A k \in Jobs : k # j => job'[k] = job[k]
      BY <1>1 DEF Shapes
    <2> QED BY <1>2, <2>1, <2>2 DEF Started
  <1>7. InOrder'
    BY <1>1, <1>2, <1>6 DEF InOrder
  <1>8. Serving'
    BY <1>1, <1>3, <1>6 DEF Serving
  <1>9. Indexed'
    BY <1>1, <1>6 DEF Indexed, Reached, Hit, Active
  <1>10. \A i \in AllThreads : ~Running(j, i)
    <2> TAKE i \in AllThreads
    <2>1. Len(peer[j]) \in Nat /\ i \in Nat
      BY Ranges DEF Shapes
    <2>2. i < Len(peer[j]) => i \in 0 .. Expected(j) - 1
      BY <1>1, <2>1 DEF WorkersEnded
    <2>3. CASE worker[j][i].pc = "none" BY <2>3 DEF Running
    <2>4. CASE worker[j][i].pc # "none"
      BY <1>1, <2>2, <2>4 DEF Running, Staged, WorkersEnded
    <2> QED BY <2>3, <2>4
  <1>11. rpc.pc = "barrier" => rpc.job \in Jobs
    BY DEF Serving, Started
  <1>12. Staged'
    <2>1. rpc'.pc = "barrier" => job'[rpc'.job].mem = "held"
      <3>1. rpc.pc = "barrier" => rpc.job # j
        BY <1>1 DEF Meeting
      <3> QED BY <1>1, <1>3, <1>11, <3>1 DEF Staged
    <2>2. \A k \in Jobs : listener'[k] = "accepting" => job'[k].mem = "held"
      BY <1>3 DEF Staged
    <2>3. \A k \in Jobs : listener'[k] \in {"none", "opening", "barrier"} => peer'[k] = <<>>
      BY <1>1, <1>3 DEF Staged
    <2>4. \A k \in Jobs, l \in AllThreads : worker'[k][l].pc # "none" => l < Len(peer'[k])
      BY <1>1 DEF Staged
    <2>5. \A k \in Jobs, l \in AllThreads : Running(k, l)' => job'[k].mem = "held"
      BY <1>1, <1>3, <1>10 DEF Staged, Running
    <2> QED BY <2>1, <2>2, <2>3, <2>4, <2>5 DEF Staged
  <1>13. Meeting'
    BY <1>1, <1>3 DEF Meeting, Serving, Started
  <1> QED BY <1>5, <1>7, <1>8, <1>9, <1>12, <1>13

(***************************************************************************)
(* The calling thread of a client.                                         *)
(***************************************************************************)
Rest == <<rpc, list, job, listener, backlog, peer, worker>>

(* A client that takes a step the RPC thread does not wait for.            *)
LEMMA ClientHolds ==
  ASSUME MemcpyInv, NEW c \in Clients, NEW r \in ClientRec, client' = [client EXCEPT ![c] = r],
         UNCHANGED Rest, faults \subseteq faults',
         client[c].pc \in {"idle", "copying"}, r.pc \in {"idle", "asked", "asksync"},
         r.pc = "asked" => r.size > 0,
         r.pc = "asksync" => client[c].pc = "copying" /\ r.id = client[c].id /\ r.job = client[c].job
  PROVE  MemcpyInv'
  <1> USE DEF MemcpyInv, Rest
  <1>1. \A d \in Clients : client'[d] = IF d = c THEN r ELSE client[d]
    BY DEF Shapes
  <1>2. Shapes'
    BY DEF Shapes, WorkerShape
  <1>3. Started' = Started
    BY DEF Started
  <1>4. InOrder'
    BY <1>1, <1>3 DEF InOrder
  <1>5. Serving'
    BY <1>1, <1>3 DEF Serving, Shapes
  <1>6. Indexed'
    <2> SUFFICES ASSUME Reached' PROVE Indexed'
      BY DEF Indexed
    <2>1. Reached
      BY ReachedBefore
    <2>2. \A d \in Clients : Active(d)' => Active(d) /\ client'[d].id = client[d].id
                                                     /\ client'[d].job = client[d].job
      BY <1>1 DEF Active
    <2>3. rpc.pc = "joining" => rpc.client \in Clients /\ rpc.client # c
      BY DEF Serving, Shapes
    <2> QED BY <1>1, <1>3, <2>1, <2>2, <2>3 DEF Indexed
  <1>7. Staged' /\ Meeting'
    BY DEF Staged, Running, Meeting
  <1> QED BY <1>2, <1>4, <1>5, <1>6, <1>7

LEMMA ClientStepHolds ==
  ASSUME MemcpyInv, NEW c \in Clients,
         \/ \E size \in Sizes, dir \in Directions : AskCopy(c, size, dir)
         \/ JoinThreads(c) \/ CreateThreadsFails(c)
  PROVE  MemcpyInv'
  <1>0. client[c] \in ClientRec /\ client \in [Clients -> ClientRec]
    BY DEF MemcpyInv, Shapes
  <1>1. CASE \E size \in Sizes, dir \in Directions : AskCopy(c, size, dir)
    <2>1. PICK size \in Sizes, dir \in Directions : AskCopy(c, size, dir)
      BY <1>1
    <2> DEFINE r == [client[c] EXCEPT !.pc = "asked", !.size = size, !.dir = dir]
    <2>2. r \in ClientRec /\ r.pc = "asked" /\ r.size > 0
      BY <1>0, <2>1, Ranges DEF ClientRec, PCs
    <2>3. client' = [client EXCEPT ![c] = r]
      BY <1>0, <2>1 DEF AskCopy
    <2>4. UNCHANGED Rest /\ faults \subseteq faults' /\ client[c].pc = "idle"
      BY <2>1 DEF AskCopy, Rest, threads
    <2> HIDE DEF r
    <2> QED BY <2>2, <2>3, <2>4, ClientHolds
  <1>2. CASE JoinThreads(c)
    <2> DEFINE r == [client[c] EXCEPT !.pc = "asksync"]
    <2>2. r \in ClientRec /\ r.pc = "asksync" /\ r.id = client[c].id /\ r.job = client[c].job
      BY <1>0 DEF ClientRec, PCs
    <2>3. client' = [client EXCEPT ![c] = r]
      BY <1>0, <1>2 DEF JoinThreads
    <2>4. UNCHANGED Rest /\ faults \subseteq faults' /\ client[c].pc = "copying"
      BY <1>2 DEF JoinThreads, Rest, threads
    <2> HIDE DEF r
    <2> QED BY <2>2, <2>3, <2>4, ClientHolds
  <1>3. CASE CreateThreadsFails(c)
    <2> DEFINE r == [client[c] EXCEPT !.pc = "idle", !.ret = 1]
    <2>2. r \in ClientRec /\ r.pc = "idle"
      BY <1>0 DEF ClientRec, PCs
    <2>3. client' = [client EXCEPT ![c] = r]
      BY <1>0, <1>3 DEF CreateThreadsFails
    <2>4. UNCHANGED Rest /\ faults \subseteq faults' /\ client[c].pc = "copying"
      BY <1>3, FaultsStay DEF CreateThreadsFails, Rest
    <2> HIDE DEF r
    <2> QED BY <2>2, <2>3, <2>4, ClientHolds
  <1> QED BY <1>1, <1>2, <1>3

(***************************************************************************)
(* The RPC thread.                                                         *)
(***************************************************************************)
LEMMA AllocateHolds ==
  ASSUME MemcpyInv, Allocate
  PROVE  MemcpyInv'
  <1> USE DEF MemcpyInv
  <1> DEFINE j == rpc.job
  <1>1. /\ rpc' = [rpc EXCEPT !.pc = "barrier"] /\ rpc.pc = "allocating"
        /\ job' = [job EXCEPT ![j].mem = "held"]
        /\ UNCHANGED <<client, list, listener, backlog, peer, worker, faults>>
    BY DEF Allocate, threads
  <1>2. j \in Started /\ j \in Jobs /\ job[j] \in JobRec
    BY <1>1 DEF Serving, Shapes, Started
  <1>3. rpc'.pc = "barrier" /\ rpc'.client = rpc.client /\ rpc'.job = j
    BY <1>1 DEF Shapes
  <1> HIDE DEF j
  <1>4. \A k \in Jobs : /\ job'[k].size = job[k].size /\ job'[k].dir = job[k].dir
                        /\ job'[k].port = job[k].port
                        /\ job'[k].mem = IF k = j THEN "held" ELSE job[k].mem
    BY <1>1 DEF Shapes, JobRec
  <1>5. Shapes'
    <2>1. job' \in [Jobs -> JobRec]
      BY <1>1, <1>2 DEF Shapes, JobRec
    <2>2. rpc' \in [pc : {"ready", "allocating", "barrier", "destroying", "joining"},
                    client : Clients, job : 0..MaxJobs]
      BY <1>1 DEF Shapes
    <2> QED BY <1>1, <2>1, <2>2 DEF Shapes, WorkerShape
  <1>6. Started' = Started
    <2>1. job'[j].mem # Unused.mem
      BY <1>2, <1>4 DEF Unused
    <2>2. \A k \in Jobs : k # j => job'[k] = job[k]
      BY <1>1 DEF Shapes
    <2> QED BY <1>2, <2>1, <2>2 DEF Started
  <1>7. InOrder'
    BY <1>1, <1>6 DEF InOrder
  <1>8. Serving'
    BY <1>1, <1>2, <1>3, <1>4, <1>6 DEF Serving
  <1>9. Indexed'
    BY <1>1, <1>3, <1>6 DEF Indexed, Reached, Hit, Active, j
  <1>10. Staged'
    BY <1>1, <1>2, <1>3, <1>4 DEF Staged, Running
  <1>11. Meeting'
    BY <1>1, <1>3 DEF Meeting, j
  <1> QED BY <1>5, <1>7, <1>8, <1>9, <1>10, <1>11

LEMMA AllocateFailsHolds ==
  ASSUME MemcpyInv, AllocateFails
  PROVE  MemcpyInv'
  <1> USE DEF MemcpyInv
  <1>1. /\ UNCHANGED <<list, job, listener, backlog, peer, worker>>
        /\ rpc.pc = "allocating" /\ Fault("malloc", rpc.job)
    BY DEF AllocateFails, threads
  <1>2. ~Reached'
    <2>1. <<"malloc", rpc.job>> \in faults'
      BY <1>1 DEF Fault
    <2>2. <<"malloc", rpc.job>>[1] \in {"malloc"}
      OBVIOUS
    <2> QED BY <2>1, <2>2 DEF Reached, Hit
  <1>3. rpc.client \in Clients /\ client[rpc.client] \in ClientRec /\ client[rpc.client].pc = "asked"
    BY <1>1 DEF Serving, Shapes
  <1>4. rpc' \in [pc : {"ready", "destroying"}, client : Clients, job : 0..MaxJobs]
    BY DEF AllocateFails, Shapes
  <1>5. client' \in [Clients -> ClientRec]
    <2>1. CASE UNCHANGED client
      BY <2>1 DEF Shapes
    <2>2. ASSUME NEW id \in 0..MaxJobs,
                 client' = [client EXCEPT ![rpc.client] =
                    [@ EXCEPT !.pc = "copying", !.id = id, !.job = NoJob, !.port = NoJob]]
          PROVE  client' \in [Clients -> ClientRec]
      <3>1. [client[rpc.client] EXCEPT !.pc = "copying", !.id = id, !.job = NoJob, !.port = NoJob] \in ClientRec
        <4>1. id \in Nat /\ NoJob \in 0..MaxJobs /\ "copying" \in PCs
          BY Ranges DEF NoJob, PCs
        <4> QED BY <1>3, <4>1 DEF ClientRec
      <3> QED BY <2>2, <3>1 DEF Shapes
    <2> QED BY <2>1, <2>2 DEF AllocateFails
  <1>6. Shapes'
    BY <1>1, <1>4, <1>5 DEF Shapes, WorkerShape
  <1>7. \A d \in Clients : /\ client'[d].pc = "asked" => client[d].pc = "asked" /\ client'[d].size = client[d].size
                           /\ client'[d].pc = "copying" => client'[d].port = client'[d].job
    <2>1. CASE UNCHANGED client
      BY <2>1 DEF Serving
    <2>2. ASSUME NEW id \in 0..MaxJobs,
                 client' = [client EXCEPT ![rpc.client] =
                    [@ EXCEPT !.pc = "copying", !.id = id, !.job = NoJob, !.port = NoJob]],
                 NEW d \in Clients
          PROVE  /\ client'[d].pc = "asked" => client[d].pc = "asked" /\ client'[d].size = client[d].size
                 /\ client'[d].pc = "copying" => client'[d].port = client'[d].job
      <3>1. CASE d = rpc.client
        <4>1. client'[d] = [client[d] EXCEPT !.pc = "copying", !.id = id, !.job = NoJob, !.port = NoJob]
          BY <2>2, <3>1 DEF Shapes
        <4>2. client'[d].pc = "copying" /\ client'[d].port = NoJob /\ client'[d].job = NoJob
          BY <1>3, <3>1, <4>1 DEF ClientRec
        <4> QED BY <4>2
      <3>2. CASE d # rpc.client
        <4>1. client'[d] = client[d]
          BY <2>2, <3>2 DEF Shapes
        <4> QED BY <4>1 DEF Serving
      <3> QED BY <3>1, <3>2
    <2> QED BY <2>1, <2>2 DEF AllocateFails
  <1>8. Started' = Started
    BY <1>1 DEF Started
  <1>9. InOrder'
    BY <1>1, <1>7, <1>8 DEF InOrder
  <1>10. Serving'
    BY <1>1, <1>4, <1>7, <1>8 DEF Serving
  <1>11. Indexed'
    BY <1>2 DEF Indexed
  <1>12. Staged' /\ Meeting'
    BY <1>1, <1>4 DEF Staged, Running, Meeting
  <1> QED BY <1>6, <1>9, <1>10, <1>11, <1>12

LEMMA ServeSyncHolds ==
  ASSUME MemcpyInv, NEW c \in Clients, ServeSync(c)
  PROVE  MemcpyInv'
  <1> USE DEF MemcpyInv
  <1>1. /\ UNCHANGED <<list, job, listener, backlog, peer, worker, faults>>
        /\ rpc.pc = "ready" /\ client[c].pc = "asksync"
    BY DEF ServeSync, threads
  <1>2. client[c] \in ClientRec /\ list \in Seq(Jobs)
    BY DEF Shapes
  <1>3. Started' = Started /\ Reached' = Reached
    BY <1>1 DEF Started, Reached, Hit
  <1>4. CASE client[c].id < Len(list)
    <2>1. client' = client /\ rpc' = [pc |-> "joining", client |-> c, job |-> list[client[c].id + 1]]
      BY <1>1, <1>2, <1>4 DEF ServeSync, ClientRec
    <2>2. list[client[c].id + 1] \in Jobs
      BY <1>2, <1>4 DEF ClientRec
    <2>3. rpc'.pc = "joining" /\ rpc'.client = c /\ rpc'.job = list[client[c].id + 1]
      BY <2>1
    <2>4. Shapes'
      BY <1>1, <2>1, <2>2, Ranges DEF Shapes, WorkerShape
    <2>5. InOrder' /\ Serving'
      BY <1>1, <1>3, <1>4, <2>1, <2>2, <2>3 DEF InOrder, Serving
    <2>6. Indexed'
      BY <1>1, <1>3, <2>1, <2>3 DEF Indexed, Active
    <2>7. Staged' /\ Meeting'
      BY <1>1, <2>3 DEF Staged, Running, Meeting
    <2> QED BY <2>4, <2>5, <2>6, <2>7
  <1>5. CASE ~(client[c].id < Len(list))
    <2> DEFINE r == [client[c] EXCEPT !.pc = "idle", !.ret = 1]
    <2>1. rpc' = rpc /\ client' = [client EXCEPT ![c] = r]
      BY <1>2, <1>5 DEF ServeSync, Shapes
    <2>2. r \in ClientRec /\ r.pc = "idle"
      BY <1>2 DEF ClientRec, PCs
    <2> HIDE DEF r
    <2>3. \A d \in Clients : client'[d] = IF d = c THEN r ELSE client[d]
      BY <2>1 DEF Shapes
    <2>4. Shapes'
      BY <1>1, <2>1, <2>2 DEF Shapes, WorkerShape
    <2>5. InOrder' /\ Serving'
      BY <1>1, <1>3, <2>1, <2>2, <2>3 DEF InOrder, Serving
    <2>6. Indexed'
      <3>1. \A d \in Clients : Active(d)' => d # c /\ client'[d] = client[d] /\ Active(d)
        BY <2>2, <2>3 DEF Active
      <3> QED BY <1>1, <1>3, <2>1, <3>1 DEF Indexed
    <2>7. Staged' /\ Meeting'
      BY <1>1, <2>1 DEF Staged, Running, Meeting
    <2> QED BY <2>4, <2>5, <2>6, <2>7
  <1> QED BY <1>4, <1>5

LEMMA PassBarrierHolds ==
  ASSUME MemcpyInv, PassBarrier
  PROVE  MemcpyInv'
  <1> USE DEF MemcpyInv
  <1> DEFINE j == rpc.job
             c == rpc.client
             r == [client[c] EXCEPT !.pc = "copying", !.id = Len(list) - 1,
                                    !.job = j, !.port = job[j].port]
  <1>1. /\ rpc.pc = "barrier" /\ listener[j] = "barrier"
        /\ listener' = [listener EXCEPT ![j] = IF @ = "barrier" THEN "accepting" ELSE @]
        /\ rpc' = [rpc EXCEPT !.pc = "ready"]
        /\ UNCHANGED <<list, job, backlog, peer, worker, faults>>
    BY DEF PassBarrier, BarrierIsFull, memory
  <1>2. /\ c \in Clients /\ client[c] \in ClientRec /\ client[c].pc = "asked"
        /\ j \in Started /\ j \in Jobs /\ job[j] \in JobRec /\ job[j].port = j /\ job[j].mem = "held"
    BY <1>1 DEF Serving, Shapes, Started, Staged
  <1>3. client' = [client EXCEPT ![c] = r]
    BY DEF PassBarrier
  <1>4. list \in Seq(Jobs) /\ Len(list) \in Nat
    BY DEF Shapes
  <1>5. rpc'.pc = "ready"
    BY <1>1 DEF Shapes
  <1>6. r.pc = "copying" /\ r.id = Len(list) - 1 /\ r.job = j /\ r.port = j
    BY <1>2 DEF ClientRec
  <1>7. listener'[j] = "accepting" /\ \A k \in Jobs : k # j => listener'[k] = listener[k]
    BY <1>1, <1>2 DEF Shapes
  <1>8. \A d \in Clients : client'[d] = IF d = c THEN r ELSE client[d]
    BY <1>2, <1>3 DEF Shapes
  <1>9. Started' = Started /\ Reached' = Reached
    BY <1>1 DEF Started, Reached, Hit
  <1>10. list # <<>>
    BY <1>1 DEF Meeting
  <1>11. r \in ClientRec
    <2>1. Len(list) - 1 \in Nat
      BY <1>4, <1>10
    <2>2. j \in 0..MaxJobs /\ job[j].port \in 0..MaxJobs /\ "copying" \in PCs
      BY <1>2, Ranges DEF JobRec, PCs
    <2> HIDE DEF j, c
    <2> QED BY <1>2, <2>1, <2>2 DEF ClientRec
  <1> HIDE DEF r, c, j
  <1>12. Shapes'
    <2>1. client' \in [Clients -> ClientRec]
      BY <1>3, <1>11 DEF Shapes
    <2>2. listener' \in [Jobs -> {"none", "opening", "barrier", "accepting", "done", "gone"}]
      BY <1>1 DEF Shapes
    <2>3. rpc' \in [pc : {"ready", "allocating", "barrier", "destroying", "joining"},
                    client : Clients, job : 0..MaxJobs]
      BY <1>1 DEF Shapes
    <2> QED BY <1>1, <2>1, <2>2, <2>3 DEF Shapes, WorkerShape
  <1>13. InOrder'
    BY <1>1, <1>2, <1>6, <1>7, <1>8, <1>9 DEF InOrder
  <1>14. Serving'
    BY <1>1, <1>2, <1>5, <1>6, <1>7, <1>8, <1>9 DEF Serving
  <1>15. Indexed'
    <2> SUFFICES ASSUME Reached PROVE Indexed'
      BY <1>9 DEF Indexed
    <2>1. list[Len(list)] = j /\ \A d \in Clients : Active(d) => client[d].job # j
      BY <1>1 DEF Indexed, j
    <2>2. ~Active(c)
      BY <1>2 DEF Active
    <2>3. \A d \in Clients : Active(d)' => d = c \/ (client'[d] = client[d] /\ Active(d))
      BY <1>8 DEF Active
    <2>4. r.id + 1 = Len(list) /\ r.id < Len(list)
      BY <1>4, <1>6
    <2>5. \A d \in Clients : Active(d)' =>
              /\ client'[d].id < Len(list) /\ list[client'[d].id + 1] = client'[d].job
              /\ client'[d].job \in Started
      <3> SUFFICES ASSUME NEW d \in Clients, Active(d)'
                   PROVE  /\ client'[d].id < Len(list) /\ list[client'[d].id + 1] = client'[d].job
                          /\ client'[d].job \in Started
        OBVIOUS
      <3>1. CASE d = c BY <1>2, <1>6, <1>8, <2>1, <2>4, <3>1
      <3>2. CASE d # c BY <1>8, <2>3, <3>2 DEF Indexed
      <3> QED BY <3>1, <3>2
    <2>6. \A d, e \in Clients : Active(d)' /\ Active(e)' /\ client'[d].job = client'[e].job => d = e
      <3> SUFFICES ASSUME NEW d \in Clients, NEW e \in Clients, Active(d)', Active(e)',
                          client'[d].job = client'[e].job, d # e
                   PROVE  FALSE
        OBVIOUS
      <3>1. CASE d = c BY <1>6, <1>8, <2>1, <2>3, <3>1
      <3>2. CASE e = c BY <1>6, <1>8, <2>1, <2>3, <3>2
      <3>3. CASE d # c /\ e # c BY <2>3, <3>3 DEF Indexed
      <3> QED BY <3>1, <3>2, <3>3
    <2> QED BY <1>1, <1>5, <1>9, <2>5, <2>6 DEF Indexed
  <1>16. Staged'
    BY <1>1, <1>2, <1>5, <1>7 DEF Staged, Running
  <1>17. Meeting'
    BY <1>5 DEF Meeting
  <1> QED BY <1>12, <1>13, <1>14, <1>15, <1>16, <1>17

(* The record of a copy that has just been asked for.                      *)
LEMMA NewRecord ==
  ASSUME NEW s \in Nat, NEW d \in Directions
  PROVE  [Unused EXCEPT !.size = s, !.dir = d] \in JobRec
  <1>1. Unused \in JobRec
    BY Ranges DEF Unused, NoJob, JobRec, Directions
  <1>2. [Unused EXCEPT !.size = s] \in JobRec
    BY <1>1 DEF JobRec
  <1> QED BY <1>2 DEF JobRec

LEMMA ServeCopyHolds ==
  ASSUME MemcpyInv, NEW c \in Clients, ServeCopy(c)
  PROVE  MemcpyInv'
  <1> USE DEF MemcpyInv
  <1> DEFINE j == Cardinality(Started) + 1
             size == client[c].size
             new == [Unused EXCEPT !.size = size, !.dir = client[c].dir]
  <1>1. /\ rpc.pc = "ready" /\ client[c].pc = "asked" /\ Started # Jobs
        /\ rpc' = [pc |-> "allocating", client |-> c, job |-> j]
        /\ list' = Append(list, j)
        /\ job' = [job EXCEPT ![j] = new]
        /\ listener' = [listener EXCEPT ![j] = "opening"]
        /\ UNCHANGED <<client, backlog, peer, worker, faults>>
    BY DEF ServeCopy
  <1>2. client[c] \in ClientRec /\ size \in Nat /\ size > 0 /\ list \in Seq(Jobs)
    BY <1>1 DEF Shapes, ClientRec, InOrder
  <1>3. new \in JobRec /\ new # Unused /\ new.mem = "none"
    <2>1. new.size = size /\ new.mem = "none" /\ Unused.size = 0
      BY DEF Unused
    <2>2. client[c].dir \in Directions /\ 0 \in 0..MaxJobs
      BY <1>2, Ranges DEF ClientRec
    <2>3. \A s \in Nat, d \in Directions : [Unused EXCEPT !.size = s, !.dir = d] \in JobRec
      BY NewRecord
    <2> HIDE DEF size
    <2>4. new \in JobRec
      BY <1>2, <2>2, <2>3, Zenon
    <2> HIDE DEF new
    <2> QED BY <1>2, <2>1, <2>4
  <1>4. j \in Jobs /\ Started = 1..(j - 1)
    <2>1. PICK n \in 0..MaxJobs : Started = 1..n
      BY DEF InOrder
    <2>2. Cardinality(Started) = n
      <3>1. n \in Int /\ 1 \in Int /\ (1 > n => n = 0)
        BY <2>1
      <3> QED BY <2>1, <3>1, FS_Interval
    <2>3. n # MaxJobs
      BY <1>1, <2>1, Ranges
    <2> QED BY <2>1, <2>2, <2>3, Ranges
  <1>5. j \notin Started
    BY <1>4, Ranges
  <1>6. rpc'.pc = "allocating" /\ rpc'.client = c /\ rpc'.job = j
    BY <1>1
  <1> HIDE DEF j, size, new
  <1>7. \A k \in Jobs : /\ job'[k] = IF k = j THEN new ELSE job[k]
                        /\ listener'[k] = IF k = j THEN "opening" ELSE listener[k]
    BY <1>1 DEF Shapes
  <1>8. Started' = 1..j
    <2>1. \A k \in Jobs : k \in Started' <=> k = j \/ k \in Started
      BY <1>3, <1>4, <1>7 DEF Started
    <2>2. Started' = Started \cup {j}
      BY <1>4, <2>1 DEF Started
    <2>3. 1..j = (1..(j - 1)) \cup {j}
      BY <1>4, Ranges
    <2> QED BY <1>4, <2>2, <2>3
  <1>9. Started \subseteq Started' /\ j \in Started'
    BY <1>4, <1>8, Ranges
  <1>10. listener[j] = "none" /\ peer[j] = <<>>
    BY <1>4, <1>5 DEF InOrder, Staged
  <1>11. /\ list' \in Seq(Jobs) /\ Len(list') = Len(list) + 1 /\ list'[Len(list')] = j
         /\ \A m \in 1..Len(list) : list'[m] = list[m]
    BY <1>1, <1>2, <1>4
  <1>12. Shapes'
    <2>1. job' \in [Jobs -> JobRec]
      BY <1>1, <1>3 DEF Shapes
    <2>2. listener' \in [Jobs -> {"none", "opening", "barrier", "accepting", "done", "gone"}]
      BY <1>1 DEF Shapes
    <2>3. rpc' \in [pc : {"ready", "allocating", "barrier", "destroying", "joining"},
                    client : Clients, job : 0..MaxJobs]
      BY <1>1, <1>4, Ranges
    <2> QED BY <1>1, <1>11, <2>1, <2>2, <2>3 DEF Shapes, WorkerShape
  <1>13. InOrder'
    <2>1. j \in 0..MaxJobs
      BY <1>4, Ranges
    <2>2. \E n \in 0..MaxJobs : Started' = 1..n
      BY <1>8, <2>1
    <2>3. \A k \in Jobs \ Started' : listener'[k] = "none"
      BY <1>7, <1>9 DEF InOrder
    <2>4. \A d \in Clients : client'[d].pc = "asked" => client'[d].size > 0
      BY <1>1 DEF InOrder
    <2> QED BY <2>2, <2>3, <2>4 DEF InOrder
  <1>14. Serving'
    <2>1. \A k \in Jobs : listener'[k] \in {"barrier", "accepting"} => job'[k].port = k
      BY <1>7 DEF Serving
    <2>2. \A d \in Clients : client'[d].pc = "copying" => client'[d].port = client'[d].job
      BY <1>1 DEF Serving
    <2> QED BY <1>1, <1>6, <1>9, <2>1, <2>2 DEF Serving
  <1>15. Indexed'
    <2> SUFFICES ASSUME Reached PROVE Indexed'
      BY <1>1 DEF Indexed, Reached, Hit
    <2>1. \A d \in Clients : Active(d)' = Active(d) /\ client'[d] = client[d]
      BY <1>1 DEF Active
    <2>2. \A d \in Clients : Active(d) =>
              /\ client[d].id < Len(list') /\ list'[client[d].id + 1] = client[d].job
              /\ client[d].job \in Started' /\ client[d].job # j
      <3> SUFFICES ASSUME NEW d \in Clients, Active(d)
                   PROVE  /\ client[d].id < Len(list') /\ list'[client[d].id + 1] = client[d].job
                          /\ client[d].job \in Started' /\ client[d].job # j
        OBVIOUS
      <3>1. /\ client[d].id < Len(list) /\ list[client[d].id + 1] = client[d].job
            /\ client[d].job \in Started
        BY DEF Indexed
      <3>2. client[d].id \in Nat /\ Len(list) \in Nat
        BY <1>2 DEF Shapes, ClientRec
      <3>3. client[d].id + 1 \in 1..Len(list)
        BY <3>1, <3>2
      <3> QED BY <1>5, <1>9, <1>11, <3>1, <3>2, <3>3
    <2> QED BY <1>6, <1>11, <2>1, <2>2 DEF Indexed
  <1>16. Staged'
    <2>1. \A k \in Jobs : listener'[k] = "accepting" => job'[k].mem = "held"
      BY <1>7 DEF Staged
    <2>2. \A k \in Jobs : listener'[k] \in {"none", "opening", "barrier"} => peer[k] = <<>>
      BY <1>7, <1>10 DEF Staged
    <2>3. \A i \in AllThreads : worker[j][i].pc = "none"
      <3> TAKE i \in AllThreads
      <3>1. Len(peer[j]) = 0 /\ i \in Nat
        BY <1>10, Ranges
      <3> QED BY <1>4, <3>1 DEF Staged
    <2>4. \A k \in Jobs, i \in AllThreads : Running(k, i) => job'[k].mem = "held"
      <3> SUFFICES ASSUME NEW k \in Jobs, NEW i \in AllThreads, Running(k, i)
                   PROVE  job'[k].mem = "held"
        OBVIOUS
      <3>1. k # j
        BY <2>3 DEF Running
      <3> QED BY <1>7, <3>1 DEF Staged
    <2> QED BY <1>1, <1>6, <2>1, <2>2, <2>4 DEF Staged, Running
  <1>17. Meeting'
    <2>1. list' # <<>>
      BY <1>1, <1>2, <1>4
    <2> QED BY <1>4, <1>6, <1>7, <2>1 DEF Meeting
  <1> QED BY <1>12, <1>13, <1>14, <1>15, <1>16, <1>17

(* Only the last record is ever taken out of the list.                     *)
LEMMA RemovedIsPrefix ==
  ASSUME NEW l \in Seq(Jobs), NEW id \in Nat, id < Len(l)
  PROVE  /\ Removed(l, id) \in Seq(Jobs)
         /\ Len(Removed(l, id)) = IF id = Len(l) - 1 THEN Len(l) - 1 ELSE Len(l)
         /\ \A m \in 1..Len(Removed(l, id)) : Removed(l, id)[m] = l[m]
  <1>1. CASE id = Len(l) - 1
    <2>1. Len(l) \in Nat /\ Len(l) >= 1
      OBVIOUS
    <2>2. Removed(l, id) = SubSeq(l, 1, Len(l) - 1)
      BY <1>1 DEF Removed, Front
    <2> QED BY <1>1, <2>1, <2>2
  <1>2. CASE id # Len(l) - 1
    BY <1>2 DEF Removed
  <1> QED BY <1>1, <1>2

LEMMA JoinListenerHolds ==
  ASSUME MemcpyInv, JoinListener
  PROVE  MemcpyInv'
  <1> USE DEF MemcpyInv
  <1> DEFINE c == rpc.client
             n == IF listener[rpc.job] = "done" THEN 0 ELSE 1
             r == [client[c] EXCEPT !.pc = "idle", !.ret = n]
  <1>1. /\ rpc.pc = "joining" /\ rpc' = [rpc EXCEPT !.pc = "ready"]
        /\ list' = Removed(list, client[c].id)
        /\ UNCHANGED <<job, listener, backlog, peer, worker, faults>>
    BY DEF JoinListener, threads
  <1>2. c \in Clients /\ client[c] \in ClientRec /\ client[c].id \in Nat /\ list \in Seq(Jobs)
    BY DEF Shapes, ClientRec
  <1>3. client' = [client EXCEPT ![c] = r]
    BY DEF JoinListener
  <1>4. r \in ClientRec /\ r.pc = "idle"
    BY <1>2 DEF ClientRec, PCs
  <1>5. rpc'.pc = "ready"
    BY <1>1 DEF Shapes
  <1>6. client[c].id < Len(list)
    BY <1>1 DEF Serving
  <1> HIDE DEF r, n, c
  <1>7. \A d \in Clients : client'[d] = IF d = c THEN r ELSE client[d]
    BY <1>2, <1>3 DEF Shapes
  <1>8. Started' = Started /\ Reached' = Reached
    BY <1>1 DEF Started, Reached, Hit
  <1>9. /\ list' \in Seq(Jobs)
        /\ Len(list') = IF client[c].id = Len(list) - 1 THEN Len(list) - 1 ELSE Len(list)
        /\ \A m \in 1..Len(list') : list'[m] = list[m]
    BY <1>1, <1>2, <1>6, RemovedIsPrefix
  <1>10. Shapes'
    <2>1. client' \in [Clients -> ClientRec]
      BY <1>3, <1>4 DEF Shapes
    <2>2. rpc' \in [pc : {"ready", "allocating", "barrier", "destroying", "joining"},
                    client : Clients, job : 0..MaxJobs]
      BY <1>1 DEF Shapes
    <2> QED BY <1>1, <1>9, <2>1, <2>2 DEF Shapes, WorkerShape
  <1>11. InOrder'
    BY <1>1, <1>4, <1>7, <1>8 DEF InOrder
  <1>12. Serving'
    BY <1>1, <1>4, <1>5, <1>7, <1>8 DEF Serving
  <1>13. Indexed'
    <2> SUFFICES ASSUME Reached PROVE Indexed'
      BY <1>8 DEF Indexed
    <2>1. Active(c) /\ list[client[c].id + 1] = client[c].job
      BY <1>1, <1>2 DEF Indexed, Serving, Active, c
    <2>2. \A d \in Clients : Active(d)' => d # c /\ client'[d] = client[d] /\ Active(d)
      BY <1>4, <1>7 DEF Active
    <2>3. \A d \in Clients : Active(d)' =>
              /\ client[d].id < Len(list') /\ list'[client[d].id + 1] = client[d].job
              /\ client[d].job \in Started
      <3> SUFFICES ASSUME NEW d \in Clients, Active(d)'
                   PROVE  /\ client[d].id < Len(list') /\ list'[client[d].id + 1] = client[d].job
                          /\ client[d].job \in Started
        OBVIOUS
      <3>1. /\ client[d].id < Len(list) /\ list[client[d].id + 1] = client[d].job
            /\ client[d].job \in Started /\ client[d].job # client[c].job
        BY <1>2, <2>1, <2>2 DEF Indexed
      <3>2. client[d].id \in Nat /\ client[c].id \in Nat /\ Len(list) \in Nat /\ Len(list') \in Nat
        <4>1. client[d].id \in Nat
          BY DEF Shapes, ClientRec
        <4> QED BY <1>2, <1>9, <4>1
      <3>3. client[d].id # client[c].id
        BY <2>1, <3>1
      <3>4. client[d].id < Len(list')
        BY <1>2, <1>9, <3>1, <3>2, <3>3
      <3>5. client[d].id + 1 \in 1..Len(list')
        BY <3>2, <3>4
      <3> QED BY <1>9, <3>1, <3>4, <3>5
    <2> QED BY <1>5, <1>8, <2>2, <2>3 DEF Indexed
  <1>14. Staged' /\ Meeting'
    BY <1>1, <1>5 DEF Staged, Running, Meeting
  <1> QED BY <1>10, <1>11, <1>12, <1>13, <1>14

-----------------------------------------------------------------------------
LEMMA StepHolds ==
  ASSUME MemcpyInv, [Next]_vars
  PROVE  MemcpyInv'
  <1>1. CASE \E c \in Clients, size \in Sizes, dir \in Directions : AskCopy(c, size, dir)
    BY <1>1, ClientStepHolds
  <1>2. CASE RpcStep
    BY <1>2, AllocateHolds, PassBarrierHolds, JoinListenerHolds, ServeCopyHolds, ServeSyncHolds
    DEF RpcStep
  <1>3. CASE \E c \in Clients : JoinThreads(c)
    BY <1>3, ClientStepHolds
  <1>4. CASE \E j \in Jobs : ListenerStep(j)
    BY <1>4, OpenSocketHolds, AcceptHolds, JoinWorkersHolds DEF ListenerStep
  <1>5. CASE \E j \in Jobs, t \in AllThreads : SenderStep(j, t) \/ WorkerStep(j, t)
    BY <1>5, SenderStepHolds, WorkerStepHolds
  <1>6. CASE AllocateFails
    BY <1>6, AllocateFailsHolds
  <1>7. CASE \E c \in Clients : CreateThreadsFails(c)
    BY <1>7, ClientStepHolds
  <1>8. CASE \E j \in Jobs : OpenSocketFails(j) \/ ListenerFails(j)
    BY <1>8, ListenerGone
  <1>9. CASE \E j \in Jobs, t \in AllThreads : ConnectFails(j, t)
    BY <1>9, SenderStepHolds
  <1>10. CASE UNCHANGED vars
    <2>1. Bystanders /\ UNCHANGED <<peer, worker, backlog>>
      BY <1>10 DEF vars, threads, Bystanders
    <2> QED BY <2>1, SenderHolds DEF MemcpyInv, Shapes
  <1> QED
    BY <1>1, <1>2, <1>3, <1>4, <1>5, <1>6, <1>7, <1>8, <1>9, <1>10 DEF Next, ThreadStep, FaultStep

(* Everything the invariant says holds in every reachable state.           *)
THEOREM MemcpyInvariant == Spec => []MemcpyInv
  <1>1. Init => MemcpyInv
    BY InitHolds, ClientsAssumption
  <1> QED BY <1>1, StepHolds, PTL DEF Spec

(* A client is told the port of its own listener, and sync joins the       *)
(* listener of the caller's copy, however the copies of several clients    *)
(* overlap: no removal from mt_memcpy_list moves a record that is in use.  *)
THEOREM AnswersBelong == Spec => []AnswersAreTheirOwn
  <1>1. MemcpyInv => AnswersAreTheirOwn
    BY DEF MemcpyInv, Serving, Indexed, Reached, AnswersAreTheirOwn
  <1> QED BY <1>1, MemcpyInvariant, PTL

(* No worker runs before the staging memory of its copy is allocated or    *)
(* after the listener has freed it, whatever fails.                        *)
THEOREM StagingIsHeld == Spec => []StagingOutlivesItsWorkers
  <1>1. MemcpyInv => StagingOutlivesItsWorkers
    BY DEF MemcpyInv, Staged, Running, StagingOutlivesItsWorkers
  <1> QED BY <1>1, MemcpyInvariant, PTL

-----------------------------------------------------------------------------
LEMMA Multiples ==
  ASSUME NEW s \in Nat, NEW t \in Nat, NEW q \in Nat, s <= t
  PROVE  s * q <= t * q /\ s * q \in Nat /\ t * q \in Nat
  <1> DEFINE d == t - s
  <1>1. d \in Nat /\ t = s + d
    OBVIOUS
  <1> HIDE DEF d
  <1>2. s * q \in Nat /\ d * q \in Nat
    BY <1>1
  <1>3. (s + d) * q = s * q + d * q
    BY <1>1
  <1> QED BY <1>1, <1>2, <1>3

LEMMA Quotient ==
  ASSUME NEW k \in Nat, NEW q \in Nat, q >= 1
  PROVE  /\ k \div q \in Nat
         /\ (k \div q) * q <= k /\ k < (k \div q + 1) * q
  <1>1. k = (k \div q) * q + (k % q) /\ k % q \in 0..q-1 /\ k \div q \in Nat
    OBVIOUS
  <1>2. (k \div q + 1) * q = (k \div q) * q + q
    BY <1>1
  <1>3. (k \div q) * q \in Nat
    BY <1>1
  <1> QED BY <1>1, <1>2, <1>3

(* The chunks of a copy by n threads: every cell of the buffer is in one,  *)
(* none reaches past the buffer, and no two overlap, also when the size is *)
(* no multiple of n and the last thread takes the rest.                    *)
THEOREM ChunksPartition ==
  ASSUME NEW n \in Nat \ {0}, NEW size \in Nat, size >= n
  PROVE  /\ \A k \in 0..size-1 : \E t \in 0..n-1 : k \in Cells(ChunkBounds(size, n, t))
         /\ \A t \in 0..n-1 : Cells(ChunkBounds(size, n, t)) \subseteq 0..size-1
         /\ \A s, t \in 0..n-1 : s # t =>
               Cells(ChunkBounds(size, n, s)) \cap Cells(ChunkBounds(size, n, t)) = {}
  <1> DEFINE q == size \div n
             end(t) == IF t = n - 1 THEN size ELSE (t + 1) * q
  <1>1. q \in Nat /\ q * n <= size /\ size < (q + 1) * n
    BY Quotient
  <1>2. q >= 1
    <2>1. q = 0 => (q + 1) * n = n
      BY <1>1
    <2> QED BY <1>1, <2>1
  <1>3. \A t \in 0..n-1 : Cells(ChunkBounds(size, n, t)) = t * q .. end(t) - 1
    <2> TAKE t \in 0..n-1
    <2>1. ChunkBounds(size, n, t)
             = [first |-> t * q, len |-> IF t = n - 1 THEN size - t * q ELSE q]
      BY DEF ChunkBounds
    <2> HIDE DEF q
    <2>2. (t + 1) * q = t * q + q /\ t * q \in Nat
      BY <1>1
    <2>3. CASE t = n - 1
      BY <1>1, <2>1, <2>2, <2>3 DEF Cells
    <2>4. CASE t # n - 1
      <3>1. t * q + q - 1 = end(t) - 1
        BY <1>1, <2>2, <2>4
      <3>2. Cells(ChunkBounds(size, n, t)) = t * q .. t * q + q - 1
        BY <2>1, <2>4 DEF Cells
      <3> QED BY <3>1, <3>2
    <2> QED BY <2>3, <2>4
  <1> HIDE DEF q
  <1>4. \A t \in 0..n-1 : /\ t * q \in Nat /\ end(t) \in Nat /\ end(t) <= size
                          /\ \A s \in 0..n-1 : s < t => end(s) <= t * q
    <2> TAKE t \in 0..n-1
    <2>1. t * q \in Nat /\ (t + 1) * q \in Nat /\ (t + 1) * q <= n * q /\ n * q = q * n
      BY <1>1, Multiples
    <2>2. \A s \in 0..n-1 : s < t => end(s) <= t * q
      <3> SUFFICES ASSUME NEW s \in 0..n-1, s < t PROVE end(s) <= t * q
        OBVIOUS
      <3>1. s + 1 \in Nat /\ t \in Nat /\ s + 1 <= t /\ s # n - 1
        OBVIOUS
      <3>2. (s + 1) * q <= t * q
        BY <1>1, <3>1, Multiples
      <3> QED BY <3>1, <3>2
    <2>3. end(t) \in Nat /\ end(t) <= size
      BY <1>1, <2>1
    <2> QED BY <2>1, <2>2, <2>3
  <1>5. \A k \in 0..size-1 : \E t \in 0..n-1 : k \in t * q .. end(t) - 1
    <2> TAKE k \in 0..size-1
    <2> DEFINE r == k \div q
    <2>1. r \in Nat /\ r * q <= k /\ k < (r + 1) * q
      BY <1>1, <1>2, Quotient
    <2> HIDE DEF r
    <2>2. CASE r < n - 1
      <3>1. r \in 0..n-1 /\ end(r) = (r + 1) * q /\ r * q \in Nat /\ (r + 1) * q \in Nat
        BY <1>1, <2>1, <2>2, Multiples
      <3> QED BY <2>1, <3>1
    <2>3. CASE r >= n - 1
      <3>1. n - 1 \in Nat /\ (n - 1) * q <= r * q /\ (n - 1) * q \in Nat /\ r * q \in Nat
        BY <1>1, <2>1, <2>3, Multiples
      <3>2. n - 1 \in 0..n-1 /\ end(n - 1) = size
        OBVIOUS
      <3>3. k \in (n - 1) * q .. end(n - 1) - 1
        BY <2>1, <3>1, <3>2
      <3> QED BY <3>2, <3>3
    <2> QED BY <2>1, <2>2, <2>3
  <1> HIDE DEF end
  <1>6. \A t \in 0..n-1 : t * q .. end(t) - 1 \subseteq 0..size-1
    <2> TAKE t \in 0..n-1
    <2>1. t * q \in Nat /\ end(t) \in Nat /\ end(t) <= size
      BY <1>4
    <2> QED BY <2>1
  <1>7. \A s, t \in 0..n-1 : s # t => (s * q .. end(s) - 1) \cap (t * q .. end(t) - 1) = {}
    <2> SUFFICES ASSUME NEW s \in 0..n-1, NEW t \in 0..n-1, s # t
                 PROVE  (s * q .. end(s) - 1) \cap (t * q .. end(t) - 1) = {}
      OBVIOUS
    <2>1. /\ s * q \in Nat /\ t * q \in Nat /\ end(s) \in Nat /\ end(t) \in Nat
          /\ end(s) <= t * q \/ end(t) <= s * q
      BY <1>4
    <2> QED BY <2>1
  <1>8. \A k \in 0..size-1 : \E t \in 0..n-1 : k \in Cells(ChunkBounds(size, n, t))
    <2> TAKE k \in 0..size-1
    <2>1. PICK t \in 0..n-1 : k \in t * q .. end(t) - 1
      BY <1>5
    <2>2. Cells(ChunkBounds(size, n, t)) = t * q .. end(t) - 1
      BY <1>3
    <2> QED BY <2>1, <2>2
  <1>9. \A t \in 0..n-1 : Cells(ChunkBounds(size, n, t)) \subseteq 0..size-1
    <2> TAKE t \in 0..n-1
    <2> QED BY <1>3, <1>6
  <1>10. \A s, t \in 0..n-1 : s # t =>
            Cells(ChunkBounds(size, n, s)) \cap Cells(ChunkBounds(size, n, t)) = {}
    <2> TAKE s, t \in 0..n-1
    <2> QED BY <1>3, <1>7
  <1> QED BY <1>8, <1>9, <1>10

(***************************************************************************)
(* What the copies move.                                                   *)
(***************************************************************************)
Table(f) ==
    /\ f = [j \in Jobs |-> f[j]]
    /\ \A j \in Jobs : f[j] = [t \in AllThreads |-> f[j][t]]
Buffers(f) ==
    /\ f = [j \in Jobs |-> f[j]]
    /\ \A j \in Jobs : f[j] = [k \in 0..job[j].size-1 |-> f[j][k]]

(* Sizes are those asked for, a client connects to the listener of its own *)
(* copy, and the records in the list are of copies.                        *)
Asked ==
    /\ \A c \in Clients : /\ client[c].pc = "asked" => client[c].size \in Sizes
                          /\ client[c].port = client[c].job
                          /\ client[c].job # NoJob => client[c].job \in Started
    /\ \A m \in 1..Len(list) : list[m] \in Started
    /\ \A j \in Started : job[j].size \in Sizes

(* Each socket and thread has its entry, each cell its place in a buffer.  *)
Tables == Table(sender) /\ Table(wire) /\ Buffers(staging) /\ Buffers(target)

Once(s) == \A m, n \in 1..Len(s) : s[m] = s[n] => m = n

Early == {"none", "opening", "barrier"}

(* Each thread of the client connects once, and is accepted at most once.  *)
Queues(j) ==
    /\ \A t \in AllThreads :
          /\ sender[j][t] \in {"none", "start", "connected", "done", "failed"}
          /\ sender[j][t] # "none" => /\ t \in Threads(j)
                                      /\ listener[j] \notin Early
          /\ sender[j][t] = "failed" => HitJob(j)
          /\ sender[j][t] = "done" => \E m \in 1..Len(peer[j]) : peer[j][m] = t
    /\ \A m \in 1..Len(backlog[j]) : sender[j][backlog[j][m]] = "connected"
    /\ \A m \in 1..Len(peer[j]) : sender[j][peer[j][m]] \in {"connected", "done"}
    /\ Once(peer[j]) /\ Once(backlog[j])
    /\ \A m \in 1..Len(peer[j]), n \in 1..Len(backlog[j]) : peer[j][m] # backlog[j][n]

Filled(m, b) == \A k \in Cells(b) : m[k] = k

(* A socket carries the chunk of the index that comes with it: that of the *)
(* client's thread, or of the worker that serves it.                       *)
Wired(j) ==
    \A t \in AllThreads : wire[j][t] # NoData =>
        /\ wire[j][t].id \in Threads(j)
        /\ wire[j][t].data = Read(Source(job[j].size), Bounds(j, wire[j][t].id))
        /\ job[j].dir = "htod" => wire[j][t].id = t
        /\ job[j].dir = "dtoh" => /\ wire[j][t].id < Len(peer[j])
                                  /\ peer[j][wire[j][t].id + 1] = t

(* What a worker has behind it is in its place.                            *)
Worked(j, i) ==
    LET pc == worker[j][i].pc  id == worker[j][i].id IN
    /\ pc \in {"none", "start", "done"} \cup (IF job[j].dir = "htod" THEN {"copy"} ELSE {"send", "failed"})
    /\ pc \in {"none", "start"} \/ job[j].dir = "dtoh" => id = i
    /\ pc \in {"copy", "done"} /\ job[j].dir = "htod" => id = peer[j][i + 1]
    /\ pc \in {"copy", "send"} => Filled(staging[j], Bounds(j, id))
    /\ pc = "done" /\ job[j].dir = "htod" /\ ~HitJob(j) => Filled(target[j], Bounds(j, id))
    /\ pc = "failed" => HitJob(j)

Received(j) ==
    job[j].dir = "dtoh" =>
        \A m \in 1..Len(peer[j]) :
            sender[j][peer[j][m]] = "done" => Filled(target[j], Bounds(j, m - 1))

Listened(j) ==
    /\ listener[j] = "gone" => HitJob(j)
    /\ Len(peer[j]) <= ThreadNum(job[j].size)
    /\ listener[j] = "done" =>
          /\ Len(peer[j]) = ThreadNum(job[j].size)
          /\ \A i \in 0..ThreadNum(job[j].size)-1 : worker[j][i].pc \in {"done", "failed"}

Moved(j) ==
    Queues(j) /\ Wired(j) /\ (\A i \in AllThreads : Worked(j, i)) /\ Received(j) /\ Listened(j)

SendersEnded(j) == \A t \in Threads(j) : sender[j][t] \in {"done", "failed"}

(* A client that is told that its copy is done has had its threads joined, *)
(* and the listener its workers.                                           *)
Told(c) ==
    LET j == client[c].job IN
    j # NoJob =>
        /\ client[c].pc = "asksync" => SendersEnded(j)
        /\ client[c].pc = "idle" /\ Reached /\ ~HitJob(j) =>
              client[c].ret = 0 /\ listener[j] = "done" /\ SendersEnded(j)

DataInv == Asked /\ Tables /\ (\A j \in Jobs : Moved(j)) /\ \A c \in Clients : Told(c)

-----------------------------------------------------------------------------
(* Larger copies have as many threads or more, so AllThreads names them    *)
(* all; and every copy has at least two.                                   *)
LEMMA ThreadsOfSizes ==
  ASSUME NEW s \in Sizes
  PROVE  /\ s \in Nat /\ ThreadNum(s) \in Nat /\ ThreadNum(s) >= 2 /\ s >= ThreadNum(s)
         /\ 0 .. ThreadNum(s) - 1 \subseteq AllThreads
  <1> DEFINE M == MemPerThread
             n == s \div M
  <1>1. s \in Nat /\ M \in Nat /\ M >= 1 /\ s > 2 * M
    BY SizesAssumption
  <1>2. n \in Nat /\ n * M <= s /\ s < (n + 1) * M
    BY <1>1, Quotient
  <1> HIDE DEF n
  <1>3. n >= 2
    <2> SUFFICES ASSUME n + 1 <= 2 PROVE FALSE
      BY <1>2
    <2>1. (n + 1) * M <= 2 * M
      BY <1>1, <1>2, Multiples
    <2> QED BY <1>1, <1>2, <2>1
  <1>4. n * 1 <= n * M
    <2>1. 1 * n <= M * n /\ 1 * n \in Nat /\ M * n \in Nat
      BY <1>1, <1>2, Multiples
    <2> QED BY <1>1, <1>2, <2>1
  <1>5. n <= s
    BY <1>1, <1>2, <1>4
  <1>6. 0 .. n - 1 \subseteq AllThreads
    <2>1. PICK r : r = CHOOSE x \in Sizes : \A y \in Sizes : y <= x
      OBVIOUS
    <2>2. r \in Sizes /\ s <= r
      BY <2>1, LargestAssumption
    <2>3. r \in Nat
      BY <2>2, SizesAssumption
    <2>4. PICK m : m = r \div M
      OBVIOUS
    <2>5. m \in Nat /\ r < (m + 1) * M /\ m * M <= r
      BY <1>1, <2>3, <2>4, Quotient
    <2>6. n <= m
      <3> SUFFICES ASSUME m + 1 <= n PROVE FALSE
        BY <1>2, <2>5
      <3>1. (m + 1) * M <= n * M /\ (m + 1) * M \in Nat /\ n * M \in Nat
        BY <1>1, <1>2, <2>5, Multiples
      <3> QED BY <1>1, <1>2, <2>2, <2>3, <2>5, <3>1
    <2>7. AllThreads = 0 .. m - 1
      BY <2>1, <2>2, <2>4 DEF AllThreads, ThreadNum
    <2> QED BY <1>2, <2>5, <2>6, <2>7
  <1>7. ThreadNum(s) = n
    BY DEF ThreadNum, n
  <1> QED BY <1>1, <1>2, <1>3, <1>5, <1>6, <1>7

(* A chunk is a range of cells of the buffer.                              *)
Chunk(b, size) == b.first \in Nat /\ b.len \in Nat /\ Cells(b) \subseteq 0..size-1

LEMMA ChunksFit ==
  ASSUME NEW s \in Sizes, NEW t \in 0 .. ThreadNum(s) - 1
  PROVE  Chunk(ChunkBounds(s, ThreadNum(s), t), s)
  <1>1. PICK n : n = ThreadNum(s)
    OBVIOUS
  <1>2. s \in Nat /\ n \in Nat /\ n >= 2 /\ s >= n
    BY <1>1, ThreadsOfSizes
  <1>3. PICK q : q = s \div n
    OBVIOUS
  <1>4. q \in Nat /\ q * n <= s
    BY <1>2, <1>3, Quotient
  <1>5. t \in Nat /\ t <= n - 1 /\ t * q \in Nat /\ n * q \in Nat /\ t * q <= n * q /\ n * q = q * n
    BY <1>1, <1>2, <1>4, Multiples
  <1>6. ChunkBounds(s, n, t) = [first |-> t * q, len |-> IF t = n - 1 THEN s - t * q ELSE q]
    BY <1>3 DEF ChunkBounds
  <1>7. s - t * q \in Nat
    BY <1>2, <1>4, <1>5
  <1>8. ChunkBounds(s, n, t).first \in Nat /\ ChunkBounds(s, n, t).len \in Nat
    BY <1>4, <1>5, <1>6, <1>7
  <1>9. Cells(ChunkBounds(s, n, t)) \subseteq 0..s-1
    <2>1. n \in Nat \ {0} /\ t \in 0..n-1
      BY <1>1, <1>2
    <2> QED BY <1>2, <2>1, ChunksPartition
  <1> QED BY <1>1, <1>8, <1>9 DEF Chunk

(* What is read from where it is in its place lands there too, and leaves  *)
(* in its place whatever was.                                              *)
LEMMA ReadsSource ==
  ASSUME NEW size \in Nat, NEW b, NEW m, Chunk(b, size), Filled(m, b)
  PROVE  Read(m, b) = Read(Source(size), b)
  <1>1. \A i \in 1..b.len : b.first + i - 1 \in Cells(b)
    BY DEF Chunk, Cells
  <1>2. \A i \in 1..b.len : m[b.first + i - 1] = Source(size)[b.first + i - 1]
    BY <1>1 DEF Chunk, Filled, Source
  <1> QED BY <1>2 DEF Read

LEMMA SourceIsFilled ==
  ASSUME NEW size \in Nat, NEW b, Chunk(b, size)
  PROVE  Filled(Source(size), b)
  BY DEF Chunk, Filled, Source

LEMMA LandFills ==
  ASSUME NEW size \in Nat, NEW b, NEW from, NEW to, Chunk(b, size), Filled(from, b),
         to = [k \in 0..size-1 |-> to[k]], NEW out, out = Land(to, b, Read(from, b))
  PROVE  /\ out = [k \in 0..size-1 |-> out[k]]
         /\ Filled(out, b)
         /\ \A c : Chunk(c, size) /\ Filled(to, c) => Filled(out, c)
  <1>1. DOMAIN to = 0..size-1
    OBVIOUS
  <1>2. out = [k \in 0..size-1 |-> IF k \in Cells(b) THEN Read(from, b)[k - b.first + 1] ELSE to[k]]
    BY <1>1 DEF Land
  <1>3. \A k \in Cells(b) : k \in 0..size-1 /\ Read(from, b)[k - b.first + 1] = k
    <2> SUFFICES ASSUME NEW k \in Cells(b)
                 PROVE  k \in 0..size-1 /\ Read(from, b)[k - b.first + 1] = k
      OBVIOUS
    <2>1. k \in Int /\ b.first <= k /\ k <= b.first + b.len - 1 /\ b.first \in Nat /\ b.len \in Nat
      BY DEF Chunk, Cells
    <2>2. k - b.first + 1 \in 1..b.len /\ b.first + (k - b.first + 1) - 1 = k
      BY <2>1
    <2>3. Read(from, b)[k - b.first + 1] = from[k]
      BY <2>2 DEF Read
    <2> QED BY <2>3 DEF Chunk, Filled
  <1>4. \A k \in 0..size-1 : out[k] = IF k \in Cells(b) THEN k ELSE to[k]
    BY <1>2, <1>3
  <1>5. out = [k \in 0..size-1 |-> out[k]]
    BY <1>2
  <1>6. Filled(out, b)
    BY <1>3, <1>4 DEF Filled
  <1>7. \A c : Chunk(c, size) /\ Filled(to, c) => Filled(out, c)
    BY <1>4 DEF Filled, Chunk
  <1> QED BY <1>5, <1>6, <1>7

-----------------------------------------------------------------------------
LEMMA JobFacts ==
  ASSUME MemcpyInv, DataInv, NEW j \in Jobs
  PROVE  /\ job[j].size \in Nat /\ job[j].dir \in Directions
         /\ peer[j] \in Seq(AllThreads) /\ Len(peer[j]) \in Nat
         /\ backlog[j] \in Seq(AllThreads) /\ Len(backlog[j]) \in Nat
         /\ \A m \in 1..Len(peer[j]) : peer[j][m] \in AllThreads
         /\ \A m \in 1..Len(backlog[j]) : backlog[j][m] \in AllThreads
         /\ Moved(j)
         /\ j \notin Started => listener[j] = "none" /\ job[j].size = 0
         /\ j \in Started => /\ Threads(j) \subseteq AllThreads /\ 0 \in Threads(j)
                              /\ ThreadNum(job[j].size) \in Nat
                              /\ \A t \in Threads(j) : Chunk(Bounds(j, t), job[j].size)
  <1>1. /\ job[j].size \in Nat /\ job[j].dir \in Directions
        /\ peer[j] \in Seq(AllThreads) /\ backlog[j] \in Seq(AllThreads)
    BY DEF MemcpyInv, Shapes, JobRec
  <1>2. j \notin Started => listener[j] = "none" /\ job[j].size = 0
    BY DEF MemcpyInv, InOrder, Started, Unused
  <1>3. ASSUME j \in Started
        PROVE  /\ Threads(j) \subseteq AllThreads /\ 0 \in Threads(j)
               /\ ThreadNum(job[j].size) \in Nat
               /\ \A t \in Threads(j) : Chunk(Bounds(j, t), job[j].size)
    <2>1. PICK s \in Sizes : s = job[j].size
      BY <1>3 DEF DataInv, Asked
    <2>2. Threads(j) = 0 .. ThreadNum(s) - 1
      BY <2>1 DEF Threads
    <2>3. \A t \in Threads(j) : Chunk(Bounds(j, t), job[j].size)
      BY <2>1, <2>2, ChunksFit DEF Bounds
    <2> QED BY <2>1, <2>2, <2>3, ThreadsOfSizes
  <1> QED BY <1>1, <1>2, <1>3 DEF DataInv

(* The connection a worker serves, and the chunk it copies.                *)
LEMMA WorkerKnows ==
  ASSUME MemcpyInv, DataInv, NEW j \in Jobs, NEW i \in AllThreads, worker[j][i].pc # "none"
  PROVE  /\ j \in Started /\ i \in Threads(j) /\ i \in Nat /\ i + 1 \in 1..Len(peer[j])
         /\ i < Len(peer[j])
         /\ peer[j][i + 1] \in Threads(j) /\ peer[j][i + 1] \in AllThreads
         /\ sender[j][peer[j][i + 1]] \in {"connected", "done"}
         /\ worker[j][i].id \in Threads(j)
         /\ Chunk(Bounds(j, worker[j][i].id), job[j].size)
  <1>1. i < Len(peer[j]) /\ i \in Nat /\ Len(peer[j]) \in Nat
    BY Ranges, JobFacts DEF MemcpyInv, Staged
  <1>2. j \in Started
    <2>1. j \notin Started => listener[j] = "none"
      BY JobFacts
    <2>2. listener[j] = "none" => peer[j] = <<>>
      BY DEF MemcpyInv, Staged
    <2>3. peer[j] # <<>>
      BY <1>1
    <2> QED BY <2>1, <2>2, <2>3
  <1>3. i + 1 \in 1..Len(peer[j])
    BY <1>1
  <1>4. PICK t \in AllThreads : t = peer[j][i + 1]
    BY <1>3, JobFacts
  <1>5. sender[j][t] \in {"connected", "done"} /\ t \in Threads(j)
    BY <1>3, <1>4, JobFacts DEF Moved, Queues
  <1>6. i \in Threads(j)
    BY <1>1, <1>2, JobFacts DEF Moved, Listened, Threads
  <1>7. worker[j][i].id \in {i, t}
    BY <1>4, JobFacts DEF Moved, Worked, Directions
  <1> QED BY <1>1, <1>2, <1>3, <1>4, <1>5, <1>6, <1>7, JobFacts

(***************************************************************************)
(* What a step leaves alone.                                               *)
(***************************************************************************)
SameJob(j) ==
    /\ job'[j].size = job[j].size /\ job'[j].dir = job[j].dir
    /\ HitJob(j) => HitJob(j)'

LEMMA FaultsGrow ==
  ASSUME faults \subseteq faults'
  PROVE  \A j \in Jobs : HitJob(j) => HitJob(j)'
  BY DEF HitJob

LEMMA FaultHits ==
  ASSUME NEW k, NEW j, Fault(k, j)
  PROVE  HitJob(j)' /\ faults \subseteq faults'
  <1>1. <<k, j>> \in faults' /\ <<k, j>>[2] = j
    BY DEF Fault
  <1> QED BY <1>1, FaultsStay DEF HitJob

LEMMA QueuesStay ==
  ASSUME NEW j \in Jobs, Queues(j), SameJob(j), sender'[j] = sender[j],
         backlog'[j] = backlog[j], peer'[j] = peer[j],
         listener'[j] \in Early => listener[j] \in Early
  PROVE  Queues(j)'
  BY DEF Queues, SameJob, Threads, Once

(* The accepted connections are the first of those of the next state.      *)
Growing(j) ==
    /\ Len(peer'[j]) \in Nat /\ Len(peer'[j]) >= Len(peer[j])
    /\ \A m \in 1..Len(peer[j]) : peer'[j][m] = peer[j][m]
Keeps(f, g, size) == \A b : Chunk(b, size) /\ Filled(f, b) => Filled(g, b)

LEMMA WiredStays ==
  ASSUME MemcpyInv, DataInv, NEW j \in Jobs, SameJob(j), Growing(j), wire'[j] = wire[j]
  PROVE  Wired(j)'
  <1>1. \A t \in AllThreads : wire[j][t] # NoData =>
           Bounds(j, wire[j][t].id)' = Bounds(j, wire[j][t].id)
    BY DEF SameJob, Bounds
  <1>2. Wired(j) /\ Threads(j)' = Threads(j) /\ Len(peer[j]) \in Nat
    BY JobFacts DEF Moved, SameJob, Threads
  <1>3. SUFFICES ASSUME NEW t \in AllThreads, wire[j][t] # NoData
                 PROVE  /\ wire[j][t].id \in Threads(j)
                        /\ wire[j][t].data = Read(Source(job'[j].size), Bounds(j, wire[j][t].id)')
                        /\ job'[j].dir = "htod" => wire[j][t].id = t
                        /\ job'[j].dir = "dtoh" => /\ wire[j][t].id < Len(peer'[j])
                                                   /\ peer'[j][wire[j][t].id + 1] = t
    BY <1>2 DEF Wired
  <1>4. PICK n : n = wire[j][t].id
    OBVIOUS
  <1>5. n \in Nat
    BY <1>2, <1>3, <1>4 DEF Wired, Threads
  <1>6. job[j].dir = "dtoh" => n < Len(peer'[j]) /\ peer'[j][n + 1] = t
    <2>1. job[j].dir = "dtoh" => n < Len(peer[j]) /\ peer[j][n + 1] = t
      BY <1>2, <1>3, <1>4 DEF Wired
    <2>2. n < Len(peer[j]) => n + 1 \in 1..Len(peer[j])
      BY <1>2, <1>5
    <2> QED BY <1>2, <1>5, <2>1, <2>2 DEF Growing
  <1> QED BY <1>1, <1>2, <1>3, <1>4, <1>6 DEF Wired, SameJob

LEMMA WorkedStays ==
  ASSUME MemcpyInv, DataInv, NEW j \in Jobs, NEW i \in AllThreads, SameJob(j), Growing(j),
         worker'[j][i] = worker[j][i],
         Keeps(staging[j], staging'[j], job[j].size), Keeps(target[j], target'[j], job[j].size)
  PROVE  Worked(j, i)'
  <1>1. Worked(j, i)
    BY JobFacts DEF Moved
  <1>2. PICK id : id = worker[j][i].id
    OBVIOUS
  <1>3. Bounds(j, id)' = Bounds(j, id) /\ Bounds(j, worker[j][i].id)' = Bounds(j, id)
    BY <1>2 DEF SameJob, Bounds
  <1>4. CASE worker[j][i].pc = "none"
    BY <1>1, <1>4 DEF Worked, SameJob
  <1>5. CASE worker[j][i].pc # "none"
    <2>1. Chunk(Bounds(j, id), job[j].size) /\ i + 1 \in 1..Len(peer[j])
      BY <1>2, <1>5, WorkerKnows
    <2>2. Filled(staging[j], Bounds(j, id)) => Filled(staging'[j], Bounds(j, id))
      BY <2>1 DEF Keeps
    <2>3. Filled(target[j], Bounds(j, id)) => Filled(target'[j], Bounds(j, id))
      BY <2>1 DEF Keeps
    <2>4. peer'[j][i + 1] = peer[j][i + 1]
      BY <2>1 DEF Growing
    <2> QED BY <1>1, <1>2, <1>3, <2>2, <2>3, <2>4 DEF Worked, SameJob
  <1> QED BY <1>4, <1>5

LEMMA ReceivedStays ==
  ASSUME MemcpyInv, DataInv, NEW j \in Jobs, SameJob(j), Growing(j),
         Keeps(target[j], target'[j], job[j].size),
         \A m \in 1..Len(peer'[j]) : sender'[j][peer'[j][m]] = "done" =>
            m \in 1..Len(peer[j]) /\ sender[j][peer[j][m]] = "done"
  PROVE  Received(j)'
  <1>1. SUFFICES ASSUME job[j].dir = "dtoh", NEW m \in 1..Len(peer'[j]),
                        sender'[j][peer'[j][m]] = "done"
                 PROVE  Filled(target'[j], Bounds(j, m - 1)')
    BY DEF Received, SameJob
  <1>2. m \in 1..Len(peer[j]) /\ sender[j][peer[j][m]] = "done"
    BY <1>1
  <1>3. Filled(target[j], Bounds(j, m - 1))
    BY <1>1, <1>2, JobFacts DEF Moved, Received
  <1>4. j \in Started
    <2>1. listener[j] = "none" => peer[j] = <<>>
      BY DEF MemcpyInv, Staged
    <2>2. peer[j] # <<>>
      BY <1>2
    <2> QED BY <2>1, <2>2, JobFacts
  <1>5. m - 1 \in Threads(j)
    <2>1. Len(peer[j]) \in Nat /\ Len(peer[j]) <= ThreadNum(job[j].size) /\ ThreadNum(job[j].size) \in Nat
      BY <1>4, JobFacts DEF Moved, Listened
    <2> QED BY <1>2, <2>1 DEF Threads
  <1>6. Chunk(Bounds(j, m - 1), job[j].size)
    BY <1>4, <1>5, JobFacts
  <1>7. Bounds(j, m - 1)' = Bounds(j, m - 1)
    BY DEF Bounds, SameJob
  <1> QED BY <1>3, <1>6, <1>7 DEF Keeps

LEMMA ListenedStays ==
  ASSUME MemcpyInv, DataInv, NEW j \in Jobs, SameJob(j),
         peer'[j] = peer[j], listener'[j] = listener[j],
         \A i \in AllThreads : worker[j][i].pc \in {"done", "failed"}
                                  => worker'[j][i].pc \in {"done", "failed"}
  PROVE  Listened(j)'
  <1>1. Listened(j)
    BY JobFacts DEF Moved
  <1>2. listener[j] = "done" => Threads(j) \subseteq AllThreads
    BY JobFacts
  <1> QED BY <1>1, <1>2 DEF Listened, SameJob, Threads

LEMMA SameGrows ==
  ASSUME MemcpyInv, DataInv, NEW j \in Jobs, peer'[j] = peer[j]
  PROVE  Growing(j)
  BY JobFacts DEF Growing

LEMMA SameKeeps ==
  ASSUME NEW f, NEW g, g = f, NEW size
  PROVE  Keeps(f, g, size)
  BY DEF Keeps

SameThreads(j) ==
    /\ SameJob(j) /\ listener'[j] = listener[j] /\ sender'[j] = sender[j]
    /\ backlog'[j] = backlog[j] /\ peer'[j] = peer[j] /\ worker'[j] = worker[j]
    /\ wire'[j] = wire[j] /\ staging'[j] = staging[j] /\ target'[j] = target[j]

LEMMA MovedStays ==
  ASSUME MemcpyInv, DataInv, NEW j \in Jobs, SameThreads(j)
  PROVE  Moved(j)'
  <1>1. /\ Moved(j) /\ SameJob(j) /\ Growing(j)
        /\ Keeps(staging[j], staging'[j], job[j].size) /\ Keeps(target[j], target'[j], job[j].size)
    BY SameGrows, SameKeeps, JobFacts DEF SameThreads
  <1>2. Queues(j)'
    BY <1>1, QueuesStay DEF SameThreads, Moved
  <1>3. Wired(j)' /\ \A i \in AllThreads : Worked(j, i)'
    BY <1>1, WiredStays, WorkedStays DEF SameThreads
  <1>4. Received(j)'
    BY <1>1, ReceivedStays DEF SameThreads
  <1>5. Listened(j)'
    BY <1>1, ListenedStays DEF SameThreads
  <1> QED BY <1>2, <1>3, <1>4, <1>5 DEF Moved

(* What is done stays done.                                                *)
Onward ==
    /\ faults \subseteq faults' /\ Started \subseteq Started'
    /\ \A j \in Started :
          /\ job'[j].size = job[j].size
          /\ listener[j] = "done" => listener'[j] = "done"
          /\ \A t \in Threads(j) :
                sender[j][t] \in {"done", "failed"} => sender'[j][t] = sender[j][t]

LEMMA EndedStay ==
  ASSUME Onward, NEW j \in Started, SendersEnded(j)
  PROVE  SendersEnded(j)'
  BY DEF Onward, SendersEnded, Threads

LEMMA ToldStays ==
  ASSUME MemcpyInv, DataInv, Onward, NEW c \in Clients, client'[c] = client[c]
  PROVE  Told(c)'
  <1>1. PICK j : j = client[c].job
    OBVIOUS
  <1>2. SUFFICES ASSUME j # NoJob
                 PROVE  /\ client[c].pc = "asksync" => SendersEnded(j)'
                        /\ client[c].pc = "idle" /\ Reached' /\ ~HitJob(j)' =>
                              client[c].ret = 0 /\ listener'[j] = "done" /\ SendersEnded(j)'
    BY <1>1 DEF Told, SendersEnded, HitJob, Threads
  <1>3. j \in Started /\ j \in Jobs
    BY <1>1, <1>2 DEF DataInv, Asked, Started
  <1>4. SendersEnded(j) => SendersEnded(j)'
    BY <1>3, EndedStay
  <1>5. Reached' => Reached
    BY ReachedBefore DEF Onward
  <1>6. HitJob(j) => HitJob(j)'
    BY DEF Onward, HitJob
  <1>7. Told(c)
    BY DEF DataInv
  <1> QED BY <1>1, <1>2, <1>3, <1>4, <1>5, <1>6, <1>7 DEF Told, Onward

(* A step of one thread of job j.                                          *)
Apart(j) == \A k \in Jobs : k # j => SameThreads(k)

LEMMA ThreadsMove ==
  ASSUME MemcpyInv, DataInv, UNCHANGED <<client, list, job>>, Onward, Tables',
         NEW j \in Jobs, Apart(j), Moved(j)'
  PROVE  DataInv'
  <1>1. Asked'
    BY DEF DataInv, Asked, Started, Unused
  <1>2. \A k \in Jobs : Moved(k)'
    BY MovedStays DEF Apart
  <1>3. \A c \in Clients : Told(c)'
    BY ToldStays
  <1> QED BY <1>1, <1>2, <1>3 DEF DataInv

SenderTo(j, t, v) ==
    /\ Table(sender')
    /\ \A k \in Jobs : k # j => sender'[k] = sender[k]
    /\ \A l \in AllThreads : sender'[j][l] = IF l = t THEN v ELSE sender[j][l]

LEMMA SenderChanges ==
  ASSUME DataInv, NEW j \in Jobs, NEW t, NEW v, sender' = [sender EXCEPT ![j][t] = v]
  PROVE  SenderTo(j, t, v)
  <1>1. sender = [k \in Jobs |-> sender[k]] /\ \A k \in Jobs : sender[k] = [l \in AllThreads |-> sender[k][l]]
    BY DEF DataInv, Tables, Table
  <1>2. sender'[j] = [sender[j] EXCEPT ![t] = v] /\ \A k \in Jobs : k # j => sender'[k] = sender[k]
    BY <1>1
  <1>3. sender'[j] = [l \in AllThreads |-> IF l = t THEN v ELSE sender[j][l]]
    BY <1>1, <1>2
  <1>4. sender' = [k \in Jobs |-> sender'[k]]
    BY <1>1
  <1> QED BY <1>1, <1>2, <1>3, <1>4 DEF Table, SenderTo

WireTo(j, t, v) ==
    /\ Table(wire')
    /\ \A k \in Jobs : k # j => wire'[k] = wire[k]
    /\ \A l \in AllThreads : wire'[j][l] = IF l = t THEN v ELSE wire[j][l]

LEMMA WireChanges ==
  ASSUME DataInv, NEW j \in Jobs, NEW t, NEW v, wire' = [wire EXCEPT ![j][t] = v]
  PROVE  WireTo(j, t, v)
  <1>1. wire = [k \in Jobs |-> wire[k]] /\ \A k \in Jobs : wire[k] = [l \in AllThreads |-> wire[k][l]]
    BY DEF DataInv, Tables, Table
  <1>2. wire'[j] = [wire[j] EXCEPT ![t] = v] /\ \A k \in Jobs : k # j => wire'[k] = wire[k]
    BY <1>1
  <1>3. wire'[j] = [l \in AllThreads |-> IF l = t THEN v ELSE wire[j][l]]
    BY <1>1, <1>2
  <1>4. wire' = [k \in Jobs |-> wire'[k]]
    BY <1>1
  <1> QED BY <1>1, <1>2, <1>3, <1>4 DEF Table, WireTo

LEMMA TablesStay ==
  ASSUME Table(sender'), Table(wire'), UNCHANGED job,
         staging' = [k \in Jobs |-> staging'[k]] /\ target' = [k \in Jobs |-> target'[k]],
         \A k \in Jobs : /\ staging'[k] = [x \in 0..job[k].size-1 |-> staging'[k][x]]
                         /\ target'[k] = [x \in 0..job[k].size-1 |-> target'[k][x]]
  PROVE  Tables'
  BY DEF Tables, Table, Buffers

LEMMA OnceMore ==
  ASSUME NEW s \in Seq(AllThreads), NEW t \in AllThreads, Once(s), \A m \in 1..Len(s) : s[m] # t
  PROVE  Once(Append(s, t))
  <1>1. PICK r, n : r = Append(s, t) /\ n = Len(s)
    OBVIOUS
  <1>2. n \in Nat /\ Len(r) = n + 1 /\ r[n + 1] = t /\ \A m \in 1..n : r[m] = s[m]
    BY <1>1, AppendProperties
  <1>3. \A m \in 1..Len(r) : m \in 1..n \/ m = n + 1
    BY <1>2
  <1> QED BY <1>1, <1>2, <1>3 DEF Once

(***************************************************************************)
(* The client's threads.                                                   *)
(***************************************************************************)
LEMMA ConnectFailsMoves ==
  ASSUME MemcpyInv, DataInv, NEW j \in Jobs, NEW t \in AllThreads, ConnectFails(j, t)
  PROVE  DataInv'
  <1>1. /\ sender[j][t] = "start" /\ sender' = [sender EXCEPT ![j][t] = "failed"]
        /\ UNCHANGED <<client, rpc, list, job, listener, backlog, peer, worker, wire, staging, target>>
        /\ faults \subseteq faults' /\ HitJob(j)'
    BY FaultHits DEF ConnectFails, memory
  <1>2. /\ Table(sender') /\ \A k \in Jobs : k # j => sender'[k] = sender[k]
        /\ \A l \in AllThreads : sender'[j][l] = IF l = t THEN "failed" ELSE sender[j][l]
    <2>1. SenderTo(j, t, "failed")
      BY <1>1, SenderChanges
    <2> QED BY <2>1 DEF SenderTo
  <1>3. Tables' /\ Apart(j)
    <2>1. Tables'
      BY <1>1, <1>2, TablesStay DEF DataInv, Tables, Buffers
    <2>2. Apart(j)
      BY <1>1, <1>2, FaultsGrow DEF Apart, SameThreads, SameJob
    <2> QED BY <2>1, <2>2
  <1>4. /\ Moved(j) /\ SameJob(j) /\ Growing(j)
        /\ Keeps(staging[j], staging'[j], job[j].size) /\ Keeps(target[j], target'[j], job[j].size)
    BY <1>1, SameGrows, SameKeeps, JobFacts, FaultsGrow DEF SameJob
  <1>5. Onward
    BY <1>1, <1>2, JobFacts DEF Onward, Started, Unused
  <1>6. Queues(j)'
    <2>1. \A m \in 1..Len(peer[j]) : peer[j][m] # t /\ peer[j][m] \in AllThreads
      BY <1>1, <1>4, JobFacts DEF Moved, Queues
    <2>2. \A m \in 1..Len(backlog[j]) : backlog[j][m] # t /\ backlog[j][m] \in AllThreads
      BY <1>1, <1>4, JobFacts DEF Moved, Queues
    <2> QED BY <1>1, <1>2, <1>4, <2>1, <2>2 DEF Moved, Queues, Threads, Once
  <1>7. Wired(j)' /\ (\A i \in AllThreads : Worked(j, i)') /\ Listened(j)'
    BY <1>1, <1>4, WiredStays, WorkedStays, ListenedStays
  <1>8. Received(j)'
    <2>1. \A m \in 1..Len(peer'[j]) : sender'[j][peer'[j][m]] = "done" =>
            m \in 1..Len(peer[j]) /\ sender[j][peer[j][m]] = "done"
      BY <1>1, <1>2, JobFacts
    <2> QED BY <1>4, <2>1, ReceivedStays
  <1> QED BY <1>1, <1>3, <1>5, <1>6, <1>7, <1>8, ThreadsMove DEF Moved

LEMMA ConnectMoves ==
  ASSUME MemcpyInv, DataInv, NEW c \in Clients, NEW j \in Jobs, NEW t \in AllThreads,
         client[c].job = j, Connect(c, t)
  PROVE  DataInv'
  <1>0. client[c].port = j
    BY DEF DataInv, Asked
  <1>1. /\ sender[j][t] = "start" /\ sender' = [sender EXCEPT ![j][t] = "connected"]
        /\ backlog' = [backlog EXCEPT ![j] = Append(@, t)]
        /\ UNCHANGED <<client, rpc, list, job, listener, peer, worker, wire, staging, target, faults>>
    BY <1>0 DEF Connect, memory
  <1>2. /\ Table(sender') /\ \A k \in Jobs : k # j => sender'[k] = sender[k]
        /\ \A l \in AllThreads : sender'[j][l] = IF l = t THEN "connected" ELSE sender[j][l]
    <2>1. SenderTo(j, t, "connected")
      BY <1>1, SenderChanges
    <2> QED BY <2>1 DEF SenderTo
  <1>3. backlog'[j] = Append(backlog[j], t) /\ \A k \in Jobs : k # j => backlog'[k] = backlog[k]
    BY <1>1 DEF MemcpyInv, Shapes
  <1>4. Tables' /\ Apart(j)
    <2>1. Tables'
      BY <1>1, <1>2, TablesStay DEF DataInv, Tables, Buffers
    <2>2. Apart(j)
      BY <1>1, <1>2, <1>3, FaultsGrow DEF Apart, SameThreads, SameJob
    <2> QED BY <2>1, <2>2
  <1>5. /\ Moved(j) /\ SameJob(j) /\ Growing(j)
        /\ Keeps(staging[j], staging'[j], job[j].size) /\ Keeps(target[j], target'[j], job[j].size)
    BY <1>1, SameGrows, SameKeeps, JobFacts DEF SameJob, HitJob
  <1>6. Onward
    BY <1>1, <1>2, JobFacts DEF Onward, Started, Unused
  <1>7. Queues(j)'
    <2>1. \A m \in 1..Len(peer[j]) : peer[j][m] # t /\ peer[j][m] \in AllThreads
      BY <1>1, <1>5, JobFacts DEF Moved, Queues
    <2>2. \A m \in 1..Len(backlog[j]) : backlog[j][m] # t /\ backlog[j][m] \in AllThreads
      BY <1>1, <1>5, JobFacts DEF Moved, Queues
    <2>3. /\ Len(backlog'[j]) = Len(backlog[j]) + 1 /\ backlog'[j][Len(backlog[j]) + 1] = t
          /\ \A m \in 1..Len(backlog[j]) : backlog'[j][m] = backlog[j][m]
          /\ Len(backlog[j]) \in Nat
      BY <1>3, JobFacts, AppendProperties
    <2>4. \A m \in 1..Len(backlog'[j]) : m \in 1..Len(backlog[j]) \/ m = Len(backlog[j]) + 1
      BY <2>3
    <2>5. \A m \in 1..Len(backlog'[j]) : sender'[j][backlog'[j][m]] = "connected"
      BY <1>2, <1>5, <2>2, <2>3, <2>4 DEF Moved, Queues
    <2>6. Once(backlog'[j])
      <3>1. PICK s : s = backlog[j]
        OBVIOUS
      <3>2. s \in Seq(AllThreads) /\ t \in AllThreads /\ Once(s) /\ \A m \in 1..Len(s) : s[m] # t
        BY <1>5, <2>2, <3>1, JobFacts DEF Moved, Queues
      <3>3. Once(Append(s, t))
        BY <3>2, OnceMore
      <3> QED BY <1>3, <3>1, <3>3
    <2>7. \A m \in 1..Len(peer[j]), n \in 1..Len(backlog'[j]) : peer[j][m] # backlog'[j][n]
      <3> TAKE m \in 1..Len(peer[j]), n \in 1..Len(backlog'[j])
      <3>1. CASE n \in 1..Len(backlog[j])
        BY <1>5, <2>3, <3>1 DEF Moved, Queues
      <3>2. CASE n = Len(backlog[j]) + 1
        BY <2>1, <2>3, <3>2
      <3> QED BY <2>4, <3>1, <3>2
    <2>8. \A m \in 1..Len(peer[j]) : sender'[j][peer[j][m]] \in {"connected", "done"}
      BY <1>2, <1>5, <2>1 DEF Moved, Queues
    <2>9. \A l \in AllThreads :
            /\ sender'[j][l] \in {"none", "start", "connected", "done", "failed"}
            /\ sender'[j][l] # "none" => l \in Threads(j) /\ listener[j] \notin Early
            /\ sender'[j][l] = "failed" => HitJob(j)
            /\ sender'[j][l] = "done" => \E m \in 1..Len(peer[j]) : peer[j][m] = l
      BY <1>1, <1>2, <1>5 DEF Moved, Queues
    <2>10. Threads(j)' = Threads(j) /\ HitJob(j)' = HitJob(j)
      BY <1>1 DEF Threads, HitJob
    <2> QED BY <1>1, <1>5, <2>5, <2>6, <2>7, <2>8, <2>9, <2>10 DEF Moved, Queues, Once
  <1>8. Wired(j)' /\ (\A i \in AllThreads : Worked(j, i)') /\ Listened(j)'
    BY <1>1, <1>5, WiredStays, WorkedStays, ListenedStays
  <1>9. Received(j)'
    <2>1. \A m \in 1..Len(peer'[j]) : sender'[j][peer'[j][m]] = "done" =>
            m \in 1..Len(peer[j]) /\ sender[j][peer[j][m]] = "done"
      BY <1>1, <1>2, JobFacts
    <2> QED BY <1>5, <2>1, ReceivedStays
  <1> QED BY <1>1, <1>4, <1>6, <1>7, <1>8, <1>9, ThreadsMove DEF Moved

(* A thread whose connection was accepted has moved its chunk.             *)
LEMMA SentQueues ==
  ASSUME MemcpyInv, DataInv, NEW j \in Jobs, NEW t \in AllThreads, NEW n \in 1..Len(peer[j]),
         peer[j][n] = t, sender[j][t] = "connected",
         \A l \in AllThreads : sender'[j][l] = IF l = t THEN "done" ELSE sender[j][l],
         UNCHANGED <<job, listener, backlog, peer, faults>>
  PROVE  Queues(j)'
  <1>1. Moved(j)
    BY JobFacts
  <1>2. \A m \in 1..Len(backlog[j]) : backlog[j][m] # t /\ backlog[j][m] \in AllThreads
    BY <1>1, JobFacts DEF Moved, Queues
  <1>3. \A m \in 1..Len(peer[j]) : sender'[j][peer[j][m]] \in {"connected", "done"}
    BY <1>1, JobFacts DEF Moved, Queues
  <1>4. Threads(j)' = Threads(j) /\ HitJob(j)' = HitJob(j)
    BY DEF Threads, HitJob
  <1> QED BY <1>1, <1>2, <1>3, <1>4 DEF Moved, Queues, Once

TargetLands(j, b) ==
    /\ target' = [k \in Jobs |-> target'[k]]
    /\ \A k \in Jobs : target'[k] = [x \in 0..job[k].size-1 |-> target'[k][x]]
    /\ \A k \in Jobs : k # j => target'[k] = target[k]
    /\ Filled(target'[j], b) /\ Keeps(target[j], target'[j], job[j].size)

LEMMA LandsInTarget ==
  ASSUME MemcpyInv, DataInv, NEW j \in Jobs, NEW b, NEW from, Chunk(b, job[j].size), Filled(from, b),
         target' = [target EXCEPT ![j] = Land(target[j], b, Read(from, b))]
  PROVE  TargetLands(j, b)
  <1>1. PICK to, size, out : to = target[j] /\ size = job[j].size /\ out = Land(to, b, Read(from, b))
    OBVIOUS
  <1>2. target = [k \in Jobs |-> target[k]] /\ \A k \in Jobs : target[k] = [x \in 0..job[k].size-1 |-> target[k][x]]
    BY DEF DataInv, Tables, Buffers
  <1>3. size \in Nat /\ to = [x \in 0..size-1 |-> to[x]]
    BY <1>1, <1>2, JobFacts
  <1>4. /\ out = [k \in 0..size-1 |-> out[k]] /\ Filled(out, b)
        /\ \A c : Chunk(c, size) /\ Filled(to, c) => Filled(out, c)
    <2>1. Chunk(b, size) /\ out = Land(to, b, Read(from, b))
      BY <1>1
    <2> QED BY ONLY <1>3, <2>1, Filled(from, b), LandFills
  <1>5. target'[j] = out /\ \A k \in Jobs : k # j => target'[k] = target[k]
    BY <1>1, <1>2
  <1>6. target' = [k \in Jobs |-> target'[k]]
    BY <1>2
  <1>7. \A k \in Jobs : target'[k] = [x \in 0..job[k].size-1 |-> target'[k][x]]
    BY <1>1, <1>2, <1>4, <1>5
  <1> QED BY <1>1, <1>4, <1>5, <1>6, <1>7 DEF TargetLands, Keeps

StagingLands(j, b) ==
    /\ staging' = [k \in Jobs |-> staging'[k]]
    /\ \A k \in Jobs : staging'[k] = [x \in 0..job[k].size-1 |-> staging'[k][x]]
    /\ \A k \in Jobs : k # j => staging'[k] = staging[k]
    /\ Filled(staging'[j], b) /\ Keeps(staging[j], staging'[j], job[j].size)

LEMMA LandsInStaging ==
  ASSUME MemcpyInv, DataInv, NEW j \in Jobs, NEW b, NEW from, Chunk(b, job[j].size), Filled(from, b),
         staging' = [staging EXCEPT ![j] = Land(staging[j], b, Read(from, b))]
  PROVE  StagingLands(j, b)
  <1>1. PICK to, size, out : to = staging[j] /\ size = job[j].size /\ out = Land(to, b, Read(from, b))
    OBVIOUS
  <1>2. staging = [k \in Jobs |-> staging[k]] /\ \A k \in Jobs : staging[k] = [x \in 0..job[k].size-1 |-> staging[k][x]]
    BY DEF DataInv, Tables, Buffers
  <1>3. size \in Nat /\ to = [x \in 0..size-1 |-> to[x]]
    BY <1>1, <1>2, JobFacts
  <1>4. /\ out = [k \in 0..size-1 |-> out[k]] /\ Filled(out, b)
        /\ \A c : Chunk(c, size) /\ Filled(to, c) => Filled(out, c)
    <2>1. Chunk(b, size) /\ out = Land(to, b, Read(from, b))
      BY <1>1
    <2> QED BY ONLY <1>3, <2>1, Filled(from, b), LandFills
  <1>5. staging'[j] = out /\ \A k \in Jobs : k # j => staging'[k] = staging[k]
    BY <1>1, <1>2
  <1>6. staging' = [k \in Jobs |-> staging'[k]]
    BY <1>2
  <1>7. \A k \in Jobs : staging'[k] = [x \in 0..job[k].size-1 |-> staging'[k][x]]
    BY <1>1, <1>2, <1>4, <1>5
  <1> QED BY <1>1, <1>4, <1>5, <1>6, <1>7 DEF StagingLands, Keeps

LEMMA WiredNow ==
  ASSUME MemcpyInv, DataInv, UNCHANGED <<job, peer>>, NEW j \in Jobs, NEW t \in AllThreads,
         NEW n \in Threads(j),
         WireTo(j, t, [id |-> n, data |-> Read(Source(job[j].size), Bounds(j, n))]),
         job[j].dir = "htod" => n = t,
         job[j].dir = "dtoh" => n < Len(peer[j]) /\ peer[j][n + 1] = t
  PROVE  Wired(j)'
  <1>1. Wired(j) /\ Threads(j)' = Threads(j)
    BY JobFacts DEF Moved, Threads
  <1>2. \A k : Bounds(j, k)' = Bounds(j, k)
    BY DEF Bounds
  <1>3. PICK m : m = [id |-> n, data |-> Read(Source(job[j].size), Bounds(j, n))]
    OBVIOUS
  <1>4. m.id = n /\ m.data = Read(Source(job[j].size), Bounds(j, n))
    BY <1>3
  <1>5. \A l \in AllThreads : wire'[j][l] = IF l = t THEN m ELSE wire[j][l]
    BY <1>3 DEF WireTo
  <1>6. SUFFICES ASSUME NEW l \in AllThreads, wire'[j][l] # NoData
                 PROVE  /\ wire'[j][l].id \in Threads(j)
                        /\ wire'[j][l].data = Read(Source(job[j].size), Bounds(j, wire'[j][l].id))
                        /\ job[j].dir = "htod" => wire'[j][l].id = l
                        /\ job[j].dir = "dtoh" => /\ wire'[j][l].id < Len(peer[j])
                                                  /\ peer[j][wire'[j][l].id + 1] = l
    BY <1>1 DEF Wired, Bounds
  <1>7. CASE l = t
    BY <1>4, <1>5, <1>7
  <1>8. CASE l # t
    BY <1>1, <1>5, <1>6, <1>8 DEF Wired
  <1> QED BY <1>7, <1>8

LEMMA SendToServerMoves ==
  ASSUME MemcpyInv, DataInv, NEW j \in Jobs, NEW t \in AllThreads, SendToServer(j, t)
  PROVE  DataInv'
  <1>1. /\ sender[j][t] = "connected" /\ sender' = [sender EXCEPT ![j][t] = "done"]
        /\ job[j].dir = "htod" /\ t \in Range(peer[j])
        /\ wire' = [wire EXCEPT ![j][t] = [id |-> t, data |-> Read(Source(job[j].size), Bounds(j, t))]]
        /\ UNCHANGED <<client, rpc, list, job, listener, backlog, peer, worker, staging, target, faults>>
    BY DEF SendToServer, memory
  <1>2. /\ Table(sender') /\ \A k \in Jobs : k # j => sender'[k] = sender[k]
        /\ \A l \in AllThreads : sender'[j][l] = IF l = t THEN "done" ELSE sender[j][l]
    <2>1. SenderTo(j, t, "done")
      BY <1>1, SenderChanges
    <2> QED BY <2>1 DEF SenderTo
  <1>3. WireTo(j, t, [id |-> t, data |-> Read(Source(job[j].size), Bounds(j, t))])
    BY <1>1, WireChanges
  <1>4. PICK n \in 1..Len(peer[j]) : peer[j][n] = t
    <2>1. peer[j] \in Seq(AllThreads)
      BY JobFacts
    <2> QED BY <1>1, <2>1 DEF Range
  <1>5. Tables' /\ Apart(j)
    <2>1. Tables'
      BY <1>1, <1>2, <1>3, TablesStay DEF DataInv, Tables, Buffers, WireTo
    <2>2. Apart(j)
      BY <1>1, <1>2, <1>3, FaultsGrow DEF Apart, SameThreads, SameJob, WireTo
    <2> QED BY <2>1, <2>2
  <1>6. /\ Moved(j) /\ SameJob(j) /\ Growing(j)
        /\ Keeps(staging[j], staging'[j], job[j].size) /\ Keeps(target[j], target'[j], job[j].size)
    BY <1>1, SameGrows, SameKeeps, JobFacts, FaultsGrow DEF SameJob
  <1>7. Onward
    BY <1>1, <1>2, JobFacts DEF Onward, Started, Unused
  <1>8. Queues(j)'
    BY <1>1, <1>2, <1>4, SentQueues
  <1>9. Wired(j)'
    <2>1. t \in Threads(j)
      BY <1>1, <1>6 DEF Moved, Queues
    <2> QED BY <1>1, <1>3, <2>1, WiredNow
  <1>10. (\A i \in AllThreads : Worked(j, i)') /\ Listened(j)'
    BY <1>1, <1>6, WorkedStays, ListenedStays
  <1>11. Received(j)'
    BY <1>1 DEF Received
  <1> QED BY <1>1, <1>5, <1>7, <1>8, <1>9, <1>10, <1>11, ThreadsMove DEF Moved

LEMMA ReceiveFromServerMoves ==
  ASSUME MemcpyInv, DataInv, NEW j \in Jobs, NEW t \in AllThreads, ReceiveFromServer(j, t)
  PROVE  DataInv'
  <1>1. PICK n, b, from : n = wire[j][t].id /\ b = Bounds(j, n) /\ from = Source(job[j].size)
    OBVIOUS
  <1>2. /\ Moved(j) /\ n \in Threads(j) /\ n + 1 \in 1..Len(peer[j]) /\ peer[j][n + 1] = t
        /\ wire[j][t].data = Read(from, b) /\ Threads(j) \subseteq Nat
        /\ job[j].dir = "dtoh" /\ sender[j][t] = "connected"
    <2>1. Wired(j) /\ wire[j][t] # NoData /\ job[j].dir = "dtoh" /\ sender[j][t] = "connected"
      BY JobFacts DEF Moved, ReceiveFromServer
    <2>2. n \in Threads(j) /\ n < Len(peer[j]) /\ peer[j][n + 1] = t /\ wire[j][t].data = Read(from, b)
      BY <1>1, <2>1 DEF Wired
    <2> QED BY <2>1, <2>2, JobFacts DEF Threads
  <1>3. /\ target' = [target EXCEPT ![j] = Land(target[j], b, Read(from, b))]
        /\ sender' = [sender EXCEPT ![j][t] = "done"]
        /\ UNCHANGED <<client, rpc, list, job, listener, backlog, peer, worker, wire, staging, faults>>
    <2>1. target' = [target EXCEPT ![j] = Land(target[j], b, wire[j][t].data)]
      BY <1>1 DEF ReceiveFromServer
    <2> QED BY <1>2, <2>1 DEF ReceiveFromServer
  <1>4. /\ Table(sender') /\ \A k \in Jobs : k # j => sender'[k] = sender[k]
        /\ \A l \in AllThreads : sender'[j][l] = IF l = t THEN "done" ELSE sender[j][l]
    <2>1. SenderTo(j, t, "done")
      BY <1>3, SenderChanges
    <2> QED BY <2>1 DEF SenderTo
  <1>5. TargetLands(j, b)
    <2>1. j \in Started
      BY <1>2, JobFacts DEF MemcpyInv, Staged
    <2>2. Chunk(b, job[j].size) /\ job[j].size \in Nat
      BY <1>1, <1>2, <2>1, JobFacts
    <2>3. Filled(from, b)
      BY <1>1, <2>2, SourceIsFilled
    <2> QED BY <1>3, <2>2, <2>3, LandsInTarget
  <1>6. Tables' /\ Apart(j)
    <2>1. Tables'
      BY <1>3, <1>4, <1>5, TablesStay DEF DataInv, Tables, Buffers, TargetLands
    <2>2. Apart(j)
      BY <1>3, <1>4, <1>5, FaultsGrow DEF Apart, SameThreads, SameJob, TargetLands
    <2> QED BY <2>1, <2>2
  <1>7. /\ SameJob(j) /\ Growing(j)
        /\ Keeps(staging[j], staging'[j], job[j].size) /\ Keeps(target[j], target'[j], job[j].size)
    BY <1>3, <1>5, SameGrows, SameKeeps, JobFacts, FaultsGrow DEF SameJob, TargetLands
  <1>8. Onward
    BY <1>2, <1>3, <1>4, JobFacts DEF Onward, Started, Unused
  <1>9. Queues(j)'
    BY <1>2, <1>3, <1>4, SentQueues
  <1>10. Wired(j)' /\ (\A i \in AllThreads : Worked(j, i)') /\ Listened(j)'
    BY <1>3, <1>7, WiredStays, WorkedStays, ListenedStays
  <1>11. Received(j)'
    <2>1. SUFFICES ASSUME NEW m \in 1..Len(peer[j]), sender'[j][peer[j][m]] = "done"
                   PROVE  Filled(target'[j], Bounds(j, m - 1))
      BY <1>3 DEF Received, Bounds
    <2>2. CASE m = n + 1
      <3>1. m - 1 = n
        BY <1>2, <2>2
      <3> QED BY <1>1, <1>5, <3>1 DEF TargetLands
    <2>3. CASE m # n + 1
      <3>1. peer[j][m] # t /\ peer[j][m] \in AllThreads
        BY <1>2, <2>3, JobFacts DEF Moved, Queues, Once
      <3>2. Filled(target[j], Bounds(j, m - 1))
        BY <1>2, <1>4, <2>1, <3>1 DEF Moved, Received
      <3>3. Chunk(Bounds(j, m - 1), job[j].size)
        <4>1. j \in Started
          BY <1>2, JobFacts DEF MemcpyInv, Staged
        <4>2. m - 1 \in Threads(j)
          BY <1>2, <4>1, JobFacts DEF Moved, Listened, Threads
        <4> QED BY <4>1, <4>2, JobFacts
      <3> QED BY <1>7, <3>2, <3>3 DEF Keeps
    <2> QED BY <2>2, <2>3
  <1> QED BY <1>3, <1>6, <1>8, <1>9, <1>10, <1>11, ThreadsMove DEF Moved

(***************************************************************************)
(* The server's workers.                                                   *)
(***************************************************************************)
WorkerTo(j, i, v, n) ==
    /\ \A k \in Jobs : k # j => worker'[k] = worker[k]
    /\ \A l \in AllThreads : l # i => worker'[j][l] = worker[j][l]
    /\ worker'[j][i].pc = v /\ worker'[j][i].id = n

LEMMA WorkerMoves ==
  ASSUME WorkerShape, NEW j \in Jobs, NEW i \in AllThreads, NEW v,
         worker' = [worker EXCEPT ![j][i].pc = v]
  PROVE  WorkerTo(j, i, v, worker[j][i].id)
  <1>1. worker'[j][i] = [worker[j][i] EXCEPT !.pc = v]
    BY DEF WorkerShape
  <1>2. worker[j][i] = [pc |-> worker[j][i].pc, id |-> worker[j][i].id]
    BY DEF WorkerShape
  <1>3. worker'[j][i] = [pc |-> v, id |-> worker[j][i].id]
    BY <1>1, <1>2
  <1>4. \A k \in Jobs : k # j => worker'[k] = worker[k]
    BY DEF WorkerShape
  <1>5. \A l \in AllThreads : l # i => worker'[j][l] = worker[j][l]
    BY DEF WorkerShape
  <1> QED BY <1>3, <1>4, <1>5 DEF WorkerTo

LEMMA WorkerIsSet ==
  ASSUME WorkerShape, NEW j \in Jobs, NEW i \in AllThreads, NEW v, NEW n,
         worker' = [worker EXCEPT ![j][i] = [pc |-> v, id |-> n]]
  PROVE  WorkerTo(j, i, v, n)
  <1>1. worker'[j][i] = [pc |-> v, id |-> n]
    BY DEF WorkerShape
  <1>2. \A k \in Jobs : k # j => worker'[k] = worker[k]
    BY DEF WorkerShape
  <1>3. \A l \in AllThreads : l # i => worker'[j][l] = worker[j][l]
    BY DEF WorkerShape
  <1> QED BY <1>1, <1>2, <1>3 DEF WorkerTo

LEMMA WorkersMove ==
  ASSUME MemcpyInv, DataInv, UNCHANGED <<client, rpc, list, job, listener, backlog, peer, sender>>,
         faults \subseteq faults', NEW j \in Jobs, NEW i \in AllThreads, NEW v, NEW n,
         WorkerTo(j, i, v, n), worker[j][i].pc \notin {"done", "failed"},
         Table(wire'), \A k \in Jobs : k # j => wire'[k] = wire[k],
         UNCHANGED staging \/ \E b : StagingLands(j, b),
         UNCHANGED target \/ \E b : TargetLands(j, b),
         wire'[j] = wire[j] \/ Wired(j)', Worked(j, i)'
  PROVE  DataInv'
  <1>1. /\ staging' = [k \in Jobs |-> staging'[k]] /\ \A k \in Jobs : k # j => staging'[k] = staging[k]
        /\ \A k \in Jobs : staging'[k] = [x \in 0..job[k].size-1 |-> staging'[k][x]]
        /\ Keeps(staging[j], staging'[j], job[j].size)
    <2>1. CASE UNCHANGED staging
      <3>1. Buffers(staging)
        BY DEF DataInv, Tables
      <3>2. Keeps(staging[j], staging'[j], job[j].size)
        BY <2>1, SameKeeps
      <3> QED BY <2>1, <3>1, <3>2 DEF Buffers
    <2>2. CASE \E b : StagingLands(j, b)
      BY <2>2 DEF StagingLands
    <2> QED BY <2>1, <2>2
  <1>2. /\ target' = [k \in Jobs |-> target'[k]] /\ \A k \in Jobs : k # j => target'[k] = target[k]
        /\ \A k \in Jobs : target'[k] = [x \in 0..job[k].size-1 |-> target'[k][x]]
        /\ Keeps(target[j], target'[j], job[j].size)
    <2>1. CASE UNCHANGED target
      <3>1. Buffers(target)
        BY DEF DataInv, Tables
      <3>2. Keeps(target[j], target'[j], job[j].size)
        BY <2>1, SameKeeps
      <3> QED BY <2>1, <3>1, <3>2 DEF Buffers
    <2>2. CASE \E b : TargetLands(j, b)
      BY <2>2 DEF TargetLands
    <2> QED BY <2>1, <2>2
  <1>3. Tables'
    <2>1. Table(sender')
      BY DEF DataInv, Tables
    <2> QED BY <1>1, <1>2, <2>1, TablesStay
  <1>4. Apart(j)
    BY <1>1, <1>2, FaultsGrow DEF Apart, SameThreads, SameJob, WorkerTo
  <1>5. Moved(j) /\ SameJob(j) /\ Growing(j)
    BY SameGrows, JobFacts, FaultsGrow DEF SameJob
  <1>6. Onward
    BY DEF Onward, Started, Unused
  <1>7. Queues(j)'
    BY <1>5, QueuesStay DEF Moved
  <1>8. Wired(j)'
    BY <1>5, WiredStays
  <1>9. \A l \in AllThreads : Worked(j, l)'
    <2> TAKE l \in AllThreads
    <2>1. CASE l = i
      BY <2>1
    <2>2. CASE l # i
      <3>1. worker'[j][l] = worker[j][l]
        BY <2>2 DEF WorkerTo
      <3> QED BY <1>1, <1>2, <1>5, <3>1, WorkedStays
    <2> QED BY <2>1, <2>2
  <1>10. Received(j)'
    BY <1>2, <1>5, ReceivedStays
  <1>11. Listened(j)'
    <2>1. \A l \in AllThreads : worker[j][l].pc \in {"done", "failed"}
                                  => worker'[j][l].pc \in {"done", "failed"}
      BY DEF WorkerTo
    <2> QED BY <1>5, <2>1, ListenedStays
  <1> QED BY <1>3, <1>4, <1>6, <1>7, <1>8, <1>9, <1>10, <1>11, ThreadsMove DEF Moved

LEMMA ReceiveFromClientMoves ==
  ASSUME MemcpyInv, DataInv, NEW j \in Jobs, NEW i \in AllThreads, ReceiveFromClient(j, i)
  PROVE  DataInv'
  <1>1. PICK t, b, from : t = peer[j][i + 1] /\ b = Bounds(j, t) /\ from = Source(job[j].size)
    OBVIOUS
  <1>2. worker[j][i].pc = "start" /\ job[j].dir = "htod" /\ wire[j][t] # NoData
    BY <1>1 DEF ReceiveFromClient
  <1>3. t \in Threads(j) /\ t \in AllThreads /\ j \in Started
    BY <1>1, <1>2, WorkerKnows
  <1>4. wire[j][t].id = t /\ wire[j][t].data = Read(from, b)
    BY <1>1, <1>2, <1>3, JobFacts DEF Moved, Wired
  <1>5. /\ staging' = [staging EXCEPT ![j] = Land(staging[j], b, Read(from, b))]
        /\ worker' = [worker EXCEPT ![j][i] = [pc |-> "copy", id |-> t]]
        /\ UNCHANGED <<client, rpc, list, job, listener, backlog, peer, sender, wire, target, faults>>
    <2>1. WorkerIndex(wire[j][peer[j][i + 1]], i) = t
      BY <1>1, <1>4 DEF WorkerIndex
    <2> QED BY <1>1, <1>4, <2>1 DEF ReceiveFromClient
  <1>6. WorkerTo(j, i, "copy", t)
    BY <1>5, WorkerIsSet DEF MemcpyInv, Shapes
  <1>7. StagingLands(j, b)
    <2>1. Chunk(b, job[j].size) /\ job[j].size \in Nat
      BY <1>1, <1>3, JobFacts
    <2>2. Filled(from, b)
      BY <1>1, <2>1, SourceIsFilled
    <2> QED BY <1>5, <2>1, <2>2, LandsInStaging
  <1>8. Worked(j, i)'
    <2>1. Bounds(j, t)' = b
      BY <1>1, <1>5 DEF Bounds
    <2>2. worker'[j][i].pc = "copy" /\ worker'[j][i].id = t /\ job'[j] = job[j] /\ peer'[j] = peer[j]
      BY <1>5, <1>6 DEF WorkerTo
    <2>3. Filled(staging'[j], b)
      BY <1>7 DEF StagingLands
    <2> QED BY <1>1, <1>2, <2>1, <2>2, <2>3 DEF Worked
  <1>9. Table(wire')
    BY <1>5 DEF DataInv, Tables
  <1> QED BY <1>2, <1>5, <1>6, <1>7, <1>8, <1>9, WorkersMove

LEMMA CopyToDeviceMoves ==
  ASSUME MemcpyInv, DataInv, NEW j \in Jobs, NEW i \in AllThreads, CopyToDevice(j, i)
  PROVE  DataInv'
  <1>1. PICK id, b, from : id = worker[j][i].id /\ b = Bounds(j, id) /\ from = staging[j]
    OBVIOUS
  <1>2. /\ worker[j][i].pc = "copy" /\ worker' = [worker EXCEPT ![j][i].pc = "done"]
        /\ UNCHANGED <<client, rpc, list, job, listener, backlog, peer, sender, wire, staging>>
    BY DEF CopyToDevice
  <1>3. /\ job[j].dir = "htod" /\ id = peer[j][i + 1] /\ Filled(from, b)
        /\ Chunk(b, job[j].size)
    <2>1. Worked(j, i)
      BY JobFacts DEF Moved
    <2> QED BY <1>1, <1>2, <2>1, WorkerKnows DEF Worked
  <1>4. WorkerTo(j, i, "done", id)
    BY <1>1, <1>2, WorkerMoves DEF MemcpyInv, Shapes
  <1>5. Table(wire') /\ Bounds(j, id)' = b
    BY <1>1, <1>2 DEF DataInv, Tables, Bounds
  <1>6. CASE target' = [target EXCEPT ![j] = Land(@, b, Read(from, b))] /\ UNCHANGED faults
    <2>1. TargetLands(j, b)
      BY <1>3, <1>6, LandsInTarget
    <2>2. Worked(j, i)'
      BY <1>1, <1>2, <1>3, <1>4, <1>5, <2>1 DEF Worked, WorkerTo, TargetLands, Bounds
    <2> QED BY <1>2, <1>4, <1>5, <1>6, <2>1, <2>2, WorkersMove
  <1>7. CASE Fault("cuda", j) /\ UNCHANGED target
    <2>1. HitJob(j)' /\ faults \subseteq faults'
      BY <1>7, FaultHits
    <2>2. Worked(j, i)'
      BY <1>1, <1>2, <1>3, <1>4, <2>1 DEF Worked, WorkerTo
    <2> QED BY <1>2, <1>4, <1>5, <1>7, <2>1, <2>2, WorkersMove
  <1> QED BY <1>1, <1>6, <1>7 DEF CopyToDevice

LEMMA CopyFromDeviceMoves ==
  ASSUME MemcpyInv, DataInv, NEW j \in Jobs, NEW i \in AllThreads, CopyFromDevice(j, i)
  PROVE  DataInv'
  <1>1. PICK id, b, from : id = worker[j][i].id /\ b = Bounds(j, id) /\ from = Source(job[j].size)
    OBVIOUS
  <1>2. /\ worker[j][i].pc = "start" /\ job[j].dir = "dtoh"
        /\ UNCHANGED <<client, rpc, list, job, listener, backlog, peer, sender, wire, target>>
    BY DEF CopyFromDevice
  <1>3. id = i /\ Chunk(b, job[j].size) /\ Filled(from, b)
    <2>1. Worked(j, i)
      BY JobFacts DEF Moved
    <2>2. id = i /\ Chunk(b, job[j].size)
      BY <1>1, <1>2, <2>1, WorkerKnows DEF Worked
    <2> QED BY <1>1, <2>2, SourceIsFilled, JobFacts
  <1>4. Table(wire') /\ Bounds(j, id)' = b
    BY <1>1, <1>2 DEF DataInv, Tables, Bounds
  <1>5. CASE /\ staging' = [staging EXCEPT ![j] = Land(@, b, Read(from, b))]
             /\ worker' = [worker EXCEPT ![j][i].pc = "send"] /\ UNCHANGED faults
    <2>1. StagingLands(j, b)
      BY <1>3, <1>5, LandsInStaging
    <2>2. WorkerTo(j, i, "send", id)
      BY <1>1, <1>5, WorkerMoves DEF MemcpyInv, Shapes
    <2>3. Worked(j, i)'
      BY <1>1, <1>2, <1>3, <1>4, <2>1, <2>2 DEF Worked, WorkerTo, StagingLands, Bounds
    <2> QED BY <1>2, <1>4, <1>5, <2>1, <2>2, <2>3, WorkersMove
  <1>6. CASE /\ Fault("cuda", j) /\ worker' = [worker EXCEPT ![j][i].pc = "failed"]
             /\ UNCHANGED staging
    <2>1. HitJob(j)' /\ faults \subseteq faults'
      BY <1>6, FaultHits
    <2>2. WorkerTo(j, i, "failed", id)
      BY <1>1, <1>6, WorkerMoves DEF MemcpyInv, Shapes
    <2>3. Worked(j, i)'
      BY <1>2, <1>3, <2>1, <2>2 DEF Worked, WorkerTo
    <2> QED BY <1>2, <1>4, <1>6, <2>1, <2>2, <2>3, WorkersMove
  <1> QED BY <1>1, <1>5, <1>6 DEF CopyFromDevice

LEMMA SendToClientMoves ==
  ASSUME MemcpyInv, DataInv, NEW j \in Jobs, NEW i \in AllThreads, SendToClient(j, i)
  PROVE  DataInv'
  <1>1. PICK id, t, b, from : /\ id = worker[j][i].id /\ t = peer[j][i + 1]
                              /\ b = Bounds(j, id) /\ from = staging[j]
    OBVIOUS
  <1>2. worker[j][i].pc = "send"
    BY DEF SendToClient
  <1>3. /\ job[j].dir = "dtoh" /\ id = i /\ Filled(from, b) /\ Chunk(b, job[j].size)
        /\ t \in AllThreads /\ id \in Threads(j) /\ id < Len(peer[j]) /\ peer[j][id + 1] = t
    <2>1. Worked(j, i) /\ job[j].dir \in Directions
      BY JobFacts DEF Moved
    <2>2. job[j].dir = "dtoh" /\ id = i /\ Filled(from, b)
      BY <1>1, <1>2, <2>1 DEF Worked, Directions
    <2>3. /\ Chunk(b, job[j].size) /\ t \in AllThreads /\ id \in Threads(j)
          /\ i < Len(peer[j])
      BY <1>1, <1>2, WorkerKnows
    <2> QED BY <1>1, <2>2, <2>3
  <1>4. Read(from, b) = Read(Source(job[j].size), b)
    BY <1>3, ReadsSource, JobFacts
  <1>5. /\ wire' = [wire EXCEPT ![j][t] = [id |-> id, data |-> Read(Source(job[j].size), Bounds(j, id))]]
        /\ worker' = [worker EXCEPT ![j][i].pc = "done"]
        /\ UNCHANGED <<client, rpc, list, job, listener, backlog, peer, sender, staging, target, faults>>
    BY <1>1, <1>4 DEF SendToClient, memory
  <1>6. WorkerTo(j, i, "done", id)
    BY <1>1, <1>5, WorkerMoves DEF MemcpyInv, Shapes
  <1>7. WireTo(j, t, [id |-> id, data |-> Read(Source(job[j].size), Bounds(j, id))])
    BY <1>5, WireChanges
  <1>8. Wired(j)'
    BY <1>3, <1>5, <1>7, WiredNow
  <1>9. Worked(j, i)'
    BY <1>3, <1>5, <1>6 DEF Worked, WorkerTo
  <1>10. Table(wire') /\ \A k \in Jobs : k # j => wire'[k] = wire[k]
    BY <1>7 DEF WireTo
  <1> QED BY <1>2, <1>5, <1>6, <1>8, <1>9, <1>10, WorkersMove

(***************************************************************************)
(* The listener.                                                           *)
(***************************************************************************)
LEMMA OnceLess ==
  ASSUME NEW s, NEW r, NEW n \in Nat, n = Len(s), n >= 1, Once(s), Len(r) = n - 1,
         \A m \in 1..n-1 : r[m] = s[m + 1]
  PROVE  /\ Once(r) /\ 1 \in 1..Len(s)
         /\ \A m \in 1..Len(r) : m + 1 \in 1..Len(s) /\ r[m] = s[m + 1] /\ r[m] # s[1]
  <1>1. n = Len(s)
    OBVIOUS
  <1>2. n \in Nat /\ n >= 1 /\ Len(r) = n - 1 /\ \A m \in 1..n-1 : r[m] = s[m + 1]
    OBVIOUS
  <1>3. \A m \in 1..Len(r) : m + 1 \in 1..n /\ m + 1 # 1 /\ r[m] = s[m + 1]
    BY <1>2
  <1>4. 1 \in 1..n
    BY <1>2
  <1>5. \A m \in 1..Len(r) : r[m] # s[1]
    BY <1>1, <1>2, <1>3, <1>4 DEF Once
  <1>6. Once(r)
    <2> SUFFICES ASSUME NEW k \in 1..Len(r), NEW m \in 1..Len(r), r[k] = r[m] PROVE k = m
      BY DEF Once
    <2>1. k + 1 = m + 1
      BY <1>1, <1>3 DEF Once
    <2>2. k \in Int /\ m \in Int
      OBVIOUS
    <2> QED BY <2>1, <2>2
  <1> QED BY <1>1, <1>2, <1>3, <1>4, <1>5, <1>6

LEMMA AcceptQueues ==
  ASSUME MemcpyInv, DataInv, NEW j \in Jobs, backlog[j] # <<>>, NEW h, h = Head(backlog[j]),
         backlog'[j] = Tail(backlog[j]), peer'[j] = Append(peer[j], h),
         UNCHANGED <<job, listener, sender, faults>>
  PROVE  /\ Queues(j)' /\ Growing(j)
         /\ h \in AllThreads /\ sender[j][h] = "connected"
         /\ Len(peer'[j]) = Len(peer[j]) + 1 /\ peer'[j][Len(peer[j]) + 1] = h
         /\ \A m \in 1..Len(peer'[j]) : m \in 1..Len(peer[j]) \/ m = Len(peer[j]) + 1
  <1>1. PICK s, r, p, q : s = backlog[j] /\ r = Tail(s) /\ p = peer[j] /\ q = Append(p, h)
    OBVIOUS
  <1>2. s \in Seq(AllThreads) /\ s # <<>> /\ Once(s) /\ r = Tail(s) /\ h = Head(s)
        /\ p \in Seq(AllThreads) /\ Once(p)
    BY <1>1, JobFacts DEF Moved, Queues
  <1>3. /\ Once(r) /\ h = s[1] /\ 1 \in 1..Len(s)
        /\ \A m \in 1..Len(r) : m + 1 \in 1..Len(s) /\ r[m] = s[m + 1] /\ r[m] # h
    <2>1. PICK n : n = Len(s)
      OBVIOUS
    <2>2. n \in Nat /\ n >= 1 /\ Len(r) = n - 1 /\ h = s[1] /\ \A m \in 1..n-1 : r[m] = s[m + 1]
      BY <1>2, <2>1, HeadTailProperties
    <2>3. Once(s)
      BY <1>2
    <2>4. /\ Once(r) /\ 1 \in 1..Len(s)
          /\ \A m \in 1..Len(r) : m + 1 \in 1..Len(s) /\ r[m] = s[m + 1] /\ r[m] # s[1]
      BY ONLY <2>1, <2>2, <2>3, OnceLess
    <2> QED BY <2>2, <2>4
  <1>4. h \in AllThreads /\ sender[j][h] = "connected" /\ \A m \in 1..Len(p) : p[m] # h
    BY <1>1, <1>3, JobFacts DEF Moved, Queues
  <1>5. Once(q)
    BY <1>1, <1>2, <1>4, OnceMore
  <1>6. /\ Len(p) \in Nat /\ Len(q) = Len(p) + 1 /\ q[Len(p) + 1] = h
        /\ \A m \in 1..Len(p) : q[m] = p[m]
    BY <1>1, <1>2, <1>4, AppendProperties
  <1>7. \A m \in 1..Len(q) : m \in 1..Len(p) \/ m = Len(p) + 1
    BY <1>6
  <1>8. \A m \in 1..Len(r) : sender[j][r[m]] = "connected" /\ \A n \in 1..Len(p) : p[n] # r[m]
    BY <1>1, <1>3, JobFacts DEF Moved, Queues
  <1>9. \A m \in 1..Len(q) : sender[j][q[m]] \in {"connected", "done"}
    BY <1>1, <1>4, <1>6, <1>7, JobFacts DEF Moved, Queues
  <1>10. \A m \in 1..Len(q), n \in 1..Len(r) : q[m] # r[n]
    <2> TAKE m \in 1..Len(q), n \in 1..Len(r)
    <2>1. CASE m \in 1..Len(p) BY <1>6, <1>8, <2>1
    <2>2. CASE m = Len(p) + 1 BY <1>3, <1>6, <2>2
    <2> QED BY <1>7, <2>1, <2>2
  <1>11. \A t \in AllThreads :
            /\ sender[j][t] \in {"none", "start", "connected", "done", "failed"}
            /\ sender[j][t] # "none" => t \in Threads(j) /\ listener[j] \notin Early
            /\ sender[j][t] = "failed" => HitJob(j)
            /\ sender[j][t] = "done" => \E m \in 1..Len(q) : q[m] = t
    <2> TAKE t \in AllThreads
    <2>1. ASSUME sender[j][t] = "done" PROVE \E m \in 1..Len(q) : q[m] = t
      <3>1. PICK m \in 1..Len(p) : p[m] = t
        BY <1>1, <2>1, JobFacts DEF Moved, Queues
      <3>2. m \in 1..Len(q) /\ q[m] = t
        BY <1>6, <3>1
      <3> QED BY <3>2
    <2> QED BY <2>1, JobFacts DEF Moved, Queues
  <1>12. backlog'[j] = r /\ peer'[j] = q
    BY <1>1
  <1>13. Threads(j)' = Threads(j) /\ HitJob(j)' = HitJob(j)
    BY DEF Threads, HitJob
  <1>14. Queues(j)'
    <2>1. Once(peer'[j]) /\ Once(backlog'[j])
      BY <1>3, <1>5, <1>12
    <2>2. \A m \in 1..Len(backlog'[j]) : sender'[j][backlog'[j][m]] = "connected"
      BY <1>8, <1>12
    <2>3. \A m \in 1..Len(peer'[j]) : sender'[j][peer'[j][m]] \in {"connected", "done"}
      BY <1>9, <1>12
    <2>4. \A m \in 1..Len(peer'[j]), n \in 1..Len(backlog'[j]) : peer'[j][m] # backlog'[j][n]
      BY <1>10, <1>12
    <2>5. \A t \in AllThreads :
            /\ sender'[j][t] \in {"none", "start", "connected", "done", "failed"}
            /\ sender'[j][t] # "none" => t \in Threads(j)' /\ listener'[j] \notin Early
            /\ sender'[j][t] = "failed" => HitJob(j)'
            /\ sender'[j][t] = "done" => \E m \in 1..Len(peer'[j]) : peer'[j][m] = t
      BY <1>11, <1>12, <1>13
    <2> QED BY <2>1, <2>2, <2>3, <2>4, <2>5 DEF Queues, Once
  <1>15. Growing(j)
    BY <1>1, <1>6, <1>12 DEF Growing
  <1> QED BY <1>1, <1>4, <1>6, <1>7, <1>12, <1>14, <1>15

LEMMA AcceptMoves ==
  ASSUME MemcpyInv, DataInv, NEW j \in Jobs, Accept(j)
  PROVE  DataInv'
  <1>1. PICK h, i : h = Head(backlog[j]) /\ i = Len(peer[j])
    OBVIOUS
  <1>2. /\ listener[j] = "accepting" /\ i < Expected(j) /\ backlog[j] # <<>>
        /\ worker' = [worker EXCEPT ![j][i].pc = "start"]
        /\ peer'[j] = Append(peer[j], h) /\ backlog'[j] = Tail(backlog[j])
        /\ \A k \in Jobs : k # j => peer'[k] = peer[k] /\ backlog'[k] = backlog[k]
        /\ UNCHANGED <<client, rpc, list, job, listener, sender, wire, staging, target, faults>>
    BY <1>1 DEF Accept, memory, MemcpyInv, Shapes
  <1>3. j \in Started /\ i \in Threads(j) /\ i \in AllThreads /\ i \in Nat
    <2>1. j \in Started /\ i \in Nat
      BY <1>1, <1>2, JobFacts
    <2>2. i \in Threads(j)
      BY <1>2, <2>1, JobFacts DEF Expected, Threads
    <2> QED BY <2>1, <2>2, JobFacts
  <1>4. worker[j][i].pc = "none"
    BY <1>1, <1>3 DEF MemcpyInv, Staged
  <1>5. worker[j][i].id = i /\ Moved(j)
    BY <1>3, <1>4, JobFacts DEF Moved, Worked
  <1>6. WorkerTo(j, i, "start", i)
    <2>1. WorkerTo(j, i, "start", worker[j][i].id)
      BY <1>2, <1>3, WorkerMoves DEF MemcpyInv, Shapes
    <2> QED BY <1>5, <2>1
  <1>7. /\ Queues(j)' /\ Growing(j) /\ sender[j][h] = "connected"
        /\ Len(peer'[j]) = i + 1 /\ peer'[j][i + 1] = h
        /\ \A m \in 1..Len(peer'[j]) : m \in 1..Len(peer[j]) \/ m = i + 1
    BY <1>1, <1>2, AcceptQueues
  <1>8. /\ Tables' /\ Apart(j) /\ Onward /\ SameJob(j)
    <2>1. Tables'
      BY <1>2, TablesStay DEF DataInv, Tables, Buffers
    <2>2. Apart(j)
      BY <1>2, <1>6, FaultsGrow DEF Apart, SameThreads, SameJob, WorkerTo
    <2>3. Onward /\ SameJob(j)
      BY <1>2, FaultsGrow DEF Onward, Started, Unused, SameJob
    <2> QED BY <2>1, <2>2, <2>3
  <1>9. Keeps(staging[j], staging'[j], job[j].size) /\ Keeps(target[j], target'[j], job[j].size)
    BY <1>2, SameKeeps
  <1>10. Wired(j)'
    BY <1>2, <1>7, <1>8, WiredStays
  <1>11. \A l \in AllThreads : Worked(j, l)'
    <2> TAKE l \in AllThreads
    <2>1. CASE l = i
      BY <1>6, <2>1 DEF Worked, WorkerTo
    <2>2. CASE l # i
      <3>1. worker'[j][l] = worker[j][l]
        BY <1>6, <2>2 DEF WorkerTo
      <3> QED BY <1>7, <1>8, <1>9, <3>1, WorkedStays
    <2> QED BY <2>1, <2>2
  <1>12. Received(j)'
    <2>1. \A m \in 1..Len(peer'[j]) : sender'[j][peer'[j][m]] = "done" =>
            m \in 1..Len(peer[j]) /\ sender[j][peer[j][m]] = "done"
      <3> SUFFICES ASSUME NEW m \in 1..Len(peer'[j]), sender[j][peer'[j][m]] = "done"
                   PROVE  m \in 1..Len(peer[j]) /\ sender[j][peer[j][m]] = "done"
        BY <1>2
      <3>1. m # i + 1
        BY <1>7
      <3> QED BY <1>7, <3>1 DEF Growing
    <2> QED BY <1>7, <1>8, <1>9, <2>1, ReceivedStays
  <1>13. Listened(j)'
    <2>1. i + 1 <= ThreadNum(job[j].size)
      BY <1>2, <1>3, JobFacts DEF Expected
    <2> QED BY <1>2, <1>7, <2>1 DEF Listened
  <1> QED BY <1>2, <1>7, <1>8, <1>10, <1>11, <1>12, <1>13, ThreadsMove DEF Moved

LEMMA FieldChanges ==
  ASSUME MemcpyInv, DataInv, NEW j \in Started, NEW v,
         job' = [job EXCEPT ![j].mem = v] \/ job' = [job EXCEPT ![j].port = v]
  PROVE  /\ Started' = Started
         /\ \A k \in Jobs : job'[k].size = job[k].size /\ job'[k].dir = job[k].dir
  <1>1. \A k \in Jobs : /\ job'[k].size = job[k].size /\ job'[k].dir = job[k].dir
                        /\ k # j => job'[k] = job[k]
    <2>1. job \in [Jobs -> JobRec]
      BY DEF MemcpyInv, Shapes
    <2>2. CASE job' = [job EXCEPT ![j].mem = v]
      BY <2>1, <2>2 DEF JobRec
    <2>3. CASE job' = [job EXCEPT ![j].port = v]
      BY <2>1, <2>3 DEF JobRec
    <2> QED BY <2>2, <2>3
  <1>2. j \in Jobs /\ job[j].size \in Sizes
    BY DEF Started, DataInv, Asked
  <1>3. job'[j].size # Unused.size
    BY <1>1, <1>2, Ranges DEF Unused
  <1>4. \A k \in Jobs : k \in Started' <=> k \in Started
    BY <1>1, <1>2, <1>3 DEF Started
  <1>5. Started \subseteq Jobs /\ Started' \subseteq Jobs
    BY DEF Started
  <1> QED BY <1>1, <1>4, <1>5

(* A step that changes no more of the threads than a listener.             *)
LEMMA ListenersMove ==
  ASSUME MemcpyInv, DataInv,
         UNCHANGED <<client, list, backlog, peer, worker, sender, wire, staging, target>>,
         faults \subseteq faults', Started' = Started,
         \A k \in Jobs : job'[k].size = job[k].size /\ job'[k].dir = job[k].dir,
         NEW j \in Jobs, \A k \in Jobs : k # j => listener'[k] = listener[k],
         listener'[j] \in Early => listener[j] \in Early,
         listener[j] = "done" => listener'[j] = "done", Listened(j)'
  PROVE  DataInv'
  <1>1. \A k \in Jobs : SameJob(k) /\ Moved(k) /\ Growing(k)
                        /\ Keeps(staging[k], staging'[k], job[k].size)
                        /\ Keeps(target[k], target'[k], job[k].size)
    BY SameGrows, SameKeeps, JobFacts, FaultsGrow DEF SameJob
  <1>2. Apart(j)
    BY <1>1 DEF Apart, SameThreads
  <1>3. Tables'
    BY DEF DataInv, Tables, Table, Buffers
  <1>4. Asked'
    <2>1. Started \subseteq Jobs
      BY DEF Started
    <2> QED BY <2>1 DEF DataInv, Asked
  <1>5. Onward
    BY DEF Onward, Started
  <1>6. Moved(j)'
    <2>1. Queues(j)'
      BY <1>1, QueuesStay DEF Moved
    <2>2. Wired(j)' /\ (\A i \in AllThreads : Worked(j, i)') /\ Received(j)'
      BY <1>1, WiredStays, WorkedStays, ReceivedStays
    <2> QED BY <2>1, <2>2 DEF Moved
  <1>7. \A k \in Jobs : Moved(k)'
    BY <1>2, <1>6, MovedStays DEF Apart
  <1>8. \A c \in Clients : Told(c)'
    BY <1>5, ToldStays
  <1> QED BY <1>3, <1>4, <1>7, <1>8 DEF DataInv

LEMMA ListenerMoves ==
  ASSUME MemcpyInv, DataInv, NEW j \in Jobs,
         OpenSocket(j) \/ OpenSocketFails(j) \/ ListenerFails(j) \/ JoinWorkers(j)
  PROVE  DataInv'
  <1>1. /\ UNCHANGED <<client, rpc, list, backlog, peer, worker, sender, wire, staging, target>>
        /\ \A k \in Jobs : k # j => listener'[k] = listener[k]
        /\ listener[j] \in {"opening", "accepting"}
    BY DEF OpenSocket, OpenSocketFails, ListenerFails, JoinWorkers, threads, memory, MemcpyInv, Shapes
  <1>2. j \in Started /\ Moved(j)
    BY <1>1, JobFacts
  <1>3. CASE OpenSocket(j)
    <2>1. /\ listener[j] = "opening" /\ listener'[j] = "barrier" /\ UNCHANGED faults
          /\ job' = [job EXCEPT ![j].port = j]
      BY <1>3 DEF OpenSocket, MemcpyInv, Shapes
    <2>2. /\ Started' = Started
          /\ \A k \in Jobs : job'[k].size = job[k].size /\ job'[k].dir = job[k].dir
      BY <1>2, <2>1, FieldChanges
    <2>3. Listened(j)'
      BY <1>1, <1>2, <2>1, <2>2 DEF Moved, Listened
    <2> QED BY <1>1, <2>1, <2>2, <2>3, ListenersMove DEF Early
  <1>4. CASE OpenSocketFails(j) \/ ListenerFails(j)
    <2>1. listener'[j] = "gone" /\ UNCHANGED job /\ HitJob(j)' /\ faults \subseteq faults'
      BY <1>4, FaultHits DEF OpenSocketFails, ListenerFails, MemcpyInv, Shapes
    <2>2. Started' = Started
      BY <2>1 DEF Started
    <2>3. Listened(j)'
      BY <1>1, <1>2, <2>1 DEF Moved, Listened
    <2> QED BY <1>1, <2>1, <2>2, <2>3, ListenersMove DEF Early
  <1>5. CASE JoinWorkers(j)
    <2>1. /\ listener[j] = "accepting" /\ listener'[j] = "done" /\ UNCHANGED faults
          /\ job' = [job EXCEPT ![j].mem = "freed"] /\ WorkersEnded(j)
      BY <1>5 DEF JoinWorkers, MemcpyInv, Shapes
    <2>2. /\ Started' = Started
          /\ \A k \in Jobs : job'[k].size = job[k].size /\ job'[k].dir = job[k].dir
      BY <1>2, <2>1, FieldChanges
    <2>3. Listened(j)'
      BY <1>1, <1>2, <2>1, <2>2 DEF Moved, Listened, WorkersEnded, Expected
    <2> QED BY <1>1, <2>1, <2>2, <2>3, ListenersMove DEF Early
  <1> QED BY <1>3, <1>4, <1>5

LEMMA AllocateMoves ==
  ASSUME MemcpyInv, DataInv, Allocate
  PROVE  DataInv'
  <1>1. PICK j : j = rpc.job
    OBVIOUS
  <1>2. /\ UNCHANGED <<client, list, listener, backlog, peer, worker, sender, wire, staging, target, faults>>
        /\ job' = [job EXCEPT ![j].mem = "held"] /\ rpc.pc = "allocating"
    BY <1>1 DEF Allocate, threads, memory
  <1>3. j \in Started /\ j \in Jobs
    BY <1>1, <1>2 DEF MemcpyInv, Serving, Started
  <1>4. /\ Started' = Started
        /\ \A k \in Jobs : job'[k].size = job[k].size /\ job'[k].dir = job[k].dir
    BY <1>2, <1>3, FieldChanges
  <1>5. Listened(j)'
    BY <1>2, <1>3, <1>4, JobFacts DEF Moved, Listened, HitJob
  <1> QED BY <1>2, <1>3, <1>4, <1>5, ListenersMove

(***************************************************************************)
(* The client's calling thread and the RPC thread.                         *)
(***************************************************************************)
LEMMA ClientsMove ==
  ASSUME MemcpyInv, DataInv, faults \subseteq faults', UNCHANGED <<job, listener, threads>>,
         NEW c \in Clients, \A d \in Clients : d # c => client'[d] = client[d],
         client'[c].pc = "asked" => client'[c].size \in Sizes,
         client'[c].port = client'[c].job, client'[c].job # NoJob => client'[c].job \in Started,
         \A m \in 1..Len(list') : list'[m] \in Started, Told(c)'
  PROVE  DataInv'
  <1>1. Started' = Started
    BY DEF Started
  <1>2. Asked'
    BY <1>1 DEF DataInv, Asked
  <1>3. Tables'
    BY DEF threads, memory, DataInv, Tables, Table, Buffers
  <1>4. \A k \in Jobs : Moved(k)'
    BY MovedStays, FaultsGrow DEF SameThreads, SameJob, threads, memory
  <1>5. Onward
    BY <1>1 DEF Onward, threads
  <1>6. \A d \in Clients : Told(d)'
    BY <1>5, ToldStays
  <1> QED BY <1>2, <1>3, <1>4, <1>6 DEF DataInv

(* A client that ends without having been told that its copy is done.      *)
LEMMA ToldNothing ==
  ASSUME NEW c \in Clients, client'[c].pc \in {"asked", "copying"} \/ client'[c].job = NoJob
  PROVE  Told(c)'
  BY DEF Told

LEMMA AskCopyMoves ==
  ASSUME MemcpyInv, DataInv, NEW c \in Clients, NEW size \in Sizes, NEW dir \in Directions,
         AskCopy(c, size, dir)
  PROVE  DataInv'
  <1>1. /\ UNCHANGED <<rpc, list, job, listener, threads, faults>>
        /\ client'[c] = [client[c] EXCEPT !.pc = "asked", !.size = size, !.dir = dir]
        /\ client[c] \in ClientRec /\ \A d \in Clients : d # c => client'[d] = client[d]
    BY DEF AskCopy, MemcpyInv, Shapes
  <1>2. /\ client'[c].pc = "asked" /\ client'[c].size = size
        /\ client'[c].port = client[c].port /\ client'[c].job = client[c].job
    BY <1>1 DEF ClientRec
  <1>3. Told(c)'
    BY <1>2, ToldNothing
  <1> QED BY <1>1, <1>2, <1>3, ClientsMove DEF DataInv, Asked

LEMMA JoinThreadsMoves ==
  ASSUME MemcpyInv, DataInv, NEW c \in Clients, JoinThreads(c)
  PROVE  DataInv'
  <1>1. /\ UNCHANGED <<rpc, list, job, listener, threads, faults>>
        /\ client'[c] = [client[c] EXCEPT !.pc = "asksync"]
        /\ client[c] \in ClientRec /\ \A d \in Clients : d # c => client'[d] = client[d]
    BY DEF JoinThreads, MemcpyInv, Shapes
  <1>2. /\ client'[c].pc = "asksync"
        /\ client'[c].port = client[c].port /\ client'[c].job = client[c].job
    BY <1>1 DEF ClientRec
  <1>3. Told(c)'
    BY <1>1, <1>2 DEF JoinThreads, Told, SendersEnded, threads, Threads
  <1> QED BY <1>1, <1>2, <1>3, ClientsMove DEF DataInv, Asked

LEMMA ServeSyncMoves ==
  ASSUME MemcpyInv, DataInv, NEW c \in Clients, ServeSync(c)
  PROVE  DataInv'
  <1>1. /\ UNCHANGED <<list, job, listener, threads, faults>>
        /\ rpc.pc = "ready" /\ client[c].pc = "asksync" /\ client[c] \in ClientRec
    BY DEF ServeSync, MemcpyInv, Shapes
  <1>2. CASE UNCHANGED client
    <2>1. Told(c)'
      BY <1>1, <1>2 DEF DataInv, Told, SendersEnded, threads, Threads, Reached, Hit, HitJob
    <2> QED BY <1>1, <1>2, <2>1, ClientsMove DEF DataInv, Asked
  <1>3. CASE /\ client[c].id >= Len(list)
             /\ client' = [client EXCEPT ![c].pc = "idle", ![c].ret = 1]
    <2>1. /\ client'[c] = [client[c] EXCEPT !.pc = "idle", !.ret = 1]
          /\ \A d \in Clients : d # c => client'[d] = client[d]
      BY <1>3 DEF MemcpyInv, Shapes
    <2>2. client'[c].pc = "idle" /\ client'[c].port = client[c].port /\ client'[c].job = client[c].job
      BY <1>1, <2>1 DEF ClientRec
    <2>3. ~Reached
      <3>1. Reached => client[c].id < Len(list)
        BY <1>1 DEF MemcpyInv, Indexed, Active
      <3>2. client[c].id \in Nat /\ Len(list) \in Nat
        BY <1>1 DEF ClientRec, MemcpyInv, Shapes
      <3> QED BY <1>3, <3>1, <3>2
    <2>4. Told(c)'
      BY <1>1, <2>2, <2>3 DEF Told, Reached, Hit
    <2> QED BY <1>1, <2>1, <2>2, <2>4, ClientsMove DEF DataInv, Asked
  <1> QED BY <1>2, <1>3 DEF ServeSync

LEMMA JoinListenerMoves ==
  ASSUME MemcpyInv, DataInv, JoinListener
  PROVE  DataInv'
  <1>1. PICK c, n : c = rpc.client /\ n = IF listener[rpc.job] = "done" THEN 0 ELSE 1
    OBVIOUS
  <1>2. /\ UNCHANGED <<job, listener, threads, faults>> /\ c \in Clients /\ client[c] \in ClientRec
        /\ rpc.pc = "joining" /\ listener[rpc.job] \in {"done", "gone"}
        /\ list' = Removed(list, client[c].id) /\ list \in Seq(Jobs)
    BY <1>1 DEF JoinListener, MemcpyInv, Shapes
  <1>3. client' = [client EXCEPT ![c].pc = "idle", ![c].ret = n]
    BY <1>1 DEF JoinListener
  <1>4. /\ client'[c] = [client[c] EXCEPT !.pc = "idle", !.ret = n]
        /\ \A d \in Clients : d # c => client'[d] = client[d]
    BY <1>2, <1>3 DEF MemcpyInv, Shapes
  <1>5. /\ client'[c].pc = "idle" /\ client'[c].ret = n
        /\ client'[c].port = client[c].port /\ client'[c].job = client[c].job
    BY <1>2, <1>4 DEF ClientRec
  <1>6. client[c].pc = "asksync" /\ client[c].id < Len(list) /\ rpc.job \in Jobs
    BY <1>1, <1>2 DEF MemcpyInv, Serving
  <1>7. \A m \in 1..Len(list') : list'[m] \in Started
    <2>1. /\ Len(list') <= Len(list) /\ Len(list') \in Nat /\ Len(list) \in Nat
          /\ \A m \in 1..Len(list') : list'[m] = list[m]
      BY <1>2, <1>6, RemovedIsPrefix DEF ClientRec
    <2>2. \A m \in 1..Len(list') : m \in 1..Len(list)
      BY <2>1
    <2> QED BY <2>1, <2>2 DEF DataInv, Asked
  <1>8. Told(c)'
    <2>1. PICK j : j = client[c].job
      OBVIOUS
    <2>2. SUFFICES ASSUME j # NoJob, Reached, ~HitJob(j)
                   PROVE  n = 0 /\ listener[j] = "done" /\ SendersEnded(j)
      BY <1>2, <1>5, <2>1 DEF Told, SendersEnded, threads, Threads, Reached, Hit, HitJob
    <2>3. rpc.job = j
      BY <1>1, <1>2, <2>1, <2>2 DEF MemcpyInv, Indexed
    <2>4. SendersEnded(j)
      <3>1. Told(c)
        BY <1>2 DEF DataInv
      <3> QED BY <1>6, <2>1, <2>2, <3>1 DEF Told
    <2>5. listener[j] # "gone"
      BY <1>6, <2>2, <2>3, JobFacts DEF Moved, Listened
    <2> QED BY <1>1, <1>2, <2>3, <2>4, <2>5
  <1> QED BY <1>2, <1>4, <1>5, <1>7, <1>8, ClientsMove DEF DataInv, Asked

LEMMA AllocateFailsMoves ==
  ASSUME MemcpyInv, DataInv, AllocateFails
  PROVE  DataInv'
  <1>1. PICK c : c = rpc.client
    OBVIOUS
  <1>2. /\ UNCHANGED <<list, job, listener, threads>> /\ faults \subseteq faults'
        /\ rpc.pc = "allocating" /\ c \in Clients /\ client[c].pc = "asked" /\ client[c] \in ClientRec
    BY <1>1, FaultsStay DEF AllocateFails, MemcpyInv, Shapes, Serving
  <1>3. CASE UNCHANGED client
    <2>1. Told(c)'
      BY <1>2, <1>3, ToldNothing
    <2> QED BY <1>2, <1>3, <2>1, ClientsMove DEF DataInv, Asked
  <1>4. ASSUME NEW id \in 0..MaxJobs,
               client' = [client EXCEPT ![c] =
                  [@ EXCEPT !.pc = "copying", !.id = id, !.job = NoJob, !.port = NoJob]]
        PROVE  DataInv'
    <2>1. /\ client'[c] = [client[c] EXCEPT !.pc = "copying", !.id = id, !.job = NoJob, !.port = NoJob]
          /\ \A d \in Clients : d # c => client'[d] = client[d]
      BY <1>2, <1>4 DEF MemcpyInv, Shapes
    <2>2. client'[c].pc = "copying" /\ client'[c].port = NoJob /\ client'[c].job = NoJob
      BY <1>2, <2>1 DEF ClientRec
    <2>3. Told(c)'
      BY <1>2, <2>2, ToldNothing
    <2> QED BY <1>2, <2>1, <2>2, <2>3, ClientsMove DEF DataInv, Asked
  <1> QED BY <1>1, <1>3, <1>4 DEF AllocateFails

(* The threads of a client that have not connected start, or are forgotten. *)
LEMMA SendersMove ==
  ASSUME MemcpyInv, DataInv, faults \subseteq faults',
         UNCHANGED <<list, job, backlog, peer, worker, wire, staging, target>>,
         NEW j \in Jobs, \A t \in AllThreads : sender[j][t] \in {"none", "start"},
         Table(sender'), \A k \in Jobs : k # j => sender'[k] = sender[k],
         \A t \in AllThreads : /\ sender'[j][t] \in {"none", "start"}
                               /\ sender'[j][t] = "start" => t \in Threads(j) /\ listener'[j] \notin Early,
         \A k \in Jobs : k # j => listener'[k] = listener[k],
         listener'[j] = listener[j] \/ (listener[j] = "barrier" /\ listener'[j] = "accepting"),
         NEW c \in Clients, \A d \in Clients : d # c => client'[d] = client[d],
         client'[c].pc # "asked", client'[c].port = client'[c].job, client'[c].job \in Started, Told(c)'
  PROVE  DataInv'
  <1>1. Started' = Started
    BY DEF Started
  <1>2. Asked'
    BY <1>1 DEF DataInv, Asked
  <1>3. Tables'
    BY TablesStay DEF DataInv, Tables, Buffers
  <1>4. Apart(j) /\ Moved(j) /\ SameJob(j) /\ Growing(j)
        /\ Keeps(staging[j], staging'[j], job[j].size) /\ Keeps(target[j], target'[j], job[j].size)
    BY FaultsGrow, SameGrows, SameKeeps, JobFacts DEF Apart, SameThreads, SameJob
  <1>5. (\A m \in 1..Len(peer[j]) : FALSE) /\ \A m \in 1..Len(backlog[j]) : FALSE
    BY <1>4, JobFacts DEF Moved, Queues
  <1>6. Onward
    <2>1. ASSUME NEW l \in Started
          PROVE  l \in Jobs /\ Threads(l) \subseteq AllThreads
      <3>1. l \in Jobs
        BY DEF Started
      <3> QED BY <3>1, JobFacts
    <2>2. \A k \in Started : \A t \in Threads(k) :
            sender[k][t] \in {"done", "failed"} => sender'[k][t] = sender[k][t]
      BY <2>1
    <2>3. \A k \in Started : listener[k] = "done" => listener'[k] = "done"
      BY <2>1
    <2> QED BY <1>1, <2>2, <2>3 DEF Onward
  <1>7. Queues(j)'
    <2>1. \A t \in AllThreads :
            /\ sender'[j][t] \in {"none", "start", "connected", "done", "failed"}
            /\ sender'[j][t] # "none" => t \in Threads(j)' /\ listener'[j] \notin Early
            /\ sender'[j][t] = "failed" => HitJob(j)'
            /\ sender'[j][t] = "done" => \E m \in 1..Len(peer'[j]) : peer'[j][m] = t
      BY DEF Threads
    <2> QED BY <1>5, <2>1 DEF Queues, Once
  <1>8. Wired(j)' /\ \A i \in AllThreads : Worked(j, i)'
    BY <1>4, WiredStays, WorkedStays
  <1>9. Received(j)'
    BY <1>5 DEF Received
  <1>10. Listened(j)'
    BY <1>4 DEF Moved, Listened, SameJob
  <1>11. \A k \in Jobs : Moved(k)'
    BY <1>4, <1>7, <1>8, <1>9, <1>10, MovedStays DEF Apart, Moved
  <1>12. \A d \in Clients : Told(d)'
    BY <1>6, ToldStays
  <1> QED BY <1>2, <1>3, <1>11, <1>12 DEF DataInv

LEMMA CreateThreadsFailsMoves ==
  ASSUME MemcpyInv, DataInv, NEW c \in Clients, CreateThreadsFails(c)
  PROVE  DataInv'
  <1>1. PICK j : j = client[c].job
    OBVIOUS
  <1>2. /\ UNCHANGED <<rpc, list, job, listener, backlog, peer, worker, wire, staging, target>>
        /\ HitJob(j)' /\ faults \subseteq faults' /\ client[c] \in ClientRec
        /\ \A t \in Threads(j) : sender[j][t] = "start"
        /\ sender' = [sender EXCEPT ![j] = [t \in AllThreads |-> "none"]]
    BY <1>1, FaultHits DEF CreateThreadsFails, memory, MemcpyInv, Shapes
  <1>3. j \in Started /\ j \in Jobs
    BY <1>1 DEF CreateThreadsFails, DataInv, Asked, Started
  <1>4. \A t \in AllThreads : sender[j][t] \in {"none", "start"}
    BY <1>2, <1>3, JobFacts DEF Moved, Queues
  <1>5. /\ sender'[j] = [t \in AllThreads |-> "none"] /\ \A k \in Jobs : k # j => sender'[k] = sender[k]
        /\ Table(sender')
    BY <1>2, <1>3 DEF DataInv, Tables, Table
  <1>6. /\ client'[c] = [client[c] EXCEPT !.pc = "idle", !.ret = 1]
        /\ \A d \in Clients : d # c => client'[d] = client[d]
    BY DEF CreateThreadsFails, MemcpyInv, Shapes
  <1>7. client'[c].pc = "idle" /\ client'[c].port = client[c].port /\ client'[c].job = j
    BY <1>1, <1>2, <1>6 DEF ClientRec
  <1>8. Told(c)'
    BY <1>2, <1>7 DEF Told, HitJob
  <1>9. client[c].port = j
    BY <1>1 DEF DataInv, Asked
  <1>10. \A t \in AllThreads : /\ sender'[j][t] \in {"none", "start"}
                               /\ sender'[j][t] = "start" => t \in Threads(j) /\ listener'[j] \notin Early
    BY <1>5
  <1>11. /\ UNCHANGED <<list, job, backlog, peer, worker, wire, staging, target>>
         /\ UNCHANGED listener /\ faults \subseteq faults' /\ j \in Jobs /\ Table(sender')
         /\ \A k \in Jobs : k # j => sender'[k] = sender[k]
    BY <1>2, <1>3, <1>5
  <1>12. /\ client'[c].pc # "asked" /\ client'[c].port = client'[c].job
         /\ client'[c].job \in Started /\ Told(c)'
         /\ \A d \in Clients : d # c => client'[d] = client[d]
    BY <1>3, <1>6, <1>7, <1>8, <1>9
  <1> QED BY <1>4, <1>10, <1>11, <1>12, SendersMove

LEMMA PassBarrierMoves ==
  ASSUME MemcpyInv, DataInv, PassBarrier
  PROVE  DataInv'
  <1>1. PICK j, c : j = rpc.job /\ c = rpc.client
    OBVIOUS
  <1>2. /\ UNCHANGED <<list, job, backlog, peer, worker, wire, staging, target, faults>>
        /\ rpc.pc = "barrier" /\ listener[j] = "barrier"
        /\ sender' = [sender EXCEPT ![j] = [t \in AllThreads |-> IF t \in Threads(j) THEN "start" ELSE "none"]]
    BY <1>1 DEF PassBarrier, BarrierIsFull, memory
  <1>3. /\ j \in Started /\ j \in Jobs /\ c \in Clients /\ client[c] \in ClientRec
        /\ job[j].port = j
    BY <1>1, <1>2 DEF MemcpyInv, Serving, Shapes, Started
  <1>4. listener'[j] = "accepting" /\ \A k \in Jobs : k # j => listener'[k] = listener[k]
    BY <1>1, <1>2, <1>3 DEF PassBarrier, MemcpyInv, Shapes
  <1>5. \A t \in AllThreads : sender[j][t] \in {"none", "start"}
    BY <1>2, <1>3, JobFacts DEF Moved, Queues, Early
  <1>6. /\ sender'[j] = [t \in AllThreads |-> IF t \in Threads(j) THEN "start" ELSE "none"]
        /\ \A k \in Jobs : k # j => sender'[k] = sender[k]
    BY <1>2, <1>3 DEF DataInv, Tables, Table
  <1>7. Table(sender')
    <2>1. sender' = [k \in Jobs |-> sender'[k]]
      BY <1>2 DEF DataInv, Tables, Table
    <2>2. \A k \in Jobs : sender'[k] = [t \in AllThreads |-> sender'[k][t]]
      BY <1>6 DEF DataInv, Tables, Table
    <2> QED BY <2>1, <2>2 DEF Table
  <1>8. /\ client'[c] = [client[c] EXCEPT !.pc = "copying", !.id = Len(list) - 1, !.job = j, !.port = job[j].port]
        /\ \A d \in Clients : d # c => client'[d] = client[d]
    BY <1>1, <1>3 DEF PassBarrier, MemcpyInv, Shapes
  <1>9. client'[c].pc = "copying" /\ client'[c].port = j /\ client'[c].job = j
    BY <1>3, <1>8 DEF ClientRec
  <1>10. Told(c)'
    BY <1>3, <1>9, ToldNothing
  <1>11. \A t \in AllThreads : /\ sender'[j][t] \in {"none", "start"}
                               /\ sender'[j][t] = "start" => t \in Threads(j) /\ listener'[j] \notin Early
    BY <1>4, <1>6 DEF Early
  <1> QED BY <1>2, <1>3, <1>4, <1>5, <1>6, <1>7, <1>8, <1>9, <1>10, <1>11, SendersMove

LEMMA NextJob ==
  ASSUME MemcpyInv, Started # Jobs
  PROVE  Cardinality(Started) + 1 \in Jobs /\ Cardinality(Started) + 1 \notin Started
  <1>1. PICK n \in 0..MaxJobs : Started = 1..n
    BY DEF MemcpyInv, InOrder
  <1>2. Cardinality(Started) = n
    <2>1. n \in Int /\ 1 \in Int /\ (1 > n => n = 0)
      BY <1>1
    <2> QED BY <1>1, <2>1, FS_Interval
  <1>3. n # MaxJobs
    BY <1>1, Ranges
  <1> QED BY <1>1, <1>2, <1>3, Ranges

(* Of a copy that was not asked for there is nothing.                      *)
LEMMA UnusedIsEmpty ==
  ASSUME MemcpyInv, DataInv, NEW j \in Jobs, j \notin Started
  PROVE  /\ peer[j] = <<>> /\ Len(peer[j]) = 0
         /\ \A m \in 1..Len(backlog[j]) : FALSE
         /\ \A t \in AllThreads : /\ sender[j][t] = "none" /\ wire[j][t] = NoData
                                  /\ worker[j][t].pc = "none" /\ worker[j][t].id = t
  <1>1. Moved(j) /\ listener[j] = "none" /\ job[j].size = 0
    BY JobFacts
  <1>2. peer[j] = <<>> /\ Len(peer[j]) = 0
    BY <1>1 DEF MemcpyInv, Staged
  <1>3. \A t \in AllThreads : sender[j][t] = "none"
    BY <1>1 DEF Moved, Queues, Early
  <1>4. \A m \in 1..Len(backlog[j]) : FALSE
    BY <1>1, <1>3, JobFacts DEF Moved, Queues
  <1>5. Threads(j) = {}
    <2>1. PICK q, M : M = MemPerThread /\ q = 0 \div M
      OBVIOUS
    <2>2. M \in Nat /\ M >= 1
      BY <2>1, Ranges
    <2>3. q \in Nat /\ q * M <= 0
      BY <2>1, <2>2, Quotient
    <2>4. q = 0
      <3> SUFFICES ASSUME 1 <= q PROVE FALSE
        BY <2>3
      <3>1. 1 * M <= q * M /\ 1 * M \in Nat /\ q * M \in Nat
        BY <2>2, <2>3, Multiples
      <3> QED BY <2>2, <2>3, <3>1
    <2> QED BY <1>1, <2>1, <2>4 DEF Threads, ThreadNum
  <1>6. \A t \in AllThreads : wire[j][t] = NoData
    BY <1>1, <1>5 DEF Moved, Wired
  <1>7. \A t \in AllThreads : worker[j][t].pc = "none"
    <2>1. \A t \in AllThreads : worker[j][t].pc # "none" => t < Len(peer[j])
      BY DEF MemcpyInv, Staged
    <2>2. \A t \in AllThreads : t \in Nat
      BY Ranges
    <2> QED BY <1>2, <2>1, <2>2
  <1>8. \A t \in AllThreads : worker[j][t].id = t
    BY <1>1, <1>7 DEF Moved, Worked
  <1> QED BY <1>2, <1>3, <1>4, <1>6, <1>7, <1>8

LEMMA ServeCopyMoves ==
  ASSUME MemcpyInv, DataInv, NEW c \in Clients, ServeCopy(c)
  PROVE  DataInv'
  <1>1. PICK j, size, fresh : /\ j = Cardinality(Started) + 1 /\ size = client[c].size
                              /\ fresh = Fresh(size)
    OBVIOUS
  <1>2. /\ UNCHANGED <<client, backlog, peer, worker, sender, wire, faults>>
        /\ client[c].pc = "asked" /\ list' = Append(list, j)
        /\ job' = [job EXCEPT ![j] = [Unused EXCEPT !.size = size, !.dir = client[c].dir]]
        /\ listener' = [listener EXCEPT ![j] = "opening"]
        /\ staging' = [staging EXCEPT ![j] = fresh]
        /\ target' = [target EXCEPT ![j] = fresh]
    BY <1>1 DEF ServeCopy
  <1>3. j \in Jobs /\ j \notin Started
    BY <1>1, NextJob DEF ServeCopy
  <1>4. size \in Sizes /\ size \in Nat /\ size > 0 /\ ThreadNum(size) \in Nat
    BY <1>1, <1>2, Ranges, ThreadsOfSizes DEF DataInv, Asked
  <1>5. /\ job'[j].size = size
        /\ \A k \in Jobs : k # j => job'[k] = job[k] /\ listener'[k] = listener[k]
        /\ listener'[j] = "opening"
    BY <1>2, <1>3 DEF MemcpyInv, Shapes, Unused
  <1>6. /\ staging' = [k \in Jobs |-> staging'[k]] /\ target' = [k \in Jobs |-> target'[k]]
        /\ staging'[j] = fresh /\ target'[j] = fresh
        /\ \A k \in Jobs : k # j => staging'[k] = staging[k] /\ target'[k] = target[k]
    BY <1>2, <1>3 DEF DataInv, Tables, Buffers
  <1>7. fresh = [x \in 0..size-1 |-> fresh[x]]
    BY <1>1 DEF Fresh
  <1>8. Started \subseteq Started' /\ j \in Started' /\ \A k \in Started' : k = j \/ k \in Started
    <2>1. job'[j] # Unused
      BY <1>4, <1>5 DEF Unused
    <2> QED BY <1>3, <1>5, <2>1 DEF Started
  <1>9. Asked'
    <2>1. \A m \in 1..Len(list') : list'[m] \in Started'
      <3>1. /\ Len(list') = Len(list) + 1 /\ Len(list) \in Nat /\ list'[Len(list) + 1] = j
            /\ \A m \in 1..Len(list) : list'[m] = list[m]
        BY <1>2, <1>3, AppendProperties DEF MemcpyInv, Shapes
      <3>2. \A m \in 1..Len(list') : m \in 1..Len(list) \/ m = Len(list) + 1
        BY <3>1
      <3> QED BY <1>8, <3>1, <3>2 DEF DataInv, Asked
    <2>2. \A k \in Started' : job'[k].size \in Sizes
      <3> TAKE k \in Started'
      <3>1. CASE k = j BY <1>4, <1>5, <3>1
      <3>2. CASE k # j
        <4>1. k \in Started /\ k \in Jobs
          BY <1>8, <3>2 DEF Started
        <4> QED BY <1>5, <3>2, <4>1 DEF DataInv, Asked
      <3> QED BY <3>1, <3>2
    <2> QED BY <1>2, <1>8, <2>1, <2>2 DEF DataInv, Asked
  <1>10. Tables'
    <2>1. \A k \in Jobs : /\ staging'[k] = [x \in 0..job'[k].size-1 |-> staging'[k][x]]
                          /\ target'[k] = [x \in 0..job'[k].size-1 |-> target'[k][x]]
      <3> TAKE k \in Jobs
      <3>1. CASE k = j BY <1>5, <1>6, <1>7, <3>1
      <3>2. CASE k # j BY <1>5, <1>6, <3>2 DEF DataInv, Tables, Buffers
      <3> QED BY <3>1, <3>2
    <2>2. Buffers(staging)' /\ Buffers(target)'
      BY <1>6, <2>1 DEF Buffers
    <2>3. Table(sender)' /\ Table(wire)'
      BY <1>2 DEF DataInv, Tables, Table
    <2> QED BY <2>2, <2>3 DEF Tables
  <1>11. Onward
    <2>1. Started \subseteq Jobs
      BY DEF Started
    <2> QED BY <1>2, <1>3, <1>5, <1>8, <2>1 DEF Onward
  <1>12. \A k \in Jobs : k # j => Moved(k)'
    <2>1. \A k \in Jobs : k # j => SameThreads(k)
      BY <1>2, <1>5, <1>6, FaultsGrow DEF SameThreads, SameJob
    <2> QED BY <2>1, MovedStays
  <1>13. Moved(j)'
    <2>1. /\ Len(peer'[j]) = 0 /\ \A m \in 1..Len(peer'[j]) : FALSE
          /\ \A m \in 1..Len(backlog'[j]) : FALSE
          /\ \A t \in AllThreads : /\ sender'[j][t] = "none" /\ wire'[j][t] = NoData
                                   /\ worker'[j][t].pc = "none" /\ worker'[j][t].id = t
      BY <1>2, <1>3, UnusedIsEmpty
    <2>2. Queues(j)'
      BY <2>1 DEF Queues, Once
    <2>3. Wired(j)' /\ Received(j)'
      BY <2>1 DEF Wired, Received
    <2>4. \A i \in AllThreads : Worked(j, i)'
      BY <2>1 DEF Worked
    <2>5. Listened(j)'
      BY <1>4, <1>5, <2>1 DEF Listened
    <2> QED BY <2>2, <2>3, <2>4, <2>5 DEF Moved
  <1>14. \A d \in Clients : Told(d)'
    BY <1>2, <1>11, ToldStays
  <1> QED BY <1>9, <1>10, <1>12, <1>13, <1>14 DEF DataInv

-----------------------------------------------------------------------------
LEMMA InitMoved ==
  ASSUME Init, Clients # {}
  PROVE  DataInv
  <1> USE Ranges DEF Init
  <1>1. \A j \in Jobs : /\ job[j] = Unused /\ job[j].size = 0 /\ listener[j] = "none"
                        /\ backlog[j] = <<>> /\ peer[j] = <<>> /\ staging[j] = <<>> /\ target[j] = <<>>
    BY DEF Unused
  <1>2. \A j \in Jobs, t \in AllThreads : /\ sender[j][t] = "none" /\ wire[j][t] = NoData
                                          /\ worker[j][t] = [pc |-> "none", id |-> t]
    OBVIOUS
  <1>3. \A c \in Clients : /\ client[c].pc = "idle" /\ client[c].port = NoJob /\ client[c].job = NoJob
    OBVIOUS
  <1>4. Started = {}
    BY <1>1 DEF Started
  <1>5. Asked
    <2>1. list = <<>> /\ Len(list) = 0
      OBVIOUS
    <2> QED BY <1>3, <1>4, <2>1 DEF Asked
  <1>6. Table(sender) /\ Table(wire)
    BY DEF Table
  <1>7. Buffers(staging) /\ Buffers(target)
    <2>1. \A k : k \notin 0 .. 0 - 1
      OBVIOUS
    <2>2. \A f : <<>> = [k \in 0..0-1 |-> f[k]]
      BY <2>1
    <2> QED BY <1>1, <2>2 DEF Buffers
  <1>8. \A j \in Jobs : Moved(j)
    <2> TAKE j \in Jobs
    <2>1. Queues(j)
      BY <1>1, <1>2 DEF Queues, Once
    <2>2. Wired(j) /\ Received(j)
      BY <1>1, <1>2 DEF Wired, Received
    <2>3. \A i \in AllThreads : worker[j][i].pc = "none" /\ worker[j][i].id = i
      BY <1>2
    <2>4. \A i \in AllThreads : Worked(j, i)
      BY <2>3 DEF Worked
    <2>5. Listened(j)
      <3>1. PICK q, M : M = MemPerThread /\ q = 0 \div M
        OBVIOUS
      <3>2. q \in Nat
        BY <3>1, Ranges, Quotient
      <3>3. ThreadNum(job[j].size) \in Nat
        BY <1>1, <3>1, <3>2 DEF ThreadNum
      <3> QED BY <1>1, <3>3 DEF Listened
    <2> QED BY <2>1, <2>2, <2>4, <2>5 DEF Moved
  <1>9. \A c \in Clients : Told(c)
    BY <1>3 DEF Told
  <1> QED BY <1>5, <1>6, <1>7, <1>8, <1>9 DEF DataInv, Tables

LEMMA StepMoves ==
  ASSUME MemcpyInv, DataInv, [Next]_vars
  PROVE  DataInv'
  <1>1. CASE \E c \in Clients, size \in Sizes, dir \in Directions : AskCopy(c, size, dir)
    BY <1>1, AskCopyMoves
  <1>2. CASE RpcStep
    BY <1>2, AllocateMoves, PassBarrierMoves, JoinListenerMoves, ServeCopyMoves, ServeSyncMoves
    DEF RpcStep
  <1>3. CASE \E c \in Clients : JoinThreads(c)
    BY <1>3, JoinThreadsMoves
  <1>4. CASE \E j \in Jobs : ListenerStep(j)
    BY <1>4, ListenerMoves, AcceptMoves DEF ListenerStep
  <1>5. CASE \E j \in Jobs, t \in AllThreads : SenderStep(j, t)
    BY <1>5, ConnectMoves, SendToServerMoves, ReceiveFromServerMoves DEF SenderStep
  <1>6. CASE \E j \in Jobs, t \in AllThreads : WorkerStep(j, t)
    BY <1>6, ReceiveFromClientMoves, CopyToDeviceMoves, CopyFromDeviceMoves, SendToClientMoves
    DEF WorkerStep
  <1>7. CASE AllocateFails
    BY <1>7, AllocateFailsMoves
  <1>8. CASE \E c \in Clients : CreateThreadsFails(c)
    BY <1>8, CreateThreadsFailsMoves
  <1>9. CASE \E j \in Jobs : OpenSocketFails(j) \/ ListenerFails(j)
    BY <1>9, ListenerMoves
  <1>10. CASE \E j \in Jobs, t \in AllThreads : ConnectFails(j, t)
    BY <1>10, ConnectFailsMoves
  <1>11. CASE UNCHANGED vars
    <2>1. \A k \in Jobs : Moved(k)'
      BY <1>11, MovedStays DEF vars, threads, memory, SameThreads, SameJob, HitJob
    <2>2. Onward
      BY <1>11 DEF vars, threads, Onward, Started
    <2>3. \A c \in Clients : Told(c)'
      BY <1>11, <2>2, ToldStays DEF vars
    <2>4. Asked' /\ Tables'
      BY <1>11 DEF vars, threads, memory, DataInv, Asked, Started, Tables, Table, Buffers
    <2> QED BY <2>1, <2>3, <2>4 DEF DataInv
  <1> QED
    BY <1>1, <1>2, <1>3, <1>4, <1>5, <1>6, <1>7, <1>8, <1>9, <1>10, <1>11
    DEF Next, ThreadStep, FaultStep

(* What was read from a chunk is on its way to it or there, in every       *)
(* reachable state.                                                        *)
THEOREM DataInvariant == Spec => []DataInv
  <1>1. Init => DataInv
    BY InitMoved, ClientsAssumption
  <1> QED BY <1>1, StepMoves, MemcpyInvariant, PTL DEF Spec

(* What a listener that has joined its workers and a client that has       *)
(* joined its threads leave behind is the whole copy.                      *)
LEMMA EveryChunkArrived ==
  ASSUME MemcpyInv, DataInv, NEW j \in Started, ~HitJob(j), listener[j] = "done", SendersEnded(j),
         NEW t \in Threads(j)
  PROVE  Filled(target[j], Bounds(j, t))
  <1>1. j \in Jobs /\ Moved(j) /\ job[j].dir \in Directions /\ t \in AllThreads
    BY JobFacts DEF Started
  <1>2. PICK n : n = ThreadNum(job[j].size)
    OBVIOUS
  <1>3. /\ n \in Nat /\ Len(peer[j]) = n /\ Threads(j) = 0 .. n - 1 /\ Threads(j) \subseteq AllThreads
        /\ \A i \in 0 .. n - 1 : worker[j][i].pc \in {"done", "failed"}
    BY <1>1, <1>2, JobFacts DEF Moved, Listened, Threads
  <1>4. \A i \in 0 .. n - 1 : worker[j][i].pc = "done"
    BY <1>1, <1>3 DEF Moved, Worked
  <1>5. sender[j][t] = "done"
    BY <1>1 DEF Moved, Queues, SendersEnded
  <1>6. CASE job[j].dir = "htod"
    <2>1. PICK m \in 1..Len(peer[j]) : peer[j][m] = t
      BY <1>1, <1>5 DEF Moved, Queues
    <2>2. PICK i : i = m - 1
      OBVIOUS
    <2>3. i \in 0 .. n - 1 /\ i \in AllThreads /\ i + 1 = m
      BY <1>3, <2>1, <2>2
    <2>4. Worked(j, i) /\ worker[j][i].pc = "done"
      BY <1>1, <1>4, <2>3 DEF Moved
    <2> QED BY <1>6, <2>1, <2>3, <2>4 DEF Worked
  <1>7. CASE job[j].dir = "dtoh"
    <2>1. PICK m : m = t + 1
      OBVIOUS
    <2>2. m \in 1..Len(peer[j]) /\ m - 1 = t
      BY <1>3, <2>1
    <2>3. PICK l : l = peer[j][m]
      OBVIOUS
    <2>4. l \in AllThreads /\ sender[j][l] \in {"connected", "done"}
      BY <1>1, <2>2, <2>3, JobFacts DEF Moved, Queues
    <2>5. l \in Threads(j)
      BY <1>1, <2>4 DEF Moved, Queues
    <2>6. sender[j][l] = "done"
      BY <2>4, <2>5 DEF SendersEnded
    <2> QED BY <1>1, <1>7, <2>2, <2>3, <2>6 DEF Moved, Received
  <1> QED BY <1>1, <1>6, <1>7 DEF Directions

(* A copy that cudaMemcpy reports as done has moved every cell to its      *)
(* place, for any size and number of threads, in whatever order they       *)
(* connect and run, unless a fault hit it or an allocation failed; and     *)
(* without faults it is reported as done.                                  *)
THEOREM CopiesArriveWhole == Spec => []CopiedWhole
  <1>1. MemcpyInv /\ DataInv => CopiedWhole
    <2> SUFFICES ASSUME MemcpyInv, DataInv, NEW c \in Clients, NEW j, j = client[c].job,
                        client[c].pc = "idle", j # NoJob, ~HitJob(j), ~Hit({"malloc"})
                 PROVE  client[c].ret = 0 /\ target[j] = Source(job[j].size)
      BY DEF CopiedWhole
    <2>1. j \in Started /\ j \in Jobs
      BY DEF DataInv, Asked, Started
    <2>2. client[c].ret = 0 /\ listener[j] = "done" /\ SendersEnded(j)
      <3>1. Told(c)
        BY DEF DataInv
      <3> QED BY <3>1 DEF Told, Reached
    <2>3. \A t \in Threads(j) : Filled(target[j], Bounds(j, t))
      BY <2>1, <2>2, EveryChunkArrived
    <2>4. PICK size, n : size = job[j].size /\ n = ThreadNum(size)
      OBVIOUS
    <2>5. size \in Sizes /\ size \in Nat /\ n \in Nat \ {0} /\ size >= n /\ Threads(j) = 0 .. n - 1
      BY <2>1, <2>4, ThreadsOfSizes DEF DataInv, Asked, Threads
    <2>6. \A k \in 0..size-1 : \E t \in 0..n-1 : k \in Cells(ChunkBounds(size, n, t))
      BY <2>5, ChunksPartition
    <2>7. \A k \in 0..size-1 : target[j][k] = k
      <3> TAKE k \in 0..size-1
      <3>1. PICK t \in 0..n-1 : k \in Cells(ChunkBounds(size, n, t))
        BY <2>6
      <3>2. t \in Threads(j) /\ Bounds(j, t) = ChunkBounds(size, n, t)
        BY <2>4, <2>5 DEF Bounds
      <3>3. Filled(target[j], Bounds(j, t))
        BY <2>3, <3>2
      <3> QED BY <3>1, <3>2, <3>3 DEF Filled
    <2>8. target[j] = [k \in 0..size-1 |-> target[j][k]]
      BY <2>1, <2>4 DEF DataInv, Tables, Buffers
    <2> QED BY <2>2, <2>4, <2>7, <2>8 DEF Source
  <1> QED BY <1>1, MemcpyInvariant, DataInvariant, PTL

(* Every variable holds values of the kind the code gives it: the records  *)
(* in the list are of copies that were asked for, a worker's index is that *)
(* of a thread, and staging memory is as large as what is copied.          *)
THEOREM MemcpyKeepsTypes == Spec => []MemcpyTypeOK
  <1>1. MemcpyInv /\ DataInv => MemcpyTypeOK
    <2> SUFFICES ASSUME MemcpyInv, DataInv PROVE MemcpyTypeOK
      OBVIOUS
    <2>1. \A c \in Clients : /\ client[c].pc \in {"idle", "asked", "copying", "asksync"}
                             /\ client[c].job \in Jobs \cup {NoJob} /\ client[c].ret \in {0, 1}
      BY Ranges DEF MemcpyInv, Shapes, ClientRec, PCs, NoJob
    <2>2. rpc.pc \in {"ready", "allocating", "barrier", "destroying", "joining"}
      BY DEF MemcpyInv, Shapes
    <2>3. list \in Seq(Started)
      <3>1. list \in Seq(Jobs) /\ \A m \in 1..Len(list) : list[m] \in Started
        BY DEF MemcpyInv, Shapes, DataInv, Asked
      <3> QED BY <3>1
    <2>4. ASSUME NEW j \in Jobs
          PROVE  /\ listener[j] \in {"none", "opening", "barrier", "accepting", "done", "gone"}
                 /\ job[j].mem \in {"none", "held", "freed"}
                 /\ DOMAIN target[j] = DOMAIN staging[j]
      <3>1. /\ listener[j] \in {"none", "opening", "barrier", "accepting", "done", "gone"}
            /\ job[j].mem \in {"none", "held", "freed"}
        BY DEF MemcpyInv, Shapes, JobRec
      <3>2. DOMAIN target[j] = 0..job[j].size-1 /\ DOMAIN staging[j] = 0..job[j].size-1
        BY DEF DataInv, Tables, Buffers
      <3> QED BY <3>1, <3>2
    <2>5. ASSUME NEW j \in Jobs, NEW t \in AllThreads
          PROVE  /\ sender[j][t] \in ThreadStates
                 /\ worker[j][t].pc \in ThreadStates /\ worker[j][t].id \in AllThreads
      <3>1. Queues(j) /\ Worked(j, t) /\ job[j].dir \in Directions
        BY JobFacts DEF Moved
      <3>2. sender[j][t] \in ThreadStates
        BY <3>1 DEF Queues, ThreadStates
      <3>3. worker[j][t].pc \in ThreadStates
        BY <3>1 DEF Worked, Directions, ThreadStates
      <3>4. worker[j][t].id \in AllThreads
        <4>1. CASE worker[j][t].pc = "none"
          BY <3>1, <4>1 DEF Worked
        <4>2. CASE worker[j][t].pc # "none"
          BY <4>2, WorkerKnows, JobFacts
        <4> QED BY <4>1, <4>2
      <3> QED BY <3>2, <3>3, <3>4
    <2> QED BY <2>1, <2>2, <2>3, <2>4, <2>5 DEF MemcpyTypeOK
  <1> QED BY <1>1, MemcpyInvariant, DataInvariant, PTL

-----------------------------------------------------------------------------
(* One client alone.  Whom the RPC thread served last has its copy or waits *)
(* for it, and the first to be served finds an empty list.                  *)
Alone(c) == \A d \in Clients \ {c} : client[d].job = NoJob /\ rpc.client # d
Copying(c) == rpc.pc \in {"allocating", "barrier"} \/ Active(c)
LoneInv ==
    faults = {} =>
        /\ rpc.pc # "destroying"
        /\ \A c \in Clients : Active(c) => client[c].job # NoJob
        /\ rpc.pc = "ready" /\ client[rpc.client].job = NoJob =>
              list = <<>> /\ \A c \in Clients : client[c].job = NoJob
        /\ \A c \in Clients : Alone(c) => Len(list) = IF Copying(c) THEN 1 ELSE 0

LEMMA LoneStays ==
  ASSUME LoneInv, faults \subseteq faults', UNCHANGED <<client, rpc, list>>
  PROVE  LoneInv'
  BY DEF LoneInv, Alone, Copying, Active

(* A client's own step: of its state only where it waits changes.          *)
LEMMA AskCopyLone ==
  ASSUME MemcpyInv, LoneInv, NEW c \in Clients, NEW size \in Sizes, NEW dir \in Directions,
         AskCopy(c, size, dir)
  PROVE  LoneInv'
  <1>1. /\ client[c].pc = "idle" /\ client'[c].pc = "asked" /\ client'[c].job = client[c].job
        /\ \A d \in Clients : d # c => client'[d] = client[d]
        /\ UNCHANGED <<rpc, list, faults>> /\ rpc.client \in Clients
    BY DEF AskCopy, MemcpyInv, Shapes, ClientRec
  <1>2. \A d \in Clients : client'[d].job = client[d].job /\ (Active(d)' <=> Active(d))
    BY <1>1 DEF Active
  <1> QED BY <1>1, <1>2 DEF LoneInv, Alone, Copying

LEMMA JoinThreadsLone ==
  ASSUME MemcpyInv, LoneInv, NEW c \in Clients, JoinThreads(c)
  PROVE  LoneInv'
  <1>1. /\ client[c].pc = "copying" /\ client'[c].pc = "asksync" /\ client'[c].job = client[c].job
        /\ \A d \in Clients : d # c => client'[d] = client[d]
        /\ UNCHANGED <<rpc, list, faults>> /\ rpc.client \in Clients
    BY DEF JoinThreads, MemcpyInv, Shapes, ClientRec
  <1>2. \A d \in Clients : client'[d].job = client[d].job /\ (Active(d)' <=> Active(d))
    BY <1>1 DEF Active
  <1> QED BY <1>1, <1>2 DEF LoneInv, Alone, Copying

LEMMA ServeCopyLone ==
  ASSUME MemcpyInv, LoneInv, NEW c \in Clients, ServeCopy(c)
  PROVE  LoneInv'
  <1> SUFFICES ASSUME faults' = {} PROVE LoneInv'
    BY DEF LoneInv
  <1>1. PICK j : j = Cardinality(Started) + 1
    OBVIOUS
  <1>2. /\ UNCHANGED <<client, faults>> /\ faults = {}
        /\ rpc.pc = "ready" /\ client[c].pc = "asked" /\ rpc.client \in Clients
        /\ rpc'.pc = "allocating" /\ rpc'.client = c
        /\ list' = Append(list, j) /\ j \in Jobs
    BY <1>1, NextJob DEF ServeCopy, MemcpyInv, Shapes
  <1>3. Len(list') = Len(list) + 1 /\ list \in Seq(Jobs)
    BY <1>2, AppendProperties DEF MemcpyInv, Shapes
  <1>4. ASSUME NEW d \in Clients, Alone(d)'
        PROVE  Len(list') = 1
    <2>1. d = c
      BY <1>2, <1>4 DEF Alone
    <2>2. CASE rpc.client = c
      <3>1. Alone(c) /\ ~Copying(c)
        BY <1>2, <1>4, <2>1, <2>2 DEF Alone, Copying, Active
      <3> QED BY <1>2, <1>3, <3>1 DEF LoneInv
    <2>3. CASE rpc.client # c
      <3>1. client[rpc.client].job = NoJob
        BY <1>2, <1>4, <2>1, <2>3 DEF Alone
      <3>2. list = <<>>
        BY <1>2, <3>1 DEF LoneInv
      <3> QED BY <1>3, <3>2
    <2> QED BY <2>2, <2>3
  <1> QED BY <1>2, <1>4 DEF LoneInv, Copying, Active

LEMMA AllocateLone ==
  ASSUME MemcpyInv, LoneInv, Allocate
  PROVE  LoneInv'
  <1>1. /\ UNCHANGED <<client, list, faults>> /\ rpc.pc = "allocating" /\ rpc'.pc = "barrier"
        /\ rpc'.client = rpc.client
    BY DEF Allocate, MemcpyInv, Shapes
  <1> QED BY <1>1 DEF LoneInv, Alone, Copying, Active

LEMMA PassBarrierLone ==
  ASSUME MemcpyInv, LoneInv, PassBarrier
  PROVE  LoneInv'
  <1>1. PICK c, j : c = rpc.client /\ j = rpc.job
    OBVIOUS
  <1>2. /\ UNCHANGED <<list, faults>> /\ c \in Clients /\ rpc.pc = "barrier" /\ rpc'.pc = "ready"
        /\ rpc'.client = c /\ j \in Jobs
    BY <1>1 DEF PassBarrier, MemcpyInv, Shapes, Serving, Started
  <1>3. j # NoJob
    BY <1>2, Ranges DEF NoJob
  <1>4. /\ client'[c].pc = "copying" /\ client'[c].job = j
        /\ \A d \in Clients : d # c => client'[d] = client[d]
    BY <1>1, <1>2 DEF PassBarrier, MemcpyInv, Shapes, ClientRec
  <1>5. ASSUME NEW d \in Clients, Alone(d)'
        PROVE  Alone(d) /\ Copying(d) /\ Copying(d)'
    <2>1. d = c
      BY <1>2, <1>5 DEF Alone
    <2> QED BY <1>1, <1>2, <1>4, <1>5, <2>1 DEF Alone, Copying, Active
  <1>6. \A d \in Clients : Active(d)' => d = c \/ Active(d)
    BY <1>4 DEF Active
  <1> QED BY <1>2, <1>3, <1>4, <1>5, <1>6 DEF LoneInv

LEMMA ServeSyncLone ==
  ASSUME MemcpyInv, LoneInv, NEW c \in Clients, ServeSync(c)
  PROVE  LoneInv'
  <1> SUFFICES ASSUME faults' = {} PROVE LoneInv'
    BY DEF LoneInv
  <1>1. UNCHANGED <<list, faults>> /\ faults = {} /\ rpc.pc = "ready" /\ client[c].pc = "asksync"
    BY DEF ServeSync
  <1>2. Active(c) /\ client[c].job # NoJob
    BY <1>1 DEF Active, LoneInv
  <1>3. client[c].id < Len(list) /\ client[c].id \in Nat /\ Len(list) \in Nat /\ rpc.client \in Clients
    BY <1>1, <1>2 DEF MemcpyInv, Indexed, Reached, Hit, Shapes, ClientRec
  <1>4. UNCHANGED client /\ rpc'.pc = "joining" /\ rpc'.client = c
    BY <1>3 DEF ServeSync
  <1>5. rpc.client = c \/ client[rpc.client].job # NoJob
    BY <1>1, <1>2, <1>3 DEF LoneInv
  <1>6. ASSUME NEW d \in Clients, Alone(d)'
        PROVE  Alone(d) /\ Copying(d) /\ Copying(d)'
    <2>1. d = c
      BY <1>2, <1>4, <1>6 DEF Alone
    <2>2. rpc.client = c
      BY <1>3, <1>4, <1>5, <1>6, <2>1 DEF Alone
    <2> QED BY <1>2, <1>4, <1>6, <2>1, <2>2 DEF Alone, Copying, Active
  <1> QED BY <1>1, <1>4, <1>6 DEF LoneInv, Active

LEMMA JoinListenerLone ==
  ASSUME MemcpyInv, LoneInv, JoinListener
  PROVE  LoneInv'
  <1> SUFFICES ASSUME faults' = {} PROVE LoneInv'
    BY DEF LoneInv
  <1>1. PICK c, id : c = rpc.client /\ id = client[c].id
    OBVIOUS
  <1>2. /\ UNCHANGED faults /\ faults = {} /\ rpc.pc = "joining" /\ rpc'.pc = "ready" /\ rpc'.client = c
        /\ c \in Clients /\ client[c].pc = "asksync" /\ id \in Nat /\ id < Len(list)
        /\ list \in Seq(Jobs) /\ list' = Removed(list, id)
    BY <1>1 DEF JoinListener, MemcpyInv, Shapes, Serving, ClientRec
  <1>3. /\ client'[c].pc = "idle" /\ client'[c].job = client[c].job
        /\ \A d \in Clients : d # c => client'[d] = client[d]
    BY <1>1, <1>2 DEF JoinListener, MemcpyInv, Shapes, ClientRec
  <1>4. Active(c) /\ client[c].job # NoJob
    BY <1>2 DEF Active, LoneInv
  <1>5. ASSUME NEW d \in Clients, Alone(d)'
        PROVE  Len(list') = 0 /\ ~Copying(d)'
    <2>1. d = c
      BY <1>2, <1>5 DEF Alone
    <2>2. Alone(c) /\ Copying(c)
      BY <1>1, <1>3, <1>4, <1>5, <2>1 DEF Alone, Copying
    <2>3. Len(list) = 1
      BY <1>2, <2>2 DEF LoneInv
    <2>4. Len(Removed(list, id)) = IF id = Len(list) - 1 THEN Len(list) - 1 ELSE Len(list)
      BY <1>2, <2>3, RemovedIsPrefix
    <2>5. Len(list') = 0
      BY <1>2, <2>3, <2>4
    <2> QED BY <1>2, <1>3, <2>1, <2>5 DEF Copying, Active
  <1>6. \A d \in Clients : Active(d)' => d # c /\ Active(d)
    BY <1>3 DEF Active
  <1> QED BY <1>2, <1>3, <1>4, <1>5, <1>6 DEF LoneInv

(* A fault ends what the invariant says.                                   *)
LEMMA FaultLone ==
  ASSUME NEW k, NEW j, Fault(k, j)
  PROVE  LoneInv'
  <1>1. faults' # {}
    BY DEF Fault
  <1> QED BY <1>1 DEF LoneInv

LEMMA StepLone ==
  ASSUME MemcpyInv, LoneInv, [Next]_vars
  PROVE  LoneInv'
  <1>1. CASE \E c \in Clients, size \in Sizes, dir \in Directions : AskCopy(c, size, dir)
    BY <1>1, AskCopyLone
  <1>2. CASE RpcStep
    BY <1>2, AllocateLone, PassBarrierLone, JoinListenerLone, ServeCopyLone, ServeSyncLone
    DEF RpcStep
  <1>3. CASE \E c \in Clients : JoinThreads(c)
    BY <1>3, JoinThreadsLone
  <1>4. CASE \E j \in Jobs : ListenerStep(j)
    <2>1. UNCHANGED <<client, rpc, list, faults>>
      BY <1>4 DEF ListenerStep, OpenSocket, Accept, JoinWorkers
    <2> QED BY <2>1, LoneStays
  <1>5. CASE \E j \in Jobs, t \in AllThreads : SenderStep(j, t)
    <2>1. UNCHANGED <<client, rpc, list, faults>>
      BY <1>5 DEF SenderStep, Connect, SendToServer, ReceiveFromServer
    <2> QED BY <2>1, LoneStays
  <1>6. CASE \E j \in Jobs, t \in AllThreads : WorkerStep(j, t)
    <2>1. UNCHANGED <<client, rpc, list>> /\ faults \subseteq faults'
      BY <1>6, FaultsStay
      DEF WorkerStep, ReceiveFromClient, CopyToDevice, CopyFromDevice, SendToClient
    <2> QED BY <2>1, LoneStays
  <1>7. CASE FaultStep
    <2>1. \E k, j : Fault(k, j)
      BY <1>7 DEF FaultStep, AllocateFails, CreateThreadsFails, OpenSocketFails, ListenerFails, ConnectFails
    <2> QED BY <2>1, FaultLone
  <1>8. CASE UNCHANGED vars
    BY <1>8, LoneStays DEF vars
  <1> QED BY <1>1, <1>2, <1>3, <1>4, <1>5, <1>6, <1>7, <1>8 DEF Next, ThreadStep

(* While one client copies alone and nothing fails, the list holds at most *)
(* the record of its running copy, however many copies it has made.        *)
THEOREM LoneClientCleansUp == Spec => []LoneClientLeavesNoRecord
  <1>1. Init => LoneInv
    <2> SUFFICES ASSUME Init PROVE LoneInv
      OBVIOUS
    <2>1. /\ rpc.pc = "ready" /\ list = <<>> /\ Len(list) = 0
          /\ \A c \in Clients : client[c].pc = "idle" /\ client[c].job = NoJob
      BY DEF Init
    <2> QED BY <2>1 DEF LoneInv, Copying, Active
  <1>2. MemcpyInv /\ LoneInv => LoneClientLeavesNoRecord
    <2> SUFFICES ASSUME LoneInv, faults = {}, NEW c \in Clients, Alone(c)
                 PROVE  Len(list) <= 1
      BY DEF LoneClientLeavesNoRecord, Alone
    <2>1. Len(list) = IF Copying(c) THEN 1 ELSE 0
      BY DEF LoneInv
    <2>2. PICK n : n = Len(list)
      OBVIOUS
    <2>3. n \in {0, 1}
      BY <2>1, <2>2
    <2>4. n <= 1
      BY <2>3
    <2> QED BY <2>2, <2>4
  <1> QED BY <1>1, <1>2, StepLone, MemcpyInvariant, PTL DEF Spec

-----------------------------------------------------------------------------
(* Nobody waits for ever.  What a thread waits for is there, or a thread    *)
(* that brings it can run: a connection is accepted or in the backlog, each *)
(* accepted one has its worker, and what a thread that has ended was to     *)
(* send is in its socket.                                                   *)
Waited(j) ==
    /\ \A t \in AllThreads :
          /\ sender[j][t] = "failed" => <<"connect", j>> \in faults
          /\ sender[j][t] = "connected" => \/ \E m \in 1..Len(peer[j]) : peer[j][m] = t
                                           \/ \E m \in 1..Len(backlog[j]) : backlog[j][m] = t
          /\ sender[j][t] = "done" /\ job[j].dir = "htod" => wire[j][t] # NoData
    /\ \A i \in AllThreads :
          /\ i < Len(peer[j]) => worker[j][i].pc # "none"
          /\ worker[j][i].pc = "done" /\ job[j].dir = "dtoh" => wire[j][peer[j][i + 1]] # NoData

(* The RPC thread is kept by a barrier or a listener only after a failure,  *)
(* and a client that waits for its threads has started them.                *)
RpcAwaits ==
    /\ rpc.pc = "destroying" => Hit({"malloc"})
    /\ rpc.pc \in {"allocating", "barrier"} /\ listener[rpc.job] = "gone" => Hit({"socket"})
ClientsAwait ==
    Reached => \A c \in Clients : client[c].pc = "copying" =>
                   \A t \in Threads(client[c].job) : sender[client[c].job][t] # "none"

WaitInv == RpcAwaits /\ ClientsAwait /\ \A j \in Jobs : Waited(j)

(* Every chunk has a cell, so that what carries one is not an empty socket. *)
LEMMA ChunkIsData ==
  ASSUME MemcpyInv, DataInv, NEW j \in Started, NEW n \in Threads(j), NEW m
  PROVE  [id |-> n, data |-> Read(m, Bounds(j, n))] # NoData
  <1>1. PICK s, k : s = job[j].size /\ k = ThreadNum(s)
    OBVIOUS
  <1>2. s \in Sizes /\ s \in Nat /\ k \in Nat /\ k >= 2 /\ s >= k /\ n \in 0 .. k - 1
    BY <1>1, ThreadsOfSizes DEF DataInv, Asked, Threads
  <1>3. PICK q : q = s \div k
    OBVIOUS
  <1>4. q \in Nat /\ q * k <= s /\ s < (q + 1) * k
    BY <1>2, <1>3, Quotient
  <1>5. q >= 1
    <2> SUFFICES ASSUME q = 0 PROVE FALSE
      BY <1>4
    <2>1. s < 1 * k
      BY <1>4
    <2> QED BY <1>2, <2>1
  <1>6. n * q \in Nat /\ (n = k - 1 => s - n * q >= q)
    <2>1. n * q \in Nat
      BY <1>2, <1>4, Multiples
    <2>2. ASSUME n = k - 1 PROVE s - n * q >= q
      <3>1. (n + 1) * q = n * q + q
        BY <1>2, <1>4
      <3>2. q * k = (n + 1) * q
        BY <1>2, <1>4, <2>2
      <3> QED BY <1>2, <1>4, <2>1, <3>1, <3>2
    <2> QED BY <2>1, <2>2
  <1>7. PICK b : b = Bounds(j, n)
    OBVIOUS
  <1>8. b = [first |-> n * q, len |-> IF n = k - 1 THEN s - n * q ELSE q]
    BY <1>1, <1>3, <1>7 DEF Bounds, ChunkBounds
  <1>9. b.len >= 1 /\ b.len \in Int
    BY <1>2, <1>4, <1>5, <1>6, <1>8
  <1>10. DOMAIN Read(m, b) = 1..b.len /\ 1 \in 1..b.len
    BY <1>9 DEF Read
  <1>11. Read(m, b) # <<>>
    <2>1. DOMAIN <<>> = {}
      OBVIOUS
    <2> QED BY <1>10, <2>1
  <1>12. [id |-> n, data |-> Read(m, b)].data = Read(m, b) /\ NoData.data = <<>>
    BY DEF NoData
  <1> QED BY <1>7, <1>11, <1>12

(* What a step leaves alone.                                               *)
LEMMA WaitedStays ==
  ASSUME NEW j \in Jobs, Waited(j), sender'[j] = sender[j], backlog'[j] = backlog[j],
         peer'[j] = peer[j], worker'[j] = worker[j], wire'[j] = wire[j],
         job'[j].dir = job[j].dir, faults \subseteq faults'
  PROVE  Waited(j)'
  BY DEF Waited

(* A step of the threads of job j leaves those of the others alone.        *)
LEMMA OneWaits ==
  ASSUME \A k \in Jobs : Waited(k), faults \subseteq faults', NEW j \in Jobs, Waited(j)',
         \A k \in Jobs : k # j =>
            /\ sender'[k] = sender[k] /\ backlog'[k] = backlog[k] /\ peer'[k] = peer[k]
            /\ worker'[k] = worker[k] /\ wire'[k] = wire[k] /\ job'[k].dir = job[k].dir
  PROVE  \A k \in Jobs : Waited(k)'
  <1> TAKE k \in Jobs
  <1>1. CASE k = j
    BY <1>1
  <1>2. CASE k # j
    BY <1>2, WaitedStays
  <1> QED BY <1>1, <1>2

LEMMA ClientsStillAwait ==
  ASSUME MemcpyInv, DataInv, ClientsAwait, faults \subseteq faults',
         \A c \in Clients : client'[c].pc = "copying" =>
            client[c].pc = "copying" /\ client'[c].job = client[c].job,
         \A k \in Started : job'[k].size = job[k].size,
         \A k \in Started : \A t \in Threads(k) : sender[k][t] # "none" => sender'[k][t] # "none"
  PROVE  ClientsAwait'
  <1> SUFFICES ASSUME Reached', NEW c \in Clients, client'[c].pc = "copying",
                      NEW t \in 0 .. ThreadNum(job'[client'[c].job].size) - 1
               PROVE  sender'[client'[c].job][t] # "none"
    BY DEF ClientsAwait, Threads
  <1>1. PICK j : j = client[c].job
    OBVIOUS
  <1>2. Reached /\ client[c].pc = "copying" /\ client'[c].job = j
    BY <1>1, ReachedBefore
  <1>3. j \in Started
    BY <1>1, <1>2 DEF MemcpyInv, Indexed, Active
  <1>4. t \in Threads(j)
    <2>1. t \in 0 .. ThreadNum(job'[j].size) - 1
      BY <1>2
    <2> QED BY <1>3, <2>1 DEF Threads
  <1>5. sender[j][t] # "none"
    BY <1>1, <1>2, <1>4 DEF ClientsAwait
  <1> QED BY <1>2, <1>3, <1>4, <1>5

LEMMA RpcStillAwaits ==
  ASSUME RpcAwaits, UNCHANGED <<rpc, listener>>, faults \subseteq faults'
  PROVE  RpcAwaits'
  BY DEF RpcAwaits, Hit

LEMMA ThreadsWait ==
  ASSUME MemcpyInv, DataInv, WaitInv, UNCHANGED <<client, rpc, job, listener>>,
         faults \subseteq faults', NEW j \in Jobs, Waited(j)',
         \A k \in Jobs : k # j =>
            /\ sender'[k] = sender[k] /\ backlog'[k] = backlog[k] /\ peer'[k] = peer[k]
            /\ worker'[k] = worker[k] /\ wire'[k] = wire[k],
         \A t \in AllThreads : sender[j][t] # "none" => sender'[j][t] # "none"
  PROVE  WaitInv'
  <1>1. RpcAwaits'
    BY RpcStillAwaits DEF WaitInv
  <1>2. \A k \in Jobs : Waited(k)'
    BY OneWaits DEF WaitInv
  <1>3. \A k \in Started : \A t \in Threads(k) : sender[k][t] # "none" => sender'[k][t] # "none"
    <2> TAKE k \in Started
    <2>1. k \in Jobs
      BY DEF Started
    <2>2. Threads(k) \subseteq AllThreads
      BY <2>1, JobFacts
    <2> QED BY <2>1, <2>2
  <1>4. ClientsAwait'
    BY <1>3, ClientsStillAwait DEF WaitInv
  <1> QED BY <1>1, <1>2, <1>4 DEF WaitInv

(***************************************************************************)
(* The client's threads.                                                   *)
(***************************************************************************)
LEMMA ConnectFailsWaits ==
  ASSUME MemcpyInv, DataInv, WaitInv, NEW j \in Jobs, NEW t \in AllThreads, ConnectFails(j, t)
  PROVE  WaitInv'
  <1>1. /\ sender[j][t] = "start" /\ sender' = [sender EXCEPT ![j][t] = "failed"]
        /\ UNCHANGED <<client, rpc, list, job, listener, backlog, peer, worker, wire>>
        /\ faults \subseteq faults' /\ <<"connect", j>> \in faults'
    BY FaultsStay DEF ConnectFails, Fault
  <1>2. SenderTo(j, t, "failed")
    BY <1>1, SenderChanges
  <1>3. Waited(j)'
    <2>1. Waited(j)
      BY DEF WaitInv
    <2> QED BY <1>1, <1>2, <2>1 DEF Waited, SenderTo
  <1> QED BY <1>1, <1>2, <1>3, ThreadsWait DEF SenderTo

LEMMA ConnectWaits ==
  ASSUME MemcpyInv, DataInv, WaitInv, NEW c \in Clients, NEW j \in Jobs, NEW t \in AllThreads,
         client[c].job = j, Connect(c, t)
  PROVE  WaitInv'
  <1>0. client[c].port = j
    BY DEF DataInv, Asked
  <1>1. /\ sender[j][t] = "start" /\ sender' = [sender EXCEPT ![j][t] = "connected"]
        /\ backlog' = [backlog EXCEPT ![j] = Append(@, t)]
        /\ UNCHANGED <<client, rpc, list, job, listener, peer, worker, wire, faults>>
    BY <1>0 DEF Connect
  <1>2. SenderTo(j, t, "connected")
    BY <1>1, SenderChanges
  <1>3. backlog'[j] = Append(backlog[j], t) /\ \A k \in Jobs : k # j => backlog'[k] = backlog[k]
    BY <1>1 DEF MemcpyInv, Shapes
  <1>4. /\ Len(backlog[j]) \in Nat /\ Len(backlog'[j]) = Len(backlog[j]) + 1
        /\ backlog'[j][Len(backlog[j]) + 1] = t
        /\ \A m \in 1..Len(backlog[j]) : backlog'[j][m] = backlog[j][m]
    BY <1>3, JobFacts, AppendProperties
  <1>5. /\ Len(backlog[j]) + 1 \in 1..Len(backlog'[j])
        /\ \A m \in 1..Len(backlog[j]) : m \in 1..Len(backlog'[j])
    BY <1>4
  <1>6. \A l \in AllThreads : sender'[j][l] = "connected" =>
           \/ \E m \in 1..Len(peer[j]) : peer[j][m] = l
           \/ \E m \in 1..Len(backlog'[j]) : backlog'[j][m] = l
    <2> SUFFICES ASSUME NEW l \in AllThreads, sender'[j][l] = "connected",
                        \A m \in 1..Len(peer[j]) : peer[j][m] # l
                 PROVE  \E m \in 1..Len(backlog'[j]) : backlog'[j][m] = l
      OBVIOUS
    <2>1. CASE l = t
      BY <1>4, <1>5, <2>1
    <2>2. CASE l # t
      <3>1. sender[j][l] = "connected"
        BY <1>2, <2>2 DEF SenderTo
      <3>2. PICK m \in 1..Len(backlog[j]) : backlog[j][m] = l
        BY <3>1 DEF WaitInv, Waited
      <3> QED BY <1>4, <1>5, <3>2
    <2> QED BY <2>1, <2>2
  <1>7. Waited(j)'
    <2>1. Waited(j)
      BY DEF WaitInv
    <2> QED BY <1>1, <1>2, <1>6, <2>1 DEF Waited, SenderTo
  <1> QED BY <1>1, <1>2, <1>3, <1>7, ThreadsWait DEF SenderTo

LEMMA SendToServerWaits ==
  ASSUME MemcpyInv, DataInv, WaitInv, NEW j \in Jobs, NEW t \in AllThreads, SendToServer(j, t)
  PROVE  WaitInv'
  <1>1. PICK v : v = [id |-> t, data |-> Read(Source(job[j].size), Bounds(j, t))]
    OBVIOUS
  <1>2. /\ sender[j][t] = "connected" /\ sender' = [sender EXCEPT ![j][t] = "done"]
        /\ wire' = [wire EXCEPT ![j][t] = v] /\ job[j].dir = "htod"
        /\ UNCHANGED <<client, rpc, list, job, listener, backlog, peer, worker, faults>>
    BY <1>1 DEF SendToServer
  <1>3. SenderTo(j, t, "done") /\ WireTo(j, t, v)
    BY <1>2, SenderChanges, WireChanges
  <1>4. v # NoData
    <2>1. t \in Threads(j) /\ listener[j] \notin Early
      BY <1>2, JobFacts DEF Moved, Queues
    <2>2. j \in Started
      BY <2>1, JobFacts DEF Early
    <2> QED BY <1>1, <2>1, <2>2, ChunkIsData
  <1>5. Waited(j)'
    <2>1. Waited(j)
      BY DEF WaitInv
    <2>2. \A l \in AllThreads : sender'[j][l] # "connected" \/ sender[j][l] = "connected"
      BY <1>3 DEF SenderTo
    <2>3. \A l \in AllThreads : sender'[j][l] = "done" => wire'[j][l] # NoData
      BY <1>2, <1>3, <1>4, <2>1 DEF Waited, SenderTo, WireTo
    <2>4. \A l \in AllThreads : sender'[j][l] = "failed" => <<"connect", j>> \in faults
      BY <1>3, <2>1 DEF Waited, SenderTo
    <2> QED BY <1>2, <2>1, <2>2, <2>3, <2>4 DEF Waited
  <1> QED BY <1>2, <1>3, <1>5, ThreadsWait DEF SenderTo, WireTo

LEMMA ReceiveFromServerWaits ==
  ASSUME MemcpyInv, DataInv, WaitInv, NEW j \in Jobs, NEW t \in AllThreads, ReceiveFromServer(j, t)
  PROVE  WaitInv'
  <1>1. /\ sender[j][t] = "connected" /\ sender' = [sender EXCEPT ![j][t] = "done"]
        /\ job[j].dir = "dtoh"
        /\ UNCHANGED <<client, rpc, list, job, listener, backlog, peer, worker, wire, faults>>
    BY DEF ReceiveFromServer
  <1>2. SenderTo(j, t, "done")
    BY <1>1, SenderChanges
  <1>3. Waited(j)'
    <2>1. Waited(j)
      BY DEF WaitInv
    <2>2. \A l \in AllThreads : sender'[j][l] # "connected" \/ sender[j][l] = "connected"
      BY <1>2 DEF SenderTo
    <2>3. \A l \in AllThreads : sender'[j][l] = "failed" => <<"connect", j>> \in faults
      BY <1>2, <2>1 DEF Waited, SenderTo
    <2> QED BY <1>1, <2>1, <2>2, <2>3 DEF Waited
  <1> QED BY <1>1, <1>2, <1>3, ThreadsWait DEF SenderTo

(***************************************************************************)
(* The listener's accept, and the workers.                                 *)
(***************************************************************************)
LEMMA AcceptWaits ==
  ASSUME MemcpyInv, DataInv, WaitInv, NEW j \in Jobs, Accept(j)
  PROVE  WaitInv'
  <1>1. PICK h, i : h = Head(backlog[j]) /\ i = Len(peer[j])
    OBVIOUS
  <1>2. /\ listener[j] = "accepting" /\ i < Expected(j) /\ backlog[j] # <<>>
        /\ worker' = [worker EXCEPT ![j][i].pc = "start"]
        /\ peer'[j] = Append(peer[j], h) /\ backlog'[j] = Tail(backlog[j])
        /\ \A k \in Jobs : k # j => peer'[k] = peer[k] /\ backlog'[k] = backlog[k]
        /\ UNCHANGED <<client, rpc, list, job, listener, sender, wire, faults>>
    BY <1>1 DEF Accept, MemcpyInv, Shapes
  <1>3. i \in AllThreads /\ i \in Nat /\ Len(peer[j]) = i
    <2>1. j \in Started /\ i \in Nat
      BY <1>1, <1>2, JobFacts
    <2>2. i \in Threads(j)
      BY <1>2, <2>1, JobFacts DEF Expected, Threads
    <2> QED BY <1>1, <2>1, <2>2, JobFacts
  <1>4. WorkerTo(j, i, "start", worker[j][i].id)
    BY <1>2, <1>3, WorkerMoves DEF MemcpyInv, Shapes
  <1>5. Growing(j) /\ Len(peer'[j]) = i + 1 /\ peer'[j][i + 1] = h
    BY <1>1, <1>2, AcceptQueues
  <1>6. i + 1 \in 1..Len(peer'[j]) /\ \A m \in 1..Len(peer[j]) : m \in 1..Len(peer'[j])
    BY <1>3, <1>5
  <1>7. \A m \in 1..Len(backlog[j]) :
           \/ backlog[j][m] = h
           \/ m - 1 \in 1..Len(backlog'[j]) /\ backlog'[j][m - 1] = backlog[j][m]
    <2>1. PICK s, n : s = backlog[j] /\ n = Len(s)
      OBVIOUS
    <2>2. s \in Seq(AllThreads) /\ s # <<>>
      BY <1>2, <2>1, JobFacts
    <2>3. n \in Nat /\ n >= 1 /\ Len(Tail(s)) = n - 1 /\ h = s[1] /\ \A m \in 1..n-1 : Tail(s)[m] = s[m + 1]
      BY <1>1, <2>1, <2>2, HeadTailProperties
    <2>4. \A m \in 1..n : m = 1 \/ (m - 1 \in 1..n-1 /\ (m - 1) + 1 = m)
      BY <2>3
    <2>5. \A m \in 1..n : s[m] = h \/ (m - 1 \in 1..n-1 /\ Tail(s)[m - 1] = s[m])
      BY <2>3, <2>4
    <2> QED BY <1>2, <2>1, <2>3, <2>5
  <1>8. Waited(j)
    BY DEF WaitInv
  <1>9. \A l \in AllThreads : sender[j][l] = "connected" =>
           \/ \E m \in 1..Len(peer'[j]) : peer'[j][m] = l
           \/ \E m \in 1..Len(backlog'[j]) : backlog'[j][m] = l
    <2> TAKE l \in AllThreads
    <2> HAVE sender[j][l] = "connected"
    <2>1. CASE \E m \in 1..Len(peer[j]) : peer[j][m] = l
      BY <1>5, <1>6, <2>1 DEF Growing
    <2>2. CASE \E m \in 1..Len(backlog[j]) : backlog[j][m] = l
      BY <1>5, <1>6, <1>7, <2>2
    <2> QED BY <1>8, <2>1, <2>2 DEF Waited
  <1>10. \A l \in AllThreads :
            /\ l < Len(peer'[j]) => worker'[j][l].pc # "none"
            /\ worker'[j][l].pc = "done" /\ job[j].dir = "dtoh" => wire[j][peer'[j][l + 1]] # NoData
    <2> TAKE l \in AllThreads
    <2>1. CASE l = i
      BY <1>4, <2>1 DEF WorkerTo
    <2>2. CASE l # i
      <3>1. worker'[j][l] = worker[j][l] /\ l \in Nat
        BY <1>4, <2>2, Ranges DEF WorkerTo
      <3>2. l < Len(peer'[j]) => l < Len(peer[j])
        BY <1>3, <1>5, <2>2, <3>1
      <3>3. worker[j][l].pc = "done" => peer'[j][l + 1] = peer[j][l + 1]
        <4>1. worker[j][l].pc = "done" => l + 1 \in 1..Len(peer[j])
          BY WorkerKnows
        <4> QED BY <1>5, <4>1 DEF Growing
      <3> QED BY <1>8, <3>1, <3>2, <3>3 DEF Waited
    <2> QED BY <2>1, <2>2
  <1>11. Waited(j)'
    BY <1>2, <1>8, <1>9, <1>10 DEF Waited
  <1> QED BY <1>2, <1>4, <1>11, ThreadsWait DEF WorkerTo

(* A worker that goes on leaves its job as it was, or has sent its chunk.  *)
LEMMA WorkersWait ==
  ASSUME MemcpyInv, DataInv, WaitInv, UNCHANGED <<client, rpc, job, listener, backlog, peer, sender>>,
         faults \subseteq faults', NEW j \in Jobs, NEW i \in AllThreads, NEW v, NEW n,
         WorkerTo(j, i, v, n), v # "none", v = "done" /\ job[j].dir = "dtoh" => wire'[j][peer[j][i + 1]] # NoData,
         \A k \in Jobs : k # j => wire'[k] = wire[k],
         \A t \in AllThreads : wire[j][t] # NoData => wire'[j][t] # NoData
  PROVE  WaitInv'
  <1>1. Waited(j)
    BY DEF WaitInv
  <1>2. \A l \in AllThreads : worker[j][l].pc = "done" => peer[j][l + 1] \in AllThreads
    BY WorkerKnows
  <1>3. \A l \in AllThreads :
            /\ l < Len(peer[j]) => worker'[j][l].pc # "none"
            /\ worker'[j][l].pc = "done" /\ job[j].dir = "dtoh" => wire'[j][peer[j][l + 1]] # NoData
    <2> TAKE l \in AllThreads
    <2>1. CASE l = i
      BY <2>1 DEF WorkerTo
    <2>2. CASE l # i
      <3>1. worker'[j][l] = worker[j][l]
        BY <2>2 DEF WorkerTo
      <3> QED BY <1>1, <1>2, <3>1 DEF Waited
    <2> QED BY <2>1, <2>2
  <1>4. \A t \in AllThreads :
          /\ sender[j][t] = "failed" => <<"connect", j>> \in faults'
          /\ sender[j][t] = "done" /\ job[j].dir = "htod" => wire'[j][t] # NoData
    BY <1>1 DEF Waited
  <1>5. Waited(j)'
    BY <1>1, <1>3, <1>4 DEF Waited
  <1> QED BY <1>5, ThreadsWait DEF WorkerTo

LEMMA WorkerStepWaits ==
  ASSUME MemcpyInv, DataInv, WaitInv, NEW j \in Jobs, NEW i \in AllThreads, WorkerStep(j, i)
  PROVE  WaitInv'
  <1>1. CASE ReceiveFromClient(j, i)
    <2>1. PICK n : n = WorkerIndex(wire[j][peer[j][i + 1]], i)
      OBVIOUS
    <2>2. /\ worker' = [worker EXCEPT ![j][i] = [pc |-> "copy", id |-> n]]
          /\ UNCHANGED <<client, rpc, job, listener, backlog, peer, sender, wire, faults>>
      BY <1>1, <2>1 DEF ReceiveFromClient
    <2>3. WorkerTo(j, i, "copy", n)
      BY <2>2, WorkerIsSet DEF MemcpyInv, Shapes
    <2> QED BY <2>2, <2>3, WorkersWait
  <1>2. CASE CopyToDevice(j, i)
    <2>1. /\ worker' = [worker EXCEPT ![j][i].pc = "done"] /\ worker[j][i].pc = "copy"
          /\ UNCHANGED <<client, rpc, job, listener, backlog, peer, sender, wire>>
          /\ faults \subseteq faults'
      BY <1>2, FaultsStay DEF CopyToDevice
    <2>2. WorkerTo(j, i, "done", worker[j][i].id)
      BY <2>1, WorkerMoves DEF MemcpyInv, Shapes
    <2>3. job[j].dir = "htod"
      <3>1. Worked(j, i)
        BY JobFacts DEF Moved
      <3> QED BY <2>1, <3>1 DEF Worked
    <2> QED BY <2>1, <2>2, <2>3, WorkersWait
  <1>3. CASE CopyFromDevice(j, i)
    <2>1. PICK v : /\ v \in {"send", "failed"} /\ worker' = [worker EXCEPT ![j][i].pc = v]
                   /\ faults \subseteq faults'
      BY <1>3, FaultsStay DEF CopyFromDevice
    <2>2. UNCHANGED <<client, rpc, job, listener, backlog, peer, sender, wire>>
      BY <1>3 DEF CopyFromDevice
    <2>3. WorkerTo(j, i, v, worker[j][i].id)
      BY <2>1, WorkerMoves DEF MemcpyInv, Shapes
    <2> QED BY <2>1, <2>2, <2>3, WorkersWait
  <1>4. CASE SendToClient(j, i)
    <2>1. PICK id, t, v : /\ id = worker[j][i].id /\ t = peer[j][i + 1]
                          /\ v = [id |-> id, data |-> Read(staging[j], Bounds(j, id))]
      OBVIOUS
    <2>2. /\ worker[j][i].pc = "send" /\ worker' = [worker EXCEPT ![j][i].pc = "done"]
          /\ wire' = [wire EXCEPT ![j][t] = v]
          /\ UNCHANGED <<client, rpc, job, listener, backlog, peer, sender, faults>>
      BY <1>4, <2>1 DEF SendToClient
    <2>3. j \in Started /\ id \in Threads(j) /\ t \in AllThreads
      BY <2>1, <2>2, WorkerKnows
    <2>4. v # NoData
      BY <2>1, <2>3, ChunkIsData
    <2>5. WorkerTo(j, i, "done", id) /\ WireTo(j, t, v)
      BY <2>1, <2>2, WorkerMoves, WireChanges DEF MemcpyInv, Shapes
    <2>6. /\ wire'[j][peer[j][i + 1]] # NoData /\ \A k \in Jobs : k # j => wire'[k] = wire[k]
          /\ \A l \in AllThreads : wire[j][l] # NoData => wire'[j][l] # NoData
      BY <2>1, <2>3, <2>4, <2>5 DEF WireTo
    <2> QED BY <2>2, <2>5, <2>6, WorkersWait
  <1> QED BY <1>1, <1>2, <1>3, <1>4 DEF WorkerStep

(***************************************************************************)
(* The listener, the client's calling thread and the RPC thread.           *)
(***************************************************************************)
LEMMA OthersWait ==
  ASSUME MemcpyInv, DataInv, WaitInv, UNCHANGED threads, faults \subseteq faults',
         \A k \in Jobs : job'[k].size = job[k].size /\ job'[k].dir = job[k].dir,
         \A c \in Clients : client'[c].pc = "copying" =>
            client[c].pc = "copying" /\ client'[c].job = client[c].job
  PROVE  ClientsAwait' /\ \A k \in Jobs : Waited(k)'
  <1>1. \A k \in Jobs : Waited(k)'
    BY WaitedStays DEF WaitInv, threads
  <1>2. Started \subseteq Jobs
    BY DEF Started
  <1>3. ClientsAwait'
    BY <1>2, ClientsStillAwait DEF WaitInv, threads
  <1> QED BY <1>1, <1>3

LEMMA ListenerWaits ==
  ASSUME MemcpyInv, DataInv, WaitInv, NEW j \in Jobs,
         OpenSocket(j) \/ OpenSocketFails(j) \/ ListenerFails(j) \/ JoinWorkers(j)
  PROVE  WaitInv'
  <1>1. /\ UNCHANGED <<client, rpc, threads>> /\ faults \subseteq faults'
        /\ \A k \in Jobs : k # j => listener'[k] = listener[k]
        /\ listener[j] \in {"opening", "accepting"}
    BY FaultsStay DEF OpenSocket, OpenSocketFails, ListenerFails, JoinWorkers, MemcpyInv, Shapes
  <1>2. j \in Started
    BY <1>1, JobFacts
  <1>3. \A k \in Jobs : job'[k].size = job[k].size /\ job'[k].dir = job[k].dir
    <2>1. CASE OpenSocket(j) \/ JoinWorkers(j)
      <3>1. job' = [job EXCEPT ![j].mem = "freed"] \/ job' = [job EXCEPT ![j].port = j]
        BY <2>1 DEF OpenSocket, JoinWorkers
      <3> QED BY <1>2, <3>1, FieldChanges
    <2>2. CASE OpenSocketFails(j) \/ ListenerFails(j)
      BY <2>2 DEF OpenSocketFails, ListenerFails
    <2> QED BY <2>1, <2>2
  <1>4. listener'[j] = "gone" /\ rpc.job = j /\ rpc.pc \in {"allocating", "barrier"} => Hit({"socket"})'
    <2>1. CASE OpenSocket(j) \/ JoinWorkers(j)
      BY <2>1 DEF OpenSocket, JoinWorkers, MemcpyInv, Shapes
    <2>2. CASE OpenSocketFails(j)
      <3>1. <<"socket", j>> \in faults' /\ <<"socket", j>>[1] = "socket"
        BY <2>2 DEF OpenSocketFails, Fault
      <3> QED BY <3>1 DEF Hit
    <2>3. CASE ListenerFails(j)
      BY <2>3 DEF ListenerFails, MemcpyInv, Meeting
    <2> QED BY <2>1, <2>2, <2>3
  <1>5. RpcAwaits'
    <2>1. rpc.pc \in {"allocating", "barrier"} => rpc.job \in Jobs
      BY DEF MemcpyInv, Serving, Started
    <2>2. rpc.pc = "destroying" => Hit({"malloc"})'
      BY <1>1 DEF WaitInv, RpcAwaits, Hit
    <2>3. ASSUME rpc.pc \in {"allocating", "barrier"}, listener'[rpc.job] = "gone"
          PROVE  Hit({"socket"})'
      <3>1. CASE rpc.job = j
        BY <1>4, <2>3, <3>1
      <3>2. CASE rpc.job # j
        BY <1>1, <2>1, <2>3, <3>2 DEF WaitInv, RpcAwaits, Hit
      <3> QED BY <3>1, <3>2
    <2> QED BY <1>1, <2>2, <2>3 DEF RpcAwaits
  <1> QED BY <1>1, <1>3, <1>5, OthersWait DEF WaitInv

LEMMA AllocateWaits ==
  ASSUME MemcpyInv, DataInv, WaitInv, Allocate
  PROVE  WaitInv'
  <1>1. PICK j : j = rpc.job
    OBVIOUS
  <1>2. /\ UNCHANGED <<client, list, listener, threads, faults>> /\ rpc.pc = "allocating"
        /\ job' = [job EXCEPT ![j].mem = "held"]
        /\ rpc'.pc = "barrier" /\ rpc'.job = j
    BY <1>1 DEF Allocate, MemcpyInv, Shapes
  <1>3. j \in Started
    BY <1>1, <1>2 DEF MemcpyInv, Serving
  <1>4. \A k \in Jobs : job'[k].size = job[k].size /\ job'[k].dir = job[k].dir
    BY <1>2, <1>3, FieldChanges
  <1>5. RpcAwaits'
    BY <1>1, <1>2 DEF WaitInv, RpcAwaits, Hit
  <1> QED BY <1>2, <1>4, <1>5, OthersWait DEF WaitInv

LEMMA AllocateFailsWaits ==
  ASSUME MemcpyInv, DataInv, WaitInv, AllocateFails
  PROVE  WaitInv'
  <1>1. /\ UNCHANGED <<list, job, listener, threads>> /\ faults \subseteq faults'
        /\ rpc'.pc \in {"destroying", "ready"}
    BY FaultsStay DEF AllocateFails, MemcpyInv, Shapes
  <1>2. Hit({"malloc"})'
    <2>1. <<"malloc", rpc.job>> \in faults' /\ <<"malloc", rpc.job>>[1] = "malloc"
      BY DEF AllocateFails, Fault
    <2> QED BY <2>1 DEF Hit
  <1>3. RpcAwaits' /\ ClientsAwait'
    BY <1>1, <1>2 DEF RpcAwaits, ClientsAwait, Reached
  <1>4. \A k \in Jobs : Waited(k)'
    BY <1>1, WaitedStays DEF WaitInv, threads
  <1> QED BY <1>3, <1>4 DEF WaitInv

LEMMA ServeSyncWaits ==
  ASSUME MemcpyInv, DataInv, WaitInv, NEW c \in Clients, ServeSync(c)
  PROVE  WaitInv'
  <1>1. /\ UNCHANGED <<list, job, listener, threads, faults>> /\ rpc.pc = "ready"
        /\ rpc'.pc \in {"joining", "ready"}
    BY DEF ServeSync
  <1>2. \A d \in Clients : client'[d].pc = "copying" =>
            client[d].pc = "copying" /\ client'[d].job = client[d].job
    <2>1. CASE UNCHANGED client
      BY <2>1
    <2>2. CASE client' = [client EXCEPT ![c].pc = "idle", ![c].ret = 1]
      BY <2>2 DEF MemcpyInv, Shapes, ClientRec
    <2> QED BY <2>1, <2>2 DEF ServeSync
  <1>3. RpcAwaits'
    BY <1>1 DEF RpcAwaits
  <1> QED BY <1>1, <1>2, <1>3, OthersWait DEF WaitInv

LEMMA JoinListenerWaits ==
  ASSUME MemcpyInv, DataInv, WaitInv, JoinListener
  PROVE  WaitInv'
  <1>1. PICK c, n : c = rpc.client /\ n = IF listener[rpc.job] = "done" THEN 0 ELSE 1
    OBVIOUS
  <1>2. /\ UNCHANGED <<job, listener, threads, faults>> /\ rpc'.pc = "ready" /\ c \in Clients
        /\ client' = [client EXCEPT ![c].pc = "idle", ![c].ret = n]
    BY <1>1 DEF JoinListener, MemcpyInv, Shapes
  <1>3. \A d \in Clients : client'[d].pc = "copying" =>
            client[d].pc = "copying" /\ client'[d].job = client[d].job
    BY <1>2 DEF MemcpyInv, Shapes, ClientRec
  <1>4. RpcAwaits'
    BY <1>2 DEF RpcAwaits
  <1> QED BY <1>2, <1>3, <1>4, OthersWait DEF WaitInv

LEMMA ClientStepWaits ==
  ASSUME MemcpyInv, DataInv, WaitInv, NEW c \in Clients,
         JoinThreads(c) \/ \E size \in Sizes, dir \in Directions : AskCopy(c, size, dir)
  PROVE  WaitInv'
  <1>1. UNCHANGED <<rpc, job, listener, threads, faults>>
    BY DEF JoinThreads, AskCopy
  <1>2. \A d \in Clients : client'[d].pc = "copying" =>
            client[d].pc = "copying" /\ client'[d].job = client[d].job
    <2>1. CASE JoinThreads(c)
      BY <2>1 DEF JoinThreads, MemcpyInv, Shapes, ClientRec
    <2>2. CASE \E size \in Sizes, dir \in Directions : AskCopy(c, size, dir)
      <3>1. PICK size \in Sizes, dir \in Directions : AskCopy(c, size, dir)
        BY <2>2
      <3>2. /\ client'[c] = [client[c] EXCEPT !.pc = "asked", !.size = size, !.dir = dir]
            /\ client[c] \in ClientRec /\ \A d \in Clients : d # c => client'[d] = client[d]
        BY <3>1 DEF AskCopy, MemcpyInv, Shapes
      <3>3. client'[c].pc = "asked"
        BY <3>2 DEF ClientRec
      <3> QED BY <3>2, <3>3
    <2> QED BY <2>1, <2>2
  <1>3. RpcAwaits'
    BY <1>1, RpcStillAwaits DEF WaitInv
  <1> QED BY <1>1, <1>2, <1>3, OthersWait DEF WaitInv

LEMMA ServeCopyWaits ==
  ASSUME MemcpyInv, DataInv, WaitInv, NEW c \in Clients, ServeCopy(c)
  PROVE  WaitInv'
  <1>1. PICK j : j = Cardinality(Started) + 1
    OBVIOUS
  <1>2. /\ UNCHANGED <<client, backlog, peer, worker, sender, wire, faults>>
        /\ rpc'.pc = "allocating" /\ rpc'.job = j /\ listener'[j] = "opening"
        /\ \A k \in Jobs : k # j => job'[k] = job[k]
        /\ j \in Jobs /\ j \notin Started
    <2>1. j \in Jobs /\ j \notin Started
      BY <1>1, NextJob DEF ServeCopy
    <2> QED BY <1>1, <2>1 DEF ServeCopy, MemcpyInv, Shapes
  <1>3. Waited(j)'
    <2>1. /\ Len(peer[j]) = 0
          /\ \A t \in AllThreads : sender[j][t] = "none" /\ worker[j][t].pc = "none" /\ t \in Nat
      BY <1>2, UnusedIsEmpty, Ranges
    <2>2. \A t \in AllThreads : ~(t < Len(peer[j]))
      BY <2>1
    <2> QED BY <1>2, <2>1, <2>2 DEF Waited
  <1>4. \A k \in Jobs : Waited(k)'
    BY <1>2, <1>3, OneWaits DEF WaitInv
  <1>5. RpcAwaits'
    BY <1>2 DEF RpcAwaits
  <1>6. \A k \in Started : job'[k].size = job[k].size
    BY <1>2 DEF Started
  <1>7. ClientsAwait'
    BY <1>2, <1>6, ClientsStillAwait DEF WaitInv
  <1> QED BY <1>4, <1>5, <1>7 DEF WaitInv

(* The threads of one client start, or are forgotten; its copy is nobody   *)
(* else's.                                                                 *)
LEMMA SendersWait ==
  ASSUME MemcpyInv, DataInv, WaitInv, UNCHANGED <<job, backlog, peer, worker, wire>>,
         faults \subseteq faults', NEW j \in Jobs, \A k \in Jobs : k # j => sender'[k] = sender[k],
         \A t \in AllThreads : sender'[j][t] \in {"none", "start"},
         (rpc'.pc = rpc.pc /\ rpc'.job = rpc.job) \/ rpc'.pc = "ready",
         \A k \in Jobs : listener'[k] = "gone" => listener[k] = "gone",
         NEW c \in Clients, \A d \in Clients : d # c => client'[d] = client[d],
         Reached' => /\ \A d \in Clients : d # c /\ client[d].pc = "copying" => client[d].job # j
                     /\ client'[c].pc = "copying" =>
                           client'[c].job = j /\ \A t \in Threads(j) : sender'[j][t] # "none"
  PROVE  WaitInv'
  <1>1. Waited(j)'
    <2>1. Waited(j)
      BY DEF WaitInv
    <2> QED BY <2>1 DEF Waited
  <1>2. \A k \in Jobs : Waited(k)'
    BY <1>1, OneWaits DEF WaitInv
  <1>3. RpcAwaits'
    <2>1. rpc.pc \in {"allocating", "barrier"} => rpc.job \in Jobs
      BY DEF MemcpyInv, Serving, Started
    <2> QED BY <2>1 DEF WaitInv, RpcAwaits, Hit
  <1>4. ClientsAwait'
    <2> SUFFICES ASSUME Reached', NEW d \in Clients, client'[d].pc = "copying",
                        NEW t \in 0 .. ThreadNum(job[client'[d].job].size) - 1
                 PROVE  sender'[client'[d].job][t] # "none"
      BY DEF ClientsAwait, Threads
    <2>1. CASE d = c
      <3>1. client'[d].job = j
        BY <2>1
      <3>2. t \in Threads(j)
        BY <3>1 DEF Threads
      <3> QED BY <2>1, <3>1, <3>2
    <2>2. CASE d # c
      <3>1. client[d].pc = "copying" /\ client'[d].job = client[d].job /\ client[d].job # j /\ Reached
        BY <2>2, ReachedBefore
      <3>2. client[d].job \in Started /\ client[d].job \in Jobs
        BY <3>1 DEF MemcpyInv, Indexed, Active, Started
      <3>3. t \in Threads(client[d].job)
        BY <3>1 DEF Threads
      <3>4. sender[client[d].job][t] # "none"
        BY <3>1, <3>3 DEF WaitInv, ClientsAwait
      <3> QED BY <3>1, <3>2, <3>4
    <2> QED BY <2>1, <2>2
  <1> QED BY <1>2, <1>3, <1>4 DEF WaitInv

LEMMA CreateThreadsFailsWaits ==
  ASSUME MemcpyInv, DataInv, WaitInv, NEW c \in Clients, CreateThreadsFails(c)
  PROVE  WaitInv'
  <1>1. PICK j : j = client[c].job
    OBVIOUS
  <1>2. /\ UNCHANGED <<rpc, job, listener, backlog, peer, worker, wire>>
        /\ faults \subseteq faults' /\ client[c].pc = "copying"
        /\ sender' = [sender EXCEPT ![j] = [t \in AllThreads |-> "none"]]
        /\ client' = [client EXCEPT ![c].pc = "idle", ![c].ret = 1]
    BY <1>1, FaultsStay DEF CreateThreadsFails
  <1>3. j \in Jobs
    BY <1>1 DEF CreateThreadsFails, DataInv, Asked, Started
  <1>4. sender'[j] = [t \in AllThreads |-> "none"] /\ \A k \in Jobs : k # j => sender'[k] = sender[k]
    BY <1>2, <1>3 DEF DataInv, Tables, Table
  <1>5. client'[c].pc = "idle" /\ \A d \in Clients : d # c => client'[d] = client[d]
    BY <1>2 DEF MemcpyInv, Shapes, ClientRec
  <1>6. Reached' => \A d \in Clients : d # c /\ client[d].pc = "copying" => client[d].job # j
    <2>1. Reached' => Reached
      BY <1>2, ReachedBefore
    <2> QED BY <1>1, <1>2, <2>1 DEF MemcpyInv, Indexed, Active
  <1>7. \A t \in AllThreads : sender'[j][t] \in {"none", "start"}
    BY <1>4
  <1>8. Reached' => /\ \A d \in Clients : d # c /\ client[d].pc = "copying" => client[d].job # j
                    /\ client'[c].pc = "copying" =>
                          client'[c].job = j /\ \A t \in Threads(j) : sender'[j][t] # "none"
    BY <1>5, <1>6
  <1>9. /\ UNCHANGED <<job, backlog, peer, worker, wire>> /\ faults \subseteq faults'
        /\ rpc'.pc = rpc.pc /\ rpc'.job = rpc.job
        /\ \A k \in Jobs : listener'[k] = "gone" => listener[k] = "gone"
        /\ \A k \in Jobs : k # j => sender'[k] = sender[k]
        /\ \A d \in Clients : d # c => client'[d] = client[d]
    BY <1>2, <1>4, <1>5
  <1> QED BY <1>3, <1>7, <1>8, <1>9, SendersWait

LEMMA PassBarrierWaits ==
  ASSUME MemcpyInv, DataInv, WaitInv, PassBarrier
  PROVE  WaitInv'
  <1>1. PICK j, c : j = rpc.job /\ c = rpc.client
    OBVIOUS
  <1>2. /\ UNCHANGED <<list, job, backlog, peer, worker, wire, faults>>
        /\ rpc.pc = "barrier" /\ listener[j] = "barrier" /\ rpc'.pc = "ready"
        /\ sender' = [sender EXCEPT ![j] = [t \in AllThreads |-> IF t \in Threads(j) THEN "start" ELSE "none"]]
    BY <1>1 DEF PassBarrier, BarrierIsFull, MemcpyInv, Shapes
  <1>3. j \in Started /\ j \in Jobs /\ c \in Clients /\ client[c] \in ClientRec
    BY <1>1, <1>2 DEF MemcpyInv, Serving, Shapes, Started
  <1>4. listener'[j] = "accepting" /\ \A k \in Jobs : k # j => listener'[k] = listener[k]
    BY <1>1, <1>2, <1>3 DEF PassBarrier, MemcpyInv, Shapes
  <1>5. /\ sender'[j] = [t \in AllThreads |-> IF t \in Threads(j) THEN "start" ELSE "none"]
        /\ \A k \in Jobs : k # j => sender'[k] = sender[k]
    BY <1>2, <1>3 DEF DataInv, Tables, Table
  <1>6. /\ client'[c] = [client[c] EXCEPT !.pc = "copying", !.id = Len(list) - 1, !.job = j, !.port = job[j].port]
        /\ \A d \in Clients : d # c => client'[d] = client[d]
    BY <1>1, <1>3 DEF PassBarrier, MemcpyInv, Shapes
  <1>7. client'[c].job = j
    BY <1>3, <1>6 DEF ClientRec
  <1>8. \A t \in Threads(j) : sender'[j][t] # "none"
    BY <1>3, <1>5, JobFacts
  <1>9. Reached' => \A d \in Clients : client[d].pc = "copying" => client[d].job # j
    <2>1. Reached' => Reached
      BY <1>2, ReachedBefore
    <2> QED BY <1>1, <1>2, <2>1 DEF MemcpyInv, Indexed, Active
  <1>10. \A k \in Jobs : listener'[k] = "gone" => listener[k] = "gone"
    BY <1>4
  <1>11. \A t \in AllThreads : sender'[j][t] \in {"none", "start"}
    BY <1>5
  <1>12. Reached' => /\ \A d \in Clients : d # c /\ client[d].pc = "copying" => client[d].job # j
                     /\ client'[c].pc = "copying" =>
                           client'[c].job = j /\ \A t \in Threads(j) : sender'[j][t] # "none"
    BY <1>7, <1>8, <1>9
  <1> QED BY <1>2, <1>3, <1>5, <1>6, <1>10, <1>11, <1>12, SendersWait

LEMMA InitWaits ==
  ASSUME Init, Clients # {}
  PROVE  WaitInv
  <1> USE Ranges DEF Init
  <1>1. \A j \in Jobs : peer[j] = <<>> /\ Len(peer[j]) = 0
    OBVIOUS
  <1>2. \A j \in Jobs, t \in AllThreads : sender[j][t] = "none" /\ worker[j][t] = [pc |-> "none", id |-> t]
    OBVIOUS
  <1>3. \A j \in Jobs, t \in AllThreads : worker[j][t].pc = "none" /\ ~(t < Len(peer[j]))
    BY <1>1, <1>2
  <1>4. \A j \in Jobs : Waited(j)
    BY <1>2, <1>3 DEF Waited
  <1>5. RpcAwaits
    BY DEF RpcAwaits
  <1>6. ClientsAwait
    <2>1. \A c \in Clients : client[c].pc = "idle"
      OBVIOUS
    <2> QED BY <2>1 DEF ClientsAwait
  <1> QED BY <1>4, <1>5, <1>6 DEF WaitInv

LEMMA StepWaits ==
  ASSUME MemcpyInv, DataInv, WaitInv, [Next]_vars
  PROVE  WaitInv'
  <1>1. CASE \E c \in Clients, size \in Sizes, dir \in Directions : AskCopy(c, size, dir)
    BY <1>1, ClientStepWaits
  <1>2. CASE RpcStep
    BY <1>2, AllocateWaits, PassBarrierWaits, JoinListenerWaits, ServeCopyWaits, ServeSyncWaits
    DEF RpcStep
  <1>3. CASE \E c \in Clients : JoinThreads(c)
    BY <1>3, ClientStepWaits
  <1>4. CASE \E j \in Jobs : ListenerStep(j)
    BY <1>4, ListenerWaits, AcceptWaits DEF ListenerStep
  <1>5. CASE \E j \in Jobs, t \in AllThreads : SenderStep(j, t)
    BY <1>5, ConnectWaits, SendToServerWaits, ReceiveFromServerWaits DEF SenderStep
  <1>6. CASE \E j \in Jobs, t \in AllThreads : WorkerStep(j, t)
    BY <1>6, WorkerStepWaits
  <1>7. CASE AllocateFails
    BY <1>7, AllocateFailsWaits
  <1>8. CASE \E c \in Clients : CreateThreadsFails(c)
    BY <1>8, CreateThreadsFailsWaits
  <1>9. CASE \E j \in Jobs : OpenSocketFails(j) \/ ListenerFails(j)
    BY <1>9, ListenerWaits
  <1>10. CASE \E j \in Jobs, t \in AllThreads : ConnectFails(j, t)
    BY <1>10, ConnectFailsWaits
  <1>11. CASE UNCHANGED vars
    <2>1. \A k \in Jobs : Waited(k)'
      BY <1>11, WaitedStays DEF WaitInv, vars, threads
    <2>2. RpcAwaits'
      BY <1>11, RpcStillAwaits DEF WaitInv, vars
    <2>3. ClientsAwait'
      BY <1>11, ClientsStillAwait DEF WaitInv, vars, threads
    <2> QED BY <2>1, <2>2, <2>3 DEF WaitInv
  <1> QED
    BY <1>1, <1>2, <1>3, <1>4, <1>5, <1>6, <1>7, <1>8, <1>9, <1>10, <1>11
    DEF Next, ThreadStep, FaultStep

(* What each thread waits for is there: the guards of the disjuncts of     *)
(* ThreadStep, so that one of them can be taken.                           *)
RpcCanStep ==
    \/ rpc.pc = "allocating"
    \/ rpc.pc = "barrier" /\ BarrierIsFull(rpc.job)
    \/ rpc.pc = "joining" /\ listener[rpc.job] \in {"done", "gone"}
    \/ rpc.pc = "ready" /\ \E c \in Clients : \/ client[c].pc = "asked" /\ Started # Jobs
                                                 /\ Len(list) < FirstBlock
                                              \/ client[c].pc = "asksync"
ClientCanStep(c) ==
    /\ client[c].pc = "copying"
    /\ client[c].job # NoJob => SendersEnded(client[c].job)
ListenerCanStep(j) ==
    \/ listener[j] = "opening"
    \/ listener[j] = "accepting" /\ Len(peer[j]) < Expected(j) /\ backlog[j] # <<>>
    \/ listener[j] = "accepting" /\ WorkersEnded(j)
Arrived(j, m) == m # NoData /\ Len(m.data) >= Bounds(j, m.id).len
SenderCanStep(j, t) ==
    \/ sender[j][t] = "start" /\ \E c \in Clients : client[c].job = j /\ client[c].port # NoJob
    \/ sender[j][t] = "connected" /\ job[j].dir = "htod" /\ t \in Range(peer[j])
    \/ sender[j][t] = "connected" /\ job[j].dir = "dtoh" /\ Arrived(j, wire[j][t])
WorkerCanStep(j, i) ==
    \/ worker[j][i].pc \in {"copy", "send"}
    \/ worker[j][i].pc = "start" /\ job[j].dir = "htod" /\ Arrived(j, wire[j][peer[j][i + 1]])
    \/ worker[j][i].pc = "start" /\ job[j].dir = "dtoh"
CanStep ==
    \/ RpcCanStep
    \/ \E c \in Clients : ClientCanStep(c)
    \/ \E j \in Jobs : ListenerCanStep(j)
    \/ \E j \in Jobs, t \in AllThreads : SenderCanStep(j, t) \/ WorkerCanStep(j, t)

NeverStuck ==
    /\ rpc.pc # "ready" /\ ~Hit({"malloc", "socket", "connect"}) => CanStep
    /\ (\E c \in Clients : client[c].pc \in {"copying", "asksync"}) /\ faults = {} => CanStep

(* What a socket carries is whole.                                         *)
LEMMA WireArrives ==
  ASSUME MemcpyInv, DataInv, NEW j \in Started, NEW t \in AllThreads, wire[j][t] # NoData
  PROVE  Arrived(j, wire[j][t])
  <1>1. j \in Jobs
    BY DEF Started
  <1>2. PICK n, b, f : n = wire[j][t].id /\ b = Bounds(j, n) /\ f = Source(job[j].size)
    OBVIOUS
  <1>3. n \in Threads(j) /\ wire[j][t].data = Read(f, b)
    BY <1>1, <1>2, JobFacts DEF Moved, Wired
  <1>4. b.len \in Nat
    BY <1>1, <1>2, <1>3, JobFacts DEF Chunk
  <1>5. Len(Read(f, b)) = b.len
    <2>1. PICK g, r, l : g = [k \in 1..b.len |-> f[b.first + k - 1]] /\ r = Read(f, b) /\ l = b.len
      OBVIOUS
    <2>2. r = [k \in 1..l |-> g[k]] /\ l \in Nat
      BY <1>4, <2>1 DEF Read
    <2> QED BY <2>1, <2>2
  <1> QED BY <1>2, <1>3, <1>4, <1>5 DEF Arrived

(* Each thread is accepted at most once, so a thread that is not leaves a  *)
(* place, and when all are every place is taken.                           *)
LEMMA PlacesOfThreads ==
  ASSUME MemcpyInv, DataInv, NEW j \in Started
  PROVE  /\ Len(peer[j]) \in Nat /\ Expected(j) \in Nat
         /\ \A t \in Threads(j) : (\A m \in 1..Len(peer[j]) : peer[j][m] # t)
               => Len(peer[j]) < Expected(j)
         /\ (\A t \in Threads(j) : \E m \in 1..Len(peer[j]) : peer[j][m] = t)
               => Len(peer[j]) = Expected(j)
  <1>1. j \in Jobs
    BY DEF Started
  <1>2. PICK n, k, f : n = Len(peer[j]) /\ k = Expected(j) /\ f = [m \in 1..n |-> peer[j][m]]
    OBVIOUS
  <1>3. n \in Nat /\ k \in Nat /\ n <= k /\ Threads(j) = 0..k-1
    BY <1>1, <1>2, JobFacts DEF Moved, Listened, Expected, Threads
  <1>4. \A m \in 1..n : peer[j][m] \in Threads(j)
    BY <1>1, <1>2, JobFacts DEF Moved, Queues
  <1>5. /\ IsFiniteSet(1..n) /\ Cardinality(1..n) = n
        /\ IsFiniteSet(Threads(j)) /\ Cardinality(Threads(j)) = k
    <2>1. IsFiniteSet(1..n) /\ Cardinality(1..n) = IF 1 > n THEN 0 ELSE n - 1 + 1
      BY <1>3, FS_Interval
    <2>2. IsFiniteSet(0..k-1) /\ Cardinality(0..k-1) = IF 0 > k - 1 THEN 0 ELSE k - 1 - 0 + 1
      BY <1>3, FS_Interval
    <2> QED BY <1>3, <2>1, <2>2
  <1>6. ASSUME NEW t \in Threads(j), \A m \in 1..n : peer[j][m] # t
        PROVE  n < k
    <2>1. PICK T : T = Threads(j) \ {t}
      OBVIOUS
    <2>2. IsFiniteSet(T) /\ Cardinality(T) = k - 1
      BY <1>5, <1>6, <2>1, FS_RemoveElement
    <2>3. f \in [1..n -> T]
      BY <1>2, <1>4, <1>6, <2>1
    <2>4. SUFFICES ASSUME k - 1 < n PROVE FALSE
      BY <1>3
    <2>5. \E x, y \in 1..n : x # y /\ f[x] = f[y]
      BY <1>5, <2>2, <2>3, <2>4, FS_PigeonHole
    <2>6. PICK x \in 1..n, y \in 1..n : x # y /\ f[x] = f[y]
      BY <2>5
    <2>7. Once(peer[j])
      BY <1>1, JobFacts DEF Moved, Queues
    <2> QED BY <1>2, <2>6, <2>7 DEF Once
  <1>7. ASSUME \A t \in Threads(j) : \E m \in 1..n : peer[j][m] = t
        PROVE  n = k
    <2>1. f \in Surjection(1..n, Threads(j))
      BY <1>2, <1>4, <1>7 DEF Surjection
    <2>2. Cardinality(Threads(j)) <= Cardinality(1..n)
      BY <1>5, <2>1, FS_Surjection
    <2> QED BY <1>3, <1>5, <2>2
  <1> QED BY <1>2, <1>3, <1>6, <1>7

(* A worker that has not ended can go on when its chunk has been sent.     *)
LEMMA WorkerGoesOn ==
  ASSUME MemcpyInv, DataInv, NEW j \in Jobs, NEW i \in AllThreads, Running(j, i),
         job[j].dir = "htod" => wire[j][peer[j][i + 1]] # NoData
  PROVE  CanStep
  <1>1. worker[j][i].pc \in {"start", "copy", "send"} /\ job[j].dir \in Directions
    BY JobFacts DEF Running
  <1>2. CASE worker[j][i].pc \in {"copy", "send"} \/ job[j].dir = "dtoh"
    BY <1>1, <1>2 DEF CanStep, WorkerCanStep
  <1>3. CASE worker[j][i].pc = "start" /\ job[j].dir = "htod"
    <2>1. j \in Started /\ peer[j][i + 1] \in AllThreads
      BY <1>1, WorkerKnows
    <2>2. Arrived(j, wire[j][peer[j][i + 1]])
      BY <1>3, <2>1, WireArrives
    <2> QED BY <1>3, <2>2 DEF CanStep, WorkerCanStep
  <1> QED BY <1>1, <1>2, <1>3 DEF Directions

(* When the threads of a client have done their part the listener accepts  *)
(* no more, and it or one of its workers can run.                          *)
LEMMA ListenerGoesOn ==
  ASSUME MemcpyInv, DataInv, WaitInv, NEW j \in Started, listener[j] = "accepting",
         \A t \in Threads(j) : sender[j][t] = "done"
  PROVE  CanStep
  <1>1. j \in Jobs /\ Moved(j) /\ Waited(j) /\ Threads(j) \subseteq AllThreads
    BY JobFacts DEF Started, WaitInv
  <1>2. \A t \in Threads(j) : \E m \in 1..Len(peer[j]) : peer[j][m] = t
    BY <1>1 DEF Moved, Queues
  <1>3. Len(peer[j]) = Expected(j) /\ Expected(j) \in Nat
    BY <1>2, PlacesOfThreads
  <1>4. Threads(j) = 0 .. Expected(j) - 1
    BY DEF Threads, Expected
  <1>5. CASE \A i \in 0 .. Expected(j) - 1 : worker[j][i].pc \in {"done", "failed"}
    BY <1>1, <1>3, <1>5 DEF CanStep, ListenerCanStep, WorkersEnded
  <1>6. CASE \E i \in 0 .. Expected(j) - 1 : worker[j][i].pc \notin {"done", "failed"}
    <2>1. PICK i \in 0 .. Expected(j) - 1 : worker[j][i].pc \notin {"done", "failed"}
      BY <1>6
    <2>2. i \in AllThreads /\ i < Len(peer[j])
      BY <1>1, <1>3, <1>4
    <2>3. worker[j][i].pc # "none"
      BY <1>1, <2>2 DEF Waited
    <2>4. Running(j, i)
      <3>1. Worked(j, i) /\ job[j].dir \in Directions
        BY <1>1, <2>2, JobFacts DEF Moved
      <3> QED BY <2>1, <2>3, <3>1 DEF Worked, Running, Directions
    <2>5. peer[j][i + 1] \in Threads(j)
      BY <1>1, <2>2, <2>3, WorkerKnows
    <2>6. job[j].dir = "htod" => wire[j][peer[j][i + 1]] # NoData
      BY <1>1, <2>5 DEF Waited
    <2> QED BY <1>1, <2>2, <2>4, <2>6, WorkerGoesOn
  <1> QED BY <1>5, <1>6

(* The RPC thread waits only for a thread that can run, or for one that    *)
(* waits for such a thread.                                                *)
LEMMA RpcIsNotStuck ==
  ASSUME MemcpyInv, DataInv, WaitInv, rpc.pc # "ready", ~Hit({"malloc", "socket", "connect"})
  PROVE  CanStep
  <1>1. ~Hit({"malloc"}) /\ ~Hit({"socket"}) /\ Reached
    BY DEF Hit, Reached
  <1>2. PICK j : j = rpc.job
    OBVIOUS
  <1>3. rpc.pc \in {"allocating", "barrier", "joining"}
    BY <1>1 DEF MemcpyInv, Shapes, WaitInv, RpcAwaits
  <1>4. CASE rpc.pc = "allocating"
    BY <1>4 DEF CanStep, RpcCanStep
  <1>5. CASE rpc.pc = "barrier"
    <2>1. j \in Jobs
      BY <1>2, <1>5 DEF MemcpyInv, Serving, Started
    <2>2. listener[j] \in {"opening", "barrier"}
      BY <1>1, <1>2, <1>5 DEF MemcpyInv, Meeting, WaitInv, RpcAwaits
    <2> QED BY <1>2, <1>5, <2>1, <2>2 DEF CanStep, RpcCanStep, ListenerCanStep, BarrierIsFull
  <1>6. CASE rpc.pc = "joining"
    <2>1. PICK c \in Clients : c = rpc.client
      BY DEF MemcpyInv, Shapes
    <2>2. client[c].pc = "asksync" /\ client[c].job = j /\ j \in Started
      BY <1>1, <1>2, <1>6, <2>1 DEF MemcpyInv, Serving, Indexed, Active
    <2>3. j \in Jobs /\ j # NoJob /\ Threads(j) \subseteq AllThreads /\ 0 \in Threads(j)
      BY <2>2, JobFacts DEF Started, Jobs, NoJob
    <2>4. SendersEnded(j)
      BY <2>2, <2>3 DEF DataInv, Told
    <2>5. \A t \in Threads(j) : sender[j][t] = "done"
      <3> TAKE t \in Threads(j)
      <3>1. ASSUME sender[j][t] = "failed" PROVE FALSE
        <4>1. <<"connect", j>> \in faults /\ <<"connect", j>>[1] = "connect"
          BY <2>3, <3>1 DEF WaitInv, Waited
        <4> QED BY <4>1 DEF Hit
      <3> QED BY <2>4, <3>1 DEF SendersEnded
    <2>6. listener[j] \in {"accepting", "done", "gone"}
      <3>1. listener[j] \notin Early
        BY <2>3, <2>5, JobFacts DEF Moved, Queues
      <3> QED BY <2>3, <3>1 DEF MemcpyInv, Shapes, Early
    <2>7. CASE listener[j] = "accepting"
      BY <2>2, <2>5, <2>7, ListenerGoesOn
    <2>8. CASE listener[j] \in {"done", "gone"}
      BY <1>2, <1>6, <2>8 DEF CanStep, RpcCanStep
    <2> QED BY <2>6, <2>7, <2>8
  <1> QED BY <1>3, <1>4, <1>5, <1>6

(* A client waits for its threads, each of them for its listener or for    *)
(* the worker that serves it.                                              *)
LEMMA ThreadGoesOn ==
  ASSUME MemcpyInv, DataInv, WaitInv, faults = {}, NEW c \in Clients, NEW j \in Started,
         client[c].job = j, NEW t \in Threads(j), sender[j][t] \in {"start", "connected"}
  PROVE  CanStep
  <1>1. /\ j \in Jobs /\ j # NoJob /\ Moved(j) /\ Waited(j) /\ t \in AllThreads
        /\ job[j].dir \in Directions
    BY JobFacts DEF Started, Jobs, NoJob, WaitInv
  <1>2. ~HitJob(j)
    BY DEF HitJob
  <1>3. CASE sender[j][t] = "start"
    <2>1. client[c].port # NoJob
      BY <1>1 DEF DataInv, Asked
    <2> QED BY <1>1, <1>3, <2>1 DEF CanStep, SenderCanStep
  <1>4. listener[j] \in {"accepting", "done"}
    <2>1. listener[j] \notin Early /\ listener[j] # "gone"
      BY <1>1, <1>2 DEF Moved, Queues, Listened
    <2> QED BY <1>1, <2>1 DEF MemcpyInv, Shapes, Early
  <1>5. CASE sender[j][t] = "connected" /\ \E m \in 1..Len(backlog[j]) : backlog[j][m] = t
    <2>1. \A m \in 1..Len(peer[j]) : peer[j][m] # t
      BY <1>1, <1>5 DEF Moved, Queues
    <2>2. Len(peer[j]) < Expected(j) /\ Len(peer[j]) \in Nat /\ Expected(j) \in Nat
      BY <2>1, PlacesOfThreads
    <2>3. listener[j] = "accepting"
      <3>1. listener[j] = "done" => Len(peer[j]) = Expected(j)
        BY <1>1 DEF Moved, Listened, Expected
      <3> QED BY <1>4, <2>2, <3>1
    <2>4. backlog[j] # <<>>
      <3>1. Len(backlog[j]) # 0
        BY <1>5
      <3> QED BY <3>1
    <2> QED BY <1>1, <2>2, <2>3, <2>4 DEF CanStep, ListenerCanStep
  <1>6. CASE sender[j][t] = "connected" /\ \E m \in 1..Len(peer[j]) : peer[j][m] = t
    <2>1. PICK m \in 1..Len(peer[j]) : peer[j][m] = t
      BY <1>6
    <2>2. CASE job[j].dir = "htod"
      <3>1. t \in Range(peer[j])
        BY <1>1, <2>1, JobFacts DEF Range
      <3> QED BY <1>1, <1>6, <2>2, <3>1 DEF CanStep, SenderCanStep
    <2>3. CASE job[j].dir = "dtoh"
      <3>1. PICK i : i = m - 1
        OBVIOUS
      <3>2. i \in Threads(j) /\ i < Len(peer[j]) /\ i + 1 = m
        <4>1. /\ Len(peer[j]) \in Nat /\ Len(peer[j]) <= ThreadNum(job[j].size)
              /\ ThreadNum(job[j].size) \in Nat
          BY <1>1, JobFacts DEF Moved, Listened
        <4> QED BY <2>1, <3>1, <4>1 DEF Threads
      <3>3. i \in AllThreads
        BY <1>1, <3>2, JobFacts
      <3>4. worker[j][i].pc # "none" /\ worker[j][i].pc # "failed" /\ Worked(j, i)
        BY <1>1, <1>2, <3>2, <3>3 DEF Moved, Waited, Worked
      <3>5. CASE worker[j][i].pc = "done"
        <4>1. wire[j][t] # NoData
          BY <1>1, <2>1, <2>3, <3>2, <3>3, <3>5 DEF Waited
        <4>2. Arrived(j, wire[j][t])
          BY <1>1, <4>1, WireArrives
        <4> QED BY <1>1, <1>6, <2>3, <4>2 DEF CanStep, SenderCanStep
      <3>6. CASE worker[j][i].pc # "done"
        <4>1. Running(j, i)
          BY <2>3, <3>4, <3>6 DEF Worked, Running
        <4> QED BY <1>1, <2>3, <3>3, <4>1, WorkerGoesOn
      <3> QED BY <3>5, <3>6
    <2> QED BY <1>1, <2>2, <2>3 DEF Directions
  <1> QED BY <1>1, <1>3, <1>5, <1>6 DEF Waited

LEMMA CopyIsNotStuck ==
  ASSUME MemcpyInv, DataInv, WaitInv, faults = {}, NEW c \in Clients,
         client[c].pc \in {"copying", "asksync"}
  PROVE  CanStep
  <1>1. ~Hit({"malloc", "socket", "connect"}) /\ Reached
    BY DEF Hit, Reached
  <1>2. CASE rpc.pc # "ready"
    BY <1>1, <1>2, RpcIsNotStuck
  <1>3. CASE rpc.pc = "ready" /\ client[c].pc = "asksync"
    BY <1>3 DEF CanStep, RpcCanStep
  <1>4. CASE client[c].pc = "copying"
    <2>1. PICK j : j = client[c].job
      OBVIOUS
    <2>2. j \in Started /\ \A t \in Threads(j) : sender[j][t] # "none"
      BY <1>1, <1>4, <2>1 DEF MemcpyInv, Indexed, Active, WaitInv, ClientsAwait
    <2>3. CASE SendersEnded(j)
      BY <1>4, <2>1, <2>3 DEF CanStep, ClientCanStep
    <2>4. CASE ~SendersEnded(j)
      <3>1. PICK t \in Threads(j) : sender[j][t] \notin {"done", "failed"}
        BY <2>4 DEF SendersEnded
      <3>2. sender[j][t] \in {"start", "connected"}
        <4>1. j \in Jobs /\ t \in AllThreads
          BY <2>2, JobFacts DEF Started
        <4> QED BY <2>2, <3>1, <4>1, JobFacts DEF Moved, Queues
      <3> QED BY <2>1, <2>2, <3>2, ThreadGoesOn
    <2> QED BY <2>3, <2>4
  <1> QED BY <1>2, <1>3, <1>4

(* Every connection that is waited for is queued, every worker that is     *)
(* waited for was started and every chunk that is waited for was sent, in  *)
(* every reachable state.                                                  *)
THEOREM WaitInvariant == Spec => []WaitInv
  <1>1. Init => WaitInv
    BY InitWaits, ClientsAssumption
  <1> QED BY <1>1, StepWaits, MemcpyInvariant, DataInvariant, PTL DEF Spec

(* No circle of waiting: the RPC thread at its barrier or join is kept for *)
(* ever only by a listener without a socket, a client thread that cannot   *)
(* connect or a failed allocation; otherwise some thread can run, and also *)
(* while a client waits for its copy, if nothing has failed (mt-memcpy.c   *)
(* 93, 105, 121, 170, 185, 211, 296; cpu-server-runtime.c 1525).           *)
THEOREM CopiesAreNeverStuck == Spec => []NeverStuck
  <1>1. MemcpyInv /\ DataInv /\ WaitInv => NeverStuck
    BY RpcIsNotStuck, CopyIsNotStuck DEF NeverStuck
  <1> QED BY <1>1, MemcpyInvariant, DataInvariant, WaitInvariant, PTL

-----------------------------------------------------------------------------
(* No thread runs in circles.  Where a thread may go from where it is; none *)
(* of these graphs has a cycle, and no thread goes back when another runs.  *)
ClientEdges == {<<"asked", "copying">>, <<"copying", "asksync">>, <<"asksync", "idle">>}
CallEdges == {<<"ready", "joining">>, <<"allocating", "barrier">>}
ListenerEdges == {<<"none", "opening">>, <<"opening", "barrier">>, <<"barrier", "accepting">>,
                  <<"accepting", "done">>}
SenderEdges == {<<"none", "start">>, <<"start", "connected">>, <<"connected", "done">>}
WorkerEdges == {<<"none", "start">>, <<"start", "copy">>, <<"start", "send">>,
                <<"start", "failed">>, <<"copy", "done">>, <<"send", "done">>}

NoneGoesBack ==
    /\ \A c \in Clients : client'[c].pc # client[c].pc =>
          <<client[c].pc, client'[c].pc>> \in ClientEdges
    /\ \A j \in Jobs : listener'[j] # listener[j] => <<listener[j], listener'[j]>> \in ListenerEdges
    /\ \A j \in Jobs, t \in AllThreads :
          /\ sender'[j][t] # sender[j][t] => <<sender[j][t], sender'[j][t]>> \in SenderEdges
          /\ worker'[j][t].pc # worker[j][t].pc =>
                <<worker[j][t].pc, worker'[j][t].pc>> \in WorkerEdges
OneGoesOn ==
    \/ \E c \in Clients : client'[c].pc # client[c].pc
    \/ <<rpc.pc, rpc'.pc>> \in CallEdges
    \/ \E j \in Jobs : listener'[j] # listener[j]
    \/ \E j \in Jobs, t \in AllThreads : \/ sender'[j][t] # sender[j][t]
                                         \/ worker'[j][t].pc # worker[j][t].pc
Forward == NoneGoesBack /\ OneGoesOn

LEMMA ClientGoesOn ==
  ASSUME NEW c \in Clients, UNCHANGED <<listener, sender, worker>>,
         \A d \in Clients : d # c => client'[d] = client[d],
         <<client[c].pc, client'[c].pc>> \in ClientEdges
  PROVE  Forward
  BY DEF Forward, NoneGoesBack, OneGoesOn, ClientEdges

LEMMA ListenerGoes ==
  ASSUME UNCHANGED <<client, sender>>, NEW j \in Jobs, \A k \in Jobs : k # j => listener'[k] = listener[k],
         <<listener[j], listener'[j]>> \in ListenerEdges, UNCHANGED worker
  PROVE  Forward
  BY DEF Forward, NoneGoesBack, OneGoesOn, ListenerEdges

LEMMA SenderGoes ==
  ASSUME UNCHANGED <<client, listener, worker>>, NEW j \in Jobs, NEW t \in AllThreads, NEW v,
         SenderTo(j, t, v), <<sender[j][t], v>> \in SenderEdges
  PROVE  Forward
  <1>1. NoneGoesBack
    BY DEF NoneGoesBack, SenderTo
  <1>2. sender'[j][t] # sender[j][t]
    BY DEF SenderTo, SenderEdges
  <1> QED BY <1>1, <1>2 DEF Forward, OneGoesOn

LEMMA WorkerGoes ==
  ASSUME UNCHANGED <<client, listener, sender>>, NEW j \in Jobs, NEW i \in AllThreads, NEW v, NEW n,
         WorkerTo(j, i, v, n), <<worker[j][i].pc, v>> \in WorkerEdges
  PROVE  Forward
  <1>1. NoneGoesBack
    BY DEF NoneGoesBack, WorkerTo
  <1>2. worker'[j][i].pc # worker[j][i].pc
    BY DEF WorkerTo, WorkerEdges
  <1> QED BY <1>1, <1>2 DEF Forward, OneGoesOn

LEMMA RpcStepIsForward ==
  ASSUME MemcpyInv, DataInv, RpcStep
  PROVE  Forward
  <1>1. CASE Allocate
    <2>1. UNCHANGED <<client, listener, sender, worker>> /\ rpc.pc = "allocating" /\ rpc'.pc = "barrier"
      BY <1>1 DEF Allocate, threads, MemcpyInv, Shapes
    <2> QED BY <2>1 DEF Forward, NoneGoesBack, OneGoesOn, CallEdges
  <1>2. CASE PassBarrier
    <2>1. PICK j, c : j = rpc.job /\ c = rpc.client
      OBVIOUS
    <2>2. /\ UNCHANGED worker /\ rpc.pc = "barrier" /\ listener[j] = "barrier"
          /\ sender' = [sender EXCEPT ![j] = [t \in AllThreads |-> IF t \in Threads(j) THEN "start" ELSE "none"]]
      BY <1>2, <2>1 DEF PassBarrier, BarrierIsFull
    <2>3. j \in Jobs /\ c \in Clients /\ client[c].pc = "asked" /\ client[c] \in ClientRec
      BY <2>1, <2>2 DEF MemcpyInv, Serving, Shapes, Started
    <2>4. listener'[j] = "accepting" /\ \A k \in Jobs : k # j => listener'[k] = listener[k]
      BY <1>2, <2>1, <2>2, <2>3 DEF PassBarrier, MemcpyInv, Shapes
    <2>5. /\ client'[c] = [client[c] EXCEPT !.pc = "copying", !.id = Len(list) - 1, !.job = j, !.port = job[j].port]
          /\ \A d \in Clients : d # c => client'[d] = client[d]
      BY <1>2, <2>1, <2>3 DEF PassBarrier, MemcpyInv, Shapes
    <2>6. client'[c].pc = "copying"
      BY <2>3, <2>5 DEF ClientRec
    <2>7. /\ \A t \in AllThreads : sender'[j][t] \in {"none", "start"}
          /\ \A k \in Jobs : k # j => sender'[k] = sender[k]
      BY <2>2, <2>3 DEF DataInv, Tables, Table
    <2>8. \A t \in AllThreads : sender[j][t] = "none"
      BY <2>2, <2>3, JobFacts DEF Moved, Queues, Early
    <2>9. NoneGoesBack
      <3>1. \A d \in Clients : client'[d].pc # client[d].pc =>
               <<client[d].pc, client'[d].pc>> \in ClientEdges
        BY <2>3, <2>5, <2>6 DEF ClientEdges
      <3>2. \A k \in Jobs : listener'[k] # listener[k] => <<listener[k], listener'[k]>> \in ListenerEdges
        BY <2>2, <2>4 DEF ListenerEdges
      <3>3. \A k \in Jobs, t \in AllThreads :
               sender'[k][t] # sender[k][t] => <<sender[k][t], sender'[k][t]>> \in SenderEdges
        BY <2>7, <2>8 DEF SenderEdges
      <3> QED BY <2>2, <3>1, <3>2, <3>3 DEF NoneGoesBack
    <2> QED BY <2>3, <2>6, <2>9 DEF Forward, OneGoesOn
  <1>3. CASE JoinListener
    <2>1. PICK c, n : c = rpc.client /\ n = IF listener[rpc.job] = "done" THEN 0 ELSE 1
      OBVIOUS
    <2>2. /\ UNCHANGED <<listener, sender, worker>> /\ c \in Clients /\ client[c].pc = "asksync"
          /\ client' = [client EXCEPT ![c].pc = "idle", ![c].ret = n]
      BY <1>3, <2>1 DEF JoinListener, threads, MemcpyInv, Shapes, Serving
    <2>3. client'[c].pc = "idle" /\ \A d \in Clients : d # c => client'[d] = client[d]
      BY <2>2 DEF MemcpyInv, Shapes, ClientRec
    <2> QED BY <2>2, <2>3, ClientGoesOn DEF ClientEdges
  <1>4. CASE \E c \in Clients : ServeCopy(c)
    <2>1. PICK c \in Clients : ServeCopy(c)
      BY <1>4
    <2>2. PICK j : j = Cardinality(Started) + 1
      OBVIOUS
    <2>3. j \in Jobs /\ j \notin Started
      BY <2>1, <2>2, NextJob DEF ServeCopy
    <2>4. listener[j] = "none"
      BY <2>3, JobFacts
    <2>5. /\ UNCHANGED <<client, sender>> /\ UNCHANGED worker
          /\ listener'[j] = "opening" /\ \A k \in Jobs : k # j => listener'[k] = listener[k]
      BY <2>1, <2>2, <2>3 DEF ServeCopy, MemcpyInv, Shapes
    <2>6. <<listener[j], listener'[j]>> \in ListenerEdges
      BY <2>4, <2>5 DEF ListenerEdges
    <2> QED BY <2>3, <2>5, <2>6, ListenerGoes
  <1>5. CASE \E c \in Clients : ServeSync(c)
    <2>1. PICK c \in Clients : ServeSync(c)
      BY <1>5
    <2>2. UNCHANGED <<listener, sender, worker>> /\ rpc.pc = "ready" /\ client[c].pc = "asksync"
      BY <2>1 DEF ServeSync, threads
    <2>3. CASE UNCHANGED client /\ rpc'.pc = "joining"
      BY <2>2, <2>3 DEF Forward, NoneGoesBack, OneGoesOn, CallEdges
    <2>4. CASE client' = [client EXCEPT ![c].pc = "idle", ![c].ret = 1]
      <3>1. client'[c].pc = "idle" /\ \A d \in Clients : d # c => client'[d] = client[d]
        BY <2>4 DEF MemcpyInv, Shapes, ClientRec
      <3> QED BY <2>2, <3>1, ClientGoesOn DEF ClientEdges
    <2>5. (UNCHANGED client /\ rpc'.pc = "joining") \/ client' = [client EXCEPT ![c].pc = "idle", ![c].ret = 1]
      BY <2>1 DEF ServeSync
    <2> QED BY <2>3, <2>4, <2>5
  <1> QED BY <1>1, <1>2, <1>3, <1>4, <1>5 DEF RpcStep

LEMMA ListenerStepIsForward ==
  ASSUME MemcpyInv, DataInv, NEW j \in Jobs, ListenerStep(j)
  PROVE  Forward
  <1>1. CASE OpenSocket(j) \/ JoinWorkers(j)
    <2>1. /\ UNCHANGED <<client, sender>> /\ UNCHANGED worker
          /\ \A k \in Jobs : k # j => listener'[k] = listener[k]
      BY <1>1 DEF OpenSocket, JoinWorkers, threads, MemcpyInv, Shapes
    <2>2. <<listener[j], listener'[j]>> \in ListenerEdges
      BY <1>1 DEF OpenSocket, JoinWorkers, MemcpyInv, Shapes, ListenerEdges
    <2> QED BY <2>1, <2>2, ListenerGoes
  <1>2. CASE Accept(j)
    <2>1. PICK i : i = Len(peer[j])
      OBVIOUS
    <2>2. /\ listener[j] = "accepting" /\ i < Expected(j)
          /\ worker' = [worker EXCEPT ![j][i].pc = "start"] /\ UNCHANGED <<client, listener, sender>>
      BY <1>2, <2>1 DEF Accept
    <2>3. i \in AllThreads
      <3>1. j \in Started /\ i \in Nat
        BY <2>1, <2>2, JobFacts
      <3>2. i \in Threads(j)
        BY <2>2, <3>1, JobFacts DEF Expected, Threads
      <3> QED BY <3>1, <3>2, JobFacts
    <2>4. worker[j][i].pc = "none"
      <3>1. ~(i < Len(peer[j]))
        BY <2>1, JobFacts
      <3> QED BY <2>3, <3>1 DEF MemcpyInv, Staged
    <2>5. WorkerTo(j, i, "start", worker[j][i].id)
      BY <2>2, <2>3, WorkerMoves DEF MemcpyInv, Shapes
    <2>6. <<worker[j][i].pc, "start">> \in WorkerEdges
      BY <2>4 DEF WorkerEdges
    <2> QED BY <2>2, <2>3, <2>5, <2>6, WorkerGoes
  <1> QED BY <1>1, <1>2 DEF ListenerStep

LEMMA SenderStepIsForward ==
  ASSUME MemcpyInv, DataInv, NEW j \in Jobs, NEW t \in AllThreads, SenderStep(j, t)
  PROVE  Forward
  <1>1. PICK v : /\ UNCHANGED <<client, listener, worker>> /\ sender' = [sender EXCEPT ![j][t] = v]
                 /\ <<sender[j][t], v>> \in SenderEdges
    <2>1. CASE \E c \in Clients : client[c].job = j /\ Connect(c, t)
      BY <2>1 DEF Connect, SenderEdges
    <2>2. CASE SendToServer(j, t) \/ ReceiveFromServer(j, t)
      BY <2>2 DEF SendToServer, ReceiveFromServer, SenderEdges
    <2> QED BY <2>1, <2>2 DEF SenderStep
  <1>2. SenderTo(j, t, v)
    BY <1>1, SenderChanges
  <1> QED BY <1>1, <1>2, SenderGoes

LEMMA WorkerStepIsForward ==
  ASSUME MemcpyInv, DataInv, NEW j \in Jobs, NEW i \in AllThreads, WorkerStep(j, i)
  PROVE  Forward
  <1>1. UNCHANGED <<client, listener, sender>>
    BY DEF WorkerStep, ReceiveFromClient, CopyToDevice, CopyFromDevice, SendToClient
  <1>2. CASE ReceiveFromClient(j, i)
    <2>1. PICK n : n = WorkerIndex(wire[j][peer[j][i + 1]], i)
      OBVIOUS
    <2>2. worker' = [worker EXCEPT ![j][i] = [pc |-> "copy", id |-> n]] /\ worker[j][i].pc = "start"
      BY <1>2, <2>1 DEF ReceiveFromClient
    <2>3. WorkerTo(j, i, "copy", n)
      BY <2>2, WorkerIsSet DEF MemcpyInv, Shapes
    <2> QED BY <1>1, <2>2, <2>3, WorkerGoes DEF WorkerEdges
  <1>3. ASSUME NEW v, worker' = [worker EXCEPT ![j][i].pc = v], <<worker[j][i].pc, v>> \in WorkerEdges
        PROVE  Forward
    <2>1. WorkerTo(j, i, v, worker[j][i].id)
      BY <1>3, WorkerMoves DEF MemcpyInv, Shapes
    <2> QED BY <1>1, <1>3, <2>1, WorkerGoes
  <1>4. CASE CopyToDevice(j, i)
    BY <1>3, <1>4 DEF CopyToDevice, WorkerEdges
  <1>5. CASE CopyFromDevice(j, i)
    BY <1>3, <1>5 DEF CopyFromDevice, WorkerEdges
  <1>6. CASE SendToClient(j, i)
    BY <1>3, <1>6 DEF SendToClient, WorkerEdges
  <1> QED BY <1>2, <1>4, <1>5, <1>6 DEF WorkerStep

(* In every step of the threads one of them goes on and none goes back: a  *)
(* copy has finitely many steps, and no thread can keep another waiting by *)
(* running in circles, which is what the fairness of the specification     *)
(* takes for granted (mt-memcpy.c 20-135, 182-251, 295-300).               *)
THEOREM ThreadsGoForward == Spec => [][ThreadStep => Forward]_vars
  <1>1. ASSUME MemcpyInv, DataInv, ThreadStep PROVE Forward
    <2>1. CASE RpcStep
      BY <1>1, <2>1, RpcStepIsForward
    <2>2. CASE \E c \in Clients : JoinThreads(c)
      <3>1. PICK c \in Clients : JoinThreads(c)
        BY <2>2
      <3>2. /\ UNCHANGED <<listener, sender, worker>> /\ client[c].pc = "copying"
            /\ client' = [client EXCEPT ![c].pc = "asksync"]
        BY <3>1 DEF JoinThreads, threads
      <3>3. client'[c].pc = "asksync" /\ \A d \in Clients : d # c => client'[d] = client[d]
        BY <1>1, <3>2 DEF MemcpyInv, Shapes, ClientRec
      <3> QED BY <3>2, <3>3, ClientGoesOn DEF ClientEdges
    <2>3. CASE \E j \in Jobs : ListenerStep(j)
      BY <1>1, <2>3, ListenerStepIsForward
    <2>4. CASE \E j \in Jobs, t \in AllThreads : SenderStep(j, t) \/ WorkerStep(j, t)
      BY <1>1, <2>4, SenderStepIsForward, WorkerStepIsForward
    <2> QED BY <1>1, <2>1, <2>2, <2>3, <2>4 DEF ThreadStep
  <1> QED BY <1>1, MemcpyInvariant, DataInvariant, PTL DEF Spec
=============================================================================
