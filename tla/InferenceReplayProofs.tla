------------------------ MODULE InferenceReplayProofs ------------------------
(***************************************************************************)
(* What holds of RRTO's record and replay for any number of clients,       *)
(* threads, inputs and inferences; for any number of single-threaded ones; *)
(* for one single-threaded client that makes plain copies; and for one     *)
(* whose inferences all upload to the same targets in the same order.      *)
(***************************************************************************)
EXTENDS InferenceReplay, SequenceTheorems, TLAPS

(***************************************************************************)
(* The server, whoever calls it.                                           *)
(***************************************************************************)
ServerInv ==
    /\ input_times \in Nat
    /\ output_times \in Nat
    /\ ServerPhases

\* The steps of clients leave the server's globals alone.
ClientStep ==
    \/ \E t \in Threads : Begin(t) \/ Proceed(t)
    \/ \E p \in Procs : Restart(p) \/ Repair(p)

LEMMA ClientStepKeepsServer == ClientStep => UNCHANGED servervars
  BY DEF ClientStep, Begin, Proceed, Upload, Download, Launch, Bump, Send,
         SendFails, Timeout, Restart, Repair

LEMMA NextCases ==
    [Next]_ivars <=> \/ ClientStep
                     \/ ServerRestart
                     \/ \E c \in Connections : Handle(c)
                     \/ UNCHANGED ivars
  BY DEF Next, ClientStep

LEMMA InitServer == Init => ServerInv
  BY DEF Init, ServerInv, ServerPhases

LEMMA ServeKeepsServer ==
    ASSUME ServerInv, NEW req,
           ServeUpload(req) \/ ServeDownload(req) \/ ServeFar(req) \/ ServeLaunch(req)
    PROVE  ServerInv'
  <1>1. CASE ServeUpload(req)
    BY <1>1 DEF ServeUpload, StartsAtServer, ServerInv, ServerPhases
  <1>2. CASE ServeDownload(req)
    BY <1>2 DEF ServeDownload, EndsAtServer, ServerInv, ServerPhases
  <1>3. CASE ServeFar(req) \/ ServeLaunch(req)
    BY <1>3 DEF ServeFar, ServeLaunch, ServerInv, ServerPhases
  <1> QED BY <1>1, <1>2, <1>3

LEMMA StepServer == ServerInv /\ [Next]_ivars => ServerInv'
  <1> SUFFICES ASSUME ServerInv, [Next]_ivars PROVE ServerInv'
    OBVIOUS
  <1>1. CASE UNCHANGED servervars
    BY <1>1 DEF servervars, ServerInv, ServerPhases
  <1>2. CASE ServerRestart
    BY <1>2 DEF ServerRestart, ServerInv, ServerPhases
  <1>3. ASSUME NEW c \in Connections, Handle(c) PROVE ServerInv'
    BY <1>3, ServeKeepsServer DEF Handle
  <1> QED BY <1>1, <1>2, <1>3, NextCases, ClientStepKeepsServer DEF ivars

LEMMA ServerAlways == Spec => []ServerInv
  BY InitServer, StepServer, PTL DEF Spec

(* The server is at most one inference ahead of its outputs, whatever its  *)
(* clients do.                                                             *)
THEOREM ServerPhasesHold == Spec => []ServerPhases
  <1>1. ServerInv => ServerPhases
    BY DEF ServerInv
  <1> QED BY <1>1, ServerAlways, PTL

-----------------------------------------------------------------------------
(***************************************************************************)
(* One thread, plain copies and launches, one connection.                  *)
(***************************************************************************)
PlainApplication ==
    /\ \E t \in Threads : Threads = {t}
    /\ Kinds \subseteq {"htod", "dtoh", "launch"}
    /\ MaxRestarts = 0

TheThread == CHOOSE t \in Threads : Threads = {t}
TheProc == ProcOf[TheThread]
Here == <<TheProc, 0>>

LEMMA PlainFacts ==
    ASSUME PlainApplication
    PROVE  /\ Threads = {TheThread} /\ TheThread \in Threads
           /\ TheProc \in Procs
           /\ Connections = Procs \X {0} /\ Here \in Connections
           /\ Kinds \subseteq {"htod", "dtoh", "launch"}
  <1>1. Threads = {TheThread} /\ TheThread \in Threads
    BY DEF PlainApplication, TheThread
  <1>2. TheProc \in Procs
    BY <1>1, ReplayAssumption DEF TheProc
  <1>3. 0 .. MaxRestarts = {0}
    BY DEF PlainApplication
  <1> QED BY <1>1, <1>2, <1>3 DEF Connections, Here, PlainApplication

\* The phase after a request, if it was ph before.
Moved(op, ph) ==
    IF op = "htod" /\ ph.input_times = ph.output_times
    THEN [input_times |-> ph.input_times + 1, output_times |-> ph.output_times]
    ELSE IF op = "dtoh" /\ ph.input_times # ph.output_times
    THEN [input_times |-> ph.input_times, output_times |-> ph.output_times + 1]
    ELSE ph

(***************************************************************************)
(* The inductive invariant: the requests on the wire lead, step by step,   *)
(* from the server's phase to the client's.                                *)
(***************************************************************************)
Client == [input_times : Nat, output_times : Nat, operator_count : Nat]

PlainShape ==
    /\ client \in [Procs -> Client]
    /\ thread \in [Threads ->
                    [pc : {"idle", "bump", "ready", "waiting"},
                     req : Request \cup {NoRequest}, seen : Nat]]
    /\ thread[TheThread].pc # "idle" => thread[TheThread].req \in Request
    /\ conn = [p \in Procs |-> 0]
    /\ broken = {}
    /\ wire \in [Connections -> Seq(Request)]
    /\ \A c \in Connections : c # Here => wire[c] = <<>>

Sent == wire[Here]
\* The phase once everything sent has been handled.
SentPhase == IF Sent = <<>> THEN ServerPhase ELSE Sent[Len(Sent)].at
TheClient == client[TheProc]
TheCall == thread[TheThread]

CallInStep ==
    /\ TheCall.pc \in {"idle", "bump", "waiting"} => PhaseOf(TheClient) = SentPhase
    /\ TheCall.pc = "ready" =>
          /\ TheCall.req.at = PhaseOf(TheClient)
          /\ PhaseOf(TheClient) = Moved(TheCall.req.op, SentPhase)
    /\ TheCall.pc = "bump" =>
          \/ /\ TheCall.req.op = "htod"
             /\ TheClient.input_times = TheClient.output_times
             /\ TheCall.seen = TheClient.input_times
          \/ /\ TheCall.req.op = "dtoh"
             /\ TheClient.input_times # TheClient.output_times
             /\ TheCall.seen = TheClient.output_times

WireInStep ==
    /\ Sent # <<>> => Sent[1].at = Moved(Sent[1].op, ServerPhase)
    /\ \A k \in 1 .. Len(Sent) :
          k > 1 => Sent[k].at = Moved(Sent[k].op, Sent[k - 1].at)

PlainInv ==
    /\ ServerInv
    /\ PlainShape
    /\ ~overrun => CallInStep /\ WireInStep
    /\ InStep

LEMMA InitPlain == ASSUME PlainApplication, Init PROVE PlainInv
  <1>1. ServerInv
    BY InitServer
  <1>2. PlainShape
    <2>1. client \in [Procs -> Client]
      BY DEF Init, Started, Client
    <2>2. thread = [t \in Threads |-> Idle] /\ thread[TheThread] = Idle
      BY PlainFacts DEF Init
    <2>3. wire = [c \in Connections |-> <<>>] /\ <<>> \in Seq(Request)
      BY DEF Init
    <2>4. wire \in [Connections -> Seq(Request)]
      BY <2>3
    <2> QED BY <2>1, <2>2, <2>3, <2>4, PlainFacts DEF PlainShape, Init, Idle
  <1>3. Sent = <<>> /\ TheCall.pc = "idle" /\ PhaseOf(TheClient) = ServerPhase
    BY PlainFacts DEF Init, Sent, TheCall, TheClient, PhaseOf, ServerPhase, Idle, Started
  <1>4. Len(<<>>) = 0
    OBVIOUS
  <1>5. CallInStep /\ WireInStep
    BY <1>3, <1>4 DEF CallInStep, WireInStep, SentPhase
  <1>6. InStep
    BY DEF Init, NothingHandled, InStep
  <1> QED BY <1>1, <1>2, <1>5, <1>6 DEF PlainInv

\* A step that leaves the server and the wire alone.
LEMMA QuietStep ==
    ASSUME PlainInv, UNCHANGED <<wire, servervars>>, PlainShape',
           ~overrun => CallInStep'
    PROVE  PlainInv'
  <1>1. ServerInv' /\ InStep' /\ overrun' = overrun
    BY DEF PlainInv, ServerInv, ServerPhases, InStep, servervars
  <1>2. ~overrun => WireInStep'
    BY DEF PlainInv, WireInStep, Sent, ServerPhase, servervars
  <1> QED BY <1>1, <1>2 DEF PlainInv

LEMMA SameSentPhase ==
    ASSUME UNCHANGED <<wire, servervars>> PROVE SentPhase' = SentPhase
  BY DEF SentPhase, Sent, ServerPhase, servervars

LEMMA ReadyRequest ==
    ASSUME NEW op \in Kinds, NEW a \in Addr \cup Kernel \cup {0}, NEW c \in Client
    PROVE  /\ Ready(op, a, c).pc = "ready" /\ Ready(op, a, c).seen = 0
           /\ Ready(op, a, c).req \in Request
           /\ Ready(op, a, c).req.op = op /\ Ready(op, a, c).req.at = PhaseOf(c)
  BY DEF Ready, Request, Client, PhaseOf, Phase

LEMMA BumpingRequest ==
    ASSUME NEW op \in Kinds, NEW a \in Addr \cup Kernel \cup {0}, NEW n \in Nat
    PROVE  /\ Bumping(op, a, n).pc = "bump" /\ Bumping(op, a, n).seen = n
           /\ Bumping(op, a, n).req \in Request
           /\ Bumping(op, a, n).req.op = op
  BY DEF Bumping, Request, Started, PhaseOf, Phase

\* The thread's next state, as a record of the right shape.
LEMMA ThreadShape ==
    ASSUME PlainApplication, PlainShape, NEW s,
           s \in [pc : {"idle", "bump", "ready", "waiting"},
                  req : Request \cup {NoRequest}, seen : Nat],
           s.pc # "idle" => s.req \in Request,
           thread' = [thread EXCEPT ![TheThread] = s],
           UNCHANGED <<conn, broken, wire>>, client' \in [Procs -> Client]
    PROVE  PlainShape' /\ TheCall' = s
  BY PlainFacts DEF PlainShape, TheCall

LEMMA UploadKeeps ==
    ASSUME PlainApplication, PlainInv, NEW op \in Uploading, NEW a \in Addr,
           Upload(TheThread, op, a)
    PROVE  PlainInv'
  <1>1. op = "htod" /\ op \in Kinds
    BY PlainFacts DEF Upload, Uploading
  <1>2. TheClient \in Client /\ client' = client /\ TheClient' = TheClient
    BY PlainFacts DEF PlainInv, PlainShape, TheClient, Upload
  <1>3. TheCall.pc = "idle" /\ UNCHANGED <<conn, broken, wire, servervars>>
    BY DEF Upload, Idle, TheCall
  <1>4. ~overrun => PhaseOf(TheClient) = SentPhase
    BY <1>3 DEF PlainInv, CallInStep
  <1>5. CASE TheClient.input_times = TheClient.output_times
    <2> DEFINE s == Bumping(op, a, TheClient.input_times)
    <2>1. thread' = [thread EXCEPT ![TheThread] = s]
      BY <1>1, <1>5 DEF Upload, StartsInference, TheClient, TheProc
    <2>2. /\ s \in [pc : {"idle", "bump", "ready", "waiting"},
                    req : Request \cup {NoRequest}, seen : Nat]
          /\ s.pc = "bump" /\ s.req \in Request /\ s.req.op = "htod"
          /\ s.seen = TheClient.input_times
      BY <1>1, <1>2, BumpingRequest DEF Client, Bumping
    <2> HIDE DEF s
    <2>3. PlainShape' /\ TheCall' = s
      BY <1>2, <1>3, <2>1, <2>2, ThreadShape DEF PlainInv, PlainShape
    <2>4. ~overrun => CallInStep'
      BY <1>2, <1>3, <1>4, <1>5, <2>2, <2>3, SameSentPhase DEF CallInStep, PhaseOf
    <2> QED BY <1>3, <2>3, <2>4, QuietStep
  <1>6. CASE TheClient.input_times # TheClient.output_times
    <2> DEFINE s == Ready(op, a, TheClient)
    <2>1. thread' = [thread EXCEPT ![TheThread] = s]
      BY <1>1, <1>6 DEF Upload, StartsInference, TheClient, TheProc
    <2>2. /\ s \in [pc : {"idle", "bump", "ready", "waiting"},
                    req : Request \cup {NoRequest}, seen : Nat]
          /\ s.pc = "ready" /\ s.req \in Request /\ s.req.op = "htod"
          /\ s.req.at = PhaseOf(TheClient)
      BY <1>1, <1>2, ReadyRequest DEF Ready
    <2> HIDE DEF s
    <2>3. PlainShape' /\ TheCall' = s
      BY <1>2, <1>3, <2>1, <2>2, ThreadShape DEF PlainInv, PlainShape
    <2>4. ~overrun => PhaseOf(TheClient) = Moved("htod", SentPhase)
      BY <1>4, <1>6 DEF Moved, PhaseOf
    <2>5. ~overrun => CallInStep'
      BY <1>2, <1>3, <2>2, <2>3, <2>4, SameSentPhase DEF CallInStep, PhaseOf
    <2> QED BY <1>3, <2>3, <2>5, QuietStep
  <1> QED BY <1>5, <1>6

LEMMA DownloadKeeps ==
    ASSUME PlainApplication, PlainInv, NEW op \in Downloading,
           Download(TheThread, op)
    PROVE  PlainInv'
  <1>1. op = "dtoh" /\ op \in Kinds
    BY PlainFacts DEF Download, Downloading
  <1>2. TheClient \in Client /\ client' = client /\ TheClient' = TheClient
    BY PlainFacts DEF PlainInv, PlainShape, TheClient, Download
  <1>3. TheCall.pc = "idle" /\ UNCHANGED <<conn, broken, wire, servervars>>
    BY DEF Download, Idle, TheCall
  <1>4. ~overrun => PhaseOf(TheClient) = SentPhase
    BY <1>3 DEF PlainInv, CallInStep
  <1>5. CASE TheClient.input_times # TheClient.output_times
    <2> DEFINE s == Bumping(op, 0, TheClient.output_times)
    <2>1. thread' = [thread EXCEPT ![TheThread] = s]
      BY <1>1, <1>5 DEF Download, EndsInference, TheClient, TheProc
    <2>2. /\ s \in [pc : {"idle", "bump", "ready", "waiting"},
                    req : Request \cup {NoRequest}, seen : Nat]
          /\ s.pc = "bump" /\ s.req \in Request /\ s.req.op = "dtoh"
          /\ s.seen = TheClient.output_times
      BY <1>1, <1>2, BumpingRequest DEF Client, Bumping
    <2> HIDE DEF s
    <2>3. PlainShape' /\ TheCall' = s
      BY <1>2, <1>3, <2>1, <2>2, ThreadShape DEF PlainInv, PlainShape
    <2>4. ~overrun => CallInStep'
      BY <1>2, <1>3, <1>4, <1>5, <2>2, <2>3, SameSentPhase DEF CallInStep, PhaseOf
    <2> QED BY <1>3, <2>3, <2>4, QuietStep
  <1>6. CASE TheClient.input_times = TheClient.output_times
    <2> DEFINE s == Ready(op, 0, TheClient)
    <2>1. thread' = [thread EXCEPT ![TheThread] = s]
      BY <1>1, <1>6 DEF Download, EndsInference, TheClient, TheProc
    <2>2. /\ s \in [pc : {"idle", "bump", "ready", "waiting"},
                    req : Request \cup {NoRequest}, seen : Nat]
          /\ s.pc = "ready" /\ s.req \in Request /\ s.req.op = "dtoh"
          /\ s.req.at = PhaseOf(TheClient)
      BY <1>1, <1>2, ReadyRequest DEF Ready
    <2> HIDE DEF s
    <2>3. PlainShape' /\ TheCall' = s
      BY <1>2, <1>3, <2>1, <2>2, ThreadShape DEF PlainInv, PlainShape
    <2>4. ~overrun => PhaseOf(TheClient) = Moved("dtoh", SentPhase)
      BY <1>4, <1>6 DEF Moved, PhaseOf
    <2>5. ~overrun => CallInStep'
      BY <1>2, <1>3, <2>2, <2>3, <2>4, SameSentPhase DEF CallInStep, PhaseOf
    <2> QED BY <1>3, <2>3, <2>5, QuietStep
  <1> QED BY <1>5, <1>6

LEMMA LaunchKeeps ==
    ASSUME PlainApplication, PlainInv, NEW f \in Kernel, Launch(TheThread, f)
    PROVE  PlainInv'
  <1> DEFINE s == Ready("launch", f, TheClient)
  <1>1. TheClient \in Client /\ client' = client /\ TheClient' = TheClient
    BY PlainFacts DEF PlainInv, PlainShape, TheClient, Launch
  <1>2. TheCall.pc = "idle" /\ UNCHANGED <<conn, broken, wire, servervars>>
    BY DEF Launch, Idle, TheCall
  <1>3. thread' = [thread EXCEPT ![TheThread] = s]
    BY DEF Launch, TheClient, TheProc
  <1>4. "launch" \in Kinds
    BY DEF Launch
  <1>5. /\ s \in [pc : {"idle", "bump", "ready", "waiting"},
                  req : Request \cup {NoRequest}, seen : Nat]
        /\ s.pc = "ready" /\ s.req \in Request /\ s.req.op = "launch"
        /\ s.req.at = PhaseOf(TheClient)
    BY <1>1, <1>4, ReadyRequest DEF Ready
  <1> HIDE DEF s
  <1>6. PlainShape' /\ TheCall' = s
    BY <1>1, <1>2, <1>3, <1>5, ThreadShape DEF PlainInv, PlainShape
  <1>7. ~overrun => PhaseOf(TheClient) = Moved("launch", SentPhase)
    BY <1>2 DEF PlainInv, CallInStep, Moved
  <1>8. ~overrun => CallInStep'
    BY <1>1, <1>2, <1>5, <1>6, <1>7, SameSentPhase DEF CallInStep, PhaseOf
  <1> QED BY <1>2, <1>6, <1>8, QuietStep

LEMMA BumpKeeps ==
    ASSUME PlainApplication, PlainInv, Bump(TheThread) PROVE PlainInv'
  <1> DEFINE r == TheCall.req
             s == Ready(r.op, r.asked, TheClient')
  <1>1. /\ TheClient \in Client /\ TheCall.pc = "bump"
        /\ client \in [Procs -> Client] /\ TheProc \in Procs
    BY PlainFacts DEF PlainInv, PlainShape, TheClient, Bump, TheCall
  <1>2. r \in Request /\ r.op \in Kinds /\ r.asked \in Addr \cup Kernel \cup {0}
    BY <1>1 DEF PlainInv, PlainShape, TheCall, Request
  <1>3. UNCHANGED <<conn, broken, wire, servervars>>
    BY DEF Bump
  <1>4. client' \in [Procs -> Client] /\ TheClient' \in Client
    <2>1. TheCall.seen \in Nat
      BY PlainFacts DEF PlainInv, PlainShape, TheCall
    <2>2. CASE \E n \in {TheCall.seen, TheClient.input_times} :
                 client' = [client EXCEPT ![TheProc].input_times = n + 1,
                                          ![TheProc].operator_count = 0]
      <3>1. PICK n \in Nat :
              client' = [client EXCEPT ![TheProc] =
                  [[client[TheProc] EXCEPT !.input_times = n + 1] EXCEPT !.operator_count = 0]]
        BY <1>1, <2>1, <2>2 DEF Client
      <3>2. client[TheProc] \in Client /\ n + 1 \in Nat
        BY <1>1 DEF TheClient
      <3>3. [client[TheProc] EXCEPT !.input_times = n + 1] \in Client
        BY <3>2 DEF Client
      <3>4. [[client[TheProc] EXCEPT !.input_times = n + 1] EXCEPT !.operator_count = 0] \in Client
        BY <3>3 DEF Client
      <3> QED BY <1>1, <3>1, <3>4 DEF TheClient
    <2>3. CASE \E n \in {TheCall.seen, TheClient.output_times} :
                 client' = [client EXCEPT ![TheProc].output_times = n + 1]
      BY <1>1, <2>1, <2>3 DEF TheClient, Client
    <2> QED BY <2>2, <2>3 DEF Bump, TheCall, TheClient, TheProc
  <1>5. thread' = [thread EXCEPT ![TheThread] = s]
    BY DEF Bump, TheCall, TheClient, TheProc
  <1>6. /\ s \in [pc : {"idle", "bump", "ready", "waiting"},
                  req : Request \cup {NoRequest}, seen : Nat]
        /\ s.pc = "ready" /\ s.req \in Request /\ s.req.op = r.op
        /\ s.req.at = PhaseOf(TheClient')
    BY <1>2, <1>4, ReadyRequest DEF Ready
  <1>7. ~overrun => PhaseOf(TheClient') = Moved(r.op, SentPhase)
    <2> SUFFICES ASSUME ~overrun PROVE PhaseOf(TheClient') = Moved(r.op, SentPhase)
      OBVIOUS
    <2>1. PhaseOf(TheClient) = SentPhase
      BY <1>1 DEF PlainInv, CallInStep
    <2>2. CASE r.op = "htod"
      <3>1. /\ TheClient.input_times = TheClient.output_times
            /\ TheCall.seen = TheClient.input_times
        BY <1>1, <2>2 DEF PlainInv, CallInStep
      <3>2. client' = [client EXCEPT ![TheProc].input_times = TheClient.input_times + 1,
                                     ![TheProc].operator_count = 0]
        BY <2>2, <3>1 DEF Bump, TheCall, TheClient, TheProc, Downloading
      <3>3. /\ TheClient'.input_times = TheClient.input_times + 1
            /\ TheClient'.output_times = TheClient.output_times
        BY <1>1, <3>2 DEF TheClient, Client
      <3> QED BY <2>1, <2>2, <3>1, <3>3 DEF PhaseOf, Moved
    <2>3. CASE r.op = "dtoh"
      <3>1. /\ TheClient.input_times # TheClient.output_times
            /\ TheCall.seen = TheClient.output_times
        BY <1>1, <2>3 DEF PlainInv, CallInStep
      <3>2. client' = [client EXCEPT ![TheProc].output_times = TheClient.output_times + 1]
        BY <2>3, <3>1 DEF Bump, TheCall, TheClient, TheProc, Uploading
      <3>3. /\ TheClient'.input_times = TheClient.input_times
            /\ TheClient'.output_times = TheClient.output_times + 1
        BY <1>1, <3>2 DEF TheClient, Client
      <3> QED BY <2>1, <2>3, <3>1, <3>3 DEF PhaseOf, Moved
    <2> QED BY <1>1, <2>2, <2>3 DEF PlainInv, CallInStep
  <1> HIDE DEF s
  <1>8. PlainShape' /\ TheCall' = s
    BY <1>3, <1>4, <1>5, <1>6, ThreadShape DEF PlainInv, PlainShape
  <1>9. ~overrun => CallInStep'
    BY <1>3, <1>6, <1>7, <1>8, SameSentPhase DEF CallInStep
  <1> QED BY <1>3, <1>8, <1>9, QuietStep

LEMMA SendKeeps ==
    ASSUME PlainApplication, PlainInv, Send(TheThread) PROVE PlainInv'
  <1> DEFINE r == TheCall.req
  <1>1. TheCall.pc = "ready" /\ UNCHANGED <<client, conn, broken, servervars>>
    BY DEF Send, TheCall
  <1>2. r \in Request /\ Sent \in Seq(Request)
    BY <1>1, PlainFacts DEF PlainInv, PlainShape, TheCall, Sent
  <1>3. conn[TheProc] = 0 /\ Here = <<TheProc, conn[TheProc]>>
    BY PlainFacts DEF PlainInv, PlainShape, Here
  <1>4. /\ wire' = [wire EXCEPT ![Here] = Append(Sent, r)]
        /\ thread' = [thread EXCEPT ![TheThread].pc = "waiting"]
    BY <1>3 DEF Send, Sent, TheCall, TheProc
  <1>5. Append(Sent, r) \in Seq(Request)
    BY <1>2
  <1>6. /\ Sent' = Append(Sent, r)
        /\ wire' \in [Connections -> Seq(Request)]
        /\ \A c \in Connections : c # Here => wire'[c] = <<>>
    BY <1>4, <1>5, PlainFacts DEF PlainInv, PlainShape, Sent
  <1>7. TheCall'.pc = "waiting" /\ TheCall'.req = r
    BY <1>4, PlainFacts DEF PlainInv, PlainShape, TheCall
  <1>8. PlainShape'
    <2>1. thread' \in [Threads ->
                    [pc : {"idle", "bump", "ready", "waiting"},
                     req : Request \cup {NoRequest}, seen : Nat]]
      BY <1>4, PlainFacts DEF PlainInv, PlainShape
    <2> QED BY <1>1, <1>2, <1>6, <1>7, <2>1 DEF PlainInv, PlainShape, TheCall
  <1>9. /\ Len(Sent) \in Nat /\ Len(Sent') = Len(Sent) + 1
        /\ Sent'[Len(Sent')] = r
        /\ \A k \in 1 .. Len(Sent) : Sent'[k] = Sent[k]
        /\ Sent' # <<>>
        /\ Sent # <<>> => Len(Sent) > 0
        /\ Sent = <<>> => Len(Sent) = 0
    BY <1>2, <1>6
  <1>10. SentPhase' = r.at
    BY <1>9 DEF SentPhase
  <1>11. ASSUME ~overrun PROVE CallInStep' /\ WireInStep'
    <2>1. r.at = PhaseOf(TheClient) /\ r.at = Moved(r.op, SentPhase)
      BY <1>1, <1>11 DEF PlainInv, CallInStep
    <2>2. CallInStep'
      BY <1>1, <1>7, <1>10, <2>1 DEF CallInStep, TheClient
    <2>3. ServerPhase' = ServerPhase
      BY <1>1 DEF servervars, ServerPhase
    <2>4. CASE Sent = <<>>
      <3>1. Len(Sent') = 1 /\ Sent'[1] = r
        BY <1>9, <2>4
      <3>2. r.at = Moved(r.op, ServerPhase)
        BY <2>1, <2>4 DEF SentPhase
      <3> QED BY <2>2, <2>3, <3>1, <3>2 DEF WireInStep
    <2>5. CASE Sent # <<>>
      <3>1. Sent'[1] = Sent[1] /\ Sent[1].at = Moved(Sent[1].op, ServerPhase)
        BY <1>9, <1>11, <2>5 DEF PlainInv, WireInStep
      <3>2. r.at = Moved(r.op, Sent'[Len(Sent)].at)
        BY <1>9, <2>1, <2>5 DEF SentPhase
      <3>3. \A k \in 1 .. Len(Sent) :
              k > 1 => Sent'[k].at = Moved(Sent'[k].op, Sent'[k - 1].at)
        BY <1>9, <1>11 DEF PlainInv, WireInStep
      <3>4. \A k \in 1 .. Len(Sent') :
              k > 1 => Sent'[k].at = Moved(Sent'[k].op, Sent'[k - 1].at)
        BY <1>9, <3>2, <3>3
      <3> QED BY <2>2, <2>3, <3>1, <3>4 DEF WireInStep
    <2> QED BY <2>4, <2>5
  <1> QED BY <1>1, <1>8, <1>11
       DEF PlainInv, ServerInv, ServerPhases, InStep, servervars

LEMMA TimeoutKeeps ==
    ASSUME PlainApplication, PlainInv, Timeout(TheThread) PROVE PlainInv'
  <1>1. TheCall.pc = "waiting" /\ UNCHANGED <<client, conn, broken, wire, servervars>>
    BY DEF Timeout, TheCall
  <1>2. thread' = [thread EXCEPT ![TheThread] = Idle]
    BY DEF Timeout
  <1>3. /\ Idle \in [pc : {"idle", "bump", "ready", "waiting"},
                     req : Request \cup {NoRequest}, seen : Nat]
        /\ Idle.pc = "idle"
    BY DEF Idle
  <1>4. PlainShape' /\ TheCall' = Idle
    BY <1>1, <1>2, <1>3, ThreadShape DEF PlainInv, PlainShape
  <1>5. ~overrun => CallInStep'
    BY <1>1, <1>3, <1>4, SameSentPhase DEF PlainInv, CallInStep, TheClient
  <1> QED BY <1>1, <1>4, <1>5, QuietStep

\* What handling a request does to the wire, the waiting call and the phase.
LEMMA HandleFacts ==
    ASSUME PlainApplication, PlainInv, NEW c \in Connections, Handle(c)
    PROVE  /\ c = Here /\ ~overrun /\ Sent # <<>>
           /\ UNCHANGED <<client, uploads, conn, broken>>
           /\ Sent \in Seq(Request) /\ Sent[1] \in Request
           /\ ServeUpload(Sent[1]) \/ ServeDownload(Sent[1])
              \/ ServeFar(Sent[1]) \/ ServeLaunch(Sent[1])
           /\ wire' \in [Connections -> Seq(Request)]
           /\ \A d \in Connections : d # Here => wire'[d] = <<>>
           /\ Len(Sent) \in Nat /\ Len(Sent) > 0 /\ Len(Sent') = Len(Sent) - 1
           /\ \A k \in 1 .. Len(Sent') : Sent'[k] = Sent[k + 1]
           /\ Sent' = <<>> <=> Len(Sent) = 1
           /\ TheCall' = TheCall \/ (TheCall.pc = "waiting" /\ TheCall' = Idle)
           /\ thread' = [thread EXCEPT ![TheThread] = TheCall']
           /\ Sent[1].at = Moved(Sent[1].op, ServerPhase)
           /\ \/ overrun' /\ UNCHANGED last
              \/ /\ ServerPhase' = Moved(Sent[1].op, ServerPhase)
                 /\ last'.phase = ServerPhase' /\ last'.at = Sent[1].at
  <1> DEFINE req == Sent[1]
  <1>1. c = Here /\ ~overrun /\ Sent # <<>> /\ UNCHANGED <<client, uploads, conn, broken>>
    BY PlainFacts DEF PlainInv, PlainShape, Handle, Sent
  <1>2. Sent \in Seq(Request) /\ Head(Sent) = req /\ req \in Request
    BY <1>1, PlainFacts DEF PlainInv, PlainShape, Sent
  <1>3. ServeUpload(req) \/ ServeDownload(req) \/ ServeFar(req) \/ ServeLaunch(req)
    BY <1>1, <1>2 DEF Handle, Sent
  <1>4. /\ Sent' = Tail(Sent)
        /\ wire' \in [Connections -> Seq(Request)]
        /\ \A d \in Connections : d # Here => wire'[d] = <<>>
    <2>1. wire' = [wire EXCEPT ![Here] = Tail(Sent)]
      BY <1>1 DEF Handle, Sent
    <2>2. Tail(Sent) \in Seq(Request)
      BY <1>1, <1>2
    <2> QED BY <2>1, <2>2, PlainFacts DEF PlainInv, PlainShape, Sent
  <1>5. /\ Len(Sent) \in Nat /\ Len(Sent) > 0 /\ Len(Sent') = Len(Sent) - 1
        /\ \A k \in 1 .. Len(Sent') : Sent'[k] = Sent[k + 1]
        /\ Sent' = <<>> <=> Len(Sent) = 1
    <2>1. Len(Sent) \in Nat /\ Len(Sent) > 0
      BY <1>1, <1>2
    <2>2. /\ Tail(Sent) \in Seq(Request) /\ Len(Tail(Sent)) = Len(Sent) - 1
          /\ \A k \in 1 .. Len(Sent) - 1 : Tail(Sent)[k] = Sent[k + 1]
      BY <1>1, <1>2
    <2>3. Tail(Sent) = <<>> <=> Len(Tail(Sent)) = 0
      BY <2>2, EmptySeq
    <2> QED BY <1>4, <2>1, <2>2, <2>3
  <1>6. /\ TheCall' = TheCall \/ (TheCall.pc = "waiting" /\ TheCall' = Idle)
        /\ thread' = [thread EXCEPT ![TheThread] = TheCall']
    <2>1. PICK answered :
            thread' = [t \in Threads |->
                        IF answered /\ Reached(c, t) THEN Idle ELSE thread[t]]
      BY DEF Handle
    <2>2. TheCall' = IF answered /\ Reached(c, TheThread) THEN Idle ELSE TheCall
      BY <2>1, PlainFacts DEF TheCall
    <2>3. TheCall' = TheCall \/ (TheCall.pc = "waiting" /\ TheCall' = Idle)
      BY <2>2 DEF Reached, TheCall
    <2>4. thread' = [t \in Threads |-> TheCall'] /\ DOMAIN thread = Threads
      BY <2>1, <2>2, PlainFacts DEF TheCall, PlainInv, PlainShape
    <2> QED BY <2>3, <2>4, PlainFacts
  <1>7. \/ overrun' /\ UNCHANGED last
        \/ /\ ServerPhase' = Moved(req.op, ServerPhase)
           /\ last'.phase = ServerPhase' /\ last'.at = req.at
    <2>1. CASE ServeUpload(req)
      BY <1>2, <2>1, PlainFacts
         DEF ServeUpload, StartsAtServer, Handled, Moved, ServerPhase, Request
    <2>2. CASE ServeDownload(req)
      BY <2>2 DEF ServeDownload, EndsAtServer, Handled, Moved, ServerPhase
    <2>3. CASE ServeFar(req) \/ ServeLaunch(req)
      BY <2>3 DEF ServeFar, ServeLaunch, Handled, Moved, ServerPhase
    <2> QED BY <1>3, <2>1, <2>2, <2>3
  <1>8. req.at = Moved(req.op, ServerPhase)
    BY <1>1 DEF PlainInv, WireInStep
  <1> QED BY <1>1, <1>2, <1>3, <1>4, <1>5, <1>6, <1>7, <1>8

LEMMA HandleKeeps ==
    ASSUME PlainApplication, PlainInv, NEW c \in Connections, Handle(c)
    PROVE  PlainInv'
  <1> DEFINE req == Sent[1]
  <1>1. c = Here /\ ~overrun /\ Sent # <<>> /\ UNCHANGED <<client, uploads, conn, broken>>
    BY HandleFacts
  <1>2. ServerInv'
    BY HandleFacts, ServeKeepsServer DEF PlainInv
  <1>3. /\ wire' \in [Connections -> Seq(Request)]
        /\ \A d \in Connections : d # Here => wire'[d] = <<>>
    BY HandleFacts
  <1>4. /\ Len(Sent) \in Nat /\ Len(Sent) > 0 /\ Len(Sent') = Len(Sent) - 1
        /\ \A k \in 1 .. Len(Sent') : Sent'[k] = Sent[k + 1]
        /\ Sent' = <<>> <=> Len(Sent) = 1
    BY HandleFacts
  <1>5. /\ TheCall' = TheCall \/ (TheCall.pc = "waiting" /\ TheCall' = Idle)
        /\ thread' = [thread EXCEPT ![TheThread] = TheCall']
    BY HandleFacts
  <1>6. PlainShape'
    <2> DEFINE Calls == [pc : {"idle", "bump", "ready", "waiting"},
                         req : Request \cup {NoRequest}, seen : Nat]
    <2>1. thread \in [Threads -> Calls]
      BY DEF PlainInv, PlainShape
    <2>2. Idle \in Calls /\ Idle.pc = "idle" /\ TheCall \in Calls
      BY <2>1, PlainFacts DEF Idle, TheCall
    <2>3. TheCall' \in Calls
      BY <1>5, <2>2
    <2>4. thread' \in [Threads -> Calls]
      BY <1>5, <2>1, <2>3, PlainFacts
    <2>5. TheCall'.pc # "idle" => TheCall'.req \in Request
      BY <1>5, <2>2 DEF PlainInv, PlainShape, TheCall
    <2> QED BY <1>1, <1>3, <2>4, <2>5 DEF PlainInv, PlainShape, TheCall
  <1>7. \/ overrun' /\ UNCHANGED last
        \/ /\ ServerPhase' = Moved(req.op, ServerPhase)
           /\ last'.phase = ServerPhase' /\ last'.at = req.at
    BY HandleFacts
  <1>8. req.at = Moved(req.op, ServerPhase)
    BY HandleFacts
  <1>9. InStep'
    BY <1>7, <1>8 DEF PlainInv, InStep
  <1>10. ASSUME ~overrun' PROVE CallInStep' /\ WireInStep'
    <2>1. ServerPhase' = req.at
      BY <1>7, <1>8, <1>10
    <2>2. SentPhase' = SentPhase
      <3>1. CASE Len(Sent) = 1
        BY <1>1, <1>4, <2>1, <3>1 DEF SentPhase
      <3>2. CASE Len(Sent) # 1
        BY <1>1, <1>4, <3>2 DEF SentPhase
      <3> QED BY <3>1, <3>2
    <2>3. CallInStep'
      BY <1>1, <1>5, <2>2 DEF PlainInv, CallInStep, TheClient, Idle
    <2>4. \A k \in 1 .. Len(Sent) :
             k > 1 => Sent[k].at = Moved(Sent[k].op, Sent[k - 1].at)
      BY <1>1 DEF PlainInv, WireInStep
    <2>5. Sent' # <<>> => Sent'[1].at = Moved(Sent'[1].op, ServerPhase')
      <3> SUFFICES ASSUME Sent' # <<>> PROVE Sent'[1].at = Moved(Sent'[1].op, ServerPhase')
        OBVIOUS
      <3>1. 2 \in 1 .. Len(Sent) /\ Sent'[1] = Sent[2]
        BY <1>4
      <3>2. Sent[2].at = Moved(Sent[2].op, Sent[2 - 1].at)
        BY <2>4, <3>1
      <3> QED BY <2>1, <3>1, <3>2
    <2>6. \A k \in 1 .. Len(Sent') :
             k > 1 => Sent'[k].at = Moved(Sent'[k].op, Sent'[k - 1].at)
      <3> SUFFICES ASSUME NEW k \in 1 .. Len(Sent'), k > 1
                   PROVE  Sent'[k].at = Moved(Sent'[k].op, Sent'[k - 1].at)
        OBVIOUS
      <3>1. /\ k + 1 \in 1 .. Len(Sent) /\ k - 1 \in 1 .. Len(Sent')
            /\ Sent'[k] = Sent[k + 1] /\ Sent'[k - 1] = Sent[k]
            /\ k + 1 > 1 /\ (k + 1) - 1 = k /\ (k - 1) + 1 = k
        BY <1>4
      <3>2. Sent[k + 1].at = Moved(Sent[k + 1].op, Sent[(k + 1) - 1].at)
        BY <2>4, <3>1
      <3> QED BY <3>1, <3>2
    <2> QED BY <2>3, <2>5, <2>6 DEF WireInStep
  <1> QED BY <1>2, <1>6, <1>9, <1>10 DEF PlainInv

\* Nothing breaks the one connection.
LEMMA NothingRestarts ==
    ASSUME PlainApplication, PlainInv
    PROVE  /\ \A p \in Procs : ~Restart(p) /\ ~Repair(p)
           /\ ~ServerRestart
           /\ ~SendFails(TheThread)
  BY PlainFacts DEF PlainInv, PlainShape, PlainApplication, Restart, Repair,
                    Connect, ServerRestart, SendFails

LEMMA StepPlain ==
    ASSUME PlainApplication, PlainInv, [Next]_ivars PROVE PlainInv'
  <1>1. CASE \E t \in Threads : Begin(t)
    BY <1>1, PlainFacts, UploadKeeps, DownloadKeeps, LaunchKeeps DEF Begin
  <1>2. CASE \E t \in Threads : Proceed(t)
    BY <1>2, PlainFacts, BumpKeeps, SendKeeps, TimeoutKeeps, NothingRestarts DEF Proceed
  <1>3. CASE \E c \in Connections : Handle(c)
    BY <1>3, HandleKeeps
  <1>4. CASE UNCHANGED ivars
    <2>1. PlainShape' /\ (~overrun => CallInStep')
      BY <1>4, SameSentPhase
         DEF ivars, clientvars, PlainInv, PlainShape, CallInStep, TheCall, TheClient
    <2> QED BY <1>4, <2>1, QuietStep DEF ivars
  <1> QED BY <1>1, <1>2, <1>3, <1>4, NothingRestarts DEF Next

LEMMA PlainAlways == ASSUME PlainApplication PROVE Spec => []PlainInv
  <1>1. Init => PlainInv
    BY InitPlain
  <1>2. PlainInv /\ [Next]_ivars => PlainInv'
    BY StepPlain
  <1> QED BY <1>1, <1>2, PTL DEF Spec

(* The two copies of the counts agree, request by request, however many    *)
(* inferences the application runs and whichever of its calls time out.    *)
THEOREM PlainClientStaysInStep == ASSUME PlainApplication PROVE Spec => []InStep
  <1>1. PlainInv => InStep
    BY DEF PlainInv
  <1> QED BY <1>1, PlainAlways, PTL

(***************************************************************************)
(* The first inference of such an application: what the server does with   *)
(* a request follows from the phase it shares with the client.             *)
(***************************************************************************)
TargetsTyped ==
    /\ input_address \in [0 .. InputMax - 1 -> Addr \cup Kernel \cup {0}]
    /\ input_count \in Nat

DirectInv == PlainInv /\ TargetsTyped /\ FirstInferenceIsDirect

LEMMA InitDirect == ASSUME PlainApplication, Init PROVE DirectInv
  <1>1. TargetsTyped
    BY DEF Init, TargetsTyped, NoTargets
  <1>2. FirstInferenceIsDirect
    BY DEF Init, NothingHandled, FirstInferenceIsDirect, PhaseOf, Started
  <1> QED BY <1>1, <1>2, InitPlain DEF DirectInv

LEMMA StepDirect ==
    ASSUME PlainApplication, DirectInv, [Next]_ivars PROVE DirectInv'
  <1>1. PlainInv'
    BY StepPlain DEF DirectInv
  <1>2. CASE UNCHANGED servervars
    BY <1>1, <1>2 DEF DirectInv, TargetsTyped, FirstInferenceIsDirect, servervars
  <1>3. ASSUME NEW c \in Connections, Handle(c) PROVE DirectInv'
    <2> DEFINE req == Head(wire[c])
    <2>1. req \in Request
      BY <1>3, PlainFacts DEF DirectInv, PlainInv, PlainShape, Handle
    <2>2. InStep' /\ ServerInv /\ ServerInv'
      BY <1>1 DEF DirectInv, PlainInv
    <2>3. CASE ServeUpload(req)
      <3>1. TargetsTyped'
        BY <2>1, <2>3 DEF DirectInv, TargetsTyped, ServeUpload, Request
      <3>2. CASE overrun'
        BY <1>1, <1>3, <2>3, <3>1, <3>2
           DEF DirectInv, FirstInferenceIsDirect, ServeUpload, Handle
      <3>3. CASE ~overrun'
        <4>1. /\ input_count \in 0 .. InputMax - 1
              /\ last'.op = req.op /\ last'.asked = req.asked
              /\ last'.phase = ServerPhase' /\ last'.at = req.at
              /\ last'.dst = input_address'[input_count]
          BY <2>3, <3>3, ReplayAssumption
             DEF ServeUpload, Handled, DirectInv, TargetsTyped
        <4>2. req.op # "none" /\ req.op # "launch"
          BY <2>3 DEF ServeUpload
        <4>3. last'.at.input_times = input_times'
          BY <2>2, <4>1, <4>2 DEF InStep, ServerPhase
        <4>4. input_times' = 1 => Recording
          BY <2>2, <2>3 DEF ServeUpload, StartsAtServer, Recording, ServerInv, ServerPhases
        <4>5. Recording => input_address'[input_count] = req.asked
          BY <2>3, <3>3, <4>1 DEF ServeUpload, DirectInv, TargetsTyped
        <4> QED BY <1>1, <3>1, <4>1, <4>2, <4>3, <4>4, <4>5
             DEF DirectInv, FirstInferenceIsDirect
      <3> QED BY <3>2, <3>3
    <2>4. CASE ServeDownload(req) \/ ServeFar(req)
      <3>1. last'.op # "htod" /\ last'.op # "launch"
        BY <2>4 DEF ServeDownload, ServeFar, Handled
      <3>2. TargetsTyped'
        BY <2>4 DEF DirectInv, TargetsTyped, ServeDownload, ServeFar, InputCountAfter
      <3> QED BY <1>1, <3>1, <3>2 DEF DirectInv, FirstInferenceIsDirect
    <2>5. CASE ServeLaunch(req)
      <3>1. TargetsTyped' /\ input_times' = input_times
        BY <2>5 DEF DirectInv, TargetsTyped, ServeLaunch
      <3>2. /\ last'.op = "launch" /\ last'.asked = req.asked
            /\ last'.phase = ServerPhase
            /\ RunsKernel => last'.ran = <<req.asked>>
        BY <2>5 DEF ServeLaunch, Handled
      <3>3. last'.at.input_times = input_times
        BY <2>2, <3>2 DEF InStep, ServerPhase
      <3> QED BY <1>1, <3>1, <3>2, <3>3 DEF DirectInv, FirstInferenceIsDirect, RunsKernel
    <2> QED BY <1>3, <2>3, <2>4, <2>5 DEF Handle
  <1> QED BY <1>2, <1>3, NextCases, ClientStepKeepsServer, NothingRestarts
       DEF ivars, DirectInv

(* In the first inference every upload of such an application lands where  *)
(* it was asked to and every kernel is run, whatever its targets are.      *)
THEOREM FirstInferenceBehavesDirectly ==
    ASSUME PlainApplication PROVE Spec => []FirstInferenceIsDirect
  <1>1. Init => DirectInv
    BY InitDirect
  <1>2. DirectInv /\ [Next]_ivars => DirectInv'
    BY StepDirect
  <1>3. DirectInv => FirstInferenceIsDirect
    BY DEF DirectInv
  <1> QED BY <1>1, <1>2, <1>3, PTL DEF Spec

-----------------------------------------------------------------------------
(***************************************************************************)
(* Types, for any clients: a request carries what its kind of call is      *)
(* about, so that the server notes device addresses where it notes targets *)
(* and kernels where it notes kernels.                                     *)
(***************************************************************************)
WellFormed == {r \in Request : /\ r.op \in Uploading => r.asked \in Addr
                               /\ r.op = "launch" => r.asked \in Kernel}
Calling == [pc : {"bump", "ready", "waiting"}, req : WellFormed, seen : Nat]

ClientTypes ==
    /\ client \in [Procs -> Client]
    /\ conn \in [Procs -> 0 .. MaxRestarts] /\ broken \subseteq Procs
    /\ thread \in [Threads -> {Idle} \cup Calling]

ServerTypes ==
    /\ input_times \in Nat /\ output_times \in Nat /\ operator_count = 0
    /\ input_address \in [0 .. InputMax - 1 -> Addr \cup {0}]
    /\ input_count \in Nat
    /\ recorded_func \in [0 .. OperatorMax - 1 -> Kernel \cup {0}]
    /\ overrun \in BOOLEAN

TypeInv == ClientTypes /\ ServerTypes /\ wire \in [Connections -> Seq(WellFormed)]

LEMMA IdleIsNoCall == Idle.pc = "idle" /\ Idle \notin Calling
  BY DEF Idle, Calling

LEMMA InitTypes == Init => TypeInv
  <1> SUFFICES ASSUME Init PROVE TypeInv
    OBVIOUS
  <1>1. Started \in Client /\ 0 \in 0 .. MaxRestarts
    BY ReplayAssumption DEF Started, Client
  <1>2. client \in [Procs -> Client] /\ conn \in [Procs -> 0 .. MaxRestarts]
    BY <1>1 DEF Init
  <1>3. thread \in [Threads -> {Idle} \cup Calling]
    BY DEF Init
  <1>4. /\ input_address \in [0 .. InputMax - 1 -> Addr \cup {0}]
        /\ recorded_func \in [0 .. OperatorMax - 1 -> Kernel \cup {0}]
    BY DEF Init, NoTargets, NoKernels
  <1>5. wire \in [Connections -> Seq(WellFormed)]
    <2>1. <<>> \in Seq(WellFormed)
      OBVIOUS
    <2> QED BY <2>1 DEF Init
  <1> QED BY <1>2, <1>3, <1>4, <1>5 DEF Init, TypeInv, ClientTypes, ServerTypes

\* The state of a thread changes, and maybe the counts of its process.
LEMMA ThreadTypes ==
    ASSUME TypeInv, NEW t \in Threads, NEW s \in {Idle} \cup Calling,
           thread' = [thread EXCEPT ![t] = s], UNCHANGED <<conn, broken, wire, servervars>>,
           client' \in [Procs -> Client]
    PROVE  TypeInv'
  <1>1. thread' \in [Threads -> {Idle} \cup Calling]
    BY DEF TypeInv, ClientTypes
  <1> QED BY <1>1 DEF TypeInv, ClientTypes, ServerTypes, servervars

LEMMA ReadyCalls ==
    ASSUME NEW op \in Kinds, NEW a \in Addr \cup Kernel \cup {0}, NEW c \in Client,
           op \in Uploading => a \in Addr, op = "launch" => a \in Kernel
    PROVE  Ready(op, a, c) \in Calling
  <1>1. PhaseOf(c) \in Phase
    BY DEF PhaseOf, Phase, Client
  <1>2. [op |-> op, asked |-> a, at |-> PhaseOf(c)] \in WellFormed
    BY <1>1 DEF WellFormed, Request
  <1> QED BY <1>2 DEF Ready, Calling

LEMMA BumpingCalls ==
    ASSUME NEW op \in Kinds, NEW a \in Addr \cup Kernel \cup {0}, NEW n \in Nat,
           op \in Uploading => a \in Addr, op = "launch" => a \in Kernel
    PROVE  Bumping(op, a, n) \in Calling
  <1>1. PhaseOf(Started) \in Phase
    BY DEF PhaseOf, Phase, Started
  <1>2. [op |-> op, asked |-> a, at |-> PhaseOf(Started)] \in WellFormed
    BY <1>1 DEF WellFormed, Request
  <1> QED BY <1>2 DEF Bumping, Calling

LEMMA BeginTypes ==
    ASSUME TypeInv, NEW t \in Threads, Begin(t)
    PROVE  TypeInv'
  <1>1. PICK c : c = client[ProcOf[t]]
    OBVIOUS
  <1>2. c \in Client /\ c.input_times \in Nat /\ c.output_times \in Nat /\ UNCHANGED client
    BY <1>1, ReplayAssumption
    DEF TypeInv, ClientTypes, Client, Begin, Upload, Download, Launch
  <1>3. ASSUME NEW op \in Uploading, NEW a \in Addr, Upload(t, op, a)
        PROVE  TypeInv'
    <2>1. op \in Kinds /\ op # "launch"
      BY <1>3 DEF Upload, Uploading
    <2>2. PICK s : s = Bumping(op, a, c.input_times) \/ s = Ready(op, a, c)
      OBVIOUS
    <2>3. Bumping(op, a, c.input_times) \in Calling /\ Ready(op, a, c) \in Calling
      BY <1>2, <2>1, BumpingCalls, ReadyCalls
    <2>4. CASE thread' = [thread EXCEPT ![t] = Bumping(op, a, c.input_times)]
      BY <1>2, <1>3, <2>3, <2>4, ThreadTypes DEF Upload, TypeInv, ClientTypes
    <2>5. CASE thread' = [thread EXCEPT ![t] = Ready(op, a, c)]
      BY <1>2, <1>3, <2>3, <2>5, ThreadTypes DEF Upload, TypeInv, ClientTypes
    <2> QED BY <1>1, <1>3, <2>4, <2>5 DEF Upload
  <1>4. ASSUME NEW op \in Downloading, Download(t, op)
        PROVE  TypeInv'
    <2>1. op \in Kinds /\ op # "launch" /\ op \notin Uploading
      BY <1>4 DEF Download, Downloading, Uploading
    <2>3. Bumping(op, 0, c.output_times) \in Calling /\ Ready(op, 0, c) \in Calling
      BY <1>2, <2>1, BumpingCalls, ReadyCalls
    <2>4. CASE thread' = [thread EXCEPT ![t] = Bumping(op, 0, c.output_times)]
      BY <1>2, <1>4, <2>3, <2>4, ThreadTypes DEF Download, TypeInv, ClientTypes
    <2>5. CASE thread' = [thread EXCEPT ![t] = Ready(op, 0, c)]
      BY <1>2, <1>4, <2>3, <2>5, ThreadTypes DEF Download, TypeInv, ClientTypes
    <2> QED BY <1>1, <1>4, <2>4, <2>5 DEF Download
  <1>5. ASSUME NEW f \in Kernel, Launch(t, f)
        PROVE  TypeInv'
    <2>1. "launch" \in Kinds /\ "launch" \notin Uploading
      BY <1>5 DEF Launch, Uploading
    <2>2. Ready("launch", f, c) \in Calling
      BY <1>2, <2>1, ReadyCalls
    <2>3. thread' = [thread EXCEPT ![t] = Ready("launch", f, c)]
      BY <1>1, <1>5 DEF Launch
    <2> QED BY <1>2, <1>5, <2>2, <2>3, ThreadTypes DEF Launch, TypeInv, ClientTypes
  <1> QED BY <1>3, <1>4, <1>5 DEF Begin

LEMMA BumpTypes ==
    ASSUME TypeInv, NEW t \in Threads, Bump(t)
    PROVE  TypeInv'
  <1>1. PICK p, r, s : p = ProcOf[t] /\ r = thread[t].req /\ s = Ready(r.op, r.asked, client'[p])
    OBVIOUS
  <1>2. p \in Procs /\ thread[t] \in Calling /\ client[p] \in Client
    BY <1>1, ReplayAssumption, IdleIsNoCall DEF Bump, TypeInv, ClientTypes
  <1>3. r \in WellFormed /\ thread[t].seen \in Nat
    BY <1>1, <1>2 DEF Calling
  <1>4. client' \in [Procs -> Client]
    <2>1. \A n \in Nat : /\ [client[p] EXCEPT !.input_times = n + 1, !.operator_count = 0] \in Client
                        /\ [client[p] EXCEPT !.output_times = n + 1] \in Client
      <3> TAKE n \in Nat
      <3>1. n + 1 \in Nat
        OBVIOUS
      <3> QED BY <1>2, <3>1 DEF Client
    <2>2. client[p].input_times \in Nat /\ client[p].output_times \in Nat
      BY <1>2 DEF Client
    <2>3. \A new \in Client : [client EXCEPT ![p] = new] \in [Procs -> Client]
      BY <1>2 DEF TypeInv, ClientTypes
    <2>4. CASE r.op \in Uploading
               /\ \E n \in {thread[t].seen, client[p].input_times} :
                    client' = [client EXCEPT ![p].input_times = n + 1, ![p].operator_count = 0]
      <3>1. PICK n \in Nat :
               client' = [client EXCEPT ![p] = [client[p] EXCEPT !.input_times = n + 1, !.operator_count = 0]]
        BY <1>3, <2>2, <2>4
      <3> QED BY <2>1, <2>3, <3>1
    <2>5. CASE r.op \in Downloading
               /\ \E n \in {thread[t].seen, client[p].output_times} :
                    client' = [client EXCEPT ![p].output_times = n + 1]
      <3>1. PICK n \in Nat : client' = [client EXCEPT ![p] = [client[p] EXCEPT !.output_times = n + 1]]
        BY <1>3, <2>2, <2>5
      <3> QED BY <2>1, <2>3, <3>1
    <2> QED BY <1>1, <2>4, <2>5 DEF Bump
  <1>5. s \in Calling
    <2>1. client'[p] \in Client
      BY <1>2, <1>4
    <2>2. r.op \in Kinds /\ r.asked \in Addr \cup Kernel \cup {0}
      BY <1>3 DEF WellFormed, Request
    <2>3. (r.op \in Uploading => r.asked \in Addr) /\ (r.op = "launch" => r.asked \in Kernel)
      BY <1>3 DEF WellFormed
    <2> QED BY <1>1, <2>1, <2>2, <2>3, ReadyCalls
  <1>6. thread' = [thread EXCEPT ![t] = s]
    BY <1>1 DEF Bump
  <1> QED BY <1>4, <1>5, <1>6, ThreadTypes DEF Bump

LEMMA SendTypes ==
    ASSUME TypeInv, NEW t \in Threads, Send(t)
    PROVE  TypeInv'
  <1>1. PICK c, r : c = <<ProcOf[t], conn[ProcOf[t]]>> /\ r = thread[t].req
    OBVIOUS
  <1>2. c \in Connections /\ thread[t] \in Calling /\ r \in WellFormed
    BY <1>1, ReplayAssumption, IdleIsNoCall DEF Send, TypeInv, ClientTypes, Connections, Calling
  <1>3. thread' \in [Threads -> {Idle} \cup Calling]
    <2>1. [thread[t] EXCEPT !.pc = "waiting"] \in Calling
      BY <1>2 DEF Calling
    <2>2. thread' = [thread EXCEPT ![t] = [thread[t] EXCEPT !.pc = "waiting"]]
      BY DEF Send
    <2> QED BY <2>1, <2>2 DEF TypeInv, ClientTypes
  <1>4. wire' \in [Connections -> Seq(WellFormed)]
    <2>1. wire[c] \in Seq(WellFormed)
      BY <1>2 DEF TypeInv
    <2>2. Append(wire[c], r) \in Seq(WellFormed)
      BY <1>2, <2>1, AppendProperties
    <2>3. wire' = [wire EXCEPT ![c] = Append(wire[c], r)]
      BY <1>1 DEF Send
    <2> QED BY <2>2, <2>3 DEF TypeInv
  <1> QED BY <1>3, <1>4 DEF Send, TypeInv, ClientTypes, ServerTypes, servervars

LEMMA ConnectTypes ==
    ASSUME TypeInv, NEW p \in Procs, Connect(p)
    PROVE  conn' \in [Procs -> 0 .. MaxRestarts] /\ broken' \subseteq Procs
  <1>1. conn[p] + 1 \in 0 .. MaxRestarts
    BY ReplayAssumption DEF Connect, TypeInv, ClientTypes
  <1> QED BY <1>1 DEF Connect, TypeInv, ClientTypes

LEMMA ClientStepTypes == ASSUME TypeInv, ClientStep PROVE TypeInv'
  <1>1. ASSUME NEW t \in Threads, Begin(t) \/ Proceed(t) PROVE TypeInv'
    <2>1. CASE Begin(t)
      BY <2>1, BeginTypes
    <2>2. CASE Bump(t)
      BY <2>2, BumpTypes
    <2>3. CASE Send(t)
      BY <2>3, SendTypes
    <2>4. CASE SendFails(t) \/ Timeout(t)
      <3>1. thread' = [thread EXCEPT ![t] = Idle] /\ UNCHANGED <<client, conn, broken, wire, servervars>>
        BY <2>4 DEF SendFails, Timeout
      <3> QED BY <3>1, ThreadTypes DEF TypeInv, ClientTypes
    <2> QED BY <1>1, <2>1, <2>2, <2>3, <2>4 DEF Proceed
  <1>2. ASSUME NEW p \in Procs, Restart(p) PROVE TypeInv'
    <2>1. conn' \in [Procs -> 0 .. MaxRestarts] /\ broken' \subseteq Procs
      BY <1>2, ConnectTypes DEF Restart
    <2>2. client' \in [Procs -> Client]
      <3>1. Started \in Client
        BY DEF Started, Client
      <3> QED BY <1>2, <3>1 DEF Restart, TypeInv, ClientTypes
    <2>3. thread' \in [Threads -> {Idle} \cup Calling]
      BY <1>2 DEF Restart, TypeInv, ClientTypes
    <2> QED BY <1>2, <2>1, <2>2, <2>3 DEF Restart, TypeInv, ClientTypes, ServerTypes, servervars
  <1>3. ASSUME NEW p \in Procs, Repair(p) PROVE TypeInv'
    <2>1. conn' \in [Procs -> 0 .. MaxRestarts] /\ broken' \subseteq Procs
      BY <1>3, ConnectTypes DEF Repair
    <2> QED BY <1>3, <2>1 DEF Repair, TypeInv, ClientTypes, ServerTypes, servervars
  <1> QED BY <1>1, <1>2, <1>3 DEF ClientStep

LEMMA ServeTypes ==
    ASSUME ServerTypes, NEW req \in WellFormed,
           ServeUpload(req) \/ ServeDownload(req) \/ ServeFar(req) \/ ServeLaunch(req)
    PROVE  ServerTypes'
  <1>1. CASE ServeUpload(req)
    <2>1. req.asked \in Addr
      BY <1>1 DEF ServeUpload, WellFormed, Uploading
    <2>2. input_address' \in [0 .. InputMax - 1 -> Addr \cup {0}]
      BY <1>1, <2>1 DEF ServeUpload, ServerTypes
    <2>3. input_times' \in Nat /\ input_count' \in Nat
      BY <1>1 DEF ServeUpload, StartsAtServer, ServerTypes
    <2>4. overrun' \in BOOLEAN
      BY <1>1 DEF ServeUpload, ServerTypes
    <2> QED BY <1>1, <2>2, <2>3, <2>4 DEF ServeUpload, ServerTypes
  <1>2. CASE ServeDownload(req)
    BY <1>2 DEF ServeDownload, InputCountAfter, ServerTypes
  <1>3. CASE ServeFar(req)
    BY <1>3 DEF ServeFar, ServerTypes
  <1>4. CASE ServeLaunch(req)
    <2>1. req.asked \in Kernel
      BY <1>4 DEF ServeLaunch, WellFormed
    <2>2. recorded_func' \in [0 .. OperatorMax - 1 -> Kernel \cup {0}]
      BY <1>4, <2>1 DEF ServeLaunch, ServerTypes
    <2> QED BY <1>4, <2>2 DEF ServeLaunch, ServerTypes
  <1> QED BY <1>1, <1>2, <1>3, <1>4

LEMMA HandleTypes ==
    ASSUME TypeInv, NEW c \in Connections, Handle(c)
    PROVE  TypeInv'
  <1>1. PICK req : req = Head(wire[c])
    OBVIOUS
  <1>2. wire[c] \in Seq(WellFormed) /\ wire[c] # <<>>
    BY DEF Handle, TypeInv
  <1>3. req \in WellFormed /\ Tail(wire[c]) \in Seq(WellFormed)
    BY <1>1, <1>2, HeadTailProperties
  <1>4. ServerTypes'
    <2>1. ServeUpload(req) \/ ServeDownload(req) \/ ServeFar(req) \/ ServeLaunch(req)
      BY <1>1 DEF Handle
    <2> QED BY <1>3, <2>1, ServeTypes DEF TypeInv
  <1>5. thread' \in [Threads -> {Idle} \cup Calling]
    BY DEF Handle, TypeInv, ClientTypes
  <1>6. wire' \in [Connections -> Seq(WellFormed)]
    BY <1>3 DEF Handle, TypeInv
  <1> QED BY <1>4, <1>5, <1>6 DEF Handle, TypeInv, ClientTypes

LEMMA StepTypes == TypeInv /\ [Next]_ivars => TypeInv'
  <1> SUFFICES ASSUME TypeInv, [Next]_ivars PROVE TypeInv'
    OBVIOUS
  <1>1. CASE ServerRestart
    <2>1. /\ NoTargets \in [0 .. InputMax - 1 -> Addr \cup {0}]
          /\ NoKernels \in [0 .. OperatorMax - 1 -> Kernel \cup {0}]
      BY DEF NoTargets, NoKernels
    <2>2. ServerTypes'
      BY <1>1, <2>1 DEF ServerRestart, ServerTypes
    <2>3. wire' \in [Connections -> Seq(WellFormed)]
      <3>1. <<>> \in Seq(WellFormed)
        OBVIOUS
      <3> QED BY <1>1, <3>1 DEF ServerRestart
    <2> QED BY <1>1, <2>2, <2>3 DEF ServerRestart, TypeInv, ClientTypes
  <1>2. CASE UNCHANGED ivars
    BY <1>2 DEF ivars, clientvars, servervars, TypeInv, ClientTypes, ServerTypes
  <1> QED BY <1>1, <1>2, NextCases, ClientStepTypes, HandleTypes

(* Every variable holds values of its kind, whatever is lost, repeated or  *)
(* restarted: input_address holds targets of uploads, recorded_func holds  *)
(* kernels, and nothing counts operator_count up.                          *)
THEOREM ReplayKeepsTypes == Spec => []ReplayTypeOK
  <1>1. TypeInv => ReplayTypeOK
    <2> SUFFICES ASSUME TypeInv PROVE ReplayTypeOK
      OBVIOUS
    <2>1. \A p \in Procs : PhaseOf(client[p]) \in Phase
      BY DEF TypeInv, ClientTypes, Client, PhaseOf, Phase
    <2>2. ASSUME NEW t \in Threads
          PROVE  /\ thread[t].pc \in {"idle", "bump", "ready", "waiting"}
                 /\ thread[t] # Idle => thread[t].req \in Request
      <3>1. thread[t] = Idle \/ thread[t] \in Calling
        BY DEF TypeInv, ClientTypes
      <3> QED BY <3>1, IdleIsNoCall DEF Calling, WellFormed
    <2>3. wire \in [Connections -> Seq(Request)]
      <3>1. Seq(WellFormed) \subseteq Seq(Request)
        BY DEF WellFormed
      <3> QED BY <3>1 DEF TypeInv
    <2>4. ServerPhase \in Phase
      BY DEF TypeInv, ServerTypes, ServerPhase, Phase
    <2> QED BY <2>1, <2>2, <2>3, <2>4 DEF TypeInv, ClientTypes, ServerTypes, ReplayTypeOK
  <1> QED BY <1>1, InitTypes, StepTypes, PTL DEF Spec

-----------------------------------------------------------------------------
(***************************************************************************)
(* Client processes of one thread each, of which any number may call, fail *)
(* and be started anew: at every copy that both sides count, they agree on *)
(* whether an inference is under way.                                      *)
(***************************************************************************)
OneThreadEach == \A t, u \in Threads : ProcOf[t] = ProcOf[u] => t = u

\* The stage a client is in when it sends an upload, or a download.
Staged(r) ==
    /\ r.op = "htod" => UnderWay(r.at)
    /\ r.op = "dtoh" => ~UnderWay(r.at)
StagedRequest == {r \in WellFormed : Staged(r)}

Steady(c) == c.input_times \in {c.output_times, c.output_times + 1}

\* A thread about to change a count is the only one that can.
CallStaged(s, c) ==
    /\ s.pc = "bump" =>
         /\ s.req.op \in Uploading =>
              c.input_times = c.output_times /\ s.seen = c.input_times
         /\ s.req.op \in Downloading =>
              c.input_times = c.output_times + 1 /\ s.seen = c.output_times
    /\ s.pc = "ready" => Staged(s.req)

ClientsStaged ==
    /\ \A p \in Procs : Steady(client[p])
    /\ \A t \in Threads : CallStaged(thread[t], client[ProcOf[t]])
WireStaged == wire \in [Connections -> Seq(StagedRequest)]
LastStaged ==
    /\ last.op = "htod" => UnderWay(last.phase) /\ UnderWay(last.at)
    /\ last.op = "dtoh" => ~UnderWay(last.phase) /\ ~UnderWay(last.at)

StageInv == TypeInv /\ ServerInv /\ ClientsStaged /\ WireStaged /\ LastStaged

LEMMA IdleStaged == ASSUME NEW c PROVE CallStaged(Idle, c)
  BY DEF CallStaged, Idle

LEMMA InitStaged == Init => StageInv
  <1> SUFFICES ASSUME Init PROVE StageInv
    OBVIOUS
  <1>1. ClientsStaged
    BY IdleStaged, ReplayAssumption DEF Init, ClientsStaged, Steady, Started
  <1>2. WireStaged
    <2>1. <<>> \in Seq(StagedRequest)
      OBVIOUS
    <2> QED BY <2>1 DEF Init, WireStaged
  <1>3. LastStaged
    BY DEF Init, LastStaged, NothingHandled
  <1> QED BY <1>1, <1>2, <1>3, InitTypes, InitServer DEF StageInv

\* A thread and the client it belongs to change; no other thread has it.
LEMMA ThreadStaged ==
    ASSUME TypeInv, OneThreadEach, ClientsStaged,
           NEW t \in Threads, NEW s, NEW c,
           thread' = [thread EXCEPT ![t] = s], CallStaged(s, c), Steady(c),
           client' = [client EXCEPT ![ProcOf[t]] = c]
    PROVE  ClientsStaged'
  <1>1. ASSUME NEW u \in Threads PROVE CallStaged(thread'[u], client'[ProcOf[u]])
    <2>1. CASE u = t
      BY <2>1, ReplayAssumption DEF TypeInv, ClientTypes
    <2>2. CASE u # t
      <3>1. ProcOf[u] # ProcOf[t]
        BY <2>2 DEF OneThreadEach
      <3>2. thread'[u] = thread[u] /\ client'[ProcOf[u]] = client[ProcOf[u]]
        BY <2>2, <3>1, ReplayAssumption DEF TypeInv, ClientTypes
      <3> QED BY <3>2 DEF ClientsStaged
    <2> QED BY <2>1, <2>2
  <1>2. ASSUME NEW p \in Procs PROVE Steady(client'[p])
    BY <1>2 DEF ClientsStaged, TypeInv, ClientTypes
  <1> QED BY <1>1, <1>2 DEF ClientsStaged

LEMMA BeginStaged ==
    ASSUME TypeInv, OneThreadEach, ClientsStaged, NEW t \in Threads, Begin(t)
    PROVE  ClientsStaged'
  <1>1. PICK c : c = client[ProcOf[t]]
    OBVIOUS
  <1>2. /\ c.input_times \in Nat /\ c.output_times \in Nat /\ Steady(c)
        /\ client' = [client EXCEPT ![ProcOf[t]] = c]
    BY <1>1, ReplayAssumption
    DEF TypeInv, ClientTypes, Client, ClientsStaged, Begin, Upload, Download, Launch
  <1>3. ASSUME NEW op \in Uploading, NEW a \in Addr, Upload(t, op, a)
        PROVE  ClientsStaged'
    <2>1. CASE op # "symbol" /\ StartsInference(c)
      <3>1. thread' = [thread EXCEPT ![t] = Bumping(op, a, c.input_times)]
        BY <1>1, <1>3, <2>1 DEF Upload
      <3>2. CallStaged(Bumping(op, a, c.input_times), c)
        BY <2>1 DEF CallStaged, Bumping, StartsInference, Uploading, Downloading
      <3> QED BY <1>2, <3>1, <3>2, ThreadStaged
    <2>2. CASE ~(op # "symbol" /\ StartsInference(c))
      <3>1. thread' = [thread EXCEPT ![t] = Ready(op, a, c)]
        BY <1>1, <1>3, <2>2 DEF Upload
      <3>2. CallStaged(Ready(op, a, c), c)
        BY <2>2 DEF CallStaged, Ready, Staged, StartsInference, Uploading, PhaseOf, UnderWay
      <3> QED BY <1>2, <3>1, <3>2, ThreadStaged
    <2> QED BY <2>1, <2>2
  <1>4. ASSUME NEW op \in Downloading, Download(t, op)
        PROVE  ClientsStaged'
    <2>1. CASE EndsInference(c)
      <3>1. thread' = [thread EXCEPT ![t] = Bumping(op, 0, c.output_times)]
        BY <1>1, <1>4, <2>1 DEF Download
      <3>2. CallStaged(Bumping(op, 0, c.output_times), c)
        BY <1>2, <2>1 DEF CallStaged, Bumping, EndsInference, Steady, Uploading, Downloading
      <3> QED BY <1>2, <3>1, <3>2, ThreadStaged
    <2>2. CASE ~EndsInference(c)
      <3>1. thread' = [thread EXCEPT ![t] = Ready(op, 0, c)]
        BY <1>1, <1>4, <2>2 DEF Download
      <3>2. CallStaged(Ready(op, 0, c), c)
        BY <2>2 DEF CallStaged, Ready, Staged, EndsInference, Downloading, PhaseOf, UnderWay
      <3> QED BY <1>2, <3>1, <3>2, ThreadStaged
    <2> QED BY <2>1, <2>2
  <1>5. ASSUME NEW f \in Kernel, Launch(t, f)
        PROVE  ClientsStaged'
    <2>1. thread' = [thread EXCEPT ![t] = Ready("launch", f, c)]
      BY <1>1, <1>5 DEF Launch
    <2>2. CallStaged(Ready("launch", f, c), c)
      BY DEF CallStaged, Ready, Staged
    <2> QED BY <1>2, <2>1, <2>2, ThreadStaged
  <1> QED BY <1>3, <1>4, <1>5 DEF Begin

LEMMA BumpStaged ==
    ASSUME TypeInv, OneThreadEach, ClientsStaged, NEW t \in Threads, Bump(t)
    PROVE  ClientsStaged'
  <1>1. PICK p, r, c : p = ProcOf[t] /\ r = thread[t].req /\ c = client[p]
    OBVIOUS
  <1>2. /\ p \in Procs /\ c \in Client /\ c.input_times \in Nat /\ c.output_times \in Nat
        /\ Steady(c) /\ CallStaged(thread[t], c) /\ thread[t].pc = "bump"
    BY <1>1, ReplayAssumption DEF TypeInv, ClientTypes, Client, ClientsStaged, Bump
  <1>3. CASE r.op \in Uploading
    <2>1. PICK new : new = [c EXCEPT !.input_times = c.input_times + 1, !.operator_count = 0]
      OBVIOUS
    <2>2. /\ client' = [client EXCEPT ![p] = new]
          /\ c.input_times = c.output_times
      <3>1. c.input_times = c.output_times /\ thread[t].seen = c.input_times
        BY <1>1, <1>2, <1>3 DEF CallStaged
      <3>2. client' = [client EXCEPT ![p].input_times = c.input_times + 1,
                                     ![p].operator_count = 0]
        BY <1>1, <1>3, <3>1 DEF Bump, Uploading, Downloading
      <3> QED BY <1>1, <1>2, <2>1, <3>1, <3>2 DEF TypeInv, ClientTypes
    <2>3. /\ new.input_times = c.input_times + 1 /\ new.output_times = c.output_times
          /\ client'[p] = new
      BY <1>1, <1>2, <2>1, <2>2 DEF Client, TypeInv, ClientTypes
    <2>4. Steady(new) /\ CallStaged(Ready(r.op, r.asked, new), new)
      BY <1>2, <1>3, <2>2, <2>3
      DEF Steady, CallStaged, Ready, Staged, PhaseOf, UnderWay, Uploading
    <2>5. thread' = [thread EXCEPT ![t] = Ready(r.op, r.asked, new)]
      BY <1>1, <2>3 DEF Bump
    <2> QED BY <1>1, <2>2, <2>4, <2>5, ThreadStaged
  <1>4. CASE r.op \in Downloading
    <2>1. PICK new : new = [c EXCEPT !.output_times = c.output_times + 1]
      OBVIOUS
    <2>2. /\ client' = [client EXCEPT ![p] = new]
          /\ c.input_times = c.output_times + 1
      BY <1>1, <1>2, <1>4, <2>1 DEF Bump, CallStaged, Uploading, Downloading
    <2>3. /\ new.input_times = c.input_times /\ new.output_times = c.output_times + 1
          /\ client'[p] = new
      BY <1>1, <1>2, <2>1, <2>2 DEF Client, TypeInv, ClientTypes
    <2>4. Steady(new) /\ CallStaged(Ready(r.op, r.asked, new), new)
      BY <1>2, <1>4, <2>2, <2>3
      DEF Steady, CallStaged, Ready, Staged, PhaseOf, UnderWay, Downloading
    <2>5. thread' = [thread EXCEPT ![t] = Ready(r.op, r.asked, new)]
      BY <1>1, <2>3 DEF Bump
    <2> QED BY <1>1, <2>2, <2>4, <2>5, ThreadStaged
  <1> QED BY <1>1, <1>3, <1>4 DEF Bump

LEMMA SendStaged ==
    ASSUME TypeInv, OneThreadEach, ClientsStaged, WireStaged, NEW t \in Threads, Send(t)
    PROVE  ClientsStaged' /\ WireStaged'
  <1>1. PICK c, r, s : /\ c = <<ProcOf[t], conn[ProcOf[t]]>> /\ r = thread[t].req
                       /\ s = [thread[t] EXCEPT !.pc = "waiting"]
    OBVIOUS
  <1>2. c \in Connections /\ thread[t] \in Calling /\ r \in WellFormed
    BY <1>1, ReplayAssumption, IdleIsNoCall DEF Send, TypeInv, ClientTypes, Connections, Calling
  <1>3. r \in StagedRequest
    BY <1>1, <1>2 DEF Send, ClientsStaged, CallStaged, StagedRequest
  <1>4. WireStaged'
    <2>1. wire[c] \in Seq(StagedRequest)
      BY <1>2 DEF WireStaged
    <2>2. Append(wire[c], r) \in Seq(StagedRequest)
      BY <1>3, <2>1, AppendProperties
    <2>3. wire' = [wire EXCEPT ![c] = Append(wire[c], r)]
      BY <1>1 DEF Send
    <2> QED BY <2>2, <2>3 DEF WireStaged
  <1>5. ClientsStaged'
    <2>1. thread' = [thread EXCEPT ![t] = s]
      BY <1>1 DEF Send
    <2>2. s.pc = "waiting"
      BY <1>1, <1>2 DEF Calling
    <2>3. CallStaged(s, client[ProcOf[t]]) /\ Steady(client[ProcOf[t]])
      BY <2>2, ReplayAssumption DEF CallStaged, ClientsStaged
    <2>4. client' = [client EXCEPT ![ProcOf[t]] = client[ProcOf[t]]]
      BY DEF Send, TypeInv, ClientTypes
    <2> QED BY <2>1, <2>3, <2>4, ThreadStaged
  <1> QED BY <1>4, <1>5

LEMMA ClientStepStaged ==
    ASSUME StageInv, OneThreadEach, ClientStep
    PROVE  ClientsStaged' /\ WireStaged'
  <1> USE DEF StageInv
  <1>1. ASSUME NEW t \in Threads, Begin(t) \/ Proceed(t) PROVE ClientsStaged' /\ WireStaged'
    <2>1. CASE Begin(t)
      BY <2>1, BeginStaged DEF Begin, Upload, Download, Launch, WireStaged
    <2>2. CASE Bump(t)
      BY <2>2, BumpStaged DEF Bump, WireStaged
    <2>3. CASE Send(t)
      BY <2>3, SendStaged
    <2>4. CASE SendFails(t) \/ Timeout(t)
      <3>1. /\ thread' = [thread EXCEPT ![t] = Idle] /\ UNCHANGED wire
            /\ client' = [client EXCEPT ![ProcOf[t]] = client[ProcOf[t]]]
        BY <2>4 DEF SendFails, Timeout, TypeInv, ClientTypes
      <3>2. Steady(client[ProcOf[t]])
        BY ReplayAssumption DEF ClientsStaged
      <3> QED BY <3>1, <3>2, IdleStaged, ThreadStaged DEF WireStaged
    <2> QED BY <1>1, <2>1, <2>2, <2>3, <2>4 DEF Proceed
  <1>2. ASSUME NEW p \in Procs, Restart(p) PROVE ClientsStaged' /\ WireStaged'
    <2>1. Steady(Started)
      BY DEF Steady, Started
    <2>2. \A q \in Procs : client'[q] = IF q = p THEN Started ELSE client[q]
      BY <1>2 DEF Restart, TypeInv, ClientTypes
    <2>3. \A u \in Threads : thread'[u] = IF ProcOf[u] = p THEN Idle ELSE thread[u]
      BY <1>2 DEF Restart
    <2>4. ClientsStaged'
      BY <2>1, <2>2, <2>3, IdleStaged, ReplayAssumption DEF ClientsStaged
    <2> QED BY <1>2, <2>4 DEF Restart, WireStaged
  <1>3. ASSUME NEW p \in Procs, Repair(p) PROVE ClientsStaged' /\ WireStaged'
    BY <1>3 DEF Repair, ClientsStaged, WireStaged
  <1> QED BY <1>1, <1>2, <1>3 DEF ClientStep

LEMMA ServeStaged ==
    ASSUME ServerInv, LastStaged, NEW req \in StagedRequest,
           ServeUpload(req) \/ ServeDownload(req) \/ ServeFar(req) \/ ServeLaunch(req)
    PROVE  LastStaged'
  <1>1. Staged(req)
    BY DEF StagedRequest
  <1>2. CASE ServeUpload(req)
    BY <1>1, <1>2
    DEF ServeUpload, StartsAtServer, ServerInv, ServerPhases, ServerPhase, Handled,
        LastStaged, Staged, UnderWay
  <1>3. CASE ServeDownload(req)
    BY <1>1, <1>3
    DEF ServeDownload, EndsAtServer, ServerInv, ServerPhases, ServerPhase, Handled,
        LastStaged, Staged, UnderWay
  <1>4. CASE ServeFar(req) \/ ServeLaunch(req)
    BY <1>4 DEF ServeFar, ServeLaunch, Handled, LastStaged
  <1> QED BY <1>2, <1>3, <1>4

LEMMA HandleStaged ==
    ASSUME StageInv, NEW c \in Connections, Handle(c)
    PROVE  ClientsStaged' /\ WireStaged' /\ LastStaged'
  <1> USE DEF StageInv
  <1>1. PICK req : req = Head(wire[c])
    OBVIOUS
  <1>2. wire[c] \in Seq(StagedRequest) /\ wire[c] # <<>>
    BY DEF Handle, WireStaged
  <1>3. req \in StagedRequest /\ Tail(wire[c]) \in Seq(StagedRequest)
    BY <1>1, <1>2, HeadTailProperties
  <1>4. LastStaged'
    <2>1. ServeUpload(req) \/ ServeDownload(req) \/ ServeFar(req) \/ ServeLaunch(req)
      BY <1>1 DEF Handle
    <2> QED BY <1>3, <2>1, ServeStaged
  <1>5. ClientsStaged'
    <2>1. \A t \in Threads : thread'[t] = thread[t] \/ thread'[t] = Idle
      BY DEF Handle
    <2> QED BY <2>1, IdleStaged DEF Handle, ClientsStaged
  <1>6. WireStaged'
    BY <1>3 DEF Handle, WireStaged
  <1> QED BY <1>4, <1>5, <1>6

LEMMA StepStaged == ASSUME OneThreadEach PROVE StageInv /\ [Next]_ivars => StageInv'
  <1> SUFFICES ASSUME StageInv, [Next]_ivars PROVE StageInv'
    OBVIOUS
  <1>1. TypeInv' /\ ServerInv'
    BY StepTypes, StepServer DEF StageInv
  <1>2. CASE ClientStep
    <2>1. LastStaged'
      BY <1>2, ClientStepKeepsServer DEF servervars, StageInv, LastStaged
    <2> QED BY <1>1, <1>2, <2>1, ClientStepStaged DEF StageInv
  <1>3. CASE ServerRestart
    <2>1. WireStaged'
      <3>1. <<>> \in Seq(StagedRequest)
        OBVIOUS
      <3> QED BY <1>3, <3>1 DEF ServerRestart, WireStaged
    <2>2. LastStaged'
      BY <1>3 DEF ServerRestart, NothingHandled, LastStaged
    <2> QED BY <1>1, <1>3, <2>1, <2>2 DEF ServerRestart, StageInv, ClientsStaged
  <1>4. CASE UNCHANGED ivars
    BY <1>1, <1>4 DEF ivars, clientvars, servervars, StageInv, ClientsStaged, WireStaged, LastStaged
  <1> QED BY <1>1, <1>2, <1>3, <1>4, NextCases, HandleStaged DEF StageInv

(* Any number of single-threaded processes: at every copy that reaches the *)
(* server's counts, its caller and the server agree on whether an          *)
(* inference is under way, whatever has been lost, forgotten, restarted or *)
(* copied past the counts before.                                          *)
THEOREM StagesAlwaysMeet == ASSUME OneThreadEach PROVE Spec => []StagesMeet
  <1>1. StageInv => StagesMeet
    BY DEF StageInv, LastStaged, StagesMeet
  <1> QED BY <1>1, InitStaged, StepStaged, PTL DEF Spec

-----------------------------------------------------------------------------
(***************************************************************************)
(* Replayed inferences: one single-threaded client whose inferences all    *)
(* upload to the same targets in the same order gets each upload where it  *)
(* asked for it, however many inferences it runs, however many requests    *)
(* are on their way and whichever of its calls time out.                   *)
(***************************************************************************)
FixedApplication == PlainApplication /\ Targets # <<>>

n == Len(Targets)

(* The server's count of uploads after a request.                          *)
After(op, k) == IF op = "htod" THEN k + 1 ELSE IF op = "dtoh" THEN 0 ELSE k

(* A phase and a count that belong together: nothing is uploaded between   *)
(* two inferences.                                                         *)
Fits(ph, k) ==
    /\ ph.input_times \in Nat /\ ph.output_times \in Nat
    /\ ph.input_times \in ph.output_times .. ph.output_times + 1
    /\ ph.input_times = ph.output_times <=> k = 0
    /\ k \in 0 .. n

(* A request that the server will handle at count k is the one the         *)
(* application makes there.                                                *)
Lands(req, k) ==
    /\ req.op \in {"htod", "dtoh", "launch"}
    /\ req.op = "htod" => k < n /\ req.asked = Targets[k + 1]
    /\ req.op = "dtoh" => k \in {0, n}

PhaseAfter(k) == IF k = 0 THEN ServerPhase ELSE Sent[k].at

CallFits(k) ==
    /\ TheCall.pc \in {"idle", "waiting"} => uploads[TheProc] = k
    /\ TheCall.pc \in {"bump", "ready"} =>
          Lands(TheCall.req, k) /\ uploads[TheProc] = After(TheCall.req.op, k)

(* The server's counts from now until everything sent has been handled.    *)
Counts(cnt) ==
    /\ CallFits(cnt[Len(Sent)])
    /\ cnt[0] = input_count
    /\ \A k \in 0 .. Len(Sent) : Fits(PhaseAfter(k), cnt[k])
    /\ \A k \in 1 .. Len(Sent) : /\ Lands(Sent[k], cnt[k - 1])
                                 /\ cnt[k] = After(Sent[k].op, cnt[k - 1])

Counted == \E cnt : Counts(cnt)

Noted ==
    \A i \in 0 .. n - 1 :
        i < input_count \/ output_times > 0 => input_address[i] = Targets[i + 1]

FixedInv ==
    /\ PlainInv /\ TargetsTyped
    /\ uploads \in [Procs -> Nat]
    /\ ~overrun => Noted /\ Counted
    /\ UploadsReachTheirTargets

LEMMA FixedFacts ==
  ASSUME FixedApplication
  PROVE  n \in Nat \ {0} /\ Targets \in Seq(Addr)
  <1>1. Targets \in Seq(Addr) /\ Targets # <<>>
    BY ReplayAssumption DEF FixedApplication
  <1> QED BY <1>1 DEF n

LEMMA MovedFits ==
  ASSUME FixedApplication, NEW ph, NEW k, Fits(ph, k), NEW req, Lands(req, k)
  PROVE  Fits(Moved(req.op, ph), After(req.op, k))
  <1>1. n \in Nat \ {0}
    BY FixedFacts
  <1>2. k \in Nat
    BY <1>1 DEF Fits
  <1>3. CASE req.op = "htod"
    BY <1>1, <1>2, <1>3 DEF Fits, Lands, Moved, After
  <1>4. CASE req.op = "dtoh"
    BY <1>1, <1>2, <1>4 DEF Fits, Lands, Moved, After
  <1>5. CASE req.op = "launch"
    BY <1>1, <1>2, <1>5 DEF Fits, Lands, Moved, After
  <1> QED BY <1>3, <1>4, <1>5 DEF Lands

LEMMA InitFixed == ASSUME FixedApplication, Init PROVE FixedInv
  <1>1. PlainInv /\ TargetsTyped /\ PlainApplication
    BY InitPlain DEF FixedApplication, Init, TargetsTyped, NoTargets
  <1>2. uploads \in [Procs -> Nat] /\ uploads[TheProc] = 0
    BY <1>1, PlainFacts DEF Init
  <1>3. Sent = <<>> /\ TheCall.pc = "idle"
    BY <1>1, PlainFacts DEF Init, Sent, TheCall, Idle
  <1>4. Noted
    BY FixedFacts DEF Init, Noted
  <1>5. Counts([k \in {0} |-> 0])
    <2>1. Len(Sent) = 0 /\ 1 .. 0 = {} /\ 0 .. 0 = {0}
      BY <1>3, EmptySeq
    <2>2. Fits(PhaseAfter(0), 0)
      BY FixedFacts DEF Init, Fits, PhaseAfter, ServerPhase
    <2> QED BY <1>2, <1>3, <2>1, <2>2 DEF Init, Counts, CallFits
  <1>6. Counted
    BY <1>5 DEF Counted
  <1>7. UploadsReachTheirTargets
    BY DEF Init, NothingHandled, UploadsReachTheirTargets
  <1> QED BY <1>1, <1>2, <1>4, <1>6, <1>7 DEF FixedInv

LEMMA PlainSent ==
  ASSUME PlainApplication, PlainInv
  PROVE  Sent \in Seq(Request) /\ Len(Sent) \in Nat
  <1>1. Sent \in Seq(Request)
    BY PlainFacts DEF PlainInv, PlainShape, Sent
  <1> QED BY <1>1

(* A step of the client that leaves the server and the wire alone.         *)
LEMMA QuietFixed ==
  ASSUME FixedApplication, FixedInv, PlainInv', UNCHANGED <<wire, servervars>>,
         uploads' \in [Procs -> Nat],
         NEW call, TheCall' = call, NEW m \in Nat, uploads'[TheProc] = m,
         \A k \in Nat : CallFits(k) /\ ~overrun =>
            /\ call.pc \in {"idle", "waiting"} => m = k
            /\ call.pc \in {"bump", "ready"} => Lands(call.req, k) /\ m = After(call.req.op, k)
  PROVE  FixedInv'
  <1>1. TargetsTyped' /\ UploadsReachTheirTargets' /\ overrun' = overrun
    BY DEF FixedInv, TargetsTyped, UploadsReachTheirTargets, servervars
  <1>2. ASSUME ~overrun PROVE Noted' /\ Counted'
    <2>1. PICK cnt : Counts(cnt)
      BY <1>2 DEF FixedInv, Counted
    <2>2. Sent' = Sent /\ ServerPhase' = ServerPhase
      BY DEF Sent, ServerPhase, servervars
    <2>3. cnt[Len(Sent)] \in Nat
      <3>1. Len(Sent) \in Nat
        BY PlainSent DEF FixedInv, FixedApplication
      <3>2. Fits(PhaseAfter(Len(Sent)), cnt[Len(Sent)])
        BY <2>1, <3>1 DEF Counts
      <3> QED BY <3>2 DEF Fits
    <2>4. CallFits(cnt[Len(Sent)])'
      BY <1>2, <2>1, <2>2, <2>3 DEF CallFits, Counts
    <2>5. Counts(cnt)'
      BY <2>1, <2>2, <2>4 DEF Counts, PhaseAfter, servervars
    <2>6. Noted'
      BY <1>2 DEF FixedInv, Noted, servervars
    <2> QED BY <2>5, <2>6 DEF Counted
  <1> QED BY <1>1, <1>2 DEF FixedInv

(* The application's next call is the one its list of targets asks for.    *)
LEMMA UploadFixed ==
  ASSUME FixedApplication, FixedInv, NEW op \in Uploading, NEW a \in Addr,
         Upload(TheThread, op, a)
  PROVE  FixedInv'
  <1> DEFINE k == uploads[TheProc]
  <1>1. PlainInv' /\ UNCHANGED <<wire, servervars>>
    BY UploadKeeps DEF FixedInv, FixedApplication, Upload
  <1>2. op = "htod" /\ TheCall.pc = "idle"
    BY PlainFacts DEF FixedApplication, Upload, Uploading, TheCall, Idle
  <1>3. k \in Nat /\ uploads' = [uploads EXCEPT ![TheProc] = k + 1] /\ TheProc \in Procs
    BY PlainFacts DEF FixedInv, FixedApplication, Upload, TheProc
  <1>4. uploads' \in [Procs -> Nat] /\ uploads'[TheProc] = k + 1 /\ k + 1 \in Nat
    BY <1>3 DEF FixedInv
  <1>5. k < n /\ a = Targets[k + 1]
    BY DEF Upload, MayUpload, FixedApplication, TheProc, n
  <1>6. TheCall'.pc \in {"bump", "ready"} /\ TheCall'.req.op = op /\ TheCall'.req.asked = a
    <2>1. \/ TheCall' = Bumping(op, a, client[TheProc].input_times)
          \/ TheCall' = Ready(op, a, client[TheProc])
      BY PlainFacts DEF FixedApplication, FixedInv, PlainInv, PlainShape, Upload, TheCall, TheProc
    <2> QED BY <2>1 DEF Bumping, Ready
  <1>7. Lands(TheCall'.req, k) /\ k + 1 = After(TheCall'.req.op, k)
    BY <1>2, <1>5, <1>6 DEF Lands, After
  <1> QED BY <1>1, <1>2, <1>4, <1>6, <1>7, QuietFixed DEF CallFits

LEMMA DownloadFixed ==
  ASSUME FixedApplication, FixedInv, NEW op \in Downloading, Download(TheThread, op)
  PROVE  FixedInv'
  <1> DEFINE k == uploads[TheProc]
  <1>1. PlainInv' /\ UNCHANGED <<wire, servervars>>
    BY DownloadKeeps DEF FixedInv, FixedApplication, Download
  <1>2. op = "dtoh" /\ TheCall.pc = "idle"
    BY PlainFacts DEF FixedApplication, Download, Downloading, TheCall, Idle
  <1>3. k \in Nat /\ uploads' = [uploads EXCEPT ![TheProc] = 0] /\ TheProc \in Procs
    BY PlainFacts DEF FixedInv, FixedApplication, Download, TheProc
  <1>4. uploads' \in [Procs -> Nat] /\ uploads'[TheProc] = 0
    BY <1>3 DEF FixedInv
  <1>5. k \in {0, n}
    BY DEF Download, MayDownload, FixedApplication, TheProc, n
  <1>6. TheCall'.pc \in {"bump", "ready"} /\ TheCall'.req.op = op
    <2>1. \/ TheCall' = Bumping(op, 0, client[TheProc].output_times)
          \/ TheCall' = Ready(op, 0, client[TheProc])
      BY PlainFacts DEF FixedApplication, FixedInv, PlainInv, PlainShape, Download, TheCall, TheProc
    <2> QED BY <2>1 DEF Bumping, Ready
  <1>7. Lands(TheCall'.req, k) /\ 0 = After(TheCall'.req.op, k)
    BY <1>2, <1>5, <1>6 DEF Lands, After
  <1> QED BY <1>1, <1>2, <1>4, <1>6, <1>7, QuietFixed DEF CallFits

LEMMA LaunchFixed ==
  ASSUME FixedApplication, FixedInv, NEW f \in Kernel, Launch(TheThread, f)
  PROVE  FixedInv'
  <1> DEFINE k == uploads[TheProc]
  <1>1. PlainInv' /\ UNCHANGED <<wire, servervars, uploads>>
    BY LaunchKeeps DEF FixedInv, FixedApplication, Launch
  <1>2. TheCall.pc = "idle" /\ k \in Nat
    BY PlainFacts DEF FixedApplication, FixedInv, Launch, TheCall, Idle
  <1>3. TheCall'.pc = "ready" /\ TheCall'.req.op = "launch"
    <2>1. TheCall' = Ready("launch", f, client[TheProc])
      BY PlainFacts DEF FixedApplication, FixedInv, PlainInv, PlainShape, Launch, TheCall, TheProc
    <2> QED BY <2>1 DEF Ready
  <1>4. Lands(TheCall'.req, k) /\ k = After(TheCall'.req.op, k)
    BY <1>3 DEF Lands, After
  <1>5. uploads' \in [Procs -> Nat] /\ uploads'[TheProc] = k
    BY <1>1 DEF FixedInv
  <1> QED BY <1>1, <1>2, <1>3, <1>4, <1>5, QuietFixed DEF CallFits

LEMMA BumpFixed ==
  ASSUME FixedApplication, FixedInv, Bump(TheThread)
  PROVE  FixedInv'
  <1> DEFINE m == uploads[TheProc]
  <1>1. PlainInv' /\ UNCHANGED <<wire, servervars, uploads>> /\ m \in Nat
    BY BumpKeeps, PlainFacts DEF FixedInv, FixedApplication, Bump
  <1>2. TheCall.pc = "bump"
    BY DEF Bump, TheCall
  <1>3. /\ TheCall'.pc = "ready" /\ TheCall'.req.op = TheCall.req.op
        /\ TheCall'.req.asked = TheCall.req.asked
    <2>1. TheCall' = Ready(TheCall.req.op, TheCall.req.asked, client'[TheProc])
      BY PlainFacts DEF FixedApplication, FixedInv, PlainInv, PlainShape, Bump, TheCall, TheProc
    <2> QED BY <2>1 DEF Ready
  <1>4. \A k \in Nat : CallFits(k) => Lands(TheCall'.req, k) /\ m = After(TheCall'.req.op, k)
    BY <1>2, <1>3 DEF CallFits, Lands
  <1>5. uploads' \in [Procs -> Nat] /\ uploads'[TheProc] = m
    BY <1>1 DEF FixedInv
  <1> QED BY <1>1, <1>3, <1>4, <1>5, QuietFixed

LEMMA TimeoutFixed ==
  ASSUME FixedApplication, FixedInv, Timeout(TheThread)
  PROVE  FixedInv'
  <1>1. PlainInv' /\ UNCHANGED <<wire, servervars, uploads>> /\ uploads[TheProc] \in Nat
    BY TimeoutKeeps, PlainFacts DEF FixedInv, FixedApplication, Timeout
  <1>2. TheCall.pc = "waiting" /\ TheCall' = Idle /\ Idle.pc = "idle"
    BY PlainFacts DEF FixedApplication, FixedInv, PlainInv, PlainShape, Timeout, TheCall, Idle
  <1>3. uploads' \in [Procs -> Nat] /\ uploads'[TheProc] = uploads[TheProc]
    BY <1>1 DEF FixedInv
  <1> QED BY <1>1, <1>2, <1>3, QuietFixed DEF CallFits

(* The request sent is handled last, at the count reached by then.         *)
LEMMA SendFixed ==
  ASSUME FixedApplication, FixedInv, Send(TheThread)
  PROVE  FixedInv'
  <1> SUFFICES ASSUME NEW r, r = TheCall.req, NEW len, len = Len(Sent)
               PROVE  FixedInv'
    OBVIOUS
  <1>1. PlainInv' /\ UNCHANGED <<servervars, uploads>> /\ TheCall.pc = "ready"
    BY SendKeeps DEF FixedInv, FixedApplication, Send, TheCall
  <1>2. PlainInv /\ PlainApplication /\ Sent \in Seq(Request) /\ len \in Nat
    BY PlainSent DEF FixedInv, FixedApplication
  <1>3. r \in Request
    BY <1>1, <1>2, PlainFacts DEF PlainInv, PlainShape, TheCall
  <1>4. Sent' = Append(Sent, r)
    <2>1. conn[TheProc] = 0
      BY <1>2, PlainFacts DEF PlainInv, PlainShape
    <2>2. wire' = [wire EXCEPT ![Here] = Append(Sent, r)]
      BY <2>1 DEF Send, Sent, TheCall, TheProc, Here
    <2> QED BY <1>2, <2>2, PlainFacts DEF PlainInv, PlainShape, Sent
  <1>5. /\ Len(Sent') = len + 1 /\ Sent'[len + 1] = r
        /\ \A k \in 1 .. len : Sent'[k] = Sent[k]
    BY <1>2, <1>3, <1>4
  <1>6. TheCall'.pc = "waiting"
    BY <1>2, PlainFacts DEF Send, TheCall, PlainInv, PlainShape
  <1>7. TargetsTyped' /\ UploadsReachTheirTargets' /\ overrun' = overrun
    BY <1>1 DEF FixedInv, TargetsTyped, UploadsReachTheirTargets, servervars
  <1>8. ASSUME ~overrun PROVE Noted' /\ Counted'
    <2>1. PICK cnt : Counts(cnt)
      BY <1>8 DEF FixedInv, Counted
    <2> PICK k0 : k0 = cnt[len]
      OBVIOUS
    <2> PICK after :
          after = [k \in 0 .. len + 1 |-> IF k = len + 1 THEN After(r.op, k0) ELSE cnt[k]]
      OBVIOUS
    <2>2. Fits(PhaseAfter(len), k0) /\ Lands(r, k0) /\ uploads[TheProc] = After(r.op, k0)
      BY <1>1, <1>2, <2>1 DEF Counts, CallFits
    <2>3. PhaseAfter(len) = SentPhase
      <3>1. Sent = <<>> <=> len = 0
        BY <1>2, EmptySeq
      <3> QED BY <3>1 DEF PhaseAfter, SentPhase
    <2>4. r.at = Moved(r.op, SentPhase)
      BY <1>1, <1>2, <1>8 DEF PlainInv, CallInStep
    <2>5. ServerPhase' = ServerPhase /\ input_count' = input_count
      BY <1>1 DEF servervars, ServerPhase
    <2>6. \A k \in 0 .. len : PhaseAfter(k)' = PhaseAfter(k)
      BY <1>2, <1>5, <2>5 DEF PhaseAfter
    <2>7. PhaseAfter(len + 1)' = r.at
      BY <1>2, <1>5 DEF PhaseAfter
    <2>8. /\ after[len + 1] = After(r.op, k0)
          /\ \A k \in 0 .. len : after[k] = cnt[k]
      BY <1>2
    <2>9. Fits(r.at, After(r.op, k0))
      BY <2>2, <2>3, <2>4, MovedFits
    <2>10. \A k \in 0 .. Len(Sent') : Fits(PhaseAfter(k), after[k])'
      <3> SUFFICES ASSUME NEW k \in 0 .. len + 1 PROVE Fits(PhaseAfter(k)', after[k])
        BY <1>5
      <3>1. CASE k = len + 1
        BY <2>7, <2>8, <2>9, <3>1
      <3>2. CASE k \in 0 .. len
        BY <2>1, <2>6, <2>8, <3>2 DEF Counts
      <3> QED BY <1>2, <3>1, <3>2
    <2>11. ASSUME NEW k \in 1 .. Len(Sent')
           PROVE  Lands(Sent'[k], after[k - 1]) /\ after[k] = After(Sent'[k].op, after[k - 1])
      <3>1. CASE k = len + 1
        <4>1. after[k - 1] = k0
          BY <1>2, <2>8, <3>1
        <4> QED BY <1>5, <2>2, <2>8, <3>1, <4>1
      <3>2. CASE k \in 1 .. len
        <4>1. k \in 0 .. len /\ k - 1 \in 0 .. len
          BY <1>2, <3>2
        <4> QED BY <1>5, <2>1, <2>8, <3>2, <4>1 DEF Counts
      <3> QED BY <1>2, <1>5, <3>1, <3>2
    <2>12. CallFits(after[Len(Sent)])'
      BY <1>1, <1>2, <1>5, <1>6, <2>2, <2>8 DEF CallFits
    <2>13. after[0] = input_count
      BY <1>2, <2>1, <2>8 DEF Counts
    <2>14. Counts(after)'
      BY <2>5, <2>10, <2>11, <2>12, <2>13 DEF Counts
    <2>15. Noted'
      BY <1>1, <1>8 DEF FixedInv, Noted, servervars
    <2> QED BY <2>14, <2>15 DEF Counted
  <1>9. uploads' \in [Procs -> Nat]
    BY <1>1 DEF FixedInv
  <1> QED BY <1>1, <1>7, <1>8, <1>9 DEF FixedInv

(* What the server does with a request that lands where it was to.         *)
LEMMA ServeFixed ==
  ASSUME FixedApplication, FixedInv, NEW req \in Request, ~overrun,
         Fits(ServerPhase, input_count), Lands(req, input_count),
         ServeUpload(req) \/ ServeDownload(req) \/ ServeFar(req) \/ ServeLaunch(req)
  PROVE  /\ TargetsTyped' /\ UploadsReachTheirTargets'
         /\ ~overrun' => Noted' /\ input_count' = After(req.op, input_count)
  <1>1. n \in Nat \ {0} /\ input_count \in 0 .. n /\ TargetsTyped /\ Noted /\ ServerInv
    BY FixedFacts DEF FixedInv, Fits, PlainInv
  <1>2. CASE ServeUpload(req)
    <2>1. req.op = "htod"
      BY <1>2 DEF ServeUpload, Lands
    <2>2. input_count < n /\ req.asked = Targets[input_count + 1]
      BY <2>1 DEF Lands
    <2>3. TargetsTyped'
      BY <1>1, <1>2 DEF ServeUpload, TargetsTyped, Request
    <2>4. CASE input_count >= InputMax
      BY <1>1, <1>2, <2>3, <2>4, ReplayAssumption
         DEF ServeUpload, FixedInv, UploadsReachTheirTargets
    <2>5. CASE input_count < InputMax
      <3>1. /\ input_count' = input_count + 1 /\ output_times' = output_times
            /\ last'.dst = input_address'[input_count] /\ last'.asked = req.asked
            /\ input_address' = IF output_times = 0
                                THEN [input_address EXCEPT ![input_count] = req.asked]
                                ELSE input_address
        BY <1>1, <1>2, <2>5, ReplayAssumption DEF ServeUpload, Handled, Recording
      <3>2. input_count \in 0 .. InputMax - 1
        BY <1>1, <2>5, ReplayAssumption
      <3>3. CASE output_times = 0
        <4>1. /\ input_address'[input_count] = req.asked
              /\ \A i \in 0 .. input_count - 1 : input_address'[i] = input_address[i]
          BY <1>1, <3>1, <3>2, <3>3, ReplayAssumption DEF TargetsTyped
        <4>2. \A i \in 0 .. input_count - 1 : input_address[i] = Targets[i + 1]
          BY <1>1 DEF Noted
        <4>3. \A i \in 0 .. n - 1 : i < input_count' => input_address'[i] = Targets[i + 1]
          BY <1>1, <2>2, <3>1, <4>1, <4>2
        <4>4. Noted'
          BY <1>1, <3>1, <3>3, <4>3 DEF Noted
        <4> QED BY <2>1, <2>3, <3>1, <4>1, <4>4 DEF UploadsReachTheirTargets, After
      <3>4. CASE output_times # 0
        <4>1. output_times > 0
          BY <1>1, <3>4 DEF ServerInv
        <4>2. \A i \in 0 .. n - 1 : input_address[i] = Targets[i + 1]
          BY <1>1, <4>1 DEF Noted
        <4>3. Noted' /\ input_address'[input_count] = req.asked
          BY <1>1, <2>2, <3>1, <3>4, <4>2 DEF Noted
        <4> QED BY <2>1, <2>3, <3>1, <4>3 DEF UploadsReachTheirTargets, After
      <3> QED BY <3>3, <3>4
    <2> QED BY <1>1, <2>4, <2>5, ReplayAssumption
  <1>3. CASE ServeDownload(req)
    <2>1. req.op = "dtoh" /\ last'.op = "dtoh" /\ UNCHANGED <<input_address, overrun>>
      BY <1>3 DEF ServeDownload, Handled
    <2>2. input_count \in {0, n}
      BY <2>1 DEF Lands
    <2>3. input_times = output_times <=> input_count = 0
      BY DEF Fits, ServerPhase
    <2>4. input_count' = 0 /\ (output_times' = output_times \/ input_count = n)
      BY <1>3, <2>2, <2>3 DEF ServeDownload, EndsAtServer, InputCountAfter
    <2>5. TargetsTyped' /\ UploadsReachTheirTargets'
      BY <1>1, <2>1, <2>4 DEF TargetsTyped, UploadsReachTheirTargets
    <2>6. Noted'
      BY <1>1, <2>1, <2>4 DEF Noted
    <2> QED BY <2>1, <2>4, <2>5, <2>6 DEF After
  <1>4. CASE ServeLaunch(req)
    <2>1. /\ req.op = "launch" /\ last'.op = "launch"
          /\ UNCHANGED <<output_times, input_address, input_count, overrun>>
      BY <1>4 DEF ServeLaunch, Handled
    <2>2. Noted'
      BY <1>1, <2>1 DEF Noted
    <2> QED BY <1>1, <2>1, <2>2 DEF TargetsTyped, UploadsReachTheirTargets, After
  <1>5. ~ServeFar(req)
    BY DEF ServeFar, Lands
  <1> QED BY <1>2, <1>3, <1>4, <1>5

(* Handling the oldest request leaves the counts of those behind it.       *)
LEMMA HandleFixed ==
  ASSUME FixedApplication, FixedInv, NEW c \in Connections, Handle(c)
  PROVE  FixedInv'
  <1> SUFFICES ASSUME NEW req, req = Sent[1], NEW len, len = Len(Sent)
               PROVE  FixedInv'
    OBVIOUS
  <1>1. PlainApplication /\ PlainInv /\ PlainInv' /\ ~overrun
    BY HandleKeeps, HandleFacts DEF FixedInv, FixedApplication
  <1>2. /\ len \in Nat /\ len > 0 /\ Len(Sent') = len - 1
        /\ \A k \in 1 .. Len(Sent') : Sent'[k] = Sent[k + 1]
        /\ req \in Request /\ uploads' = uploads
    BY <1>1, HandleFacts
  <1>3. PICK cnt : Counts(cnt)
    BY <1>1 DEF FixedInv, Counted
  <1>4. Fits(ServerPhase, input_count) /\ Lands(req, input_count) /\ cnt[1] = After(req.op, input_count)
    BY <1>2, <1>3 DEF Counts, PhaseAfter
  <1>5. /\ TargetsTyped' /\ UploadsReachTheirTargets'
        /\ ~overrun' => Noted' /\ input_count' = cnt[1]
    BY <1>1, <1>2, <1>4, HandleFacts, ServeFixed
  <1>6. ASSUME ~overrun' PROVE Counted'
    <2> PICK rest : rest = [k \in 0 .. len - 1 |-> cnt[k + 1]]
      OBVIOUS
    <2>1. \A k \in 0 .. len - 1 : rest[k] = cnt[k + 1]
      OBVIOUS
    <2>2. ServerPhase' = req.at
      BY <1>1, <1>6, HandleFacts
    <2>3. \A k \in 0 .. len - 1 : PhaseAfter(k)' = PhaseAfter(k + 1)
      <3> SUFFICES ASSUME NEW k \in 0 .. len - 1 PROVE PhaseAfter(k)' = PhaseAfter(k + 1)
        OBVIOUS
      <3>1. CASE k = 0
        BY <2>2, <3>1 DEF PhaseAfter
      <3>2. CASE k # 0
        BY <1>2, <3>2 DEF PhaseAfter
      <3> QED BY <3>1, <3>2
    <2>4. \A k \in 0 .. Len(Sent') : Fits(PhaseAfter(k), rest[k])'
      <3> SUFFICES ASSUME NEW k \in 0 .. len - 1 PROVE Fits(PhaseAfter(k)', rest[k])
        BY <1>2
      <3>1. k + 1 \in 0 .. len
        BY <1>2
      <3>2. Fits(PhaseAfter(k + 1), cnt[k + 1])
        BY <1>3, <3>1 DEF Counts
      <3> QED BY <2>1, <2>3, <3>2
    <2>5. ASSUME NEW k \in 1 .. Len(Sent')
          PROVE  Lands(Sent'[k], rest[k - 1]) /\ rest[k] = After(Sent'[k].op, rest[k - 1])
      <3>1. /\ k \in 0 .. len - 1 /\ k - 1 \in 0 .. len - 1 /\ k + 1 \in 1 .. len
            /\ (k - 1) + 1 = k /\ (k + 1) - 1 = k
        BY <1>2
      <3>2. Lands(Sent[k + 1], cnt[k]) /\ cnt[k + 1] = After(Sent[k + 1].op, cnt[k])
        BY <1>3, <3>1 DEF Counts
      <3>3. rest[k] = cnt[k + 1] /\ rest[k - 1] = cnt[k] /\ Sent'[k] = Sent[k + 1]
        BY <1>2, <2>1, <3>1
      <3> QED BY <3>2, <3>3
    <2>6. CallFits(rest[Len(Sent)])'
      <3>1. rest[len - 1] = cnt[len]
        BY <1>2, <2>1
      <3>2. CallFits(cnt[len])
        BY <1>3 DEF Counts
      <3>3. TheCall' = TheCall \/ (TheCall.pc = "waiting" /\ TheCall' = Idle)
        BY <1>1, HandleFacts
      <3> QED BY <1>2, <3>1, <3>2, <3>3 DEF CallFits, Idle
    <2>7. rest[0] = input_count'
      BY <1>2, <1>5, <1>6, <2>1
    <2>8. Counts(rest)'
      BY <2>4, <2>5, <2>6, <2>7 DEF Counts
    <2> QED BY <2>8 DEF Counted
  <1>7. uploads' \in [Procs -> Nat]
    BY <1>2 DEF FixedInv
  <1> QED BY <1>1, <1>5, <1>6, <1>7 DEF FixedInv

LEMMA StepFixed ==
  ASSUME FixedApplication, FixedInv, [Next]_ivars PROVE FixedInv'
  <1>0. PlainApplication /\ PlainInv
    BY DEF FixedApplication, FixedInv
  <1>1. CASE \E t \in Threads : Begin(t)
    BY <1>0, <1>1, PlainFacts, UploadFixed, DownloadFixed, LaunchFixed DEF Begin
  <1>2. CASE \E t \in Threads : Proceed(t)
    BY <1>0, <1>2, PlainFacts, BumpFixed, SendFixed, TimeoutFixed, NothingRestarts DEF Proceed
  <1>3. CASE \E c \in Connections : Handle(c)
    BY <1>3, HandleFixed
  <1>4. CASE UNCHANGED ivars
    <2>1. PlainInv' /\ UNCHANGED <<wire, servervars, uploads>> /\ TheCall' = TheCall
      BY <1>0, <1>4, StepPlain DEF ivars, clientvars, TheCall
    <2>2. uploads' \in [Procs -> Nat] /\ uploads'[TheProc] = uploads[TheProc]
          /\ uploads[TheProc] \in Nat
      BY <1>0, <2>1, PlainFacts DEF FixedInv
    <2> QED BY <2>1, <2>2, QuietFixed DEF CallFits
  <1> QED BY <1>0, <1>1, <1>2, <1>3, <1>4, NothingRestarts DEF Next

LEMMA FixedAlways == ASSUME FixedApplication PROVE Spec => []FixedInv
  <1>1. Init => FixedInv
    BY InitFixed
  <1>2. FixedInv /\ [Next]_ivars => FixedInv'
    BY StepFixed
  <1> QED BY <1>1, <1>2, PTL DEF Spec

(* Every upload of such an application lands where it was asked to, in     *)
(* the inferences that are replayed as in the one that was recorded.       *)
THEOREM ReplayedUploadsLand ==
    ASSUME FixedApplication PROVE Spec => []UploadsReachTheirTargets
  <1>1. FixedInv => UploadsReachTheirTargets
    BY DEF FixedInv
  <1> QED BY <1>1, FixedAlways, PTL

(* An application of this kind whose inferences have no more uploads than  *)
(* input_address has room for never makes the server write past it.        *)
THEOREM FittingUploadsNeverOverrun ==
    ASSUME FixedApplication, Len(Targets) <= InputMax PROVE Spec => []NoOverrun
  <1>1. Init => NoOverrun
    BY DEF Init, NoOverrun
  <1>2. FixedInv /\ NoOverrun /\ [Next]_ivars => NoOverrun'
    <2> SUFFICES ASSUME FixedInv, ~overrun, [Next]_ivars PROVE ~overrun'
      BY DEF NoOverrun
    <2>1. PlainApplication /\ PlainInv
      BY DEF FixedApplication, FixedInv
    <2>2. CASE UNCHANGED servervars
      BY <2>2 DEF servervars
    <2>3. ASSUME NEW c \in Connections, Handle(c) PROVE ~overrun'
      <3>1. PICK cnt : Counts(cnt)
        BY DEF FixedInv, Counted
      <3>2. Len(Sent) \in Nat /\ Len(Sent) > 0
        BY <2>1, <2>3, HandleFacts
      <3>3. Lands(Sent[1], input_count) /\ Fits(ServerPhase, input_count)
        BY <3>1, <3>2 DEF Counts, PhaseAfter
      <3>4. Sent[1].op = "htod" => input_count < InputMax
        <4>1. n \in Nat /\ input_count \in Nat
          BY <3>3, FixedFacts DEF Fits
        <4> QED BY <3>3, <4>1, ReplayAssumption DEF Lands, n
      <3>5. \/ ServeUpload(Sent[1]) \/ ServeDownload(Sent[1])
            \/ ServeFar(Sent[1]) \/ ServeLaunch(Sent[1])
        BY <2>1, <2>3, HandleFacts
      <3>6. ServeUpload(Sent[1]) => ~overrun'
        <4>1. input_count \in Nat
          BY DEF FixedInv, TargetsTyped
        <4> QED BY <3>3, <3>4, <4>1, ReplayAssumption DEF ServeUpload, Lands
      <3> QED BY <3>5, <3>6 DEF ServeDownload, ServeFar, ServeLaunch
    <2> QED BY <2>1, <2>2, <2>3, NextCases, ClientStepKeepsServer, NothingRestarts DEF ivars
  <1> QED BY <1>1, <1>2, FixedAlways, PTL DEF Spec
============================================================================
