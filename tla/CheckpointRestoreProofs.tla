----------------------- MODULE CheckpointRestoreProofs -----------------------
(***************************************************************************)
(* Checkpoint and restore, for any device addresses, contents, lengths of  *)
(* the log and numbers of restarts: clients keep their memory, nothing     *)
(* leaks, and after one restore they see their data, until a new           *)
(* allocation gets an address that the manager translates.                 *)
(***************************************************************************)
EXTENDS CheckpointRestore, SequenceTheorems, TLAPS

(***************************************************************************)
(* Maps from addresses.                                                    *)
(***************************************************************************)
Maps(f, D, R) == f \in [DOMAIN f -> R] /\ DOMAIN f \subseteq D

LEMMA WithFacts ==
  ASSUME NEW f, NEW a, NEW v
  PROVE  /\ DOMAIN With(f, a, v) = DOMAIN f \cup {a}
         /\ With(f, a, v)[a] = v
         /\ \A x \in DOMAIN f : x # a => With(f, a, v)[x] = f[x]
  BY DEF With

LEMMA WithMaps ==
  ASSUME NEW f, NEW D, NEW R, Maps(f, D, R), NEW a \in D, NEW v \in R
  PROVE  Maps(With(f, a, v), D, R)
  BY DEF Maps, With

LEMMA WithoutFacts ==
  ASSUME NEW f, NEW a
  PROVE  /\ DOMAIN Without(f, a) = DOMAIN f \ {a}
         /\ \A x \in DOMAIN f : x # a => Without(f, a)[x] = f[x]
  BY DEF Without, Restrict

LEMMA WithoutMaps ==
  ASSUME NEW f, NEW D, NEW R, Maps(f, D, R), NEW a
  PROVE  Maps(Without(f, a), D, R)
  BY DEF Maps, Without, Restrict

LEMMA SetFacts ==
  ASSUME NEW f, NEW a, NEW v
  PROVE  /\ DOMAIN Set(f, a, v) = DOMAIN f
         /\ a \in DOMAIN f => Set(f, a, v)[a] = v
         /\ \A x \in DOMAIN f : x # a => Set(f, a, v)[x] = f[x]
  BY DEF Set, With

LEMMA SetMaps ==
  ASSUME NEW f, NEW D, NEW R, Maps(f, D, R), NEW a, NEW v \in R
  PROVE  Maps(Set(f, a, v), D, R)
  BY DEF Maps, Set, With

LEMMA NothingMaps ==
  ASSUME NEW D, NEW R
  PROVE  Maps(Nothing, D, R) /\ DOMAIN Nothing = {}
  BY DEF Maps, Nothing

(***************************************************************************)
(* Types.                                                                  *)
(***************************************************************************)
Contents == Val \cup {0}
Here == AddrOf[run]

IsDisk(d) == d = [records |-> d.records, mem |-> d.mem, complete |-> d.complete]

Typed ==
    /\ status \in {"serve", "dump_log", "dump_mem", "restore", "dead"}
    /\ run \in 0 .. MaxRestarts
    /\ next \in Nat \ {0}
    /\ api_records \in Seq(Record)
    /\ Maps(map_res, Addr \cup {0}, Here)
    /\ Maps(mem, Here, Contents)
    /\ call \in Record \cup {NoCall}
    /\ call # NoCall => api_records # <<>>
    /\ call.op \in {"htod", "memset"} => call.ptr \in DOMAIN held
    /\ IsDisk(disk) /\ disk.records \in Seq(Record) /\ disk.complete \in BOOLEAN
    /\ Maps(disk.mem, Addr, Contents)
    /\ Maps(held, Addr, Contents) /\ Maps(saved, Addr, Contents)

LEMMA AddrFacts ==
  ASSUME NEW r \in 0 .. MaxRestarts
  PROVE  AddrOf[r] \subseteq Addr /\ Addr \subseteq Nat \ {0}
  BY CheckpointAssumption DEF Addr

LEMMA RunFacts ==
  ASSUME Typed
  PROVE  Here \subseteq Addr /\ run \in Nat /\ Unset \subseteq Addr \cup {0}
         /\ Val \subseteq Nat \ {0}
  <1>1. Here \subseteq Addr
    BY AddrFacts DEF Typed, Here
  <1>2. run \in Nat
    BY CheckpointAssumption DEF Typed
  <1>3. Unset \subseteq Addr \cup {0} /\ Val \subseteq Nat \ {0}
    BY CheckpointAssumption DEF Addr
  <1> QED BY <1>1, <1>2, <1>3

LEMMA InitTyped == Init => Typed
  <1> SUFFICES ASSUME Init PROVE Typed
    OBVIOUS
  <1>1. run = 0 /\ 0 \in 0 .. MaxRestarts
    BY CheckpointAssumption DEF Init
  <1>2. \A D, R : Maps(Nothing, D, R)
    BY NothingMaps
  <1> QED BY <1>1, <1>2, EmptySeq DEF Init, Typed, NoCall, IsDisk

LEMMA BeginTyped ==
  ASSUME Typed, NEW r \in Record, Begin(r), Maps(held', Addr, Contents),
         r.op \in {"htod", "memset"} => r.ptr \in DOMAIN held'
  PROVE  Typed'
  <1>1. Append(api_records, r) \in Seq(Record) /\ Append(api_records, r) # <<>>
    BY AppendProperties DEF Typed
  <1>2. /\ UNCHANGED <<status, run, next, map_res, mem, disk, saved>>
        /\ call' = r /\ api_records' = Append(api_records, r)
    BY DEF Begin, Log
  <1> QED BY <1>1, <1>2 DEF Typed, Here

LEMMA MallocBeginsTyped == ASSUME Typed, MallocBegins PROVE Typed'
  <1>1. PICK unset \in Unset : Begin([op |-> "malloc", ptr |-> unset, val |-> 0]) /\ UNCHANGED held
    BY DEF MallocBegins
  <1>2. [op |-> "malloc", ptr |-> unset, val |-> 0] \in Record
    BY <1>1, RunFacts DEF Begin, Record
  <1>3. Maps(held', Addr, Contents)
    BY <1>1 DEF Typed
  <1> QED BY <1>1, <1>2, <1>3, BeginTyped

LEMMA FreeBeginsTyped == ASSUME Typed, FreeBegins PROVE Typed'
  <1>1. PICK c \in DOMAIN held : Begin([op |-> "free", ptr |-> c, val |-> 0]) /\ held' = Without(held, c)
    BY DEF FreeBegins
  <1>2. [op |-> "free", ptr |-> c, val |-> 0] \in Record
    BY <1>1 DEF Begin, Record, Typed, Maps
  <1>3. Maps(held', Addr, Contents)
    BY <1>1, WithoutMaps DEF Typed
  <1> QED BY <1>1, <1>2, <1>3, BeginTyped

LEMMA WriteBeginsTyped == ASSUME Typed, WriteBegins PROVE Typed'
  <1>1. PICK c \in DOMAIN held, op \in {"htod", "memset"}, v \in Val :
           Begin([op |-> op, ptr |-> c, val |-> v]) /\ held' = With(held, c, 0)
    BY DEF WriteBegins
  <1>2. [op |-> op, ptr |-> c, val |-> v] \in Record /\ c \in Addr
    BY <1>1 DEF Begin, Record, Typed, Maps
  <1>3. Maps(held', Addr, Contents)
    BY <1>1, <1>2, WithMaps DEF Typed, Contents
  <1>4. c \in DOMAIN held'
    BY <1>1 DEF With
  <1> QED BY <1>1, <1>2, <1>3, <1>4, BeginTyped

LEMMA EffectMaps ==
  ASSUME Typed, NEW r \in Record
  PROVE  Maps(Effect(r), Here, Contents)
  <1>1. r.val \in Contents
    BY DEF Record, Contents
  <1> QED BY <1>1, WithoutMaps, SetMaps DEF Typed, Effect

LEMMA CallEndsTyped == ASSUME Typed, CallEnds PROVE Typed'
  <1>1. call \in Record /\ call # NoCall
    BY DEF CallEnds, MallocEnds, OtherEnds, Typed, NoCall
  <1>2. UNCHANGED <<status, run, next, map_res, disk, saved>> /\ call' = NoCall
    BY DEF CallEnds
  <1>3. CASE MallocEnds
    <2>1. PICK d \in Here \ DOMAIN mem :
             /\ mem' = With(mem, d, 0)
             /\ api_records' = [api_records EXCEPT ![Len(api_records)].ptr = d]
             /\ held' = With(held, d, 0)
      BY <1>3 DEF MallocEnds, Here
    <2>2. d \in Addr /\ 0 \in Contents
      BY <2>1, RunFacts DEF Contents
    <2>3. Len(api_records) \in 1 .. Len(api_records)
      BY <1>1, EmptySeq DEF Typed
    <2>4. [api_records[Len(api_records)] EXCEPT !.ptr = d] \in Record
      <3>1. api_records[Len(api_records)] \in Record
        BY <2>3, ElementOfSeq DEF Typed
      <3> QED BY <2>2, <3>1 DEF Record
    <2>5. api_records' \in Seq(Record)
      BY <2>1, <2>3, <2>4, ExceptSeq DEF Typed
    <2>6. Maps(mem', Here, Contents) /\ Maps(held', Addr, Contents)
      BY <2>1, <2>2, WithMaps DEF Typed
    <2> QED BY <1>2, <2>5, <2>6 DEF Typed, Here, NoCall
  <1>4. CASE OtherEnds
    <2>1. Maps(mem', Here, Contents) /\ api_records' = api_records
      BY <1>1, <1>4, EffectMaps DEF OtherEnds
    <2>2. Maps(held', Addr, Contents)
      <3>1. CASE call.op = "free"
        BY <1>4, <3>1 DEF OtherEnds, Typed
      <3>2. CASE call.op # "free"
        <4>1. call.ptr \in Addr /\ call.val \in Contents
          BY <1>1, <1>4, <3>2 DEF OtherEnds, Typed, Record, Contents, Maps
        <4> QED BY <1>4, <3>2, <4>1, WithMaps DEF OtherEnds, Typed
      <3> QED BY <3>1, <3>2
    <2> QED BY <1>2, <2>1, <2>2 DEF Typed, Here, NoCall
  <1> QED BY <1>3, <1>4 DEF CallEnds

\* What of the files on disk the steps of a checkpoint change.
LEMMA DiskChanges ==
  ASSUME Typed
  PROVE  /\ CheckpointBegins =>
               IsDisk(disk') /\ disk'.records = <<>> /\ disk'.mem = disk.mem /\ disk'.complete = FALSE
         /\ DumpRecord =>
               /\ IsDisk(disk') /\ disk'.mem = disk.mem /\ disk'.complete = disk.complete
               /\ disk'.records = IF next <= Len(api_records)
                                  THEN Append(disk.records, api_records[next]) ELSE disk.records
         /\ DumpMemory =>
               /\ IsDisk(disk') /\ disk'.records = disk.records
               /\ disk'.mem = IF next <= Len(api_records)
                              THEN Dumped(api_records[next]) ELSE disk.mem
               /\ (next <= Len(api_records) => disk'.complete = disk.complete)
               /\ (next > Len(api_records) => disk'.complete = TRUE)
  <1>1. next \in Nat /\ Len(api_records) \in Nat /\ IsDisk(disk)
    BY LenProperties DEF Typed
  <1>2. ASSUME CheckpointBegins
        PROVE  IsDisk(disk') /\ disk'.records = <<>> /\ disk'.mem = disk.mem /\ disk'.complete = FALSE
    BY <1>1, <1>2 DEF CheckpointBegins, IsDisk
  <1>3. ASSUME DumpRecord
        PROVE  /\ IsDisk(disk') /\ disk'.mem = disk.mem /\ disk'.complete = disk.complete
               /\ disk'.records = IF next <= Len(api_records)
                                  THEN Append(disk.records, api_records[next]) ELSE disk.records
    <2>1. CASE next <= Len(api_records)
      <3>1. disk' = [disk EXCEPT !.records = Append(@, api_records[next])]
        BY <1>1, <1>3, <2>1 DEF DumpRecord
      <3> QED BY <1>1, <2>1, <3>1 DEF IsDisk
    <2>2. CASE next > Len(api_records)
      BY <1>1, <1>3, <2>2 DEF DumpRecord
    <2> QED BY <1>1, <2>1, <2>2
  <1>4. ASSUME DumpMemory
        PROVE  /\ IsDisk(disk') /\ disk'.records = disk.records
               /\ disk'.mem = IF next <= Len(api_records)
                              THEN Dumped(api_records[next]) ELSE disk.mem
               /\ (next <= Len(api_records) => disk'.complete = disk.complete)
               /\ (next > Len(api_records) => disk'.complete = TRUE)
    <2>1. CASE next <= Len(api_records)
      <3>1. disk' = [disk EXCEPT !.mem = Dumped(api_records[next])]
        BY <1>1, <1>4, <2>1 DEF DumpMemory
      <3> QED BY <1>1, <2>1, <3>1 DEF IsDisk
    <2>2. CASE next > Len(api_records)
      <3>1. disk' = [disk EXCEPT !.complete = TRUE]
        BY <1>1, <1>4, <2>2 DEF DumpMemory
      <3>2. /\ IsDisk(disk') /\ disk'.records = disk.records /\ disk'.mem = disk.mem
            /\ disk'.complete = TRUE
        BY <1>1, <3>1 DEF IsDisk
      <3> QED BY <1>1, <2>2, <3>2
    <2>3. next <= Len(api_records) \/ next > Len(api_records)
      BY <1>1
    <2> QED BY <2>1, <2>2, <2>3
  <1> QED BY <1>2, <1>3, <1>4

LEMMA CheckpointTyped ==
  ASSUME Typed, CheckpointBegins \/ DumpRecord \/ DumpMemory \/ Dies \/ RestoreEnds
  PROVE  Typed'
  <1>1. CASE CheckpointBegins
    <2>1. /\ IsDisk(disk') /\ disk'.records \in Seq(Record) /\ disk'.complete \in BOOLEAN
          /\ Maps(disk'.mem, Addr, Contents)
      BY <1>1, DiskChanges, EmptySeq DEF Typed
    <2>2. /\ UNCHANGED <<run, api_records, map_res, mem, call, held>>
          /\ status' = "dump_log" /\ next' = 1 /\ saved' = held
      BY <1>1 DEF CheckpointBegins, server
    <2> QED BY <2>1, <2>2 DEF Typed, Here
  <1>2. CASE DumpRecord
    <2>1. /\ IsDisk(disk') /\ disk'.records \in Seq(Record) /\ disk'.complete \in BOOLEAN
          /\ Maps(disk'.mem, Addr, Contents)
      <3>1. next <= Len(api_records) => Append(disk.records, api_records[next]) \in Seq(Record)
        BY ElementOfSeq, LenProperties, AppendProperties DEF Typed
      <3> QED BY <1>2, <3>1, DiskChanges DEF Typed
    <2>2. /\ UNCHANGED <<run, api_records, map_res, mem, call, held, saved>>
          /\ status' \in {"dump_log", "dump_mem"} /\ next' \in Nat \ {0}
      BY <1>2 DEF DumpRecord, Typed, server
    <2> QED BY <2>1, <2>2 DEF Typed, Here
  <1>3. CASE DumpMemory
    <2>1. Maps(disk'.mem, Addr, Contents)
      <3> SUFFICES ASSUME next <= Len(api_records), api_records[next].op = "malloc",
                          api_records[next].ptr \in DOMAIN mem
                   PROVE  Maps(With(disk.mem, api_records[next].ptr, mem[api_records[next].ptr]),
                               Addr, Contents)
        BY <1>3, DiskChanges DEF Dumped, Typed
      <3>1. api_records[next].ptr \in Addr /\ mem[api_records[next].ptr] \in Contents
        BY RunFacts DEF Typed, Maps
      <3> QED BY <3>1, WithMaps DEF Typed
    <2>2. IsDisk(disk') /\ disk'.records \in Seq(Record) /\ disk'.complete \in BOOLEAN
      <3>1. next \in Nat /\ Len(api_records) \in Nat
        BY LenProperties DEF Typed
      <3>2. next <= Len(api_records) \/ next > Len(api_records)
        BY <3>1
      <3>3. IsDisk(disk') /\ disk'.records = disk.records /\ disk'.complete \in {disk.complete, TRUE}
        BY Zenon, <1>3, <3>2, DiskChanges
      <3> QED BY <3>3 DEF Typed
    <2>3. /\ UNCHANGED <<run, api_records, map_res, mem, call, held, saved>>
          /\ status' \in {"serve", "dump_mem"} /\ next' \in Nat \ {0}
      BY <1>3 DEF DumpMemory, Typed, server
    <2> QED BY <2>1, <2>2, <2>3 DEF Typed, Here
  <1>4. CASE Dies \/ RestoreEnds
    <2>1. /\ UNCHANGED <<run, next, api_records, map_res, mem, call, disk, held, saved>>
          /\ status' \in {"serve", "dead"}
      BY <1>4 DEF Dies, RestoreEnds, server
    <2> QED BY <2>1 DEF Typed, Here
  <1> QED BY <1>1, <1>2, <1>3, <1>4

LEMMA RestartTyped == ASSUME Typed, Restart PROVE Typed'
  <1>1. run' \in 0 .. MaxRestarts
    BY CheckpointAssumption DEF Restart, Typed
  <1>2. Maps(map_res', Addr \cup {0}, Here') /\ Maps(mem', Here', Contents)
    BY NothingMaps DEF Restart
  <1>3. /\ status' = "restore" /\ next' = 1 /\ api_records' = <<>> /\ call' = NoCall
        /\ held' = saved /\ UNCHANGED <<disk, saved>>
    BY DEF Restart
  <1> QED BY <1>1, <1>2, <1>3, EmptySeq DEF Typed, NoCall

LEMMA RestoreRecordTyped == ASSUME Typed, RestoreRecord PROVE Typed'
  <1> DEFINE r == disk.records[next]
  <1>1. r \in Record
    BY ElementOfSeq, LenProperties DEF RestoreRecord, Typed
  <1>2. UNCHANGED <<status, run, call, disk, held, saved>> /\ next' = next + 1
    BY DEF RestoreRecord
  <1>3. <<r, r>> \in Seq(Record) /\ Append(api_records, r) \in Seq(Record)
        /\ api_records \o <<r, r>> \in Seq(Record)
    <2>1. <<r, r>> \in Seq(Record)
      BY <1>1
    <2> QED BY <1>1, <2>1, AppendProperties, ConcatProperties DEF Typed
  <1>4. api_records' \in Seq(Record) /\ (api_records # <<>> => api_records' # <<>>)
    <2>1. Append(api_records, r) # <<>> /\ (api_records # <<>> => api_records \o <<r, r>> # <<>>)
      BY <1>1, <1>3, AppendProperties, ConcatEqualIffEmpty, ConcatProperties, EmptySeq DEF Typed
    <2> QED BY <1>3, <2>1 DEF RestoreRecord, RestoreMemory, RestoreNothing, CallRecord, Log
  <1>5. Maps(mem', Here, Contents) /\ Maps(map_res', Addr \cup {0}, Here)
    <2>1. CASE RestoreMemory(r)
      <3>1. PICK d \in Here \ DOMAIN mem :
               /\ mem' = With(mem, d, IF r.ptr \in DOMAIN disk.mem THEN disk.mem[r.ptr] ELSE 0)
               /\ map_res' = With(map_res, r.ptr, d)
        BY <2>1 DEF RestoreMemory, Mapped, Here
      <3>2. (IF r.ptr \in DOMAIN disk.mem THEN disk.mem[r.ptr] ELSE 0) \in Contents
        BY DEF Typed, Maps, Contents
      <3>3. r.ptr \in Addr \cup {0}
        BY <1>1 DEF Record
      <3> QED BY <3>1, <3>2, <3>3, WithMaps DEF Typed
    <2>2. CASE RestoreNothing(r)
      BY <2>2 DEF RestoreNothing, Typed
    <2>3. CASE CallRecord(r)
      BY <1>1, <2>3, EffectMaps DEF CallRecord, Typed
    <2> QED BY <2>1, <2>2, <2>3 DEF RestoreRecord
  <1> QED BY <1>2, <1>4, <1>5 DEF Typed, Here

LEMMA StepTyped == Typed /\ [Next]_ckvars => Typed'
  <1> SUFFICES ASSUME Typed, [Next]_ckvars PROVE Typed'
    OBVIOUS
  <1>1. CASE UNCHANGED ckvars
    BY <1>1 DEF ckvars, server, Typed, Here
  <1> QED BY <1>1, MallocBeginsTyped, FreeBeginsTyped, WriteBeginsTyped, CallEndsTyped,
             CheckpointTyped, RestartTyped, RestoreRecordTyped DEF Next

(***************************************************************************)
(* What is live after a log.  Lives(log, n, S): the first n records leave  *)
(* the allocations S, which the client knows by these addresses, and each  *)
(* of them can be repeated: what is freed is live, but for a cudaFree that *)
(* a restore has logged twice; and without signals, which may checkpoint a *)
(* record that has no result yet, what is allocated is not.                *)
(***************************************************************************)
Live(r, S) ==
    IF r.op = "malloc" THEN S \cup {r.ptr}
    ELSE IF r.op = "free" THEN S \ {r.ptr} ELSE S

Again(log, k) == k > 1 /\ log[k - 1] = log[k]

Permitted(log, k, S) ==
    /\ log[k].op = "malloc" /\ ~Signals => log[k].ptr \notin S
    /\ log[k].op = "free" => log[k].ptr \in S \/ Again(log, k)

Follows(log, n, L) ==
    /\ L[0] = {}
    /\ \A k \in 1 .. n : Permitted(log, k, L[k - 1]) /\ L[k] = Live(log[k], L[k - 1])

Lives(log, n, S) == \E L : Follows(log, n, L) /\ L[n] = S

\* What is live, and what the client has.
Covers(S, T) == T \subseteq S /\ (~Signals => S = T)
Accounted(log, n, T) == \E S : Lives(log, n, S) /\ Covers(S, T)

LEMMA LivesEmpty == ASSUME NEW log PROVE Lives(log, 0, {})
  <1>1. Follows(log, 0, [k \in {0} |-> {}]) /\ [k \in {0} |-> {}][0] = {}
    BY DEF Follows
  <1> QED BY <1>1 DEF Lives

LEMMA LivesStep ==
  ASSUME NEW log, NEW n \in Nat, NEW S, Lives(log, n, S), Permitted(log, n + 1, S)
  PROVE  Lives(log, n + 1, Live(log[n + 1], S))
  <1>1. PICK L : Follows(log, n, L) /\ L[n] = S
    BY DEF Lives
  <1>2. PICK M : M = [k \in 0 .. n + 1 |-> IF k = n + 1 THEN Live(log[n + 1], S) ELSE L[k]]
    OBVIOUS
  <1>3. M[n + 1] = Live(log[n + 1], S) /\ \A k \in 0 .. n : M[k] = L[k]
    BY <1>2
  <1>4. ASSUME NEW k \in 1 .. n + 1
        PROVE  Permitted(log, k, M[k - 1]) /\ M[k] = Live(log[k], M[k - 1])
    <2>1. CASE k = n + 1
      <3>1. M[k - 1] = S
        BY <1>1, <1>3, <2>1
      <3> QED BY <1>3, <2>1, <3>1
    <2>2. CASE k # n + 1
      <3>1. k \in 1 .. n /\ M[k - 1] = L[k - 1] /\ M[k] = L[k]
        BY <1>3, <2>2
      <3> QED BY <1>1, <3>1 DEF Follows
    <2> QED BY <2>1, <2>2
  <1>5. M[0] = {}
    BY <1>1, <1>3 DEF Follows
  <1>6. Follows(log, n + 1, M)
    BY <1>4, <1>5 DEF Follows
  <1> QED BY <1>3, <1>6 DEF Lives

\* Only the first n records count.
LEMMA LivesSame ==
  ASSUME NEW log, NEW log2, NEW n \in Nat, NEW S, Lives(log, n, S),
         \A k \in 1 .. n : log2[k] = log[k]
  PROVE  Lives(log2, n, S)
  <1>1. PICK L : Follows(log, n, L) /\ L[n] = S
    BY DEF Lives
  <1>2. ASSUME NEW k \in 1 .. n
        PROVE  Permitted(log2, k, L[k - 1]) /\ L[k] = Live(log2[k], L[k - 1])
    <2>1. log2[k] = log[k] /\ (k > 1 => log2[k - 1] = log[k - 1])
      OBVIOUS
    <2> QED BY <1>1, <2>1 DEF Follows, Permitted, Again
  <1> QED BY <1>1, <1>2 DEF Follows, Lives

LEMMA LivesAppend ==
  ASSUME NEW log \in Seq(Record), NEW r \in Record, NEW S, Lives(log, Len(log), S),
         r.op = "malloc" /\ ~Signals => r.ptr \notin S,
         r.op = "free" => r.ptr \in S \/ (log # <<>> /\ log[Len(log)] = r)
  PROVE  /\ Append(log, r) \in Seq(Record) /\ Len(Append(log, r)) = Len(log) + 1
         /\ Append(log, r)[Len(log) + 1] = r
         /\ Lives(Append(log, r), Len(log) + 1, Live(r, S))
  <1>1. Len(log) \in Nat /\ (log # <<>> => Len(log) > 0)
    BY LenProperties, EmptySeq
  <1>2. /\ Append(log, r) \in Seq(Record) /\ Len(Append(log, r)) = Len(log) + 1
        /\ \A k \in 1 .. Len(log) : Append(log, r)[k] = log[k]
        /\ Append(log, r)[Len(log) + 1] = r
    BY AppendProperties
  <1>3. Lives(Append(log, r), Len(log), S)
    BY <1>1, <1>2, LivesSame
  <1>4. Permitted(Append(log, r), Len(log) + 1, S)
    BY <1>1, <1>2 DEF Permitted, Again
  <1>5. Lives(Append(log, r), Len(log) + 1, Live(Append(log, r)[Len(log) + 1], S))
    BY <1>1, <1>3, <1>4, LivesStep
  <1> QED BY <1>2, <1>5

(***************************************************************************)
(* Memory behind allocations.  Backing(S, D, f, r): in the process r, with *)
(* D allocated on the device and f its mapping, each of S is at an address *)
(* in D, no two at the same; and without signals, D holds nothing else.    *)
(***************************************************************************)
At(a, f, r) == IF r > 0 /\ a \in DOMAIN f THEN f[a] ELSE a

Backing(S, D, f, r) ==
    /\ \A c \in S : At(c, f, r) \in D
    /\ \A b, c \in S : b # c => At(b, f, r) # At(c, f, r)
    /\ ~Signals => \A d \in D : \E c \in S : At(c, f, r) = d

LEMMA ResolveIsAt == \A a : Resolve(a) = At(a, map_res, run)
  BY DEF Resolve, At

LEMMA BackingNothing == ASSUME NEW f, NEW r PROVE Backing({}, {}, f, r)
  BY DEF Backing

\* One more allocation at a free address d, which the client knows as p.
LEMMA BackingMore ==
  ASSUME NEW S, NEW D, NEW f, NEW g, NEW r, Backing(S, D, f, r), NEW d, d \notin D, NEW p,
         At(p, g, r) = d, \A c : c # p => At(c, g, r) = At(c, f, r),
         ~Signals => p \notin S
  PROVE  Backing(S \cup {p}, D \cup {d}, g, r)
  <1>1. \A c \in S \cup {p} : At(c, g, r) \in D \cup {d}
    BY DEF Backing
  <1>2. ASSUME NEW b \in S \cup {p}, NEW c \in S \cup {p}, b # c
        PROVE  At(b, g, r) # At(c, g, r)
    BY <1>2 DEF Backing
  <1>3. ASSUME ~Signals, NEW e \in D \cup {d}
        PROVE  \E c \in S \cup {p} : At(c, g, r) = e
    <2>1. CASE e = d
      BY <2>1
    <2>2. CASE e # d
      <3>1. PICK c \in S : At(c, f, r) = e
        BY <1>3, <2>2 DEF Backing
      <3> QED BY <1>3, <3>1
    <2> QED BY <2>1, <2>2
  <1> QED BY <1>1, <1>2, <1>3 DEF Backing

LEMMA BackingLess ==
  ASSUME NEW S, NEW D, NEW f, NEW r, Backing(S, D, f, r), NEW p \in S
  PROVE  Backing(S \ {p}, D \ {At(p, f, r)}, f, r)
  <1>1. \A c \in S \ {p} : At(c, f, r) \in D \ {At(p, f, r)}
    BY DEF Backing
  <1>2. ASSUME ~Signals, NEW e \in D \ {At(p, f, r)}
        PROVE  \E c \in S \ {p} : At(c, f, r) = e
    BY <1>2 DEF Backing
  <1> QED BY <1>1, <1>2 DEF Backing

LEMMA BackingCovered ==
  ASSUME NEW S, NEW T, NEW D, NEW f, NEW r, Backing(S, D, f, r), Covers(S, T)
  PROVE  Backing(T, D, f, r)
  BY DEF Backing, Covers

(***************************************************************************)
(* The inductive invariant.                                                *)
(***************************************************************************)
Dumps == status \in {"dump_log", "dump_mem"}

\* The records whose call has its result, and the addresses with memory
\* behind them: a cudaFree that has begun has not freed yet.
Settled == IF call.op = "malloc" THEN Len(api_records) - 1 ELSE Len(api_records)
Kept == IF call.op = "free" THEN DOMAIN held \cup {call.ptr} ELSE DOMAIN held

\* The call in hand is the last one logged.
Handling ==
    /\ call # NoCall => call = api_records[Len(api_records)]
    /\ call.op = "malloc" => call.ptr \in Unset
    /\ call.op = "free" => call.ptr \notin DOMAIN held
    /\ Dumps /\ ~Signals => call = NoCall

Backed ==
    Up =>
        /\ Backing(Kept, DOMAIN mem, map_res, run)
        /\ Accounted(api_records, Settled, DOMAIN held)

Checkpointed == disk.complete => Accounted(disk.records, Len(disk.records), DOMAIN saved)

Copied(n) ==
    Len(disk.records) = n /\ \A k \in 1 .. n : disk.records[k] = api_records[k]

Dumping ==
    /\ Dumps => ~disk.complete /\ saved = held
    /\ status = "dump_log" => next - 1 <= Len(api_records) /\ Copied(next - 1)
    /\ status = "dump_mem" => Copied(Len(api_records))

\* The contents of what is live are those of the checkpoint.
Refilled(S) == \A c \in S : c \in DOMAIN disk.mem => mem[Resolve(c)] = disk.mem[c]

\* A restore has repeated what comes before next: S is what is live there.
\* A cudaFree logged twice comes back as two neighbours.
RestoredTo(S) ==
    /\ Lives(api_records, Len(api_records), S)
    /\ Backing(S, DOMAIN mem, map_res, run)
    /\ "memset" \notin Kinds => Refilled(S)
    /\ next > 1 =>
          LET r == disk.records[next - 1]
          IN  /\ api_records # <<>> /\ api_records[Len(api_records)] = r
              /\ r.op = "free" => Resolve(r.ptr) \notin DOMAIN mem

Restoring ==
    status = "restore" =>
        /\ run > 0 /\ call = NoCall /\ held = saved
        /\ next - 1 <= Len(disk.records)
        /\ \E L : /\ Follows(disk.records, Len(disk.records), L)
                  /\ Covers(L[Len(disk.records)], DOMAIN saved)
                  /\ RestoredTo(L[next - 1])

Keeping == Handling /\ Backed /\ Checkpointed /\ Dumping /\ Restoring

LEMMA InitKeeping == ASSUME Init PROVE Keeping
  <1>1. call = NoCall /\ api_records = <<>> /\ disk.records = <<>> /\ ~disk.complete
        /\ run = 0 /\ status = "serve" /\ Settled = 0 /\ Kept = {}
        /\ DOMAIN held = {} /\ DOMAIN mem = {} /\ DOMAIN map_res = {}
    BY EmptySeq, NothingMaps DEF Init, Settled, Kept, NoCall
  <1>2. Handling
    BY <1>1 DEF Handling, NoCall, Dumps
  <1>4. Backed
    BY <1>1, BackingNothing, LivesEmpty DEF Backed, Accounted, Covers
  <1> QED BY <1>1, <1>2, <1>4 DEF Keeping, Checkpointed, Dumping, Dumps, Restoring

(***************************************************************************)
(* Handlers.                                                               *)
(***************************************************************************)
LEMMA KindFacts ==
  ASSUME NEW r \in Record
  PROVE  r.op \in {"malloc", "free", "htod", "memset"} /\ r # NoCall
  <1>1. r.op \in {"malloc", "free", "htod", "memset"}
    BY CheckpointAssumption DEF Record
  <1>2. NoCall.op = "none"
    BY DEF NoCall
  <1> QED BY <1>1, <1>2

LEMMA BeginKeeps ==
  ASSUME Typed, Keeping, NEW r \in Record, Begin(r),
         r.op = "malloc" => r.ptr \in Unset /\ DOMAIN held' = DOMAIN held,
         r.op = "free" => r.ptr \in DOMAIN held /\ DOMAIN held' = DOMAIN held \ {r.ptr},
         r.op \in {"htod", "memset"} => DOMAIN held' = DOMAIN held
  PROVE  Keeping'
  <1>1. /\ UNCHANGED <<status, run, next, map_res, mem, disk, saved>> /\ status = "serve"
        /\ call = NoCall /\ call' = r /\ api_records' = Append(api_records, r)
    BY DEF Begin, Log
  <1>2. /\ Len(api_records) \in Nat /\ Len(api_records') = Len(api_records) + 1
        /\ api_records'[Len(api_records) + 1] = r
        /\ \A k \in 1 .. Len(api_records) : api_records'[k] = api_records[k]
    BY <1>1, AppendProperties, LenProperties DEF Typed
  <1>3. r.op \in {"malloc", "free", "htod", "memset"} /\ r # NoCall
    BY KindFacts
  <1>4. Settled = Len(api_records) /\ Kept = DOMAIN held
    BY <1>1 DEF Settled, Kept, NoCall
  <1>5. /\ Settled' = IF r.op = "malloc" THEN Len(api_records) ELSE Len(api_records) + 1
        /\ Kept' = Kept
    <2>1. Settled' = IF r.op = "malloc" THEN Len(api_records) ELSE Len(api_records) + 1
      BY <1>1, <1>2 DEF Settled
    <2>2. Kept' = IF r.op = "free" THEN DOMAIN held' \cup {r.ptr} ELSE DOMAIN held'
      BY <1>1 DEF Kept
    <2>3. CASE r.op = "free"
      BY <1>4, <2>1, <2>2, <2>3
    <2>4. CASE r.op # "free"
      BY <1>3, <1>4, <2>1, <2>2, <2>4
    <2> QED BY <2>1, <2>3, <2>4
  <1>6. Handling'
    BY <1>1, <1>2, <1>3 DEF Handling, Dumps
  <1>8. Accounted(api_records', Settled', DOMAIN held')
    <2>1. PICK S : Lives(api_records, Len(api_records), S) /\ Covers(S, DOMAIN held)
      BY <1>1, <1>4 DEF Keeping, Backed, Up, Accounted
    <2>2. CASE r.op = "malloc"
      <3>1. Lives(api_records', Len(api_records), S)
        BY <1>2, <2>1, LivesSame
      <3> QED BY <1>5, <2>1, <2>2, <3>1 DEF Accounted
    <2>3. CASE r.op # "malloc"
      <3>1. r.op = "free" => r.ptr \in S
        BY <2>1 DEF Covers
      <3>2. Lives(api_records', Len(api_records) + 1, Live(r, S))
        BY <1>1, <2>1, <2>3, <3>1, LivesAppend DEF Typed
      <3>3. Covers(Live(r, S), DOMAIN held')
        BY <1>3, <2>1, <2>3 DEF Covers, Live
      <3> QED BY <1>5, <2>3, <3>2, <3>3 DEF Accounted
    <2> QED BY <2>2, <2>3
  <1>9. Backed'
    BY <1>1, <1>5, <1>8 DEF Keeping, Backed, Up
  <1> QED BY <1>1, <1>6, <1>9 DEF Keeping, Checkpointed, Dumping, Dumps, Restoring

LEMMA CallBegins ==
  ASSUME Typed, Keeping, MallocBegins \/ FreeBegins \/ WriteBegins
  PROVE  Keeping'
  <1>1. CASE MallocBegins
    <2>1. PICK unset \in Unset : Begin([op |-> "malloc", ptr |-> unset, val |-> 0]) /\ UNCHANGED held
      BY <1>1 DEF MallocBegins
    <2>2. [op |-> "malloc", ptr |-> unset, val |-> 0] \in Record
      BY <2>1, RunFacts DEF Begin, Record
    <2> QED BY <2>1, <2>2, BeginKeeps
  <1>2. CASE FreeBegins
    <2>1. PICK c \in DOMAIN held : Begin([op |-> "free", ptr |-> c, val |-> 0]) /\ held' = Without(held, c)
      BY <1>2 DEF FreeBegins
    <2>2. [op |-> "free", ptr |-> c, val |-> 0] \in Record
      BY <2>1 DEF Begin, Record, Typed, Maps
    <2>3. DOMAIN held' = DOMAIN held \ {c}
      BY <2>1, WithoutFacts
    <2>4. PICK r \in Record : r = [op |-> "free", ptr |-> c, val |-> 0]
      BY <2>2
    <2>5. Begin(r) /\ r.op = "free" /\ r.ptr = c
      BY <2>1, <2>4
    <2> QED BY <2>3, <2>5, BeginKeeps
  <1>3. CASE WriteBegins
    <2>1. PICK c \in DOMAIN held, op \in {"htod", "memset"}, v \in Val :
             Begin([op |-> op, ptr |-> c, val |-> v]) /\ held' = With(held, c, 0)
      BY <1>3 DEF WriteBegins
    <2>2. [op |-> op, ptr |-> c, val |-> v] \in Record
      BY <2>1 DEF Begin, Record, Typed, Maps
    <2>3. DOMAIN held' = DOMAIN held
      <3>1. DOMAIN held' = DOMAIN held \cup {c}
        BY <2>1, WithFacts
      <3> QED BY <2>1, <3>1
    <2> QED BY <2>1, <2>2, <2>3, BeginKeeps
  <1> QED BY <1>1, <1>2, <1>3

\* The record of a cudaMalloc, which was the last, gets the address d.
LEMMA MallocEndsFacts ==
  ASSUME Typed, Keeping, CallEnds, MallocEnds
  PROVE  \E d, n :
           /\ d \in Here \ DOMAIN mem /\ (d \in DOMAIN map_res => clash') /\ mem' = With(mem, d, 0) /\ held' = With(held, d, 0)
           /\ n \in Nat /\ Settled = n /\ Settled' = n + 1
           /\ Len(api_records) = n + 1 /\ Len(api_records') = n + 1
           /\ \A k \in 1 .. n : api_records'[k] = api_records[k]
           /\ api_records'[n + 1].op = "malloc" /\ api_records'[n + 1].ptr = d
  <1>1. call.op = "malloc" /\ call # NoCall /\ call' = NoCall
    BY DEF CallEnds, MallocEnds, NoCall
  <1>2. PICK d \in Here \ DOMAIN mem :
           /\ mem' = With(mem, d, 0) /\ (d \in DOMAIN map_res => clash')
           /\ api_records' = [api_records EXCEPT ![Len(api_records)].ptr = d]
           /\ held' = With(held, d, 0)
    BY DEF MallocEnds, Here
  <1>3. PICK n \in Nat : n + 1 = Len(api_records)
    <2>1. Len(api_records) \in Nat /\ Len(api_records) # 0
      BY <1>1, LenProperties, EmptySeq DEF Typed
    <2>2. Len(api_records) - 1 \in Nat /\ (Len(api_records) - 1) + 1 = Len(api_records)
      BY <2>1
    <2> QED BY <2>2
  <1>4. /\ Len(api_records') = n + 1 /\ \A k \in 1 .. n : api_records'[k] = api_records[k]
        /\ api_records'[n + 1].op = "malloc" /\ api_records'[n + 1].ptr = d
    <2>1. n + 1 \in 1 .. Len(api_records) /\ api_records[n + 1] = call
      BY <1>1, <1>3 DEF Keeping, Handling
    <2>2. PICK e : e = [call EXCEPT !.ptr = d]
      OBVIOUS
    <2>3. e \in Record /\ e.op = "malloc" /\ e.ptr = d
      <3>1. call \in Record /\ d \in Addr
        BY <1>1, <1>2, RunFacts DEF Typed
      <3> QED BY <1>1, <2>2, <3>1 DEF Record
    <2>4. api_records' = [api_records EXCEPT ![n + 1] = e]
      BY <1>2, <1>3, <2>1, <2>2
    <2> QED BY <1>3, <2>1, <2>3, <2>4, ExceptSeq DEF Typed
  <1>5. Settled = n /\ Settled' = n + 1
    BY <1>1, <1>3, <1>4 DEF Settled, NoCall
  <1> QED BY <1>2, <1>3, <1>4, <1>5

LEMMA MallocEndsKeeps ==
  ASSUME Typed, Keeping, ~clash', CallEnds, MallocEnds
  PROVE  Keeping'
  <1>1. /\ UNCHANGED <<status, run, next, map_res, disk, saved>> /\ status = "serve"
        /\ call.op = "malloc" /\ call # NoCall /\ call' = NoCall
    BY DEF CallEnds, MallocEnds, NoCall
  <1>2. PICK d, n :
           /\ d \in Here \ DOMAIN mem /\ (d \in DOMAIN map_res => clash') /\ mem' = With(mem, d, 0) /\ held' = With(held, d, 0)
           /\ n \in Nat /\ Settled = n /\ Settled' = n + 1
           /\ Len(api_records) = n + 1 /\ Len(api_records') = n + 1
           /\ \A k \in 1 .. n : api_records'[k] = api_records[k]
           /\ api_records'[n + 1].op = "malloc" /\ api_records'[n + 1].ptr = d
    BY MallocEndsFacts
  <1>3. n \in Nat
    BY <1>2
  <1>4. /\ \A k \in 1 .. n : api_records'[k] = api_records[k]
        /\ api_records'[n + 1].op = "malloc" /\ api_records'[n + 1].ptr = d
    BY <1>2
  <1>5. Settled = n /\ Kept = DOMAIN held /\ Settled' = n + 1 /\ Kept' = DOMAIN held'
    BY <1>1, <1>2 DEF Kept, NoCall
  <1>6. DOMAIN held' = DOMAIN held \cup {d} /\ DOMAIN mem' = DOMAIN mem \cup {d}
    BY <1>2 DEF With
  <1>7. d \notin DOMAIN map_res /\ At(d, map_res, run) = d
    BY <1>2 DEF At
  <1>8. Backing(DOMAIN held, DOMAIN mem, map_res, run)
    BY <1>1, <1>5 DEF Keeping, Backed, Up
  <1>9. d \notin DOMAIN held
    BY <1>2, <1>7, <1>8 DEF Backing
  <1>10. Backing(Kept', DOMAIN mem', map_res', run')
    <2>1. Backing(DOMAIN held \cup {d}, DOMAIN mem \cup {d}, map_res, run)
      BY <1>2, <1>7, <1>8, <1>9, BackingMore
    <2> QED BY <1>1, <1>5, <1>6, <2>1
  <1>11. Accounted(api_records', Settled', DOMAIN held')
    <2>1. PICK S : Lives(api_records, n, S) /\ Covers(S, DOMAIN held)
      BY <1>1, <1>5 DEF Keeping, Backed, Up, Accounted
    <2>2. Lives(api_records', n, S)
      BY <1>3, <1>4, <2>1, LivesSame
    <2>3. Permitted(api_records', n + 1, S)
      BY <1>4, <1>9, <2>1 DEF Permitted, Covers
    <2>4. Lives(api_records', n + 1, S \cup {d})
      <3>1. Live(api_records'[n + 1], S) = S \cup {d}
        BY <1>4 DEF Live
      <3>2. Lives(api_records', n + 1, Live(api_records'[n + 1], S))
        BY <1>3, <2>2, <2>3, LivesStep
      <3> QED BY <3>1, <3>2
    <2>5. Covers(S \cup {d}, DOMAIN held')
      BY <1>6, <2>1 DEF Covers
    <2> QED BY <1>5, <2>4, <2>5 DEF Accounted
  <1>12. Backed'
    BY <1>10, <1>11 DEF Backed
  <1>13. Handling'
    BY <1>1 DEF Handling, NoCall, Dumps
  <1> QED BY <1>1, <1>12, <1>13 DEF Keeping, Checkpointed, Dumping, Dumps, Restoring

LEMMA OtherEndsKeeps ==
  ASSUME Typed, Keeping, CallEnds, OtherEnds
  PROVE  Keeping'
  <1>1. /\ UNCHANGED <<status, run, next, api_records, map_res, disk, saved>> /\ status = "serve"
        /\ call.op \in {"free", "htod", "memset"} /\ call' = NoCall /\ mem' = Effect(call)
    BY DEF CallEnds, OtherEnds
  <1>2. DOMAIN held' = DOMAIN held
    <2>1. CASE call.op = "free"
      BY <2>1 DEF OtherEnds
    <2>2. CASE call.op # "free"
      <3>1. held' = With(held, call.ptr, call.val) /\ call.ptr \in DOMAIN held
        BY <1>1, <2>2 DEF OtherEnds, Typed
      <3>2. PICK p, v : p = call.ptr /\ v = call.val
        OBVIOUS
      <3>3. DOMAIN With(held, p, v) = DOMAIN held \cup {p}
        BY WithFacts
      <3> QED BY <3>1, <3>2, <3>3
    <2> QED BY <2>1, <2>2
  <1>3. Settled = Len(api_records) /\ Settled' = Settled /\ Kept' = DOMAIN held
    BY <1>1, <1>2 DEF Settled, Kept, NoCall
  <1>4. Backing(Kept, DOMAIN mem, map_res, run)
    BY <1>1 DEF Keeping, Backed, Up
  <1>5. Backing(DOMAIN held, DOMAIN mem', map_res, run)
    <2>1. CASE call.op = "free"
      <3>1. Kept = DOMAIN held \cup {call.ptr} /\ call.ptr \notin DOMAIN held
        BY <2>1 DEF Kept, Keeping, Handling
      <3>2. DOMAIN mem' = DOMAIN mem \ {At(call.ptr, map_res, run)}
        BY <1>1, <2>1, WithoutFacts, ResolveIsAt DEF Effect
      <3>3. Backing(Kept \ {call.ptr}, DOMAIN mem', map_res, run)
        BY <1>4, <3>1, <3>2, BackingLess
      <3>4. Kept \ {call.ptr} = DOMAIN held
        BY <3>1
      <3> QED BY <3>3, <3>4
    <2>2. CASE call.op # "free"
      <3>1. Kept = DOMAIN held
        BY <2>2 DEF Kept
      <3>2. DOMAIN mem' = DOMAIN mem
        BY <1>1, <2>2, SetFacts DEF Effect
      <3> QED BY <1>4, <3>1, <3>2
    <2> QED BY <2>1, <2>2
  <1>6. Backed'
    BY <1>1, <1>2, <1>3, <1>5 DEF Keeping, Backed, Up
  <1>7. Handling'
    BY <1>1 DEF Handling, NoCall, Dumps
  <1> QED BY <1>1, <1>6, <1>7 DEF Keeping, Checkpointed, Dumping, Dumps, Restoring

(***************************************************************************)
(* Checkpoints.                                                            *)
(***************************************************************************)
LEMMA CheckpointBeginsKeeps ==
  ASSUME Typed, Keeping, CheckpointBegins
  PROVE  Keeping'
  <1>1. /\ UNCHANGED <<run, api_records, map_res, mem, call, held>>
        /\ status = "serve" /\ status' = "dump_log" /\ next' = 1 /\ saved' = held
        /\ call = NoCall \/ Signals
    BY DEF CheckpointBegins, server
  <1>2. disk'.records = <<>> /\ disk'.complete = FALSE
    BY DiskChanges
  <1>3. Settled' = Settled /\ Kept' = Kept
    BY <1>1 DEF Settled, Kept
  <1>4. Handling'
    BY <1>1 DEF Keeping, Handling, Dumps
  <1>6. Backed'
    BY <1>1, <1>3 DEF Keeping, Backed, Up
  <1>7. Dumping'
    <2>1. Len(disk'.records) = 0 /\ Len(api_records') \in Nat
      BY <1>1, <1>2, EmptySeq, LenProperties DEF Typed
    <2> QED BY <1>1, <1>2, <2>1 DEF Dumping, Dumps, Copied
  <1> QED BY <1>1, <1>2, <1>4, <1>6, <1>7 DEF Keeping, Checkpointed, Restoring

LEMMA DumpRecordKeeps ==
  ASSUME Typed, Keeping, DumpRecord
  PROVE  Keeping'
  <1>1. /\ UNCHANGED <<run, api_records, map_res, mem, call, held, saved>>
        /\ status = "dump_log" /\ status' \in {"dump_log", "dump_mem"}
    BY DEF DumpRecord, server
  <1>2. disk'.complete = disk.complete
    BY DiskChanges
  <1>3. Settled' = Settled /\ Kept' = Kept
    BY <1>1 DEF Settled, Kept
  <1>4. Handling'
    BY <1>1 DEF Keeping, Handling, Dumps
  <1>5. Backed'
    BY <1>1, <1>3 DEF Keeping, Backed, Up
  <1>6. /\ Len(api_records) \in Nat /\ next \in Nat \ {0} /\ next - 1 <= Len(api_records)
        /\ Len(disk.records) = next - 1
        /\ \A k \in 1 .. next - 1 : disk.records[k] = api_records[k]
    BY <1>1, LenProperties DEF Typed, Keeping, Dumping, Copied
  <1>7. CASE next <= Len(api_records)
    <2>1. disk'.records = Append(disk.records, api_records[next])
          /\ next' = next + 1 /\ status' = status
      BY <1>6, <1>7, DiskChanges DEF DumpRecord
    <2>2. api_records[next] \in Record
      BY <1>6, <1>7, ElementOfSeq DEF Typed
    <2>3. Len(disk'.records) = next /\ \A k \in 1 .. next : disk'.records[k] = api_records[k]
      <3>1. /\ Len(disk'.records) = Len(disk.records) + 1
            /\ \A k \in 1 .. Len(disk.records) : disk'.records[k] = disk.records[k]
            /\ disk'.records[Len(disk.records) + 1] = api_records[next]
        BY <2>1, <2>2, AppendProperties DEF Typed
      <3> QED BY <1>6, <3>1
    <2>4. Dumping'
      BY <1>1, <1>2, <1>6, <1>7, <2>1, <2>3 DEF Keeping, Dumping, Dumps, Copied
    <2> QED BY <1>1, <1>2, <1>4, <1>5, <2>4
            DEF Keeping, Checkpointed, Restoring, Dumping, Dumps
  <1>8. CASE next > Len(api_records)
    <2>1. disk' = disk /\ status' = "dump_mem" /\ next - 1 = Len(api_records)
      BY <1>6, <1>8 DEF DumpRecord
    <2>2. Dumping'
      BY <1>1, <1>6, <2>1 DEF Keeping, Dumping, Dumps, Copied
    <2> QED BY <1>1, <1>2, <1>4, <1>5, <2>1, <2>2
            DEF Keeping, Checkpointed, Restoring, Dumping, Dumps
  <1>9. next <= Len(api_records) \/ next > Len(api_records)
    BY <1>6
  <1> QED BY <1>7, <1>8, <1>9

LEMMA DumpMemoryKeeps ==
  ASSUME Typed, Keeping, DumpMemory
  PROVE  Keeping'
  <1>1. /\ UNCHANGED <<run, api_records, map_res, mem, call, held, saved>>
        /\ status = "dump_mem" /\ status' \in {"serve", "dump_mem"}
    BY DEF DumpMemory, server
  <1>2. disk'.records = disk.records
    BY DiskChanges
  <1>3. Settled' = Settled /\ Kept' = Kept
    BY <1>1 DEF Settled, Kept
  <1>4. Handling'
    BY <1>1 DEF Keeping, Handling, Dumps
  <1>5. Backed'
    BY <1>1, <1>3 DEF Keeping, Backed, Up
  <1>7. /\ Len(api_records) \in Nat /\ next \in Nat /\ Copied(Len(api_records))
        /\ saved = held /\ ~disk.complete
    BY <1>1, LenProperties DEF Typed, Keeping, Dumping, Dumps
  <1>8. CASE next <= Len(api_records)
    <2>1. status' = status /\ disk'.complete = disk.complete
      BY <1>7, <1>8, DiskChanges DEF DumpMemory
    <2>2. Dumping'
      BY <1>1, <1>2, <1>7, <2>1 DEF Dumping, Dumps, Copied
    <2> QED BY <1>1, <1>4, <1>5, <1>7, <2>1, <2>2 DEF Keeping, Checkpointed, Restoring
  <1>9. CASE next > Len(api_records)
    <2>1. status' = "serve"
      BY <1>7, <1>9 DEF DumpMemory
    <2>2. Dumping'
      BY <2>1 DEF Dumping, Dumps
    <2>3. PICK S : Lives(api_records, Settled, S) /\ Covers(S, DOMAIN held)
      BY <1>1 DEF Keeping, Backed, Up, Accounted
    <2>4. PICK T : Lives(api_records, Len(api_records), T) /\ Covers(T, DOMAIN held)
      <3>1. CASE call.op # "malloc"
        BY <2>3, <3>1 DEF Settled
      <3>2. CASE call.op = "malloc"
        <4>1. Signals /\ Settled \in Nat /\ Settled + 1 = Len(api_records)
              /\ api_records[Settled + 1].op = "malloc"
          <5>1. call # NoCall
            BY <3>2 DEF NoCall
          <5>2. Len(api_records) # 0
            BY <5>1, EmptySeq DEF Typed
          <5>3. Settled = Len(api_records) - 1 /\ Signals /\ call = api_records[Len(api_records)]
            BY <1>1, <3>2, <5>1 DEF Keeping, Handling, Dumps, Settled
          <5> QED BY <1>7, <3>2, <5>2, <5>3
        <4>2. Permitted(api_records, Settled + 1, S)
          BY <4>1 DEF Permitted
        <4>3. Lives(api_records, Settled + 1, Live(api_records[Settled + 1], S))
          BY <2>3, <4>1, <4>2, LivesStep
        <4>4. Covers(Live(api_records[Settled + 1], S), DOMAIN held)
          BY <2>3, <4>1 DEF Covers, Live
        <4> QED BY <4>1, <4>3, <4>4
      <3> QED BY <3>1, <3>2
    <2>5. Lives(disk.records, Len(disk.records), T)
      BY <1>7, <2>4, LivesSame DEF Copied
    <2>6. Checkpointed'
      BY <1>1, <1>2, <1>7, <2>4, <2>5 DEF Checkpointed, Accounted
    <2> QED BY <1>4, <1>5, <2>1, <2>2, <2>6 DEF Keeping, Restoring
  <1>10. next <= Len(api_records) \/ next > Len(api_records)
    BY <1>7
  <1> QED BY <1>8, <1>9, <1>10

(***************************************************************************)
(* Death and restore.                                                      *)
(***************************************************************************)
LEMMA DiesKeeps ==
  ASSUME Typed, Keeping, Dies
  PROVE  Keeping'
  <1>1. /\ UNCHANGED <<run, next, api_records, map_res, mem, call, disk, held, saved>>
        /\ status' = "dead"
    BY DEF Dies, server
  <1>2. Settled' = Settled
    BY <1>1 DEF Settled
  <1>5. Handling'
    BY <1>1 DEF Keeping, Handling, Dumps
  <1> QED BY <1>1, <1>5 DEF Keeping, Backed, Up, Checkpointed, Dumping, Dumps, Restoring

LEMMA RestartKeeps ==
  ASSUME Typed, Keeping, Restart
  PROVE  Keeping'
  <1>1. /\ status = "dead" /\ status' = "restore" /\ run' = run + 1 /\ run \in Nat /\ next' = 1
        /\ api_records' = <<>> /\ map_res' = Nothing /\ mem' = Nothing
        /\ call' = NoCall /\ held' = saved /\ UNCHANGED <<disk, saved>> /\ disk.complete
    BY RunFacts DEF Restart
  <1>2. DOMAIN map_res' = {} /\ DOMAIN mem' = {}
    BY <1>1, NothingMaps
  <1>3. Handling'
    BY <1>1 DEF Handling, NoCall, Dumps
  <1>5. Checkpointed'
    BY <1>1 DEF Keeping, Checkpointed
  <1>6. RestoredTo({})'
    <2>1. Lives(api_records', Len(api_records'), {})
      BY <1>1, EmptySeq, LivesEmpty
    <2>2. Backing({}, DOMAIN mem', map_res', run')
      BY <1>2, BackingNothing
    <2> QED BY <1>1, <2>1, <2>2 DEF RestoredTo, Refilled
  <1>7. Restoring'
    <2>1. PICK S : Lives(disk.records, Len(disk.records), S) /\ Covers(S, DOMAIN saved)
      BY <1>1 DEF Keeping, Checkpointed, Accounted
    <2>2. PICK L : Follows(disk.records, Len(disk.records), L) /\ L[Len(disk.records)] = S
      BY <2>1 DEF Lives
    <2>3. L[next' - 1] = {}
      BY <1>1, <2>2 DEF Follows
    <2>4. RestoredTo(L[next - 1])'
      BY <1>6, <2>3
    <2>5. run' > 0 /\ next' - 1 <= Len(disk.records)
      BY <1>1, LenProperties DEF Typed
    <2> QED BY <1>1, <2>1, <2>2, <2>4, <2>5 DEF Restoring
  <1> QED BY <1>1, <1>3, <1>5, <1>7 DEF Keeping, Backed, Up, Dumping, Dumps

\* A handler that a restore calls logs its record a second time.
LEMMA LivesTwice ==
  ASSUME NEW log \in Seq(Record), NEW r \in Record, NEW S, Lives(log, Len(log), S),
         r.op \in {"free", "memset"},
         r.op = "free" => r.ptr \in S \/ (log # <<>> /\ log[Len(log)] = r),
         NEW log2, log2 = log \o <<r, r>>
  PROVE  /\ Lives(log2, Len(log2), Live(r, S))
         /\ log2 # <<>> /\ log2[Len(log2)] = r
  <1>1. PICK n \in Nat : n = Len(log)
    BY LenProperties
  <1>2. /\ log2 \in Seq(Record) /\ Len(log2) = n + 2 /\ log2[n + 1] = r /\ log2[n + 2] = r
        /\ \A k \in 1 .. n : log2[k] = log[k]
    BY <1>1, ConcatProperties
  <1>3. log # <<>> => n > 0
    BY <1>1, EmptySeq
  <1>4. Lives(log2, n, S)
    BY <1>1, <1>2, LivesSame
  <1>5. Permitted(log2, n + 1, S)
    BY <1>1, <1>2, <1>3 DEF Permitted, Again
  <1>6. Lives(log2, n + 1, Live(r, S))
    <2>1. Lives(log2, n + 1, Live(log2[n + 1], S))
      BY <1>4, <1>5, LivesStep
    <2> QED BY <1>2, <2>1
  <1>7. PICK m, T : /\ m \in Nat /\ m = n + 1 /\ T = Live(r, S)
                    /\ log2[m] = r /\ log2[m + 1] = r /\ m + 1 = Len(log2)
    BY <1>1, <1>2
  <1>8. Permitted(log2, m + 1, T) /\ Lives(log2, m, T)
    <2>1. Again(log2, m + 1)
      BY <1>1, <1>7 DEF Again
    <2> QED BY <1>6, <1>7, <2>1 DEF Permitted
  <1>9. Lives(log2, m + 1, Live(log2[m + 1], T))
    BY <1>7, <1>8, LivesStep
  <1>10. Lives(log2, Len(log2), Live(r, S))
    <2>1. Live(log2[m + 1], T) = T
      BY <1>7 DEF Live
    <2> QED BY <1>7, <1>9, <2>1
  <1>11. log2 # <<>>
    BY <1>1, <1>2, EmptySeq
  <1> QED BY <1>2, <1>10, <1>11

\* The premises of the lemmas on a step of a restore.
Steps(r, S) ==
    /\ r \in Record /\ r = disk.records[next]
    /\ Permitted(disk.records, next, S) /\ RestoredTo(S)

LEMMA StepFacts ==
  ASSUME Typed, Keeping, RestoreRecord, NEW r, NEW S, Steps(r, S)
  PROVE  /\ UNCHANGED <<status, run, call, disk, held, saved>> /\ next' = next + 1
         /\ next' > 1 /\ next' - 1 = next /\ run > 0
         /\ r.op = "malloc" => RestoreMemory(r)
         /\ r.op = "htod" => RestoreNothing(r)
         /\ r.op \in {"free", "memset"} => CallRecord(r)
         /\ r.op = "malloc" /\ ~Signals => r.ptr \notin S
         /\ r.op = "free" /\ r.ptr \notin S =>
               /\ api_records # <<>> /\ api_records[Len(api_records)] = r
               /\ Resolve(r.ptr) \notin DOMAIN mem
  <1>1. status = "restore" /\ next \in Nat \ {0}
    BY DEF RestoreRecord, Typed
  <1>2. UNCHANGED <<status, run, call, disk, held, saved>> /\ next' = next + 1
    BY DEF RestoreRecord
  <1>3. run > 0
    BY <1>1 DEF Keeping, Restoring
  <1>4. RestoreMemory(r) \/ RestoreNothing(r) \/ CallRecord(r)
    BY DEF RestoreRecord, Steps
  <1>5. r.op = "free" /\ r.ptr \notin S =>
               /\ api_records # <<>> /\ api_records[Len(api_records)] = r
               /\ Resolve(r.ptr) \notin DOMAIN mem
    BY DEF Steps, Permitted, Again, RestoredTo
  <1>6. r.op = "malloc" /\ ~Signals => r.ptr \notin S
    BY DEF Steps, Permitted
  <1>7. next' > 1 /\ next' - 1 = next
    BY <1>1, <1>2
  <1>8. /\ r.op = "malloc" => RestoreMemory(r)
        /\ r.op = "htod" => RestoreNothing(r)
        /\ r.op \in {"free", "memset"} => CallRecord(r)
    BY <1>4 DEF RestoreMemory, RestoreNothing, CallRecord
  <1> QED BY <1>2, <1>3, <1>5, <1>6, <1>7, <1>8

LEMMA RestoreMemoryKeeps ==
  ASSUME Typed, Keeping, RestoreRecord, NEW r, NEW S, Steps(r, S), r.op = "malloc"
  PROVE  RestoredTo(S \cup {r.ptr})'
  <1>1. /\ UNCHANGED <<status, run, call, disk, held, saved>> /\ next' > 1 /\ next' - 1 = next
        /\ run > 0 /\ RestoreMemory(r) /\ (~Signals => r.ptr \notin S)
        /\ r \in Record /\ r = disk.records[next] /\ RestoredTo(S)
    BY StepFacts DEF Steps
  <1>2. PICK p, d, v :
           /\ p = r.ptr /\ d \in Here \ DOMAIN mem
           /\ v = IF p \in DOMAIN disk.mem THEN disk.mem[p] ELSE 0
           /\ mem' = With(mem, d, v) /\ map_res' = With(map_res, p, d)
    BY <1>1 DEF RestoreMemory, Mapped, Here
  <1>3. api_records' = Append(api_records, r)
    BY <1>1 DEF RestoreMemory, Log
  <1>4. /\ DOMAIN mem' = DOMAIN mem \cup {d} /\ mem'[d] = v
        /\ \A x \in DOMAIN mem : x # d => mem'[x] = mem[x]
    <2>1. /\ DOMAIN With(mem, d, v) = DOMAIN mem \cup {d} /\ With(mem, d, v)[d] = v
          /\ \A x \in DOMAIN mem : x # d => With(mem, d, v)[x] = mem[x]
      BY DEF With
    <2> QED BY <1>2, <2>1
  <1>5. /\ DOMAIN map_res' = DOMAIN map_res \cup {p} /\ map_res'[p] = d
        /\ \A x \in DOMAIN map_res : x # p => map_res'[x] = map_res[x]
    <2>1. /\ DOMAIN With(map_res, p, d) = DOMAIN map_res \cup {p} /\ With(map_res, p, d)[p] = d
          /\ \A x \in DOMAIN map_res : x # p => With(map_res, p, d)[x] = map_res[x]
      BY DEF With
    <2> QED BY <1>2, <2>1
  <1>6. At(p, map_res', run) = d /\ \A c : c # p => At(c, map_res', run) = At(c, map_res, run)
    BY <1>1, <1>5 DEF At
  <1>7. Backing(S \cup {p}, DOMAIN mem', map_res', run')
    <2>1. Backing(S, DOMAIN mem, map_res, run) /\ d \notin DOMAIN mem /\ (~Signals => p \notin S)
      BY <1>1, <1>2 DEF RestoredTo
    <2>2. Backing(S \cup {p}, DOMAIN mem \cup {d}, map_res', run)
      BY <1>6, <2>1, BackingMore
    <2> QED BY <1>1, <1>4, <2>2
  <1>8. ASSUME "memset" \notin Kinds, NEW c \in S \cup {p}, c \in DOMAIN disk.mem
        PROVE  mem'[At(c, map_res', run)] = disk.mem[c]
    <2>1. CASE c = p
      BY <1>2, <1>4, <1>6, <1>8, <2>1
    <2>2. CASE c # p
      <3>1. mem[At(c, map_res, run)] = disk.mem[c]
        BY <1>1, <1>8, <2>2, ResolveIsAt DEF RestoredTo, Refilled
      <3>2. At(c, map_res, run) \in DOMAIN mem
        BY <1>1, <2>2 DEF RestoredTo, Backing
      <3> QED BY <1>2, <1>4, <1>6, <2>2, <3>1, <3>2
    <2> QED BY <2>1, <2>2
  <1>9. \A c : Resolve(c)' = At(c, map_res', run)
    BY <1>1 DEF Resolve, At
  <1>10. /\ Lives(api_records', Len(api_records'), S \cup {p})
         /\ api_records' # <<>> /\ api_records'[Len(api_records')] = r
    <2>1. Lives(api_records, Len(api_records), S) /\ api_records \in Seq(Record)
      BY <1>1 DEF RestoredTo, Typed
    <2>2. /\ Len(api_records') = Len(api_records) + 1 /\ api_records'[Len(api_records) + 1] = r
          /\ Lives(api_records', Len(api_records) + 1, Live(r, S))
          /\ api_records' \in Seq(Record)
      BY <1>1, <1>3, <2>1, LivesAppend
    <2>3. api_records' # <<>>
      BY <2>1, <2>2, EmptySeq, LenProperties
    <2> QED BY <1>2, <2>2, <2>3 DEF Live
  <1>11. RestoredTo(S \cup {p})'
    BY <1>1, <1>7, <1>8, <1>9, <1>10 DEF RestoredTo, Refilled
  <1> QED BY <1>2, <1>11

LEMMA CallRecordKeeps ==
  ASSUME Typed, Keeping, RestoreRecord, NEW r, NEW S, Steps(r, S), r.op \in {"free", "memset"}
  PROVE  RestoredTo(Live(r, S))'
  <1>1. /\ UNCHANGED <<status, run, call, disk, held, saved>> /\ next' > 1 /\ next' - 1 = next
        /\ CallRecord(r) /\ r \in Record /\ r = disk.records[next] /\ RestoredTo(S)
    BY StepFacts DEF Steps
  <1>2. mem' = Effect(r) /\ api_records' = api_records \o <<r, r>> /\ map_res' = map_res
    BY <1>1 DEF CallRecord
  <1>3. \A c : Resolve(c)' = Resolve(c)
    BY <1>1, <1>2 DEF Resolve
  <1>4. PICK T : T = Live(r, S)
    OBVIOUS
  <1>5. /\ Lives(api_records', Len(api_records'), T)
        /\ api_records' # <<>> /\ api_records'[Len(api_records')] = r
    <2>1. PICK log, log2 : log = api_records /\ log2 = log \o <<r, r>>
      OBVIOUS
    <2>2. Lives(log, Len(log), S) /\ log \in Seq(Record)
      BY <1>1, <2>1 DEF RestoredTo, Typed
    <2>3. r.op = "free" => r.ptr \in S \/ (log # <<>> /\ log[Len(log)] = r)
      <3>1. r.op = "free" /\ r.ptr \notin S
              => api_records # <<>> /\ api_records[Len(api_records)] = r
        BY StepFacts
      <3> QED BY <2>1, <3>1
    <2>4. Lives(log2, Len(log2), Live(r, S)) /\ log2 # <<>> /\ log2[Len(log2)] = r
      <3>1. r \in Record
        BY <1>1
      <3> QED BY <2>1, <2>2, <2>3, <3>1, LivesTwice
    <2>5. log2 = api_records'
      BY <1>2, <2>1
    <2> QED BY <1>4, <2>4, <2>5
  <1>6. Backing(S, DOMAIN mem, map_res, run)
    BY <1>1 DEF RestoredTo
  <1>7. CASE r.op = "memset"
    <2>1. T = S /\ "memset" \in Kinds
      BY <1>1, <1>4, <1>7 DEF Live, Record
    <2>2. DOMAIN mem' = DOMAIN mem
      BY <1>2, <1>7, SetFacts DEF Effect
    <2>3. RestoredTo(T)'
      BY <1>1, <1>2, <1>5, <1>6, <1>7, <2>1, <2>2 DEF RestoredTo
    <2> QED BY <1>2, <1>4, <2>3
  <1>8. CASE r.op = "free"
    <2>1. PICK p, a : p = r.ptr /\ a = Resolve(p)
      OBVIOUS
    <2>2. T = S \ {p}
      BY <1>4, <1>8, <2>1 DEF Live
    <2>3. DOMAIN mem' = DOMAIN mem \ {a} /\ \A x \in DOMAIN mem : x # a => mem'[x] = mem[x]
      <3>1. mem' = Without(mem, a)
        BY <1>2, <1>8, <2>1 DEF Effect
      <3>2. /\ DOMAIN Without(mem, a) = DOMAIN mem \ {a}
            /\ \A x \in DOMAIN mem : x # a => Without(mem, a)[x] = mem[x]
        BY WithoutFacts
      <3> QED BY <3>1, <3>2
    <2>4. a = At(p, map_res, run)
      BY <2>1, ResolveIsAt
    <2>5. Backing(T, DOMAIN mem', map_res, run)
      <3>1. CASE p \in S
        BY <1>6, <2>2, <2>3, <2>4, <3>1, BackingLess
      <3>2. CASE p \notin S
        <4>1. a \notin DOMAIN mem
          BY <1>8, <2>1, <3>2, StepFacts
        <4>2. T = S /\ DOMAIN mem' = DOMAIN mem
          BY <2>2, <2>3, <3>2, <4>1
        <4> QED BY <1>6, <4>2
      <3> QED BY <3>1, <3>2
    <2>6. ASSUME "memset" \notin Kinds, NEW c \in T, c \in DOMAIN disk.mem
          PROVE  mem'[Resolve(c)] = disk.mem[c]
      <3>1. c \in S /\ mem[Resolve(c)] = disk.mem[c]
        BY <1>1, <2>2, <2>6 DEF RestoredTo, Refilled
      <3>2. Resolve(c) \in DOMAIN mem'
        BY <2>5, ResolveIsAt DEF Backing
      <3> QED BY <2>3, <3>1, <3>2
    <2>7. a \notin DOMAIN mem'
      BY <2>3
    <2>8. RestoredTo(T)'
      <3>1. "memset" \notin Kinds => Refilled(T)'
        BY <1>1, <1>3, <2>6 DEF Refilled
      <3> QED BY <1>1, <1>2, <1>3, <1>5, <2>1, <2>5, <2>7, <3>1 DEF RestoredTo
    <2> QED BY <1>2, <1>4, <2>8
  <1> QED BY <1>7, <1>8

LEMMA RestoreNothingKeeps ==
  ASSUME Typed, Keeping, RestoreRecord, NEW r, NEW S, Steps(r, S), r.op = "htod"
  PROVE  RestoredTo(S)'
  <1>1. /\ UNCHANGED <<status, run, call, disk, held, saved>> /\ next' > 1 /\ next' - 1 = next
        /\ RestoreNothing(r) /\ r \in Record /\ r = disk.records[next] /\ RestoredTo(S)
    BY StepFacts DEF Steps
  <1>2. mem' = mem /\ map_res' = map_res /\ api_records' = Append(api_records, r)
    BY <1>1 DEF RestoreNothing, Log
  <1>3. \A c : Resolve(c)' = Resolve(c)
    BY <1>1, <1>2 DEF Resolve
  <1>4. /\ Lives(api_records', Len(api_records'), S)
        /\ api_records' # <<>> /\ api_records'[Len(api_records')] = r
    <2>1. Lives(api_records, Len(api_records), S) /\ api_records \in Seq(Record)
      BY <1>1 DEF RestoredTo, Typed
    <2>2. /\ Len(api_records') = Len(api_records) + 1 /\ api_records'[Len(api_records) + 1] = r
          /\ Lives(api_records', Len(api_records) + 1, Live(r, S))
          /\ api_records' \in Seq(Record)
      BY <1>1, <1>2, <2>1, LivesAppend
    <2>3. api_records' # <<>>
      BY <2>1, <2>2, EmptySeq, LenProperties
    <2> QED BY <2>2, <2>3 DEF Live
  <1>5. "memset" \notin Kinds => Refilled(S)'
    BY <1>1, <1>2, <1>3 DEF RestoredTo, Refilled
  <1> QED BY <1>1, <1>2, <1>4, <1>5 DEF RestoredTo

LEMMA RestoreRecordKeeps ==
  ASSUME Typed, Keeping, RestoreRecord
  PROVE  Keeping'
  <1>1. /\ status = "restore" /\ next <= Len(disk.records) /\ next \in Nat \ {0}
        /\ UNCHANGED <<status, run, call, disk, held, saved>> /\ next' = next + 1
        /\ Len(disk.records) \in Nat
    BY LenProperties DEF RestoreRecord, Typed
  <1>2. run > 0 /\ call = NoCall /\ held = saved
    BY <1>1 DEF Keeping, Restoring
  <1>3. PICK L : /\ Follows(disk.records, Len(disk.records), L)
                 /\ Covers(L[Len(disk.records)], DOMAIN saved)
                 /\ RestoredTo(L[next - 1])
    BY <1>1 DEF Keeping, Restoring
  <1>4. PICK r, S : r = disk.records[next] /\ S = L[next - 1]
    OBVIOUS
  <1>5. Steps(r, S) /\ L[next] = Live(r, S)
    <2>1. next \in 1 .. Len(disk.records)
      BY <1>1
    <2>2. r \in Record
      BY <1>4, <2>1, ElementOfSeq DEF Typed
    <2>3. Permitted(disk.records, next, S) /\ L[next] = Live(r, S)
      BY <1>3, <1>4, <2>1 DEF Follows
    <2> QED BY <1>3, <1>4, <2>2, <2>3 DEF Steps
  <1>6. RestoredTo(Live(r, S))'
    <2>2. CASE r.op = "malloc"
      <3>1. RestoredTo(S \cup {r.ptr})'
        BY <1>5, <2>2, RestoreMemoryKeeps
      <3>2. Live(r, S) = S \cup {r.ptr}
        BY <2>2 DEF Live
      <3> QED BY <3>1, <3>2
    <2>3. CASE r.op = "htod"
      <3>1. RestoredTo(S)'
        BY <1>5, <2>3, RestoreNothingKeeps
      <3>2. Live(r, S) = S
        BY <2>3 DEF Live
      <3> QED BY <3>1, <3>2
    <2>4. CASE r.op \in {"free", "memset"}
      BY <1>5, <2>4, CallRecordKeeps
    <2>5. r.op \in {"malloc", "free", "htod", "memset"}
      BY <1>5, KindFacts DEF Steps
    <2> QED BY <2>2, <2>3, <2>4, <2>5
  <1>7. Restoring'
    <2>1. next' - 1 = next /\ next' - 1 <= Len(disk.records)
      BY <1>1
    <2>2. RestoredTo(L[next - 1])'
      BY <1>5, <1>6, <2>1
    <2> QED BY <1>1, <1>2, <1>3, <2>1, <2>2 DEF Restoring
  <1>9. Handling'
    BY <1>1, <1>2 DEF Handling, NoCall, Dumps
  <1> QED BY <1>1, <1>7, <1>9 DEF Keeping, Backed, Up, Checkpointed, Dumping, Dumps

LEMMA RestoreEndsKeeps ==
  ASSUME Typed, Keeping, RestoreEnds
  PROVE  Keeping'
  <1>1. /\ status = "restore" /\ next > Len(disk.records) /\ next \in Nat \ {0}
        /\ UNCHANGED <<run, next, api_records, map_res, mem, call, disk, held, saved>>
        /\ status' \in {"serve", "dead"} /\ Len(disk.records) \in Nat
    BY LenProperties DEF RestoreEnds, Typed, server
  <1>2. call = NoCall /\ held = saved /\ next - 1 = Len(disk.records)
    BY <1>1 DEF Keeping, Restoring
  <1>3. PICK S : RestoredTo(S) /\ Covers(S, DOMAIN held)
    BY <1>1, <1>2 DEF Keeping, Restoring
  <1>4. Settled' = Len(api_records) /\ Settled = Len(api_records) /\ Kept' = DOMAIN held
    BY <1>1, <1>2 DEF Settled, Kept, NoCall
  <1>5. Backed'
    <2>1. Backing(DOMAIN held, DOMAIN mem, map_res, run)
      BY <1>3, BackingCovered DEF RestoredTo
    <2>2. Accounted(api_records, Len(api_records), DOMAIN held)
      BY <1>3 DEF RestoredTo, Accounted
    <2> QED BY <1>1, <1>4, <2>1, <2>2 DEF Backed
  <1>7. Handling'
    BY <1>1, <1>2 DEF Handling, NoCall, Dumps
  <1> QED BY <1>1, <1>5, <1>7 DEF Keeping, Checkpointed, Dumping, Dumps, Restoring

(* A clash is never forgotten.                                             *)
LEMMA ClashStays ==
  ASSUME clash \in BOOLEAN, [Next]_ckvars
  PROVE  clash' \in BOOLEAN /\ (clash => clash')
  <1>1. CASE clash' = clash
    BY <1>1
  <1>2. CASE MallocEnds
    BY <1>2 DEF MallocEnds
  <1> QED BY <1>1, <1>2 DEF Next, ckvars, MallocBegins, FreeBegins, WriteBegins, Begin, CallEnds,
             OtherEnds, CheckpointBegins, DumpRecord, DumpMemory, Dies, Restart, RestoreRecord,
             RestoreEnds

LEMMA StepKeeping ==
  ASSUME Typed, Keeping, ~clash', [Next]_ckvars
  PROVE  Keeping'
  <1>1. CASE UNCHANGED ckvars
    <2>1. UNCHANGED <<status, run, next, api_records, map_res, mem, call, disk, held, saved>>
      BY <1>1 DEF ckvars, server
    <2>2. Settled' = Settled /\ Kept' = Kept /\ Dumps' = Dumps /\ Up' = Up
          /\ \A c : Resolve(c)' = Resolve(c)
      BY <2>1 DEF Settled, Kept, Dumps, Up, Resolve
    <2>3. Handling' /\ Backed' /\ Checkpointed'
      BY <2>1, <2>2 DEF Keeping, Handling, Backed, Checkpointed
    <2>4. Dumping'
      BY <2>1, <2>2 DEF Keeping, Dumping, Copied
    <2>5. \A S : RestoredTo(S) => RestoredTo(S)'
      BY <2>1, <2>2 DEF RestoredTo, Refilled
    <2>6. Restoring'
      BY <2>1, <2>5 DEF Keeping, Restoring
    <2> QED BY <2>3, <2>4, <2>6 DEF Keeping
  <1>2. CASE CallEnds
    BY <1>2, MallocEndsKeeps, OtherEndsKeeps DEF CallEnds
  <1> QED BY <1>1, <1>2, CallBegins, CheckpointBeginsKeeps, DumpRecordKeeps, DumpMemoryKeeps,
             DiesKeeps, RestartKeeps, RestoreRecordKeeps, RestoreEndsKeeps DEF Next

(***************************************************************************)
(* The theorems.                                                           *)
(***************************************************************************)
KeptSoFar == clash \in BOOLEAN /\ (~clash => Keeping)

LEMMA KeepingAlways == Spec => [](Typed /\ KeptSoFar)
  <1>1. Init => Typed /\ KeptSoFar
    BY InitTyped, InitKeeping DEF Init, KeptSoFar
  <1>2. Typed /\ KeptSoFar /\ [Next]_ckvars => (Typed /\ KeptSoFar)'
    BY StepTyped, StepKeeping, ClashStays DEF KeptSoFar
  <1> QED BY <1>1, <1>2, PTL DEF Spec

(* Every variable has its type, for any constants: memory and mapping hold *)
(* addresses of the running process only, the client's those of any.       *)
THEOREM CheckpointKeepsTypes == Spec => []CheckpointTypeOK
  <1>1. Typed /\ KeptSoFar => CheckpointTypeOK
    BY DEF Typed, KeptSoFar, CheckpointTypeOK, Maps, Range, Here, Contents
  <1> QED BY <1>1, KeepingAlways, PTL

(* Whatever was allocated, freed and allocated again, over any number of   *)
(* checkpoints and restores, and whatever calls a signal has cut through:  *)
(* each allocation of a client is backed by memory of its own, until a new *)
(* one gets an address that the manager translates.  Which addresses each  *)
(* process hands out is left open.                                         *)
THEOREM RestoreKeepsMemory == Spec => []ClientsKeepTheirMemory
  <1>1. KeptSoFar => ClientsKeepTheirMemory
    BY ResolveIsAt
    DEF KeptSoFar, Keeping, Backed, Kept, Backing, ClientsKeepTheirMemory, Serving
  <1> QED BY <1>1, KeepingAlways, PTL

(* When checkpoints fall between calls, the device holds nothing but what  *)
(* clients have, until such a clash: a restore repeats every cudaFree, and *)
(* frees nothing else.                                                     *)
THEOREM RestoreLeaksNothing ==
  ASSUME ~Signals
  PROVE  Spec => []NothingLeaks
  <1>1. KeptSoFar => NothingLeaks
    <2> SUFFICES ASSUME Keeping, Up, call = NoCall
                 PROVE  DOMAIN mem = {Resolve(c) : c \in DOMAIN held}
      BY DEF NothingLeaks, KeptSoFar, Serving
    <2>1. Backing(DOMAIN held, DOMAIN mem, map_res, run)
      BY DEF Keeping, Backed, Kept, NoCall
    <2> QED BY <2>1, ResolveIsAt DEF Backing
  <1> QED BY <1>1, KeepingAlways, PTL

(***************************************************************************)
(* Contents.  A cudaMemset in the log is repeated over the contents that   *)
(* the checkpoint saved; and a server that was restored cannot read, at    *)
(* the addresses its log holds, what it would save: what follows is of     *)
(* clients without cudaMemset, up to the first restore and after it.       *)
(***************************************************************************)
OneRestore == MaxRestarts <= 1 /\ "memset" \notin Kinds

\* What the client knows is in memory.
Known == Up => \A c \in DOMAIN held : held[c] # 0 => mem[Resolve(c)] = held[c]

\* Of what the client has, the log of the first process has the address.
Logged ==
    Up /\ run = 0 =>
        \A c \in DOMAIN held : \E k \in 1 .. Settled :
            api_records[k].op = "malloc" /\ api_records[k].ptr = c

\* The memory dumped so far.
Saving ==
    status = "dump_mem" /\ run = 0 =>
        \A k \in 1 .. Len(api_records) :
            LET r == api_records[k]
            IN  k < next /\ r.op = "malloc" /\ r.ptr \in DOMAIN mem
                    => r.ptr \in DOMAIN disk.mem /\ disk.mem[r.ptr] = mem[r.ptr]

\* What the client knew is in the checkpoint.
SavedContents ==
    (disk.complete /\ run = 0) \/ status = "restore" =>
        \A c \in DOMAIN saved :
            saved[c] # 0 => c \in DOMAIN disk.mem /\ disk.mem[c] = saved[c]

Seeing == Known /\ Logged /\ Saving /\ SavedContents

LEMMA InitSeeing == ASSUME Init PROVE Seeing
  <1>1. DOMAIN held = {} /\ DOMAIN saved = {} /\ status = "serve"
    BY NothingMaps DEF Init
  <1> QED BY <1>1 DEF Seeing, Known, Logged, Saving, SavedContents

LEMMA BeginSees ==
  ASSUME Typed, Seeing, NEW r \in Record, Begin(r),
         \A c \in DOMAIN held' : c \in DOMAIN held /\ (held'[c] # 0 => held'[c] = held[c])
  PROVE  Seeing'
  <1>1. /\ UNCHANGED <<status, run, next, map_res, mem, disk, saved>> /\ status = "serve"
        /\ call = NoCall /\ call' = r /\ api_records' = Append(api_records, r)
    BY DEF Begin, Log
  <1>2. /\ Len(api_records) \in Nat /\ Len(api_records') = Len(api_records) + 1
        /\ \A k \in 1 .. Len(api_records) : api_records'[k] = api_records[k]
    BY <1>1, AppendProperties, LenProperties DEF Typed
  <1>3. 1 .. Settled \subseteq 1 .. Settled' /\ Settled = Len(api_records)
    BY <1>1, <1>2 DEF Settled, NoCall
  <1>4. \A c : Resolve(c)' = Resolve(c)
    BY <1>1 DEF Resolve
  <1>5. Known'
    BY <1>1, <1>4 DEF Seeing, Known, Up
  <1>6. Logged'
    <2> SUFFICES ASSUME run = 0, NEW c \in DOMAIN held'
                 PROVE  \E k \in 1 .. Settled' :
                           api_records'[k].op = "malloc" /\ api_records'[k].ptr = c
      BY <1>1 DEF Logged
    <2>1. PICK k \in 1 .. Settled : api_records[k].op = "malloc" /\ api_records[k].ptr = c
      BY <1>1 DEF Seeing, Logged, Up
    <2> QED BY <1>2, <1>3, <2>1
  <1> QED BY <1>1, <1>5, <1>6 DEF Seeing, Saving, SavedContents

LEMMA CallBeginsSees ==
  ASSUME Typed, Seeing, MallocBegins \/ FreeBegins \/ WriteBegins
  PROVE  Seeing'
  <1>1. CASE MallocBegins
    <2>1. PICK unset \in Unset : Begin([op |-> "malloc", ptr |-> unset, val |-> 0]) /\ UNCHANGED held
      BY <1>1 DEF MallocBegins
    <2>2. [op |-> "malloc", ptr |-> unset, val |-> 0] \in Record
      BY <2>1, RunFacts DEF Begin, Record
    <2> QED BY <2>1, <2>2, BeginSees
  <1>2. CASE FreeBegins
    <2>1. PICK c \in DOMAIN held : Begin([op |-> "free", ptr |-> c, val |-> 0]) /\ held' = Without(held, c)
      BY <1>2 DEF FreeBegins
    <2>2. [op |-> "free", ptr |-> c, val |-> 0] \in Record
      BY <2>1 DEF Begin, Record, Typed, Maps
    <2>3. \A x \in DOMAIN held' : x \in DOMAIN held /\ (held'[x] # 0 => held'[x] = held[x])
      <3>1. /\ DOMAIN Without(held, c) = DOMAIN held \ {c}
            /\ \A x \in DOMAIN held : x # c => Without(held, c)[x] = held[x]
        BY WithoutFacts
      <3> QED BY <2>1, <3>1
    <2> QED BY <2>1, <2>2, <2>3, BeginSees
  <1>3. CASE WriteBegins
    <2>1. PICK c \in DOMAIN held, op \in {"htod", "memset"}, v \in Val :
             Begin([op |-> op, ptr |-> c, val |-> v]) /\ held' = With(held, c, 0)
      BY <1>3 DEF WriteBegins
    <2>2. [op |-> op, ptr |-> c, val |-> v] \in Record
      BY <2>1 DEF Begin, Record, Typed, Maps
    <2>3. \A x \in DOMAIN held' : x \in DOMAIN held /\ (held'[x] # 0 => held'[x] = held[x])
      BY <2>1 DEF With
    <2> QED BY <2>1, <2>2, <2>3, BeginSees
  <1> QED BY <1>1, <1>2, <1>3

LEMMA MallocEndsSees ==
  ASSUME Typed, Keeping, Seeing, CallEnds, MallocEnds
  PROVE  Seeing'
  <1>1. /\ UNCHANGED <<status, run, next, map_res, disk, saved>> /\ status = "serve"
        /\ call.op = "malloc"
    BY DEF CallEnds, MallocEnds
  <1>2. PICK d, n :
           /\ d \in Here \ DOMAIN mem /\ mem' = With(mem, d, 0) /\ held' = With(held, d, 0)
           /\ n \in Nat /\ Settled = n /\ Settled' = n + 1
           /\ Len(api_records) = n + 1 /\ Len(api_records') = n + 1
           /\ \A k \in 1 .. n : api_records'[k] = api_records[k]
           /\ api_records'[n + 1].op = "malloc" /\ api_records'[n + 1].ptr = d
    BY MallocEndsFacts
  <1>3. \A c : Resolve(c)' = Resolve(c)
    BY <1>1 DEF Resolve
  <1>4. Known'
    <2> SUFFICES ASSUME NEW c \in DOMAIN held', held'[c] # 0
                 PROVE  mem'[Resolve(c)] = held'[c]
      BY <1>3 DEF Known
    <2>1. c \in DOMAIN held /\ held'[c] = held[c]
      BY <1>2 DEF With
    <2>2. Resolve(c) \in DOMAIN mem
      BY <1>1, <2>1, ResolveIsAt DEF Keeping, Backed, Up, Backing, Kept
    <2>3. mem[Resolve(c)] = held[c]
      BY <1>1, <2>1 DEF Seeing, Known, Up
    <2> QED BY <1>2, <2>1, <2>2, <2>3 DEF With
  <1>5. Logged'
    <2> SUFFICES ASSUME run = 0, NEW c \in DOMAIN held'
                 PROVE  \E k \in 1 .. n + 1 :
                           api_records'[k].op = "malloc" /\ api_records'[k].ptr = c
      BY <1>1, <1>2 DEF Logged
    <2>1. CASE c = d
      BY <1>2, <2>1
    <2>2. CASE c # d
      <3>1. c \in DOMAIN held
        BY <1>2, <2>2 DEF With
      <3>2. PICK k \in 1 .. n : api_records[k].op = "malloc" /\ api_records[k].ptr = c
        BY <1>1, <1>2, <3>1 DEF Seeing, Logged, Up
      <3> QED BY <1>2, <3>2
    <2> QED BY <2>1, <2>2
  <1> QED BY <1>1, <1>4, <1>5 DEF Seeing, Saving, SavedContents

LEMMA OtherEndsSees ==
  ASSUME Typed, Keeping, Seeing, CallEnds, OtherEnds
  PROVE  Seeing'
  <1>1. /\ UNCHANGED <<status, run, next, api_records, map_res, disk, saved>> /\ status = "serve"
        /\ call.op \in {"free", "htod", "memset"} /\ call' = NoCall /\ mem' = Effect(call)
    BY DEF CallEnds, OtherEnds
  <1>2. PICK p, v, a : p = call.ptr /\ v = call.val /\ a = Resolve(p)
    OBVIOUS
  <1>3. \A c : Resolve(c)' = Resolve(c)
    BY <1>1 DEF Resolve
  <1>4. Settled' = Settled
    BY <1>1 DEF Settled, NoCall
  <1>5. /\ p \in Kept
        /\ \A c \in DOMAIN held : Resolve(c) \in DOMAIN mem
        /\ a \in DOMAIN mem
        /\ \A c \in DOMAIN held : c # p => Resolve(c) # a
    <2>1. Backing(Kept, DOMAIN mem, map_res, run)
      BY <1>1 DEF Keeping, Backed, Up
    <2>2. p \in Kept /\ DOMAIN held \subseteq Kept
      BY <1>1, <1>2 DEF Kept, Typed
    <2> QED BY <1>2, <2>1, <2>2, ResolveIsAt DEF Backing
  <1>6. CASE call.op = "free"
    <2>1. held' = held /\ p \notin DOMAIN held /\ mem' = Without(mem, a)
      BY <1>1, <1>2, <1>6 DEF OtherEnds, Effect, Keeping, Handling
    <2>2. \A x \in DOMAIN mem : x # a => mem'[x] = mem[x]
      <3>1. \A x \in DOMAIN mem : x # a => Without(mem, a)[x] = mem[x]
        BY WithoutFacts
      <3> QED BY <2>1, <3>1
    <2>3. Known'
      BY <1>1, <1>3, <1>5, <2>1, <2>2 DEF Seeing, Known, Up
    <2>4. Logged'
      BY <1>1, <1>4, <2>1 DEF Seeing, Logged, Up
    <2> QED BY <1>1, <2>3, <2>4 DEF Seeing, Saving, SavedContents
  <1>7. CASE call.op # "free"
    <2>1. held' = With(held, p, v) /\ p \in DOMAIN held /\ mem' = Set(mem, a, v)
      BY <1>1, <1>2, <1>7 DEF OtherEnds, Effect, Typed
    <2>2. mem'[a] = v /\ \A x \in DOMAIN mem : x # a => mem'[x] = mem[x]
      <3>1. /\ a \in DOMAIN mem => Set(mem, a, v)[a] = v
            /\ \A x \in DOMAIN mem : x # a => Set(mem, a, v)[x] = mem[x]
        BY SetFacts
      <3> QED BY <1>5, <2>1, <3>1
    <2>3. /\ DOMAIN held' = DOMAIN held /\ held'[p] = v
          /\ \A x \in DOMAIN held : x # p => held'[x] = held[x]
      BY <2>1 DEF With
    <2>4. Known'
      <3> SUFFICES ASSUME NEW c \in DOMAIN held, held'[c] # 0
                   PROVE  mem'[Resolve(c)] = held'[c]
        BY <1>3, <2>3 DEF Known
      <3>1. CASE c = p
        BY <1>2, <2>2, <2>3, <3>1
      <3>2. CASE c # p
        <4>1. mem[Resolve(c)] = held[c]
          BY <1>1, <2>3, <3>2 DEF Seeing, Known, Up
        <4> QED BY <1>5, <2>2, <2>3, <3>2, <4>1
      <3> QED BY <3>1, <3>2
    <2>5. Logged'
      BY <1>1, <1>4, <2>3 DEF Seeing, Logged, Up
    <2> QED BY <1>1, <2>4, <2>5 DEF Seeing, Saving, SavedContents
  <1> QED BY <1>6, <1>7

LEMMA DumpMemorySees ==
  ASSUME Typed, Keeping, Seeing, DumpMemory
  PROVE  Seeing'
  <1>1. /\ UNCHANGED <<run, api_records, map_res, mem, call, held, saved>>
        /\ status = "dump_mem" /\ status' \in {"serve", "dump_mem"}
        /\ next \in Nat /\ Len(api_records) \in Nat /\ saved = held /\ disk.complete = FALSE
    BY LenProperties DEF DumpMemory, server, Typed, Keeping, Dumping, Dumps
  <1>2. Known' /\ Logged'
    <2>1. Settled' = Settled /\ \A c : Resolve(c)' = Resolve(c)
      BY <1>1 DEF Settled, Resolve
    <2> QED BY <1>1, <2>1 DEF Seeing, Known, Logged, Up
  <1>3. CASE next <= Len(api_records)
    <2>1. /\ next' = next + 1 /\ status' = status /\ disk'.complete = FALSE
          /\ disk'.mem = Dumped(api_records[next])
      BY <1>1, <1>3, DiskChanges DEF DumpMemory
    <2>2. \A x \in DOMAIN disk.mem :
             x \in DOMAIN disk'.mem
             /\ (x \in DOMAIN mem /\ disk.mem[x] = mem[x] => disk'.mem[x] = mem[x])
      BY <2>1 DEF Dumped, With
    <2>3. LET r == api_records[next]
          IN  r.op = "malloc" /\ r.ptr \in DOMAIN mem
                => r.ptr \in DOMAIN disk'.mem /\ disk'.mem[r.ptr] = mem[r.ptr]
      BY <2>1 DEF Dumped, With
    <2>4. Saving'
      <3> SUFFICES ASSUME run = 0, NEW k \in 1 .. Len(api_records), k < next + 1,
                          api_records[k].op = "malloc", api_records[k].ptr \in DOMAIN mem
                   PROVE  /\ api_records[k].ptr \in DOMAIN disk'.mem
                          /\ disk'.mem[api_records[k].ptr] = mem[api_records[k].ptr]
        BY <1>1, <2>1 DEF Saving
      <3>1. CASE k = next
        BY <2>3, <3>1
      <3>2. CASE k # next
        <4>1. k < next
          BY <1>1, <3>2
        <4>2. /\ api_records[k].ptr \in DOMAIN disk.mem
              /\ disk.mem[api_records[k].ptr] = mem[api_records[k].ptr]
          BY <1>1, <4>1 DEF Seeing, Saving
        <4> QED BY <2>2, <4>2
      <3> QED BY <3>1, <3>2
    <2> QED BY <1>1, <1>2, <2>1, <2>4 DEF Seeing, SavedContents
  <1>4. CASE next > Len(api_records)
    <2>1. status' = "serve" /\ disk'.mem = disk.mem
      BY <1>1, <1>4, DiskChanges DEF DumpMemory
    <2>2. SavedContents'
      <3> SUFFICES ASSUME run = 0, NEW c \in DOMAIN saved, saved[c] # 0
                   PROVE  c \in DOMAIN disk.mem /\ disk.mem[c] = saved[c]
        BY <1>1, <2>1 DEF SavedContents
      <3>1. PICK k \in 1 .. Settled : api_records[k].op = "malloc" /\ api_records[k].ptr = c
        BY <1>1 DEF Seeing, Logged, Up
      <3>2. k \in 1 .. Len(api_records) /\ k < next
        BY <1>1, <1>4, <3>1 DEF Settled
      <3>3. Resolve(c) = c /\ mem[c] = saved[c]
        BY <1>1 DEF Seeing, Known, Up, Resolve
      <3>4. c \in DOMAIN mem
        BY <1>1, <3>3, ResolveIsAt DEF Keeping, Backed, Up, Backing, Kept
      <3> QED BY <1>1, <3>1, <3>2, <3>3, <3>4 DEF Seeing, Saving
    <2> QED BY <1>2, <2>1, <2>2 DEF Seeing, Saving
  <1>5. next <= Len(api_records) \/ next > Len(api_records)
    BY <1>1
  <1> QED BY <1>3, <1>4, <1>5

LEMMA RestoreSees ==
  ASSUME OneRestore, Typed, Keeping, Seeing,
         CheckpointBegins \/ DumpRecord \/ Dies \/ Restart \/ RestoreRecord
  PROVE  Seeing'
  <1>1. CASE CheckpointBegins \/ DumpRecord
    <2>1. /\ UNCHANGED <<run, api_records, map_res, mem, call, held>>
          /\ status \in {"serve", "dump_log"} /\ disk'.complete = FALSE
          /\ status' \in {"dump_log", "dump_mem"} /\ (status' = "dump_mem" => next' = 1)
      BY <1>1, DiskChanges
         DEF CheckpointBegins, DumpRecord, server, Typed, Keeping, Dumping, Dumps
    <2>2. Settled' = Settled /\ \A c : Resolve(c)' = Resolve(c)
      BY <2>1 DEF Settled, Resolve
    <2>3. Known' /\ Logged'
      BY <2>1, <2>2 DEF Seeing, Known, Logged, Up
    <2>4. Saving'
      BY <2>1 DEF Saving
    <2> QED BY <2>1, <2>3, <2>4 DEF Seeing, SavedContents
  <1>2. CASE Dies
    <2>1. /\ UNCHANGED <<run, disk, saved>> /\ status' = "dead"
      BY <1>2 DEF Dies
    <2> QED BY <2>1 DEF Seeing, Known, Logged, Saving, SavedContents, Up
  <1>3. CASE Restart
    <2>1. /\ UNCHANGED <<disk, saved>> /\ status' = "restore" /\ disk.complete /\ run = 0
      BY <1>3, CheckpointAssumption DEF Restart, OneRestore, Typed
    <2> QED BY <2>1 DEF Seeing, Known, Logged, Saving, SavedContents, Up
  <1>4. CASE RestoreRecord
    <2>1. /\ UNCHANGED <<status, run, disk, saved>> /\ status = "restore"
      BY <1>4 DEF RestoreRecord
    <2> QED BY <2>1 DEF Seeing, Known, Logged, Saving, SavedContents, Up
  <1> QED BY <1>1, <1>2, <1>3, <1>4

LEMMA RestoreEndsSees ==
  ASSUME OneRestore, Typed, Keeping, Seeing, RestoreEnds
  PROVE  Seeing'
  <1>1. /\ status = "restore" /\ next > Len(disk.records) /\ next \in Nat
        /\ UNCHANGED <<run, next, api_records, map_res, mem, call, disk, held, saved>>
        /\ status' \in {"serve", "dead"} /\ Len(disk.records) \in Nat
    BY LenProperties DEF RestoreEnds, Typed, server
  <1>2. run > 0 /\ run \in Nat /\ held = saved /\ next - 1 = Len(disk.records)
    BY <1>1, RunFacts DEF Keeping, Restoring
  <1>3. PICK S : RestoredTo(S) /\ Covers(S, DOMAIN held)
    BY <1>1, <1>2 DEF Keeping, Restoring
  <1>4. \A c : Resolve(c)' = Resolve(c)
    BY <1>1 DEF Resolve
  <1>5. Known'
    <2> SUFFICES ASSUME NEW c \in DOMAIN held, held[c] # 0
                 PROVE  mem[Resolve(c)] = held[c]
      BY <1>1, <1>4 DEF Known
    <2>1. c \in DOMAIN disk.mem /\ disk.mem[c] = held[c]
      BY <1>1, <1>2 DEF Seeing, SavedContents
    <2>2. Refilled(S) /\ c \in S
      BY <1>3 DEF RestoredTo, OneRestore, Covers
    <2> QED BY <2>1, <2>2 DEF Refilled
  <1> QED BY <1>1, <1>2, <1>5 DEF Seeing, Logged, Saving, SavedContents

LEMMA StepSeeing ==
  ASSUME OneRestore, Typed, Keeping, Seeing, [Next]_ckvars
  PROVE  Seeing'
  <1>1. CASE UNCHANGED ckvars
    <2>1. UNCHANGED <<status, run, next, api_records, map_res, mem, call, disk, held, saved>>
      BY <1>1 DEF ckvars, server
    <2>2. Settled' = Settled /\ \A c : Resolve(c)' = Resolve(c)
      BY <2>1 DEF Settled, Resolve
    <2> QED BY <2>1, <2>2 DEF Seeing, Known, Logged, Saving, SavedContents, Up
  <1>2. CASE CallEnds
    BY <1>2, MallocEndsSees, OtherEndsSees DEF CallEnds
  <1> QED BY <1>1, <1>2, CallBeginsSees, DumpMemorySees, RestoreSees, RestoreEndsSees DEF Next

SeenSoFar == clash \in BOOLEAN /\ (~clash => Keeping /\ Seeing)

(* Up to the next restore, and after it, the client reads what it wrote,   *)
(* although the checkpoint may have cut through a call, until a new        *)
(* allocation gets an address that the manager translates.                 *)
THEOREM RestoreKeepsData ==
  ASSUME MaxRestarts <= 1, "memset" \notin Kinds
  PROVE  Spec => []ClientsSeeTheirData
  <1>1. OneRestore
    BY DEF OneRestore
  <1>2. Init => Typed /\ SeenSoFar
    BY InitTyped, InitKeeping, InitSeeing DEF Init, SeenSoFar
  <1>3. Typed /\ SeenSoFar /\ [Next]_ckvars => (Typed /\ SeenSoFar)'
    BY <1>1, StepTyped, StepKeeping, StepSeeing, ClashStays DEF SeenSoFar
  <1>4. SeenSoFar => ClientsSeeTheirData
    BY ResolveIsAt
    DEF SeenSoFar, Keeping, Backed, Kept, Backing, Seeing, Known, ClientsSeeTheirData, Serving
  <1> QED BY <1>2, <1>3, <1>4, PTL DEF Spec
==============================================================================
