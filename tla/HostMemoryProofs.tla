-------------------------- MODULE HostMemoryProofs --------------------------
(***************************************************************************)
(* For any clients, any size of the tables and any number of failures: a   *)
(* copy from a pinned buffer uses that buffer, buffers in use stay apart   *)
(* and registered, and what is freed or fails leaves behind only what the  *)
(* property names.                                                         *)
(***************************************************************************)
EXTENDS HostMemory, TLAPS

\* The client is about to open a segment of the running server.
Opening(c) == pending[c].at = "open" /\ pending[c].run = run

(* What the counters say about the tables and the names.                   *)
Counted ==
    /\ \A c \in Clients : \A i \in Live(c) : i < table_cnt[c] /\ table[c][i].run <= run
    /\ \A c \in Clients : \A i \in Ours(c) :
          table[c][i].idx < hainfo_cnt /\ table[c][i].seg <= segments
    /\ \A c \in Clients :
          /\ pending[c].run <= run
          /\ pending[c].at = "open" => table_cnt[c] < Entries
          /\ Opening(c) => pending[c].idx < hainfo_cnt
    /\ \A n \in Slots : names[n] <= segments

(* No index and no segment is two buffers', and no name is another's.      *)
Apart ==
    /\ \A c, d \in Clients : \A i \in Ours(c), j \in Ours(d) :
          \/ table[c][i].idx = table[d][j].idx
          \/ table[c][i].seg = table[d][j].seg
          => c = d /\ i = j
    /\ \A c, d \in Clients : \A i \in Ours(c) :
          Opening(d) => table[c][i].idx # pending[d].idx
    /\ \A c, d \in Clients :
          Opening(c) /\ Opening(d) /\ pending[c].idx = pending[d].idx => c = d
    /\ \A m, n \in Slots : names[m] # NoSegment /\ names[m] = names[n] => m = n
    /\ \A c \in Clients : \A i \in Ours(c), n \in Slots :
          names[n] = table[c][i].seg => n = table[c][i].idx

(* The server's entry for a buffer is the buffer's, or was released.       *)
Mirrored ==
    /\ \A c \in Clients : \A i \in Ours(c) :
          LET n == table[c][i].idx
          IN  /\ hainfo[n].idx = n => hainfo[n].seg = table[c][i].seg
              /\ strays = 0 => hainfo[n].idx = n
    /\ \A c \in Clients : Opening(c) =>
          LET n == pending[c].idx
          IN  /\ hainfo[n].idx = n /\ names[n] # NoSegment => hainfo[n].seg = names[n]
              /\ strays = 0 => hainfo[n].idx = n

HostInv == HostTypeOK /\ Counted /\ Apart /\ Mirrored /\ NothingIsLeftBehind

LEMMA NoCopyTyped == NoCopy \in MadeCopy
  BY DEF NoCopy, MadeCopy

LEMMA UnusedTyped == Unused \in Buffer /\ Unused.seg = NoSegment /\ Idle \in Call /\ Idle.at = "idle"
  <1>1. 0 \in Slots
    BY HostMemoryAssumption DEF Slots
  <1> QED BY <1>1 DEF Unused, Buffer, NoSegment, Idle, Call

LEMMA InitHolds == Init => HostInv /\ CopiesUseTheirBuffer
  <1> SUFFICES ASSUME Init PROVE HostInv /\ CopiesUseTheirBuffer
    OBVIOUS
  <1>1. HostTypeOK
    <2>1. [i \in Slots |-> Zeroed] \in [Slots -> Entry] /\ [i \in Slots |-> NoSegment] \in [Slots -> Nat]
      BY HostMemoryAssumption DEF Slots, Zeroed, Entry, NoSegment
    <2>2. 0 \in 0..Entries
      BY HostMemoryAssumption
    <2>3. table \in [Clients -> [Slots -> Buffer]]
      BY UnusedTyped DEF Init
    <2>4. pending \in [Clients -> Call] /\ table_cnt \in [Clients -> 0..Entries]
      BY <2>2, UnusedTyped DEF Init
    <2>5. hainfo \in [Slots -> Entry] /\ names \in [Slots -> Nat] /\ hainfo_cnt \in 0..Entries
      BY <2>1, <2>2 DEF Init
    <2>6. socktype \in {"UNIX", "TCP"} /\ abandoned \subseteq Slots /\ lingering \subseteq Slots
      BY DEF Init
    <2>7. segments \in Nat /\ run \in Nat /\ faults \in Nat /\ strays \in Nat
      BY DEF Init
    <2>8. copied \in MadeCopy
      BY NoCopyTyped DEF Init
    <2> QED BY <2>3, <2>4, <2>5, <2>6, <2>7, <2>8 DEF HostTypeOK
  <1>2. \A c \in Clients : Live(c) = {} /\ Ours(c) = {} /\ pending[c] = Idle
    BY UnusedTyped DEF Init, Live, Ours
  <1>3. \A c \in Clients : pending[c].at = "idle" /\ pending[c].run = 0 /\ ~Opening(c)
    BY <1>2 DEF Idle, Opening
  <1>4. \A n \in Slots : names[n] = 0 /\ hainfo[n].seg = NoSegment
    BY DEF Init, NoSegment, Zeroed
  <1>5. Counted /\ Apart /\ Mirrored
    BY <1>2, <1>3, <1>4 DEF Init, Counted, Apart, Mirrored, NoSegment
  <1>6. NothingIsLeftBehind
    BY <1>4 DEF NothingIsLeftBehind, MemoryIsReleased, NamesAreRemoved, NoSegment
  <1>7. CopiesUseTheirBuffer
    BY DEF Init, CopiesUseTheirBuffer, NoCopy
  <1> QED BY <1>1, <1>5, <1>6, <1>7 DEF HostInv

LEMMA Types ==
    ASSUME HostInv
    PROVE  /\ table \in [Clients -> [Slots -> Buffer]] /\ table_cnt \in [Clients -> 0..Entries]
           /\ pending \in [Clients -> Call] /\ hainfo \in [Slots -> Entry]
           /\ hainfo_cnt \in 0..Entries /\ hainfo_cnt \in Nat /\ names \in [Slots -> Nat]
           /\ segments \in Nat /\ run \in Nat /\ faults \in Nat /\ strays \in Nat
           /\ abandoned \in SUBSET Slots /\ lingering \in SUBSET Slots
           /\ Entries \in Nat \ {0}
  BY HostMemoryAssumption DEF HostInv, HostTypeOK

LEMMA LiveFacts ==
    ASSUME HostInv, NEW c \in Clients, NEW i \in Live(c)
    PROVE  /\ i \in Slots /\ i \in Nat /\ table[c][i] \in Buffer /\ table[c][i].run \in Nat
           /\ table[c][i].seg \in Nat \ {NoSegment} /\ table[c][i].idx \in Slots
           /\ i < table_cnt[c] /\ table_cnt[c] \in Nat /\ table[c][i].run <= run
  <1>1. i \in Slots /\ table[c][i].seg # NoSegment
    BY DEF Live
  <1>2. table[c][i] \in Buffer /\ table_cnt[c] \in Nat
    BY <1>1, Types
  <1> QED BY <1>1, <1>2 DEF HostInv, Counted, Buffer, Slots

LEMMA OursFacts ==
    ASSUME HostInv, NEW c \in Clients, NEW i \in Ours(c)
    PROVE  /\ i \in Live(c) /\ i \in Slots /\ table[c][i].run = run
           /\ table[c][i].idx \in Slots /\ table[c][i].idx \in Nat
           /\ table[c][i].seg \in Nat \ {NoSegment}
           /\ table[c][i].idx < hainfo_cnt /\ table[c][i].seg <= segments
  <1>1. i \in Live(c) /\ table[c][i].run = run
    BY DEF Ours
  <1> QED BY <1>1, LiveFacts DEF HostInv, Counted, Slots

LEMMA PendingTyped ==
    ASSUME HostInv, NEW c \in Clients
    PROVE  /\ pending[c].idx \in Slots /\ pending[c].idx \in Nat /\ pending[c].run \in Nat
           /\ pending[c].at \in {"idle", "open", "register", "unlink"}
           /\ Given(c) \subseteq Slots
  BY Types DEF Call, Slots, Given

-----------------------------------------------------------------------------
(* The server's half of an allocation.                                     *)

LEMMA CreatedFacts ==
    ASSUME HostInv, NextIndex \in Slots
    PROVE  /\ Opened \in Nat \ {NoSegment} /\ Created \in Nat
           /\ Opened <= Created /\ segments <= Created
           /\ \A n \in Slots : names[n] = Opened => n = NextIndex
           /\ \A c \in Clients : \A i \in Ours(c) : table[c][i].seg # Opened
  <1> USE DEF NextIndex, NoSegment
  <1>1. names[NextIndex] \in Nat /\ segments \in Nat /\ names[NextIndex] <= segments
    BY Types DEF HostInv, Counted
  <1>2. CASE names[NextIndex] = NoSegment
    <2>1. Opened = segments + 1
      BY <1>2 DEF Opened
    <2>2. \A n \in Slots : names[n] \in Nat /\ names[n] <= segments
      BY Types DEF HostInv, Counted
    <2>3. \A c \in Clients : \A i \in Ours(c) : table[c][i].seg \in Nat /\ table[c][i].seg <= segments
      BY OursFacts
    <2> QED BY <1>1, <2>1, <2>2, <2>3 DEF Created
  <1>3. CASE names[NextIndex] # NoSegment
    <2>1. Opened = names[NextIndex]
      BY <1>3 DEF Opened
    <2>2. \A n \in Slots : names[n] = Opened => n = NextIndex
      BY <1>3, <2>1 DEF HostInv, Apart
    <2>3. \A c \in Clients : \A i \in Ours(c) :
              names[NextIndex] = table[c][i].seg => NextIndex = table[c][i].idx
      BY DEF HostInv, Apart
    <2>4. \A c \in Clients : \A i \in Ours(c) : table[c][i].idx \in Nat /\ table[c][i].idx < hainfo_cnt
      BY OursFacts
    <2>5. hainfo_cnt \in Nat
      BY Types
    <2> QED BY <1>1, <1>3, <2>1, <2>2, <2>3, <2>4, <2>5 DEF Created
  <1> QED BY <1>2, <1>3

LEMMA HostAllocFailsKeeps ==
    ASSUME HostInv, NEW c \in Clients, HostAllocFails(c)
    PROVE  HostInv'
  <1>0. /\ NextIndex \in Slots /\ faults' = faults + 1 /\ copied' = NoCopy
        /\ UNCHANGED <<socktype, table, table_cnt, pending, hainfo, hainfo_cnt, run,
                      abandoned, lingering, strays>>
    BY DEF HostAllocFails, clientVars, serverVars, Fault
  <1>1. /\ names' \in [Slots -> Nat]
        /\ \A n \in Slots \ {NextIndex} : names'[n] = names[n]
        /\ names'[NextIndex] \in {names[NextIndex], NoSegment, Opened}
        /\ segments' \in {segments, Created}
        /\ names'[NextIndex] = Opened => segments' = Created \/ names[NextIndex] = Opened
    <2>1. names \in [Slots -> Nat] /\ NextIndex \in Slots
      BY <1>0, Types
    <2>2. Opened \in Nat \ {NoSegment}
      BY <2>1, CreatedFacts
    <2>3. CASE UNCHANGED <<names, segments>>
      BY <2>1, <2>3
    <2>4. CASE names' = [names EXCEPT ![NextIndex] = NoSegment] /\ UNCHANGED segments
      BY <2>1, <2>2, <2>4 DEF NoSegment
    <2>5. CASE names' = [names EXCEPT ![NextIndex] = Opened] /\ segments' = Created
      BY <2>1, <2>2, <2>5
    <2> QED BY <2>3, <2>4, <2>5 DEF HostAllocFails
  <1>2. \A d \in Clients : Live(d)' = Live(d) /\ Ours(d)' = Ours(d) /\ Opening(d)' = Opening(d)
    BY <1>0 DEF Live, Ours, Opening
  <1>3. segments \in Nat /\ segments' \in Nat /\ segments <= segments'
    BY <1>0, <1>1, Types, CreatedFacts
  <1>4. HostTypeOK'
    <2>1. faults' \in Nat
      BY <1>0, Types
    <2> QED BY <1>0, <1>1, <1>3, <2>1, NoCopyTyped DEF HostInv, HostTypeOK
  <1>5. Counted'
    <2>1. \A n \in Slots : names'[n] <= segments'
      <3> TAKE n \in Slots
      <3>1. names[n] \in Nat /\ names[n] <= segments
        BY Types DEF HostInv, Counted
      <3>2. CASE n # NextIndex
        BY <1>1, <1>3, <3>1, <3>2
      <3>3. CASE n = NextIndex
        BY <1>0, <1>1, <1>3, <3>1, <3>3, CreatedFacts DEF NoSegment
      <3> QED BY <3>2, <3>3
    <2>2. \A d \in Clients : \A i \in Ours(d) :
              table[d][i].idx < hainfo_cnt /\ table[d][i].seg \in Nat /\ table[d][i].seg <= segments
      BY OursFacts
    <2>3. \A d \in Clients : \A i \in Ours(d) : table[d][i].seg <= segments'
      BY <2>2, <1>3
    <2> QED BY <1>0, <1>2, <2>1, <2>2, <2>3 DEF HostInv, Counted
  <1>6. Apart'
    <2>1. \A m, n \in Slots : names'[m] # NoSegment /\ names'[m] = names'[n] => m = n
      BY <1>0, <1>1, CreatedFacts DEF HostInv, Apart
    <2>2. \A d \in Clients : \A i \in Ours(d), n \in Slots :
              names'[n] = table[d][i].seg => n = table[d][i].idx
      BY <1>0, <1>1, CreatedFacts, OursFacts DEF HostInv, Apart
    <2> QED BY <1>0, <1>2, <2>1, <2>2 DEF HostInv, Apart
  <1>7. Mirrored'
    <2>1. \A d \in Clients : Opening(d) => pending[d].idx \in Slots \ {NextIndex}
      BY PendingTyped, Types DEF HostInv, Counted, NextIndex
    <2>2. \A d \in Clients : Opening(d) => names'[pending[d].idx] = names[pending[d].idx]
      BY <1>1, <2>1
    <2> QED BY <1>0, <1>2, <2>2 DEF HostInv, Mirrored
  <1>8. NothingIsLeftBehind'
    <2>1. MemoryIsReleased'
      BY <1>0, <1>2 DEF HostInv, NothingIsLeftBehind, MemoryIsReleased, InAllocation
    <2>2. NamesAreRemoved'
      BY <1>0, <1>1 DEF HostInv, NothingIsLeftBehind, NamesAreRemoved, NextIndex, InAllocation
    <2> QED BY <2>1, <2>2 DEF NothingIsLeftBehind
  <1> QED BY <1>4, <1>5, <1>6, <1>7, <1>8 DEF HostInv

LEMMA HostAllocKeeps ==
    ASSUME HostInv, NEW c \in Clients, HostAlloc(c)
    PROVE  HostInv'
  <1> DEFINE n0 == hainfo_cnt
             call == [at |-> "open", idx |-> n0, run |-> run]
  <1>0. /\ n0 \in Slots /\ n0 \in Nat /\ n0 < Entries /\ Entries \in Nat
        /\ table_cnt[c] \in Slots /\ pending[c] = Idle
        /\ hainfo' = [hainfo EXCEPT ![n0] = [idx |-> n0, seg |-> Opened]]
        /\ hainfo_cnt' = n0 + 1
        /\ names' = [names EXCEPT ![n0] = Opened]
        /\ segments' = Created
        /\ \/ /\ pending' = [pending EXCEPT ![c] = call]
              /\ UNCHANGED abandoned /\ lingering' = lingering \ {n0}
           \/ /\ UNCHANGED pending
              /\ abandoned' = abandoned \cup {n0} /\ lingering' = lingering \cup {n0}
        /\ faults' \in {faults, faults + 1}
        /\ copied' = NoCopy
        /\ UNCHANGED <<socktype, table, table_cnt, run, strays>>
    <2>1. Entries \in Nat \ {0} /\ faults \in Nat
      BY Types
    <2>2. n0 \in 0 .. Entries - 1 /\ n0 \in Nat /\ n0 < Entries
      BY <2>1 DEF HostAlloc, NextIndex, Slots
    <2>3. /\ \/ /\ pending' = [pending EXCEPT ![c] = call]
                /\ UNCHANGED abandoned /\ lingering' = lingering \ {n0}
             \/ /\ UNCHANGED pending
                /\ abandoned' = abandoned \cup {n0} /\ lingering' = lingering \cup {n0}
          /\ faults' \in {faults, faults + 1}
      BY DEF HostAlloc, NextIndex, Fault
    <2> QED BY <2>1, <2>2, <2>3 DEF HostAlloc, NextIndex, Slots
  <1>1. /\ hainfo \in [Slots -> Entry] /\ names \in [Slots -> Nat] /\ segments \in Nat
        /\ pending \in [Clients -> Call] /\ run \in Nat
        /\ abandoned \in SUBSET Slots /\ lingering \in SUBSET Slots /\ faults \in Nat
    BY Types
  <1>2. /\ Opened \in Nat \ {NoSegment} /\ Created \in Nat
        /\ Opened <= Created /\ segments <= Created
        /\ \A n \in Slots : names[n] = Opened => n = n0
        /\ \A d \in Clients : \A i \in Ours(d) : table[d][i].seg # Opened
    BY <1>0, CreatedFacts DEF NextIndex
  <1>3. \A d \in Clients : Live(d)' = Live(d) /\ Ours(d)' = Ours(d)
    BY <1>0 DEF Live, Ours
  <1>4. \A d \in Clients : \A i \in Ours(d) :
            /\ i \in Slots /\ table[d][i].idx \in Slots /\ table[d][i].idx \in Nat
            /\ table[d][i].seg \in Nat /\ table[d][i].idx < n0 /\ table[d][i].seg <= segments
    BY OursFacts
  <1>5. \A d \in Clients :
            /\ pending[d].idx \in Slots /\ pending[d].idx \in Nat
            /\ pending[d].at = "open" => table_cnt[d] < Entries
            /\ Opening(d) => pending[d].idx < n0
    BY PendingTyped DEF HostInv, Counted
  <1>6. \A d \in Clients : pending'[d] # pending[d] => d = c /\ pending'[c] = call
    BY <1>0, <1>1
  <1>7. \A n \in Slots \ {n0} : hainfo'[n] = hainfo[n] /\ names'[n] = names[n]
    BY <1>0, <1>1
  <1>8. hainfo'[n0] = [idx |-> n0, seg |-> Opened] /\ names'[n0] = Opened
    BY <1>0, <1>1
  <1>9. call.at = "open" /\ call.idx = n0 /\ call.run = run /\ call \in Call
    BY <1>0, <1>1 DEF Call
  <1> HIDE DEF n0, call
  <1>10. \A d \in Clients : \/ pending'[d] = pending[d] /\ Opening(d)' = Opening(d)
                            \/ d = c /\ pending'[d] = call
    BY <1>0, <1>6 DEF Opening
  <1>11. HostTypeOK'
    <2>1. [idx |-> n0, seg |-> Opened] \in Entry
      BY <1>0, <1>2 DEF Entry
    <2>3. pending' \in [Clients -> Call]
      BY <1>0, <1>1, <1>9
    <2>4. abandoned' \subseteq Slots /\ lingering' \subseteq Slots
      BY <1>0, <1>1
    <2>5. hainfo' \in [Slots -> Entry] /\ faults' \in Nat
      BY <1>0, <1>1, <2>1
    <2>6. names' \in [Slots -> Nat] /\ segments' \in Nat /\ hainfo_cnt' \in 0..Entries
      BY <1>0, <1>1, <1>2
    <2> QED BY <1>0, <2>3, <2>4, <2>5, <2>6, NoCopyTyped DEF HostInv, HostTypeOK
  <1>12. Counted'
    <2>1. \A d \in Clients : \A i \in Ours(d) :
              table[d][i].idx < n0 + 1 /\ table[d][i].seg <= Created
      BY <1>0, <1>1, <1>2, <1>4
    <2>2. \A d \in Clients : /\ pending'[d].run <= run
                             /\ pending'[d].at = "open" => table_cnt[d] < Entries
                             /\ Opening(d)' => pending'[d].idx < n0 + 1
      <3> TAKE d \in Clients
      <3>1. CASE pending'[d] = pending[d] /\ Opening(d)' = Opening(d)
        BY <1>0, <1>5, <3>1 DEF HostInv, Counted
      <3>2. CASE d = c /\ pending'[d] = call
        BY <1>0, <1>1, <1>9, <3>2 DEF Slots
      <3> QED BY <1>10, <3>1, <3>2
    <2>3. \A n \in Slots : names'[n] <= Created
      <3> TAKE n \in Slots
      <3>1. names[n] \in Nat /\ names[n] <= segments
        BY <1>1 DEF HostInv, Counted
      <3> QED BY <1>1, <1>2, <1>7, <1>8, <3>1
    <2> QED BY <1>0, <1>3, <2>1, <2>2, <2>3 DEF HostInv, Counted
  <1>13. Apart'
    <2>1. \A d, e \in Clients : \A i \in Ours(d) : Opening(e)' => table[d][i].idx # pending'[e].idx
      <3> SUFFICES ASSUME NEW d \in Clients, NEW e \in Clients, NEW i \in Ours(d), Opening(e)'
                   PROVE  table[d][i].idx # pending'[e].idx
        OBVIOUS
      <3>1. CASE pending'[e] = pending[e] /\ Opening(e)' = Opening(e)
        BY <3>1 DEF HostInv, Apart
      <3>2. CASE pending'[e] = call
        BY <1>0, <1>4, <1>9, <3>2
      <3> QED BY <1>10, <3>1, <3>2
    <2>2. \A d, e \in Clients :
              Opening(d)' /\ Opening(e)' /\ pending'[d].idx = pending'[e].idx => d = e
      <3> SUFFICES ASSUME NEW d \in Clients, NEW e \in Clients, d # e, Opening(d)', Opening(e)'
                   PROVE  pending'[d].idx # pending'[e].idx
        OBVIOUS
      <3>1. CASE pending'[d] = pending[d] /\ Opening(d)' = Opening(d)
                 /\ pending'[e] = pending[e] /\ Opening(e)' = Opening(e)
        BY <3>1 DEF HostInv, Apart
      <3>2. CASE d = c /\ pending'[d] = call
        BY <1>0, <1>5, <1>9, <1>10, <3>2
      <3>3. CASE e = c /\ pending'[e] = call
        BY <1>0, <1>5, <1>9, <1>10, <3>3
      <3> QED BY <1>10, <3>1, <3>2, <3>3
    <2>3. \A m, n \in Slots : names'[m] # NoSegment /\ names'[m] = names'[n] => m = n
      BY <1>2, <1>7, <1>8 DEF HostInv, Apart
    <2>4. \A d \in Clients : \A i \in Ours(d), n \in Slots :
              names'[n] = table[d][i].seg => n = table[d][i].idx
      BY <1>2, <1>7, <1>8 DEF HostInv, Apart
    <2> QED BY <1>0, <1>3, <2>1, <2>2, <2>3, <2>4 DEF HostInv, Apart
  <1>14. Mirrored'
    <2>1. \A d \in Clients : \A i \in Ours(d) : hainfo'[table[d][i].idx] = hainfo[table[d][i].idx]
      BY <1>0, <1>4, <1>7
    <2>2. \A d \in Clients : Opening(d)' =>
              LET n == pending'[d].idx
              IN  /\ hainfo'[n].idx = n /\ names'[n] # NoSegment => hainfo'[n].seg = names'[n]
                  /\ strays = 0 => hainfo'[n].idx = n
      <3> SUFFICES ASSUME NEW d \in Clients, Opening(d)'
                   PROVE  LET n == pending'[d].idx
                          IN  /\ hainfo'[n].idx = n /\ names'[n] # NoSegment => hainfo'[n].seg = names'[n]
                              /\ strays = 0 => hainfo'[n].idx = n
        OBVIOUS
      <3>1. CASE pending'[d] = pending[d] /\ Opening(d)' = Opening(d)
        <4>1. pending[d].idx \in Slots \ {n0}
          BY <1>0, <1>5, <3>1
        <4> QED BY <1>7, <3>1, <4>1 DEF HostInv, Mirrored
      <3>2. CASE pending'[d] = call
        BY <1>8, <1>9, <3>2
      <3> QED BY <1>10, <3>1, <3>2
    <2> QED BY <1>0, <1>3, <2>1, <2>2 DEF HostInv, Mirrored
  <1>15. NothingIsLeftBehind'
    <2>1. \A d \in Clients : pending[d].at # "idle" => pending'[d] = pending[d]
      BY <1>0, <1>6, UnusedTyped
    <2>2. \/ n0 \in abandoned' /\ n0 \in lingering'
          \/ pending'[c].at = "open" /\ pending'[c].run = run /\ pending'[c].idx = n0
      BY <1>0, <1>1, <1>9
    <2>3. abandoned \subseteq abandoned' /\ lingering \ {n0} \subseteq lingering'
      BY <1>0
    <2>4. MemoryIsReleased'
      <3> SUFFICES ASSUME socktype = "UNIX", strays = 0, NEW n \in Slots \ ({0} \cup abandoned'),
                          hainfo'[n].seg # NoSegment
                   PROVE  \E d \in Clients :
                            \/ pending'[d].at = "open" /\ pending'[d].run = run /\ pending'[d].idx = n
                            \/ \E i \in Ours(d) : table[d][i].idx = n
        BY <1>0, <1>3 DEF MemoryIsReleased, InAllocation
      <3>1. CASE n = n0
        BY <2>2, <3>1
      <3>2. CASE n # n0
        <4>1. hainfo[n].seg # NoSegment /\ n \notin {0} \cup abandoned
          BY <1>7, <2>3, <3>2
        <4>2. \E d \in Clients :
                \/ pending[d].at = "open" /\ pending[d].run = run /\ pending[d].idx = n
                \/ \E i \in Ours(d) : table[d][i].idx = n
          BY <4>1 DEF HostInv, NothingIsLeftBehind, MemoryIsReleased, InAllocation
        <4> QED BY <2>1, <4>2
      <3> QED BY <3>1, <3>2
    <2>5. NamesAreRemoved'
      <3> SUFFICES ASSUME NEW n \in Slots, names'[n] # NoSegment, n \notin lingering'
                   PROVE  \E d \in Clients :
                            pending'[d].at \in {"open", "register"} /\ pending'[d].run = run /\ pending'[d].idx = n
        BY <1>0 DEF NamesAreRemoved, InAllocation
      <3>1. CASE n = n0
        BY <2>2, <3>1
      <3>2. CASE n # n0
        <4>1. names[n] # NoSegment /\ n \notin lingering
          BY <1>7, <2>3, <3>2
        <4>2. \E d \in Clients :
                pending[d].at \in {"open", "register"} /\ pending[d].run = run /\ pending[d].idx = n
          BY <3>2, <4>1 DEF HostInv, NothingIsLeftBehind, NamesAreRemoved, InAllocation, n0
        <4> QED BY <2>1, <4>2
      <3> QED BY <3>1, <3>2
    <2> QED BY <2>4, <2>5 DEF NothingIsLeftBehind
  <1> QED BY <1>11, <1>12, <1>13, <1>14, <1>15 DEF HostInv

-----------------------------------------------------------------------------
(* The client's half of an allocation.                                     *)

\* The steps that only end or go on with an allocation, and only remove names.
LEMMA LettingGoKeeps ==
    ASSUME HostInv, NEW c \in Clients,
           UNCHANGED <<socktype, table, table_cnt, hainfo, hainfo_cnt, segments, run, strays>>,
           NEW at \in {"idle", "unlink"},
           \/ pending' = [pending EXCEPT ![c].at = at]
           \/ pending' = [pending EXCEPT ![c] = Idle],
           NEW idx \in Slots,
           names' \in {names, [names EXCEPT ![idx] = NoSegment]},
           abandoned' \in SUBSET Slots, abandoned \subseteq abandoned',
           lingering' \in SUBSET Slots, lingering \subseteq lingering',
           faults' \in {faults, faults + 1}, copied' = NoCopy,
           pending[c].at = "open" => Given(c) \subseteq abandoned',
           pending[c].at \in {"open", "register"} =>
               Given(c) \subseteq lingering' \/ names'[pending[c].idx] = NoSegment
    PROVE  HostInv'
  <1>1. /\ hainfo \in [Slots -> Entry] /\ names \in [Slots -> Nat]
        /\ pending \in [Clients -> Call] /\ faults \in Nat /\ run \in Nat
    BY Types
  <1>2. \A d \in Clients : Live(d)' = Live(d) /\ Ours(d)' = Ours(d)
    BY DEF Live, Ours
  <1>3. \A n \in Slots : names'[n] \in {names[n], NoSegment}
    BY <1>1
  <1>4. /\ \A d \in Clients : d # c => pending'[d] = pending[d]
        /\ pending'[c].at \in {"idle", "unlink"} /\ pending'[c].run \in {pending[c].run, 0}
        /\ pending' \in [Clients -> Call]
    <2>1. CASE pending' = [pending EXCEPT ![c].at = at]
      BY <1>1, <2>1 DEF Call
    <2>2. CASE pending' = [pending EXCEPT ![c] = Idle]
      BY <1>1, <2>2, UnusedTyped DEF Idle
    <2> QED BY <2>1, <2>2
  <1>5. \A d \in Clients : Opening(d)' => d # c /\ pending'[d] = pending[d] /\ Opening(d)
    BY <1>4 DEF Opening
  <1>6. HostTypeOK'
    <2>1. names' \in [Slots -> Nat]
      BY <1>1 DEF NoSegment
    <2>2. faults' \in Nat
      BY <1>1
    <2> QED BY <1>4, <2>1, <2>2, NoCopyTyped DEF HostInv, HostTypeOK
  <1>7. Counted'
    <2>1. \A n \in Slots : names'[n] <= segments
      BY <1>1, <1>3, Types DEF HostInv, Counted, NoSegment
    <2>2. \A d \in Clients : pending'[d].run <= run /\ (pending'[d].at = "open" => table_cnt[d] < Entries)
      <3> TAKE d \in Clients
      <3>1. CASE d = c
        BY <1>1, <1>4, <3>1 DEF HostInv, Counted
      <3>2. CASE d # c
        BY <1>4, <3>2 DEF HostInv, Counted
      <3> QED BY <3>1, <3>2
    <2> QED BY <1>2, <1>5, <2>1, <2>2 DEF HostInv, Counted
  <1>8. Apart'
    <2>1. \A m, n \in Slots : names'[m] # NoSegment /\ names'[m] = names'[n] => m = n
      BY <1>3 DEF HostInv, Apart
    <2>2. \A d \in Clients : \A i \in Ours(d), n \in Slots :
              names'[n] = table[d][i].seg => n = table[d][i].idx
      BY <1>3, OursFacts DEF HostInv, Apart
    <2> QED BY <1>2, <1>5, <2>1, <2>2 DEF HostInv, Apart
  <1>9. Mirrored'
    <2>1. \A d \in Clients : Opening(d)' =>
              /\ pending'[d] = pending[d] /\ Opening(d) /\ pending[d].idx \in Slots
      BY <1>5, PendingTyped
    <2> QED BY <1>2, <1>3, <2>1 DEF HostInv, Mirrored
  <1>10. NothingIsLeftBehind'
    <2>1. MemoryIsReleased'
      <3> SUFFICES ASSUME socktype = "UNIX", strays = 0, NEW n \in Slots \ ({0} \cup abandoned'),
                          hainfo[n].seg # NoSegment
                   PROVE  \E d \in Clients :
                            \/ pending'[d].at = "open" /\ pending'[d].run = run /\ pending'[d].idx = n
                            \/ \E i \in Ours(d) : table[d][i].idx = n
        BY <1>2 DEF MemoryIsReleased, InAllocation
      <3>1. PICK d \in Clients : \/ pending[d].at = "open" /\ pending[d].run = run /\ pending[d].idx = n
                                 \/ \E i \in Ours(d) : table[d][i].idx = n
        BY DEF HostInv, NothingIsLeftBehind, MemoryIsReleased, InAllocation
      <3>2. pending[d].at = "open" /\ pending[d].run = run /\ pending[d].idx = n => d # c
        BY DEF Given
      <3> QED BY <1>4, <3>1, <3>2
    <2>2. NamesAreRemoved'
      <3> SUFFICES ASSUME NEW n \in Slots, names'[n] # NoSegment, n # hainfo_cnt, n \notin lingering'
                   PROVE  \E d \in Clients : /\ pending'[d].at \in {"open", "register"}
                                             /\ pending'[d].run = run /\ pending'[d].idx = n
        BY DEF NamesAreRemoved, InAllocation
      <3>1. names[n] # NoSegment /\ n \notin lingering
        BY <1>3
      <3>2. PICK d \in Clients : /\ pending[d].at \in {"open", "register"}
                                 /\ pending[d].run = run /\ pending[d].idx = n
        BY <3>1 DEF HostInv, NothingIsLeftBehind, NamesAreRemoved, InAllocation
      <3>3. d # c
        BY <3>2 DEF Given
      <3> QED BY <1>4, <3>2, <3>3
    <2> QED BY <2>1, <2>2 DEF NothingIsLeftBehind
  <1> QED BY <1>6, <1>7, <1>8, <1>9, <1>10 DEF HostInv

LEMMA MapSegmentFailsKeeps ==
    ASSUME HostInv, NEW c \in Clients, MapSegmentFails(c)
    PROVE  HostInv'
  <1>1. /\ names' \in {names, [names EXCEPT ![pending[c].idx] = NoSegment]}
        /\ abandoned' = abandoned \cup Given(c) /\ lingering' = lingering \cup Given(c)
        /\ pending' = [pending EXCEPT ![c] = Idle]
        /\ faults' \in {faults, faults + 1} /\ copied' = NoCopy
        /\ UNCHANGED <<socktype, table, table_cnt, hainfo, hainfo_cnt, segments, run, strays>>
    BY DEF MapSegmentFails, serverVars, GiveUp, Fault
  <1>2. /\ abandoned' \in SUBSET Slots /\ lingering' \in SUBSET Slots
        /\ Given(c) \subseteq abandoned' /\ Given(c) \subseteq lingering'
    BY <1>1, PendingTyped, Types
  <1> QED BY <1>1, <1>2, PendingTyped, LettingGoKeeps

LEMMA RegisterKeeps ==
    ASSUME HostInv, NEW c \in Clients, Register(c)
    PROVE  HostInv'
  <1>1. /\ faults' \in {faults, faults + 1} /\ copied' = NoCopy
        /\ UNCHANGED <<socktype, table, table_cnt, hainfo, hainfo_cnt, segments, run, strays, abandoned>>
        /\ abandoned' \in SUBSET Slots /\ lingering \in SUBSET Slots
        /\ pending[c].at = "register" /\ pending[c].idx \in Slots /\ Given(c) \subseteq Slots
        /\ names \in [Slots -> Nat]
    BY PendingTyped, Types DEF Register, serverVars, GiveUp, Fault
  <1>2. CASE /\ names' = [names EXCEPT ![pending[c].idx] = NoSegment]
             /\ \/ pending' = [pending EXCEPT ![c].at = "unlink"]
                \/ pending' = [pending EXCEPT ![c] = Idle]
             /\ UNCHANGED lingering
    <2>1. names'[pending[c].idx] = NoSegment
      BY <1>1, <1>2
    <2> QED BY <1>1, <1>2, <2>1, LettingGoKeeps
  <1>3. CASE /\ UNCHANGED names
             /\ pending' = [pending EXCEPT ![c] = Idle]
             /\ lingering' = lingering \cup Given(c)
    BY <1>1, <1>3, LettingGoKeeps
  <1> QED BY <1>2, <1>3 DEF Register, GiveUp, NameToRemove

LEMMA UnlinkKeeps ==
    ASSUME HostInv, NEW c \in Clients, Unlink(c)
    PROVE  HostInv'
  <1>1. /\ names' = [names EXCEPT ![pending[c].idx] = NoSegment]
        /\ pending[c].at = "unlink"
        /\ pending' = [pending EXCEPT ![c] = Idle]
        /\ copied' = NoCopy
        /\ UNCHANGED <<socktype, table, table_cnt, hainfo, hainfo_cnt, segments, run, strays,
                      abandoned, lingering, faults>>
    BY DEF Unlink, serverVars, GiveUp
  <1> QED BY <1>1, PendingTyped, Types, LettingGoKeeps

LEMMA MapSegmentKeeps ==
    ASSUME HostInv, NEW c \in Clients, MapSegment(c)
    PROVE  HostInv'
  <1> DEFINE p == table_cnt[c]  idx == pending[c].idx
             new == [idx |-> idx, seg |-> names[idx], run |-> pending[c].run]
  <1>1. /\ pending[c].at = "open" /\ names[idx] # NoSegment
        /\ table' = [table EXCEPT ![c][p] = new]
        /\ table_cnt' = [table_cnt EXCEPT ![c] = p + 1]
        /\ pending' = [pending EXCEPT ![c].at = "register"]
        /\ copied' = NoCopy
        /\ UNCHANGED <<socktype, hainfo, hainfo_cnt, names, segments, run, faults,
                      abandoned, lingering, strays>>
    BY DEF MapSegment, serverVars
  <1>2. /\ table \in [Clients -> [Slots -> Buffer]] /\ table_cnt \in [Clients -> 0..Entries]
        /\ pending \in [Clients -> Call] /\ run \in Nat
        /\ names \in [Slots -> Nat] /\ Entries \in Nat /\ hainfo_cnt \in Nat
    BY Types
  <1>3. /\ idx \in Slots /\ p \in Slots /\ p \in Nat /\ p < Entries
        /\ names[idx] \in Nat /\ names[idx] <= segments /\ new \in Buffer
        /\ Opening(c) <=> pending[c].run = run
        /\ Opening(c) => idx < hainfo_cnt
        /\ pending[c].run <= run
    <2>1. /\ idx \in Slots /\ pending[c].run \in Nat /\ p \in Nat /\ p < Entries
          /\ Opening(c) => idx < hainfo_cnt
          /\ pending[c].run <= run
      BY <1>1, <1>2, PendingTyped DEF HostInv, Counted
    <2>2. p \in Slots
      BY <1>2, <2>1 DEF Slots
    <2>3. names[idx] \in Nat /\ names[idx] <= segments
      BY <1>2, <2>1 DEF HostInv, Counted
    <2>4. Opening(c) <=> pending[c].run = run
      BY <1>1 DEF Opening
    <2> QED BY <2>1, <2>2, <2>3, <2>4 DEF Buffer
  <1>4. new.idx = idx /\ new.seg = names[idx] /\ new.run = pending[c].run
    BY DEF new
  <1> HIDE DEF new
  <1>5. /\ table'[c][p] = new
        /\ \A d \in Clients : \A i \in Slots : ~(d = c /\ i = p) => table'[d][i] = table[d][i]
        /\ p \notin Live(c) /\ p \in Live(c)'
    <2>1. \A d \in Clients, i \in Slots : table'[d][i] = IF d = c /\ i = p THEN new ELSE table[d][i]
      BY <1>1, <1>2, <1>3
    <2>2. p \notin Live(c)
      BY LiveFacts
    <2>3. table'[c][p] = new /\ p \in Live(c)'
      BY <1>1, <1>3, <1>4, <2>1 DEF Live
    <2> QED BY <2>1, <2>2, <2>3
  <1>6. /\ \A d \in Clients : \A i \in Live(d)' : (d = c /\ i = p) \/ (i \in Live(d) /\ table'[d][i] = table[d][i])
        /\ \A d \in Clients : \A i \in Ours(d)' :
              \/ d = c /\ i = p /\ Opening(c)
              \/ i \in Ours(d) /\ table'[d][i] = table[d][i]
        /\ \A d \in Clients : \A i \in Ours(d) : i \in Ours(d)' /\ table'[d][i] = table[d][i]
        /\ Opening(c) => p \in Ours(c)'
    <2>1. \A d \in Clients : \A i \in Live(d)' : (d = c /\ i = p) \/ (i \in Live(d) /\ table'[d][i] = table[d][i])
      BY <1>5 DEF Live
    <2>2. \A d \in Clients : \A i \in Ours(d) : i \in Ours(d)' /\ table'[d][i] = table[d][i]
      BY <1>1, <1>5 DEF Live, Ours
    <2>3. \A d \in Clients : \A i \in Ours(d)' :
              \/ d = c /\ i = p /\ Opening(c)
              \/ i \in Ours(d) /\ table'[d][i] = table[d][i]
      BY <1>1, <1>3, <1>4, <1>5, <2>1 DEF Ours
    <2>4. Opening(c) => p \in Ours(c)'
      BY <1>1, <1>3, <1>4, <1>5 DEF Ours
    <2> QED BY <2>1, <2>2, <2>3, <2>4
  <1>7. /\ \A d \in Clients : Opening(d)' => d # c /\ pending'[d] = pending[d] /\ Opening(d)
        /\ \A d \in Clients : pending'[d].idx = pending[d].idx /\ pending'[d].run = pending[d].run
        /\ pending'[c].at = "register"
        /\ \A d \in Clients : d # c => pending'[d] = pending[d] /\ table_cnt'[d] = table_cnt[d]
        /\ table_cnt'[c] = p + 1
    <2>1. /\ \A d \in Clients : pending'[d].idx = pending[d].idx /\ pending'[d].run = pending[d].run
          /\ pending'[c].at = "register"
          /\ \A d \in Clients : d # c => pending'[d] = pending[d] /\ table_cnt'[d] = table_cnt[d]
          /\ table_cnt'[c] = p + 1
      BY <1>1, <1>2 DEF Call
    <2> QED BY <1>1, <2>1 DEF Opening
  <1> HIDE DEF p, idx
  <1>8. HostTypeOK'
    <2>1. table' \in [Clients -> [Slots -> Buffer]]
      BY <1>1, <1>2, <1>3
    <2>2. table_cnt' \in [Clients -> 0..Entries]
      BY <1>1, <1>2, <1>3
    <2>3. pending' \in [Clients -> Call]
      BY <1>1, <1>2 DEF Call
    <2> QED BY <1>1, <2>1, <2>2, <2>3, NoCopyTyped DEF HostInv, HostTypeOK
  <1>9. Counted'
    <2>1. \A d \in Clients : \A i \in Live(d)' : i < table_cnt'[d] /\ table'[d][i].run <= run
      <3> TAKE d \in Clients
      <3> TAKE i \in Live(d)'
      <3>1. CASE d = c /\ i = p
        BY <1>3, <1>4, <1>5, <1>7, <3>1
      <3>2. CASE i \in Live(d) /\ table'[d][i] = table[d][i]
        <4>1. /\ i < table_cnt[d] /\ i \in Nat /\ table_cnt[d] \in Nat
              /\ table_cnt'[d] \in {table_cnt[d], table_cnt[d] + 1}
          BY <1>3, <1>7, <3>2, LiveFacts DEF p
        <4> QED BY <3>2, <4>1, LiveFacts
      <3> QED BY <1>6, <3>1, <3>2
    <2>2. \A d \in Clients : \A i \in Ours(d)' : table'[d][i].idx < hainfo_cnt /\ table'[d][i].seg <= segments
      <3> TAKE d \in Clients
      <3> TAKE i \in Ours(d)'
      <3>1. CASE d = c /\ i = p /\ Opening(c)
        BY <1>3, <1>4, <1>5, <3>1
      <3>2. CASE i \in Ours(d) /\ table'[d][i] = table[d][i]
        BY <3>2, OursFacts
      <3> QED BY <1>6, <3>1, <3>2
    <2>3. \A d \in Clients : /\ pending'[d].run <= run
                             /\ pending'[d].at = "open" => table_cnt'[d] < Entries
                             /\ Opening(d)' => pending'[d].idx < hainfo_cnt
      BY <1>7 DEF HostInv, Counted
    <2> QED BY <1>1, <2>1, <2>2, <2>3 DEF HostInv, Counted
  <1>10. Apart'
    <2>1. ASSUME Opening(c), NEW d \in Clients, NEW i \in Ours(d)
          PROVE  table[d][i].idx # idx /\ table[d][i].seg # names[idx]
      <3>1. table[d][i].idx # idx
        BY <2>1 DEF HostInv, Apart, idx
      <3>2. names[idx] = table[d][i].seg => idx = table[d][i].idx
        BY <1>3 DEF HostInv, Apart
      <3> QED BY <3>1, <3>2
    <2>2. \A d, e \in Clients : \A i \in Ours(d)', j \in Ours(e)' :
              \/ table'[d][i].idx = table'[e][j].idx
              \/ table'[d][i].seg = table'[e][j].seg
              => d = e /\ i = j
      <3> TAKE d, e \in Clients
      <3> TAKE i \in Ours(d)', j \in Ours(e)'
      <3>1. CASE d = c /\ i = p /\ Opening(c)
        BY <1>4, <1>5, <1>6, <2>1, <3>1
      <3>2. CASE e = c /\ j = p /\ Opening(c)
        BY <1>4, <1>5, <1>6, <2>1, <3>2
      <3>3. CASE i \in Ours(d) /\ table'[d][i] = table[d][i] /\ j \in Ours(e) /\ table'[e][j] = table[e][j]
        BY <3>3 DEF HostInv, Apart
      <3> QED BY <1>6, <3>1, <3>2, <3>3
    <2>3. \A d, e \in Clients : \A i \in Ours(d)' : Opening(e)' => table'[d][i].idx # pending'[e].idx
      <3> SUFFICES ASSUME NEW d \in Clients, NEW e \in Clients, NEW i \in Ours(d)', Opening(e)'
                   PROVE  table'[d][i].idx # pending'[e].idx
        OBVIOUS
      <3>1. e # c /\ pending'[e] = pending[e] /\ Opening(e)
        BY <1>7
      <3>2. CASE d = c /\ i = p /\ Opening(c)
        BY <1>4, <1>5, <3>1, <3>2 DEF HostInv, Apart, idx
      <3>3. CASE i \in Ours(d) /\ table'[d][i] = table[d][i]
        BY <3>1, <3>3 DEF HostInv, Apart
      <3> QED BY <1>6, <3>2, <3>3
    <2>4. \A d, e \in Clients : Opening(d)' /\ Opening(e)' /\ pending'[d].idx = pending'[e].idx => d = e
      BY <1>7 DEF HostInv, Apart
    <2>5. \A m, n \in Slots : names'[m] # NoSegment /\ names'[m] = names'[n] => m = n
      BY <1>1 DEF HostInv, Apart
    <2>6. \A d \in Clients : \A i \in Ours(d)', n \in Slots :
              names'[n] = table'[d][i].seg => n = table'[d][i].idx
      <3> TAKE d \in Clients
      <3> TAKE i \in Ours(d)', n \in Slots
      <3>1. CASE d = c /\ i = p
        BY <1>1, <1>3, <1>4, <1>5, <3>1 DEF HostInv, Apart
      <3>2. CASE i \in Ours(d) /\ table'[d][i] = table[d][i]
        BY <1>1, <3>2 DEF HostInv, Apart
      <3> QED BY <1>6, <3>1, <3>2
    <2> QED BY <2>2, <2>3, <2>4, <2>5, <2>6 DEF Apart
  <1>11. Mirrored'
    <2>1. \A d \in Clients : \A i \in Ours(d)' :
              LET n == table'[d][i].idx
              IN  /\ hainfo'[n].idx = n => hainfo'[n].seg = table'[d][i].seg
                  /\ strays' = 0 => hainfo'[n].idx = n
      <3> TAKE d \in Clients
      <3> TAKE i \in Ours(d)'
      <3>1. CASE d = c /\ i = p /\ Opening(c)
        BY <1>1, <1>4, <1>5, <3>1 DEF HostInv, Mirrored, idx
      <3>2. CASE i \in Ours(d) /\ table'[d][i] = table[d][i]
        BY <1>1, <3>2 DEF HostInv, Mirrored
      <3> QED BY <1>6, <3>1, <3>2
    <2>2. \A d \in Clients : Opening(d)' =>
              LET n == pending'[d].idx
              IN  /\ hainfo'[n].idx = n /\ names'[n] # NoSegment => hainfo'[n].seg = names'[n]
                  /\ strays' = 0 => hainfo'[n].idx = n
      BY <1>1, <1>7 DEF HostInv, Mirrored
    <2> QED BY <2>1, <2>2 DEF Mirrored
  <1>12. NothingIsLeftBehind'
    <2>1. MemoryIsReleased'
      <3> SUFFICES ASSUME socktype = "UNIX", strays = 0, NEW n \in Slots \ ({0} \cup abandoned),
                          hainfo[n].seg # NoSegment
                   PROVE  \E d \in Clients :
                            \/ pending'[d].at = "open" /\ pending'[d].run = run /\ pending'[d].idx = n
                            \/ \E i \in Ours(d)' : table'[d][i].idx = n
        BY <1>1 DEF MemoryIsReleased, InAllocation
      <3>1. PICK d \in Clients : \/ pending[d].at = "open" /\ pending[d].run = run /\ pending[d].idx = n
                                 \/ \E i \in Ours(d) : table[d][i].idx = n
        BY DEF HostInv, NothingIsLeftBehind, MemoryIsReleased, InAllocation
      <3>2. CASE \E i \in Ours(d) : table[d][i].idx = n
        BY <1>6, <3>2
      <3>3. CASE d = c /\ pending[d].run = run /\ pending[d].idx = n
        BY <1>3, <1>4, <1>5, <1>6, <3>3 DEF idx
      <3>4. CASE d # c /\ pending[d].at = "open" /\ pending[d].run = run /\ pending[d].idx = n
        BY <1>7, <3>4
      <3> QED BY <3>1, <3>2, <3>3, <3>4
    <2>2. NamesAreRemoved'
      <3>1. \A d \in Clients : pending[d].at \in {"open", "register"} => pending'[d].at \in {"open", "register"}
        BY <1>7
      <3> QED BY <1>1, <1>7, <3>1 DEF HostInv, NothingIsLeftBehind, NamesAreRemoved, InAllocation
    <2> QED BY <2>1, <2>2 DEF NothingIsLeftBehind
  <1> QED BY <1>8, <1>9, <1>10, <1>11, <1>12 DEF HostInv

-----------------------------------------------------------------------------
(* cudaFreeHost and the copies.                                            *)

LEMMA FreeHostKeeps ==
    ASSUME HostInv, NEW c \in Clients, NEW i0 \in Slots, FreeHost(c, i0)
    PROVE  HostInv'
  <1> DEFINE mine == i0 \in Ours(c) /\ table[c][i0].idx = i0
  <1>1. /\ i0 \in Live(c) /\ table' = [table EXCEPT ![c][i0] = Unused] /\ copied' = NoCopy
        /\ UNCHANGED <<socktype, table_cnt, pending, hainfo_cnt, names, segments, run, lingering>>
    BY DEF FreeHost
  <1>2. \/ /\ hainfo' = IF Releases(i0) THEN [hainfo EXCEPT ![i0] = Zeroed] ELSE hainfo
           /\ strays' = IF mine THEN strays ELSE strays + 1
           /\ UNCHANGED <<faults, abandoned>>
        \/ /\ abandoned' = IF i0 \in Ours(c) THEN abandoned \cup {table[c][i0].idx} ELSE abandoned
           /\ faults' = faults + 1
           /\ UNCHANGED <<hainfo, strays>>
    BY DEF FreeHost, Fault
  <1> HIDE DEF mine
  <1>3. /\ table \in [Clients -> [Slots -> Buffer]] /\ hainfo \in [Slots -> Entry] /\ strays \in Nat
        /\ abandoned \in SUBSET Slots /\ faults \in Nat
        /\ Unused \in Buffer /\ Unused.seg = NoSegment
        /\ Zeroed \in Entry /\ Zeroed.seg = NoSegment /\ Zeroed.idx = 0
    <2>1. 0 \in Slots
      BY HostMemoryAssumption DEF Slots
    <2>2. Zeroed \in Entry /\ Zeroed.seg = NoSegment /\ Zeroed.idx = 0
      BY <2>1 DEF Zeroed, NoSegment, Entry
    <2> QED BY <2>2, Types, UnusedTyped
  <1>4. \A d \in Clients, i \in Slots : table'[d][i] = IF d = c /\ i = i0 THEN Unused ELSE table[d][i]
    BY <1>1, <1>3
  <1>5. /\ \A d \in Clients : \A i \in Live(d)' :
              i \in Live(d) /\ table'[d][i] = table[d][i] /\ ~(d = c /\ i = i0)
        /\ \A d \in Clients : \A i \in Ours(d)' :
              i \in Ours(d) /\ table'[d][i] = table[d][i] /\ ~(d = c /\ i = i0)
        /\ \A d \in Clients : \A i \in Ours(d) :
              ~(d = c /\ i = i0) => i \in Ours(d)' /\ table'[d][i] = table[d][i]
    BY <1>1, <1>3, <1>4 DEF Live, Ours
  <1>6. \A d \in Clients : Opening(d)' = Opening(d) /\ pending'[d] = pending[d]
    BY <1>1 DEF Opening
  <1>7. \A n \in Slots : /\ hainfo'[n] # hainfo[n] => n = i0 /\ n # 0 /\ hainfo'[n].idx = 0
                         /\ hainfo'[n].seg # NoSegment => hainfo'[n] = hainfo[n]
    BY <1>2, <1>3 DEF Releases
  <1>8. /\ strays' \in Nat /\ faults' \in Nat /\ abandoned' \in SUBSET Slots
        /\ strays' = 0 => strays = 0
        /\ abandoned \subseteq abandoned'
        /\ hainfo' # hainfo /\ strays' = 0 => mine
    <2>1. i0 \in Ours(c) => table[c][i0].idx \in Slots
      BY OursFacts
    <2> QED BY <1>2, <1>3, <2>1
  <1>9. HostTypeOK'
    <2>1. table' \in [Clients -> [Slots -> Buffer]]
      BY <1>1, <1>3
    <2>2. hainfo' \in [Slots -> Entry]
      BY <1>2, <1>3
    <2> QED BY <1>1, <1>8, <2>1, <2>2, NoCopyTyped DEF HostInv, HostTypeOK
  <1>10. Counted'
    BY <1>1, <1>5, <1>6 DEF HostInv, Counted
  <1>11. Apart'
    BY <1>1, <1>5, <1>6 DEF HostInv, Apart
  <1>12. Mirrored'
    <2>1. \A d \in Clients : \A i \in Ours(d)' :
              LET n == table'[d][i].idx
              IN  /\ hainfo'[n].idx = n => hainfo'[n].seg = table'[d][i].seg
                  /\ strays' = 0 => hainfo'[n].idx = n
      <3> TAKE d \in Clients
      <3> TAKE i \in Ours(d)'
      <3>1. i \in Ours(d) /\ table'[d][i] = table[d][i] /\ table[d][i].idx \in Slots
        BY <1>5, OursFacts
      <3>2. /\ hainfo[table[d][i].idx].idx = table[d][i].idx => hainfo[table[d][i].idx].seg = table[d][i].seg
            /\ strays = 0 => hainfo[table[d][i].idx].idx = table[d][i].idx
        BY <3>1 DEF HostInv, Mirrored
      <3>3. mine => table[d][i].idx # i0
        BY <1>5, <3>1 DEF HostInv, Apart, mine
      <3> QED BY <1>7, <1>8, <3>1, <3>2, <3>3
    <2>2. \A d \in Clients : Opening(d)' =>
              LET n == pending'[d].idx
              IN  /\ hainfo'[n].idx = n /\ names'[n] # NoSegment => hainfo'[n].seg = names'[n]
                  /\ strays' = 0 => hainfo'[n].idx = n
      <3> SUFFICES ASSUME NEW d \in Clients, Opening(d)
                   PROVE  LET n == pending[d].idx
                          IN  /\ hainfo'[n].idx = n /\ names[n] # NoSegment => hainfo'[n].seg = names[n]
                              /\ strays' = 0 => hainfo'[n].idx = n
        BY <1>1, <1>6
      <3>1. PICK n \in Slots : n = pending[d].idx /\ n \in Nat
        BY PendingTyped
      <3>2. /\ hainfo[n].idx = n /\ names[n] # NoSegment => hainfo[n].seg = names[n]
            /\ strays = 0 => hainfo[n].idx = n
        BY <3>1 DEF HostInv, Mirrored
      <3>3. mine => n # i0
        BY <3>1 DEF HostInv, Apart, mine
      <3> QED BY <1>7, <1>8, <3>1, <3>2, <3>3
    <2> QED BY <2>1, <2>2 DEF Mirrored
  <1>13. NothingIsLeftBehind'
    <2>1. MemoryIsReleased'
      <3> SUFFICES ASSUME socktype = "UNIX", strays' = 0, NEW n \in Slots \ ({0} \cup abandoned'),
                          hainfo'[n].seg # NoSegment
                   PROVE  \E d \in Clients :
                            \/ pending[d].at = "open" /\ pending[d].run = run /\ pending[d].idx = n
                            \/ \E i \in Ours(d)' : table'[d][i].idx = n
        BY <1>1 DEF MemoryIsReleased, InAllocation
      <3>1. strays = 0 /\ hainfo[n].seg # NoSegment /\ n \notin {0} \cup abandoned
        BY <1>7, <1>8
      <3>2. PICK d \in Clients : \/ pending[d].at = "open" /\ pending[d].run = run /\ pending[d].idx = n
                                 \/ \E i \in Ours(d) : table[d][i].idx = n
        BY <3>1 DEF HostInv, NothingIsLeftBehind, MemoryIsReleased, InAllocation
      <3>3. i0 \in Ours(c) => table[c][i0].idx # n
        <4> SUFFICES ASSUME i0 \in Ours(c), table[c][i0].idx = n PROVE FALSE
          OBVIOUS
        <4>1. /\ UNCHANGED <<faults, abandoned>>
              /\ hainfo' = IF Releases(i0) THEN [hainfo EXCEPT ![i0] = Zeroed] ELSE hainfo
              /\ strays' = IF mine THEN strays ELSE strays + 1
          BY <1>2
        <4>2. mine /\ n = i0
          BY <1>3, <3>1, <4>1 DEF mine
        <4>3. hainfo[i0].idx = i0
          BY <3>1, <4>2 DEF HostInv, Mirrored
        <4>4. Releases(i0)
          BY <3>1, <4>2, <4>3 DEF Releases
        <4> QED BY <1>3, <4>1, <4>2, <4>4
      <3>4. CASE \E i \in Ours(d) : table[d][i].idx = n
        BY <1>5, <3>3, <3>4
      <3> QED BY <3>2, <3>4
    <2>2. NamesAreRemoved'
      BY <1>1 DEF HostInv, NothingIsLeftBehind, NamesAreRemoved, InAllocation
    <2> QED BY <2>1, <2>2 DEF NothingIsLeftBehind
  <1> QED BY <1>9, <1>10, <1>11, <1>12, <1>13 DEF HostInv

LEMMA CopyFacts ==
    ASSUME HostInv, NEW c \in Clients, NEW i \in Slots,
           NEW api \in {"cudaMemcpy", "cudaMemcpyToSymbol"}, Copy(c, i, api)
    PROVE  HostInv' /\ CopiesUseTheirBuffer'
  <1> DEFINE index == SentIndex(c, i, api)
             ours == i \in Ours(c)
             agreed == Agrees(c)
             right == hainfo[index].seg = table[c][i].seg
  <1>1. /\ i \in Live(c) /\ Served(index)
        /\ copied' = [api |-> api, ours |-> ours, agreed |-> agreed, right |-> right]
        /\ UNCHANGED <<socktype, table, table_cnt, pending, hainfo, hainfo_cnt, names, segments,
                      run, faults, abandoned, lingering, strays>>
    BY DEF Copy, clientVars, serverVars
  <1>2. ours \in BOOLEAN /\ agreed \in BOOLEAN /\ right \in BOOLEAN
    BY DEF Agrees
  <1>3. /\ api = "cudaMemcpy" => index = table[c][i].idx
        /\ agreed => index = table[c][i].idx
    BY <1>1 DEF SentIndex, Agrees
  <1>4. ours /\ index = table[c][i].idx => right
    BY <1>1 DEF Served, HostInv, Mirrored
  <1> HIDE DEF index, ours, agreed, right
  <1>5. copied' \in MadeCopy
    BY <1>1, <1>2 DEF MadeCopy
  <1>6. CopiesUseTheirBuffer'
    BY <1>1, <1>3, <1>4 DEF CopiesUseTheirBuffer
  <1>7. \A d \in Clients : Live(d)' = Live(d) /\ Ours(d)' = Ours(d) /\ Opening(d)' = Opening(d)
    BY <1>1 DEF Live, Ours, Opening
  <1>8. HostTypeOK'
    BY <1>1, <1>5 DEF HostInv, HostTypeOK
  <1>9. Counted' /\ Apart' /\ Mirrored'
    BY <1>1, <1>7 DEF HostInv, Counted, Apart, Mirrored
  <1>10. NothingIsLeftBehind'
    BY <1>1, <1>7 DEF HostInv, NothingIsLeftBehind, MemoryIsReleased, NamesAreRemoved, InAllocation
  <1> QED BY <1>6, <1>8, <1>9, <1>10 DEF HostInv

-----------------------------------------------------------------------------
(* Processes that end.                                                     *)

LEMMA ClientEndsKeeps ==
    ASSUME HostInv, NEW c \in Clients, ClientEnds(c)
    PROVE  HostInv'
  <1> DEFINE gone == {table[c][i].idx : i \in Ours(c)}
                     \cup (IF pending[c].at = "open" THEN Given(c) ELSE {})
             left == IF pending[c].at \in {"open", "register"} THEN Given(c) ELSE {}
  <1>1. /\ table' = [table EXCEPT ![c] = [i \in Slots |-> Unused]]
        /\ table_cnt' = [table_cnt EXCEPT ![c] = 0]
        /\ pending' = [pending EXCEPT ![c] = Idle]
        /\ abandoned' = abandoned \cup gone
        /\ lingering' = lingering \cup left
        /\ faults' = faults + 1 /\ copied' = NoCopy
        /\ UNCHANGED <<socktype, hainfo, hainfo_cnt, names, segments, run, strays>>
    BY DEF ClientEnds, GiveUp, Fault, serverVars
  <1>2. /\ table \in [Clients -> [Slots -> Buffer]] /\ table_cnt \in [Clients -> 0..Entries]
        /\ pending \in [Clients -> Call] /\ faults \in Nat /\ Entries \in Nat \ {0} /\ run \in Nat
        /\ abandoned \in SUBSET Slots /\ lingering \in SUBSET Slots
        /\ Unused \in Buffer /\ Unused.seg = NoSegment /\ Idle \in Call /\ Idle.at = "idle"
    BY Types, UnusedTyped
  <1>3. gone \subseteq Slots /\ left \subseteq Slots
    BY OursFacts, PendingTyped
  <1>4. /\ \A i \in Ours(c) : table[c][i].idx \in gone
        /\ Opening(c) => pending[c].idx \in gone
        /\ InAllocation(c, {"open", "register"}) => pending[c].idx \in left
    BY DEF Given, Opening, InAllocation
  <1> HIDE DEF gone, left
  <1>5. /\ \A i \in Slots : table'[c][i] = Unused
        /\ pending'[c] = Idle /\ table_cnt'[c] = 0
        /\ \A d \in Clients \ {c} : /\ table'[d] = table[d] /\ pending'[d] = pending[d]
                                    /\ table_cnt'[d] = table_cnt[d]
    BY <1>1, <1>2
  <1>6. /\ Live(c)' = {} /\ Ours(c)' = {} /\ ~Opening(c)'
        /\ \A d \in Clients \ {c} : Live(d)' = Live(d) /\ Ours(d)' = Ours(d) /\ Opening(d)' = Opening(d)
    BY <1>1, <1>2, <1>5 DEF Live, Ours, Opening
  <1>7. HostTypeOK'
    <2>1. table' \in [Clients -> [Slots -> Buffer]]
      BY <1>1, <1>2
    <2>2. table_cnt' \in [Clients -> 0..Entries] /\ pending' \in [Clients -> Call] /\ faults' \in Nat
      BY <1>1, <1>2
    <2>3. abandoned' \subseteq Slots /\ lingering' \subseteq Slots
      BY <1>1, <1>2, <1>3
    <2> QED BY <1>1, <2>1, <2>2, <2>3, NoCopyTyped DEF HostInv, HostTypeOK
  <1>8. Counted'
    <2>1. pending'[c].run <= run /\ pending'[c].at # "open"
      BY <1>2, <1>5 DEF Idle
    <2> QED BY <1>1, <1>5, <1>6, <2>1 DEF HostInv, Counted
  <1>9. Apart'
    BY <1>1, <1>5, <1>6 DEF HostInv, Apart
  <1>10. Mirrored'
    BY <1>1, <1>5, <1>6 DEF HostInv, Mirrored
  <1>11. NothingIsLeftBehind'
    <2>1. MemoryIsReleased'
      <3> SUFFICES ASSUME socktype = "UNIX", strays = 0, NEW n \in Slots \ ({0} \cup abandoned \cup gone),
                          hainfo[n].seg # NoSegment
                   PROVE  \E d \in Clients :
                            \/ pending'[d].at = "open" /\ pending'[d].run = run /\ pending'[d].idx = n
                            \/ \E i \in Ours(d)' : table'[d][i].idx = n
        BY <1>1 DEF MemoryIsReleased, InAllocation
      <3>1. PICK d \in Clients : \/ pending[d].at = "open" /\ pending[d].run = run /\ pending[d].idx = n
                                 \/ \E i \in Ours(d) : table[d][i].idx = n
        BY DEF HostInv, NothingIsLeftBehind, MemoryIsReleased, InAllocation
      <3>2. d # c
        BY <1>4, <3>1 DEF Opening
      <3> QED BY <1>5, <1>6, <3>1, <3>2
    <2>2. NamesAreRemoved'
      <3> SUFFICES ASSUME NEW n \in Slots, names[n] # NoSegment, n # hainfo_cnt,
                          n \notin lingering, n \notin left
                   PROVE  \E d \in Clients :
                            /\ pending'[d].at \in {"open", "register"} /\ pending'[d].run = run
                            /\ pending'[d].idx = n
        BY <1>1 DEF NamesAreRemoved, InAllocation
      <3>1. PICK d \in Clients : InAllocation(d, {"open", "register"}) /\ pending[d].idx = n
        BY DEF HostInv, NothingIsLeftBehind, NamesAreRemoved
      <3>2. d # c
        BY <1>4, <3>1
      <3> QED BY <1>5, <3>1, <3>2 DEF InAllocation
    <2> QED BY <2>1, <2>2 DEF NothingIsLeftBehind
  <1> QED BY <1>7, <1>8, <1>9, <1>10, <1>11 DEF HostInv

LEMMA ServerRestartsKeeps ==
    ASSUME HostInv, ServerRestarts
    PROVE  HostInv'
  <1>1. /\ run' = run + 1 /\ hainfo' = [i \in Slots |-> Zeroed] /\ hainfo_cnt' = 0
        /\ abandoned' = {} /\ lingering' = {n \in Slots : names[n] # NoSegment}
        /\ strays' = 0 /\ copied' = NoCopy /\ faults' = faults + 1
        /\ UNCHANGED <<socktype, table, table_cnt, pending, names, segments>>
    BY DEF ServerRestarts, Fault, clientVars
  <1>2. run \in Nat /\ faults \in Nat /\ Entries \in Nat \ {0}
    BY Types
  <1>3. \A d \in Clients : /\ Live(d)' = Live(d) /\ Ours(d)' = {} /\ ~Opening(d)'
                           /\ pending[d].run <= run' /\ \A i \in Live(d) : table[d][i].run <= run'
    <2> TAKE d \in Clients
    <2>1. Live(d)' = Live(d)
      BY <1>1 DEF Live
    <2>2. \A i \in Live(d) : table[d][i].run \in Nat /\ table[d][i].run <= run
      BY LiveFacts
    <2>3. pending[d].run \in Nat /\ pending[d].run <= run
      BY PendingTyped DEF HostInv, Counted
    <2>4. \A i \in Live(d) : table'[d][i].run # run' /\ table[d][i].run <= run'
      BY <1>1, <1>2, <2>2
    <2>5. pending'[d].run # run' /\ pending[d].run <= run'
      BY <1>1, <1>2, <2>3
    <2> QED BY <2>1, <2>4, <2>5 DEF Ours, Opening
  <1>4. HostTypeOK'
    <2>1. 0 \in Slots /\ 0 \in 0..Entries
      BY <1>2 DEF Slots
    <2>2. Zeroed \in Entry
      BY <2>1 DEF Zeroed, NoSegment, Entry
    <2> QED BY <1>1, <1>2, <2>1, <2>2, NoCopyTyped DEF HostInv, HostTypeOK
  <1>5. Counted'
    BY <1>1, <1>3 DEF HostInv, Counted
  <1>6. Apart'
    BY <1>1, <1>3 DEF HostInv, Apart
  <1>7. Mirrored'
    BY <1>3 DEF Mirrored
  <1>8. NothingIsLeftBehind'
    <2>1. \A n \in Slots : hainfo'[n].seg = NoSegment
      BY <1>1 DEF Zeroed
    <2> QED BY <1>1, <2>1 DEF NothingIsLeftBehind, MemoryIsReleased, NamesAreRemoved
  <1> QED BY <1>4, <1>5, <1>6, <1>7, <1>8 DEF HostInv

LEMMA StepKeeps ==
    ASSUME HostInv, CopiesUseTheirBuffer, [Next]_vars
    PROVE  HostInv' /\ CopiesUseTheirBuffer'
  <1>0. copied' = NoCopy => CopiesUseTheirBuffer'
    BY DEF CopiesUseTheirBuffer, NoCopy
  <1>1. ASSUME NEW c \in Clients, HostAllocFails(c) PROVE HostInv' /\ CopiesUseTheirBuffer'
    BY <1>0, <1>1, HostAllocFailsKeeps DEF HostAllocFails
  <1>2. ASSUME NEW c \in Clients, HostAlloc(c) PROVE HostInv' /\ CopiesUseTheirBuffer'
    BY <1>0, <1>2, HostAllocKeeps DEF HostAlloc
  <1>3. ASSUME NEW c \in Clients, MapSegment(c) PROVE HostInv' /\ CopiesUseTheirBuffer'
    BY <1>0, <1>3, MapSegmentKeeps DEF MapSegment
  <1>4. ASSUME NEW c \in Clients, MapSegmentFails(c) PROVE HostInv' /\ CopiesUseTheirBuffer'
    BY <1>0, <1>4, MapSegmentFailsKeeps DEF MapSegmentFails
  <1>5. ASSUME NEW c \in Clients, Register(c) PROVE HostInv' /\ CopiesUseTheirBuffer'
    BY <1>0, <1>5, RegisterKeeps DEF Register
  <1>6. ASSUME NEW c \in Clients, Unlink(c) PROVE HostInv' /\ CopiesUseTheirBuffer'
    BY <1>0, <1>6, UnlinkKeeps DEF Unlink
  <1>7. ASSUME NEW c \in Clients, NEW i \in Slots, FreeHost(c, i) PROVE HostInv' /\ CopiesUseTheirBuffer'
    BY <1>0, <1>7, FreeHostKeeps DEF FreeHost
  <1>8. ASSUME NEW c \in Clients, NEW i \in Slots, NEW api \in {"cudaMemcpy", "cudaMemcpyToSymbol"},
               Copy(c, i, api)
        PROVE  HostInv' /\ CopiesUseTheirBuffer'
    BY <1>8, CopyFacts
  <1>9. ASSUME NEW c \in Clients, ClientEnds(c) PROVE HostInv' /\ CopiesUseTheirBuffer'
    BY <1>0, <1>9, ClientEndsKeeps DEF ClientEnds
  <1>10. CASE ServerRestarts
    BY <1>0, <1>10, ServerRestartsKeeps DEF ServerRestarts
  <1>11. CASE UNCHANGED vars
    <2>1. UNCHANGED <<socktype, table, table_cnt, pending, hainfo, hainfo_cnt, names, segments,
                      run, faults, abandoned, lingering, strays, copied>>
      BY <1>11 DEF vars, clientVars, serverVars, history
    <2>2. \A c : Live(c)' = Live(c) /\ Ours(c)' = Ours(c) /\ Opening(c)' = Opening(c)
      BY <2>1 DEF Live, Ours, Opening
    <2>3. HostTypeOK' /\ CopiesUseTheirBuffer'
      BY <2>1 DEF HostInv, HostTypeOK, CopiesUseTheirBuffer
    <2>4. Counted' /\ Apart' /\ Mirrored'
      BY <2>1, <2>2 DEF HostInv, Counted, Apart, Mirrored
    <2>5. NothingIsLeftBehind'
      BY <2>1, <2>2 DEF HostInv, NothingIsLeftBehind, MemoryIsReleased, NamesAreRemoved, InAllocation
    <2> QED BY <2>3, <2>4, <2>5 DEF HostInv
  <1> QED BY <1>1, <1>2, <1>3, <1>4, <1>5, <1>6, <1>7, <1>8, <1>9, <1>10, <1>11 DEF Next
-----------------------------------------------------------------------------
(* A copy that succeeds moves the data of the buffer that was passed, if   *)
(* the running server gave it out: cudaMemcpy always, cudaMemcpyToSymbol   *)
(* for a client whose positions are the server's indices                   *)
(* (cuda_memcpy_shm_1_svc).                                                *)
THEOREM CopiesHitTheirBuffer == Spec => []CopiesUseTheirBuffer
  <1>1. Init => HostInv /\ CopiesUseTheirBuffer
    BY InitHolds
  <1>2. HostInv /\ CopiesUseTheirBuffer /\ [Next]_vars => (HostInv /\ CopiesUseTheirBuffer)'
    BY StepKeeps
  <1> QED BY <1>1, <1>2, PTL DEF Spec

LEMMA InvHolds == Spec => []HostInv
  <1>1. Init => HostInv /\ CopiesUseTheirBuffer
    BY InitHolds
  <1>2. HostInv /\ CopiesUseTheirBuffer /\ [Next]_vars => (HostInv /\ CopiesUseTheirBuffer)'
    BY StepKeeps
  <1> QED BY <1>1, <1>2, PTL DEF Spec

(* Types, for any size of the tables.                                      *)
THEOREM TablesKeepTheirTypes == Spec => []HostTypeOK
  <1>1. HostInv => HostTypeOK
    BY DEF HostInv
  <1> QED BY <1>1, InvHolds, PTL

(* The running server's buffers have segments of their own, and stay       *)
(* registered there while no cudaFreeHost has named another's entry.       *)
THEOREM BuffersAreKept == Spec => []BuffersStayUsable
  <1>1. HostInv => BuffersStayUsable
    <2> SUFFICES ASSUME HostInv, NEW c \in Clients, NEW i \in Ours(c)
                 PROVE  /\ \A d \in Clients : \A j \in Ours(d) :
                              table[c][i].seg = table[d][j].seg => c = d /\ i = j
                        /\ strays = 0 => /\ hainfo[table[c][i].idx].idx = table[c][i].idx
                                         /\ hainfo[table[c][i].idx].seg = table[c][i].seg
                                         /\ Served(table[c][i].idx)
      BY DEF BuffersStayUsable
    <2>1. \A d \in Clients : \A j \in Ours(d) : table[c][i].seg = table[d][j].seg => c = d /\ i = j
      BY DEF HostInv, Apart
    <2>2. ASSUME strays = 0
          PROVE  /\ hainfo[table[c][i].idx].idx = table[c][i].idx
                 /\ hainfo[table[c][i].idx].seg = table[c][i].seg
      BY <2>2 DEF HostInv, Mirrored
    <2> QED BY <2>1, <2>2, OursFacts DEF Served
  <1> QED BY <1>1, InvHolds, PTL

(* What is freed or fails leaves no segment mapped at the server and no    *)
(* name behind, but for lost calls, processes that end and the other cases *)
(* the property names.                                                     *)
THEOREM LeftoversAreKnown == Spec => []NothingIsLeftBehind
  <1>1. HostInv => NothingIsLeftBehind
    BY DEF HostInv
  <1> QED BY <1>1, InvHolds, PTL
=============================================================================
