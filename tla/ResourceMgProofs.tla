-------------------------- MODULE ResourceMgProofs --------------------------
(***************************************************************************)
(* For any sets of addresses and any number of entries: the list of a      *)
(* resource manager stays sorted, its loops probe inside the list, and     *)
(* what they answer is what the abstract dictionary answers.               *)
(***************************************************************************)
EXTENDS ResourceMg, SequenceTheorems, TLAPS

(***************************************************************************)
(* The inductive invariant.  A bound that has wrapped is never read.       *)
(***************************************************************************)
LoopState ==
    call # Idle =>
        /\ call.op \in {"get", "add"}
        /\ call.client \in ClientAddr
        /\ call.op = "add" => call.cuda \in CudaAddr
        /\ ~bypass
        /\ Len(map_res) > 0
        /\ start \in 0 .. Len(map_res)
        /\ end \in -1 .. Len(map_res) - 1

SearchInv ==
    /\ map_res \in Seq(Entry)
    /\ bypass \in BOOLEAN
    /\ LoopState
    /\ Sorted
    /\ SearchNarrows

LEMMA MidBetween ==
    ASSUME NEW s \in Nat, NEW e \in Int, s <= e
    PROVE  /\ s + (e - s) \div 2 \in Nat
           /\ s <= s + (e - s) \div 2
           /\ s + (e - s) \div 2 <= e
  OBVIOUS

LEMMA EntryFacts ==
    ASSUME map_res \in Seq(Entry)
    PROVE  /\ Len(map_res) \in Nat
           /\ \A i \in 1 .. Len(map_res) :
                /\ map_res[i] \in Entry
                /\ map_res[i].client_address \in ClientAddr
                /\ map_res[i].client_address \in Nat
                /\ map_res[i].cuda_address \in CudaAddr
  <1>1. Len(map_res) \in Nat
    BY LenProperties
  <1>2. ASSUME NEW i \in 1 .. Len(map_res)
        PROVE  /\ map_res[i] \in Entry
               /\ map_res[i].client_address \in ClientAddr
               /\ map_res[i].cuda_address \in CudaAddr
    <2>1. map_res[i] \in Entry
      BY ElementOfSeq
    <2> QED BY <2>1 DEF Entry
  <1> QED BY <1>1, <1>2, ResourceMgAssumption

LEMMA IdleFacts == Idle.op = "idle"
  BY DEF Idle

LEMMA InitSearch == Init => SearchInv
  BY DEF Init, SearchInv, LoopState, Sorted, SearchNarrows

\* What a probe reads, when its loop is inside.
LEMMA ProbeFacts ==
    ASSUME SearchInv, call # Idle, start <= end
    PROVE  /\ Mid \in start .. end
           /\ Mid + 1 \in 1 .. Len(map_res)
           /\ Probed = map_res[Mid + 1]
           /\ Probed \in Entry
           /\ \A i \in 1 .. Len(map_res) :
                /\ i < Mid + 1 => map_res[i].client_address < Probed.client_address
                /\ i > Mid + 1 => map_res[i].client_address > Probed.client_address
  <1>1. start \in Nat /\ end \in Int /\ end <= Len(map_res) - 1 /\ Len(map_res) \in Nat
    BY DEF SearchInv, LoopState
  <1>2. Mid \in start .. end
    BY <1>1, MidBetween DEF Mid
  <1>3. Mid + 1 \in 1 .. Len(map_res)
    BY <1>1, <1>2
  <1>4. \A i \in 1 .. Len(map_res) :
          map_res[i] \in Entry /\ map_res[i].client_address \in Nat
    BY EntryFacts DEF SearchInv
  <1> QED BY <1>1, <1>2, <1>3, <1>4 DEF Probed, SearchInv, Sorted

LEMMA GetProbeKeeps == ASSUME SearchInv, GetProbe PROVE SearchInv'
  <1>1. call # Idle
    BY IdleFacts DEF GetProbe
  <1>2. /\ Mid \in start .. end /\ Mid + 1 \in 1 .. Len(map_res)
        /\ Probed = map_res[Mid + 1] /\ Probed \in Entry
        /\ \A i \in 1 .. Len(map_res) :
                /\ i < Mid + 1 => map_res[i].client_address < Probed.client_address
                /\ i > Mid + 1 => map_res[i].client_address > Probed.client_address
    BY <1>1, ProbeFacts DEF GetProbe
  <1>3. start \in Nat /\ end \in Int /\ end <= Len(map_res) - 1 /\ Len(map_res) \in Nat
    BY <1>1 DEF SearchInv, LoopState
  <1>4. UNCHANGED <<map_res, bypass>>
    BY DEF GetProbe
  <1>5. CASE call' = Idle
    BY <1>4, <1>5 DEF SearchInv, LoopState, Sorted, SearchNarrows
  <1>6. call.client \in Nat /\ Probed.client_address \in Nat
    BY <1>1, <1>2, ResourceMgAssumption DEF SearchInv, LoopState, Entry
  <1>7. CASE call' # Idle /\ Probed.client_address > call.client
    <2>1. end' = Mid - 1 /\ start' = start /\ call' = call /\ Mid # 0
      BY <1>2, <1>3, <1>6, <1>7 DEF GetProbe, Return, Before, AtFront
    <2>2. LoopState'
      BY <1>1, <1>2, <1>3, <1>4, <2>1 DEF SearchInv, LoopState
    <2>3. \A i \in 1 .. Len(map_res) : map_res[i].client_address \in Nat
      BY EntryFacts DEF SearchInv
    <2>4. \A i \in 1 .. Len(map_res) : i > Mid => map_res[i].client_address > call.client
      BY <1>2, <1>3, <1>6, <1>7, <2>3
    <2>5. \A i \in 1 .. Len(map_res) :
            /\ i <= start => map_res[i].client_address < call.client
            /\ i > end + 1 => map_res[i].client_address > call.client
      BY <1>1 DEF SearchInv, SearchNarrows
    <2>6. SearchNarrows'
      BY <1>2, <1>3, <1>4, <2>1, <2>4, <2>5 DEF SearchNarrows
    <2> QED BY <1>4, <2>2, <2>6 DEF SearchInv, Sorted
  <1>8. CASE call' # Idle /\ Probed.client_address < call.client
    <2>1. start' = Mid + 1 /\ end' = end /\ call' = call
      BY <1>6, <1>8 DEF GetProbe, Return, AfterMid
    <2>2. LoopState'
      BY <1>1, <1>2, <1>3, <1>4, <2>1 DEF SearchInv, LoopState
    <2>3. \A i \in 1 .. Len(map_res) : map_res[i].client_address \in Nat
      BY EntryFacts DEF SearchInv
    <2>4. \A i \in 1 .. Len(map_res) : i <= Mid + 1 => map_res[i].client_address < call.client
      BY <1>2, <1>3, <1>6, <1>8, <2>3
    <2>5. \A i \in 1 .. Len(map_res) :
            /\ i <= start => map_res[i].client_address < call.client
            /\ i > end + 1 => map_res[i].client_address > call.client
      BY <1>1 DEF SearchInv, SearchNarrows
    <2>6. SearchNarrows'
      BY <1>2, <1>3, <1>4, <2>1, <2>4, <2>5 DEF SearchNarrows
    <2> QED BY <1>4, <2>2, <2>6 DEF SearchInv, Sorted
  <1>9. CASE call' # Idle /\ Probed.client_address = call.client
    BY <1>6, <1>9 DEF GetProbe, Return
  <1> QED BY <1>5, <1>6, <1>7, <1>8, <1>9

LEMMA AddProbeKeeps == ASSUME SearchInv, AddProbe PROVE SearchInv'
  <1>1. call # Idle
    BY IdleFacts DEF AddProbe
  <1>2. /\ Mid \in start .. end /\ Mid + 1 \in 1 .. Len(map_res)
        /\ Probed = map_res[Mid + 1] /\ Probed \in Entry
        /\ \A i \in 1 .. Len(map_res) :
                /\ i < Mid + 1 => map_res[i].client_address < Probed.client_address
                /\ i > Mid + 1 => map_res[i].client_address > Probed.client_address
    BY <1>1, ProbeFacts DEF AddProbe
  <1>3. /\ start \in Nat /\ end \in Int /\ end <= Len(map_res) - 1
        /\ Len(map_res) \in Nat /\ call.op = "add" /\ call.cuda \in CudaAddr
    BY <1>1 DEF SearchInv, LoopState, AddProbe
  <1>4. call.client \in Nat /\ Probed.client_address \in Nat
    BY <1>1, <1>2, ResourceMgAssumption DEF SearchInv, LoopState, Entry
  <1>5. \A i \in 1 .. Len(map_res) : map_res[i].client_address \in Nat
    BY EntryFacts DEF SearchInv
  <1>6. \A i \in 1 .. Len(map_res) :
          /\ i <= start => map_res[i].client_address < call.client
          /\ i > end + 1 => map_res[i].client_address > call.client
    BY <1>1 DEF SearchInv, SearchNarrows
  <1>7. CASE Probed.client_address > call.client
    <2>1. end' = Mid - 1 /\ start' = start /\ UNCHANGED <<map_res, bypass, call>>
      BY <1>4, <1>7 DEF AddProbe
    <2>2. LoopState'
      BY <1>1, <1>2, <1>3, <2>1 DEF SearchInv, LoopState
    <2>3. \A i \in 1 .. Len(map_res) : i > Mid => map_res[i].client_address > call.client
      BY <1>2, <1>3, <1>4, <1>5, <1>7
    <2>4. SearchNarrows'
      BY <1>2, <1>3, <1>6, <2>1, <2>3 DEF SearchNarrows
    <2> QED BY <2>1, <2>2, <2>4 DEF SearchInv, Sorted
  <1>8. CASE Probed.client_address < call.client
    <2>1. start' = Mid + 1 /\ end' = end /\ UNCHANGED <<map_res, bypass, call>>
      BY <1>4, <1>8 DEF AddProbe, AfterMid
    <2>2. LoopState'
      BY <1>1, <1>2, <1>3, <2>1 DEF SearchInv, LoopState
    <2>3. \A i \in 1 .. Len(map_res) : i <= Mid + 1 => map_res[i].client_address < call.client
      BY <1>2, <1>3, <1>4, <1>5, <1>8
    <2>4. SearchNarrows'
      BY <1>2, <1>3, <1>6, <2>1, <2>3 DEF SearchNarrows
    <2> QED BY <2>1, <2>2, <2>4 DEF SearchInv, Sorted
  <1>9. CASE Probed.client_address = call.client
    <2>1. /\ map_res' = [map_res EXCEPT ![Mid + 1].cuda_address = call.cuda]
          /\ call' = Idle /\ bypass' = bypass
      BY <1>4, <1>9 DEF AddProbe, Return, Overwritten
    <2>2. [map_res[Mid + 1] EXCEPT !.cuda_address = call.cuda] \in Entry
      BY <1>2, <1>3 DEF Entry
    <2>3. map_res' = [map_res EXCEPT ![Mid + 1] =
                        [map_res[Mid + 1] EXCEPT !.cuda_address = call.cuda]]
      BY <2>1
    <2>4. /\ map_res' \in Seq(Entry) /\ Len(map_res') = Len(map_res)
          /\ \A j \in 1 .. Len(map_res) : map_res'[j] =
               IF j = Mid + 1
               THEN [map_res[Mid + 1] EXCEPT !.cuda_address = call.cuda]
               ELSE map_res[j]
      BY <1>2, <2>2, <2>3, ExceptSeq DEF SearchInv
    <2>5. \A j \in 1 .. Len(map_res) :
            map_res'[j].client_address = map_res[j].client_address
      BY <1>2, <2>4 DEF Entry
    <2>6. Sorted'
      BY <2>4, <2>5 DEF SearchInv, Sorted
    <2> QED BY <2>1, <2>4, <2>6 DEF SearchInv, LoopState, SearchNarrows
  <1> QED BY <1>4, <1>7, <1>8, <1>9

(***************************************************************************)
(* Insertion.  When the adding loop has missed, start = end + 1 is where   *)
(* the new element belongs, and the code finds that position.              *)
(***************************************************************************)
LEMMA InsertFacts ==
    ASSUME SearchInv, AddInsert
    PROVE  /\ InsertPosition = start
           /\ start \in 0 .. Len(map_res)
           /\ \A i \in 1 .. Len(map_res) :
                /\ i <= start => map_res[i].client_address < call.client
                /\ i > start => map_res[i].client_address > call.client
  <1>1. call # Idle /\ end < start
    BY IdleFacts DEF AddInsert
  <1>2. /\ start \in 0 .. Len(map_res) /\ end \in -1 .. Len(map_res) - 1
        /\ start <= end + 1 /\ Len(map_res) \in Nat /\ Len(map_res) > 0
    BY <1>1, EntryFacts DEF SearchInv, LoopState, SearchNarrows
  <1>3. start = end + 1
    BY <1>1, <1>2
  <1>4. \A i \in 1 .. Len(map_res) :
          /\ i <= start => map_res[i].client_address < call.client
          /\ i > start => map_res[i].client_address > call.client
    BY <1>1, <1>3 DEF SearchInv, SearchNarrows
  <1>5. call.client \in Nat
    BY <1>1, ResourceMgAssumption DEF SearchInv, LoopState
  <1>6. \A i \in 1 .. Len(map_res) : map_res[i].client_address \in Nat
    BY EntryFacts DEF SearchInv
  <1>7. CASE end = -1
    <2>1. map_res[1].client_address > call.client
      BY <1>2, <1>3, <1>4, <1>7
    <2>2. ~(map_res[1].client_address < call.client)
      BY <2>1, <1>2, <1>5, <1>6
    <2> QED BY <1>2, <1>3, <1>4, <1>7, <2>2 DEF InsertPosition
  <1>8. CASE end >= 0
    <2>1. map_res[end + 1].client_address < call.client
      BY <1>2, <1>3, <1>4, <1>8
    <2> QED BY <1>2, <1>3, <1>4, <1>8, <2>1 DEF InsertPosition
  <1> QED BY <1>2, <1>7, <1>8

LEMMA AddInsertKeeps == ASSUME SearchInv, AddInsert PROVE SearchInv'
  <1>1. /\ call # Idle /\ call.client \in ClientAddr /\ call.client \in Nat
        /\ call.cuda \in CudaAddr
    BY IdleFacts, ResourceMgAssumption DEF AddInsert, SearchInv, LoopState
  <1>2. /\ Len(map_res) \in Nat
        /\ \A i \in 1 .. Len(map_res) :
             map_res[i] \in Entry /\ map_res[i].client_address \in Nat
    BY EntryFacts DEF SearchInv
  <1> DEFINE new == NewElem(call.client, call.cuda)
  <1>3. new \in Entry /\ new.client_address = call.client
    BY <1>1 DEF NewElem, Entry
  <1>4. map_res' = InsertedAt(start, new) /\ call' = Idle /\ bypass' = bypass
    BY InsertFacts DEF AddInsert, Return
  <1>5. map_res' = [i \in 1 .. Len(map_res) + 1 |->
                      IF i <= start THEN map_res[i]
                      ELSE IF i = start + 1 THEN new ELSE map_res[i - 1]]
    BY <1>4 DEF InsertedAt
  <1> HIDE DEF new
  <1>6. start \in 0 .. Len(map_res)
    BY InsertFacts
  <1>7. \A i \in 1 .. Len(map_res) + 1 : map_res'[i] \in Entry
    BY <1>2, <1>3, <1>5, <1>6
  <1>8. map_res' \in Seq(Entry) /\ Len(map_res') = Len(map_res) + 1
    <2>1. map_res' \in [1 .. Len(map_res) + 1 -> Entry]
      BY <1>5, <1>7
    <2> QED BY <1>2, <2>1
  <1>9. Sorted'
    <2> SUFFICES ASSUME NEW i \in 1 .. Len(map_res) + 1,
                        NEW j \in 1 .. Len(map_res) + 1, i < j
                 PROVE  map_res'[i].client_address < map_res'[j].client_address
      BY <1>8 DEF Sorted
    <2>1. \A k, l \in 1 .. Len(map_res) : k < l =>
            map_res[k].client_address < map_res[l].client_address
      BY DEF SearchInv, Sorted
    <2>2. \A k \in 1 .. Len(map_res) :
            /\ k <= start => map_res[k].client_address < call.client
            /\ k > start => map_res[k].client_address > call.client
      BY InsertFacts
    <2>3. CASE j <= start
      BY <1>2, <1>5, <1>6, <2>1, <2>3
    <2>4. CASE j = start + 1
      BY <1>2, <1>3, <1>5, <1>6, <2>2, <2>4
    <2>5. CASE j > start + 1 /\ i = start + 1
      BY <1>1, <1>2, <1>3, <1>5, <1>6, <2>2, <2>5
    <2>6. CASE j > start + 1 /\ i < start + 1
      <3>1. map_res'[i] = map_res[i] /\ map_res'[j] = map_res[j - 1]
        BY <1>2, <1>5, <1>6, <2>6
      <3>2. i \in 1 .. Len(map_res) /\ j - 1 \in 1 .. Len(map_res) /\ i < j - 1
        BY <1>2, <1>6, <2>6
      <3> QED BY <2>1, <3>1, <3>2
    <2>7. CASE j > start + 1 /\ i > start + 1
      BY <1>2, <1>5, <1>6, <2>1, <2>7
    <2> QED BY <1>6, <2>3, <2>4, <2>5, <2>6, <2>7
  <1> QED BY <1>4, <1>8, <1>9 DEF SearchInv, LoopState, SearchNarrows

LEMMA BeginKeeps ==
    ASSUME SearchInv, NEW c \in ClientAddr, NEW a \in CudaAddr,
           GetBegin(c) \/ AddBegin(c, a)
    PROVE  SearchInv'
  <1>1. Len(map_res) \in Nat
    BY EntryFacts DEF SearchInv
  <1>2. CASE \E op \in {"get", "add"} : Enter(op, c, IF op = "get" THEN 0 ELSE a)
             /\ ~bypass /\ Len(map_res) > 0 /\ UNCHANGED bypass
    BY <1>1, <1>2 DEF Enter, SearchInv, LoopState, Sorted, SearchNarrows
  <1>3. CASE call' = Idle /\ UNCHANGED <<map_res, bypass>>
    BY <1>3 DEF SearchInv, LoopState, Sorted, SearchNarrows
  <1>4. CASE call' = Idle /\ bypass' = bypass /\ map_res' = <<NewElem(c, a)>>
    <2>1. NewElem(c, a) \in Entry
      BY DEF NewElem, Entry
    <2>2. map_res' \in Seq(Entry) /\ Len(map_res') = 1
      BY <1>4, <2>1
    <2> QED BY <1>4, <2>2 DEF SearchInv, LoopState, Sorted, SearchNarrows
  <1> QED BY <1>1, <1>2, <1>3, <1>4 DEF GetBegin, AddBegin, Return

LEMMA StepSearch == SearchInv /\ [Next]_rvars => SearchInv'
  <1> SUFFICES ASSUME SearchInv, [Next]_rvars PROVE SearchInv'
    OBVIOUS
  <1>1. CASE Loop
    <2>1. CASE GetMiss
      BY <2>1 DEF GetMiss, Return, SearchInv, LoopState, Sorted, SearchNarrows
    <2> QED BY <1>1, <2>1, GetProbeKeeps, AddProbeKeeps, AddInsertKeeps DEF Loop
  <1>2. ASSUME NEW b \in BOOLEAN, Reinit(b) PROVE SearchInv'
    <2>0. <<>> \in Seq(Entry) /\ Len(<<>>) = 0
      OBVIOUS
    <2>1. map_res' \in Seq(Entry) /\ Sorted'
      <3>1. CASE b
        BY <1>2, <3>1 DEF Reinit, SearchInv, Sorted
      <3>2. CASE ~b
        <4>1. map_res' = <<>>
          BY <1>2, <3>2 DEF Reinit
        <4> QED BY <2>0, <4>1 DEF Sorted
      <3> QED BY <3>1, <3>2
    <2> QED BY <1>2, <2>1 DEF Reinit, Return, SearchInv, LoopState, SearchNarrows
  <1>3. ASSUME NEW a \in CudaAddr, Create(a) PROVE SearchInv'
    BY <1>3 DEF Create, Return, SearchInv, LoopState, Sorted, SearchNarrows
  <1>4. ASSUME NEW c \in ClientAddr, GetBegin(c) PROVE SearchInv'
    <2>1. CASE CudaAddr = {}
      BY <1>4, <2>1, EntryFacts
      DEF GetBegin, Enter, Return, SearchInv, LoopState, Sorted, SearchNarrows
    <2>2. CASE CudaAddr # {}
      BY <1>4, <2>2, BeginKeeps
    <2> QED BY <2>1, <2>2
  <1>5. ASSUME NEW c \in ClientAddr, NEW a \in CudaAddr, AddBegin(c, a) PROVE SearchInv'
    BY <1>5, BeginKeeps
  <1>6. CASE UNCHANGED rvars
    BY <1>6 DEF rvars, SearchInv, LoopState, Sorted, SearchNarrows
  <1> QED BY <1>1, <1>2, <1>3, <1>4, <1>5, <1>6 DEF Next

LEMMA SearchAlways == Spec => []SearchInv
  BY InitSearch, StepSearch, PTL DEF Spec

(* The list of a resource manager is sorted after any sequence of calls.   *)
THEOREM ManagerStaysSorted == Spec => []Sorted
  <1>1. SearchInv => Sorted
    BY DEF SearchInv
  <1> QED BY <1>1, SearchAlways, PTL

(* Each round of both loops keeps the address it looks for, if it is there, *)
(* between the bounds: what is left out on the left is smaller, on the     *)
(* right larger.                                                           *)
THEOREM SearchesNarrow == Spec => []SearchNarrows
  <1>1. SearchInv => SearchNarrows
    BY DEF SearchInv
  <1> QED BY <1>1, SearchAlways, PTL

(* No turn of either loop reads outside the list.                          *)
THEOREM SearchStaysInBounds == Spec => []ProbesInBounds
  <1>1. SearchInv => ProbesInBounds
    BY EntryFacts DEF SearchInv, LoopState, ProbesInBounds
  <1> QED BY <1>1, SearchAlways, PTL

-----------------------------------------------------------------------------
(***************************************************************************)
(* Refinement.  Of a sorted list, the dictionary has one entry per index.  *)
(***************************************************************************)
SortedList(s) ==
    \A i, j \in 1 .. Len(s) : i < j => s[i].client_address < s[j].client_address

DictOf(s) == [c \in KeysOf(s) |-> s[IndexIn(s, c)].cuda_address]

LEMMA IndexIsUnique ==
    ASSUME NEW s \in Seq(Entry), SortedList(s), NEW i \in 1 .. Len(s)
    PROVE  /\ s[i].client_address \in KeysOf(s)
           /\ DictOf(s)[s[i].client_address] = s[i].cuda_address
  <1> DEFINE c == s[i].client_address
             k == IndexIn(s, c)
  <1>1. c \in KeysOf(s)
    BY DEF KeysOf
  <1>2. k \in 1 .. Len(s) /\ s[k].client_address = c
    BY DEF IndexIn
  <1>3. \A j \in 1 .. Len(s) : s[j].client_address \in Nat
    <2> TAKE j \in 1 .. Len(s)
    <2>1. s[j] \in Entry
      BY ElementOfSeq
    <2> QED BY <2>1, ResourceMgAssumption DEF Entry
  <1>4. Len(s) \in Nat
    BY LenProperties
  <1>5. k = i
    <2>1. ~(k < i) /\ ~(i < k)
      BY <1>2, <1>3 DEF SortedList
    <2> QED BY <1>2, <1>4, <2>1
  <1> QED BY <1>1, <1>5 DEF DictOf

LEMMA KeysHaveIndex ==
    ASSUME NEW s, NEW c \in KeysOf(s)
    PROVE  \E i \in 1 .. Len(s) : s[i].client_address = c
  BY DEF KeysOf

LEMMA DictIs == ASSUME ~bypass PROVE Dict = DictOf(map_res)
  BY DEF Dict, DictOf

LEMMA SameDict == ASSUME UNCHANGED <<map_res, bypass>> PROVE Dict' = Dict
  BY DEF Dict, KeysOf, IndexIn

LEMMA NoEntries == \A s : Len(s) = 0 => KeysOf(s) = {}
  BY DEF KeysOf

\* An address no entry has is answered by itself.
LEMMA ResolveMissing ==
    ASSUME NEW c, bypass \in BOOLEAN,
           bypass \/ \A i \in 1 .. Len(map_res) : map_res[i].client_address # c
    PROVE  Map!Resolve(c) = c
  <1>1. CASE bypass
    BY <1>1 DEF Map!Resolve, Dict
  <1>2. CASE ~bypass
    BY <1>2, KeysHaveIndex, DictIs DEF Map!Resolve, DictOf
  <1> QED BY <1>1, <1>2

LEMMA ResolveProbed ==
    ASSUME SearchInv, call # Idle, start <= end,
           Probed.client_address = call.client
    PROVE  Map!Resolve(call.client) = Probed.cuda_address
  <1>1. Mid + 1 \in 1 .. Len(map_res) /\ Probed = map_res[Mid + 1]
    BY ProbeFacts
  <1>2. SortedList(map_res) /\ map_res \in Seq(Entry) /\ ~bypass
    BY DEF SearchInv, LoopState, Sorted, SortedList
  <1>3. /\ call.client \in KeysOf(map_res)
        /\ DictOf(map_res)[call.client] = Probed.cuda_address
    BY <1>1, <1>2, IndexIsUnique
  <1> QED BY <1>2, <1>3, DictIs DEF Map!Resolve, DictOf

LEMMA GetStep ==
    ASSUME SearchInv, GetProbe \/ GetMiss
    PROVE  [Map!HNext]_(Map!hvars)
  <1>1. /\ call # Idle /\ call.op = "get" /\ UNCHANGED <<map_res, bypass>>
        /\ call.client \in ClientAddr /\ call.client \in Nat /\ bypass \in BOOLEAN
    BY IdleFacts, ResourceMgAssumption DEF GetProbe, GetMiss, SearchInv, LoopState
  <1>2. Dict' = Dict
    BY <1>1, SameDict
  <1>3. /\ Len(map_res) \in Nat
        /\ \A i \in 1 .. Len(map_res) : map_res[i].client_address \in Nat
    BY EntryFacts DEF SearchInv
  <1>4. ASSUME Answer("get", call.client, 0, Map!Resolve(call.client))
        PROVE  Map!HNext
    BY <1>1, <1>2, <1>4 DEF Answer, Map!HNext, Map!HGet, Map!Answer
  <1>5. CASE GetMiss
    <2>1. \A i \in 1 .. Len(map_res) : map_res[i].client_address # call.client
      BY <1>1, <1>3, <1>5 DEF GetMiss, SearchInv, LoopState, SearchNarrows
    <2>2. Map!Resolve(call.client) = call.client
      BY <1>1, <2>1, ResolveMissing
    <2> QED BY <1>4, <1>5, <2>2 DEF GetMiss, Return
  <1>6. CASE GetProbe
    <2>1. start <= end
      BY <1>1, <1>6 DEF GetProbe, SearchInv, LoopState
    <2>2. CASE answer' = answer
      BY <1>1, <1>2, <2>2 DEF Map!hvars
    <2>3. CASE Probed.client_address = call.client /\ answer' # answer
      <3>1. Probed.client_address \in Nat
        BY <1>1, <2>3
      <3>2. Answer("get", call.client, 0, Probed.cuda_address)
        BY <1>6, <2>3, <3>1 DEF GetProbe, Return
      <3> QED BY <1>1, <1>4, <2>1, <2>3, <3>2, ResolveProbed
    <2>4. CASE Probed.client_address # call.client /\ answer' # answer
      <3>1. /\ Probed.client_address > call.client /\ AtFront
            /\ Answer("get", call.client, 0, call.client)
        BY <1>6, <2>4 DEF GetProbe
      <3>2. \A i \in 1 .. Len(map_res) :
              i > Mid + 1 => map_res[i].client_address > Probed.client_address
        BY <1>1, <2>1, ProbeFacts
      <3>3. Probed = map_res[1] /\ Probed.client_address \in Nat /\ Mid = 0
        BY <1>1, <1>3, <2>1, <3>1, ProbeFacts DEF AtFront
      <3>4. \A i \in 1 .. Len(map_res) : map_res[i].client_address # call.client
        BY <1>1, <1>3, <3>1, <3>2, <3>3
      <3>5. Map!Resolve(call.client) = call.client
        BY <1>1, <3>4, ResolveMissing
      <3> QED BY <1>4, <3>1, <3>5
    <2> QED BY <2>2, <2>3, <2>4
  <1> QED BY <1>5, <1>6

\* List t has the entry (c, a), and otherwise the entries of s.
Redefines(s, t, c, a) ==
    /\ \E k \in 1 .. Len(t) : t[k].client_address = c /\ t[k].cuda_address = a
    /\ \A i \in 1 .. Len(s) : s[i].client_address # c =>
            \E k \in 1 .. Len(t) :
                /\ t[k].client_address = s[i].client_address
                /\ t[k].cuda_address = s[i].cuda_address
    /\ \A k \in 1 .. Len(t) : t[k].client_address # c =>
            \E i \in 1 .. Len(s) : s[i].client_address = t[k].client_address

\* The dictionary of s with c (re)defined.
DictWith(s, c, a) ==
    [x \in DOMAIN DictOf(s) \cup {c} |-> IF x = c THEN a ELSE DictOf(s)[x]]

LEMMA DictAdds ==
    ASSUME NEW s \in Seq(Entry), SortedList(s),
           NEW t \in Seq(Entry), SortedList(t),
           NEW c, NEW a, Redefines(s, t, c, a)
    PROVE  DictOf(t) = DictWith(s, c, a)
  <1>1. DOMAIN DictOf(s) = KeysOf(s) /\ DOMAIN DictOf(t) = KeysOf(t)
    BY DEF DictOf
  <1>2. c \in KeysOf(t) /\ DictOf(t)[c] = a
    BY IndexIsUnique DEF Redefines
  <1>3. ASSUME NEW x \in KeysOf(s), x # c
        PROVE  x \in KeysOf(t) /\ DictOf(t)[x] = DictOf(s)[x]
    <2>1. PICK i \in 1 .. Len(s) : s[i].client_address = x
      BY KeysHaveIndex
    <2>2. PICK k \in 1 .. Len(t) : /\ t[k].client_address = x
                                   /\ t[k].cuda_address = s[i].cuda_address
      BY <1>3, <2>1 DEF Redefines
    <2>3. DictOf(s)[x] = s[i].cuda_address
      BY <2>1, IndexIsUnique
    <2>4. x \in KeysOf(t) /\ DictOf(t)[x] = t[k].cuda_address
      BY <2>2, IndexIsUnique
    <2> QED BY <2>2, <2>3, <2>4
  <1>4. ASSUME NEW x \in KeysOf(t), x # c PROVE x \in KeysOf(s)
    BY <1>4, KeysHaveIndex DEF KeysOf, Redefines
  <1>5. KeysOf(t) = KeysOf(s) \cup {c}
    BY <1>2, <1>3, <1>4
  <1>6. \A x \in KeysOf(t) : DictOf(t)[x] = IF x = c THEN a ELSE DictOf(s)[x]
    BY <1>2, <1>3, <1>5
  <1>7. DictOf(t) = [x \in KeysOf(t) |-> DictOf(t)[x]]
    BY DEF DictOf
  <1>8. DictOf(t) = [x \in KeysOf(t) |-> IF x = c THEN a ELSE DictOf(s)[x]]
    BY <1>6, <1>7
  <1>9. KeysOf(t) = DOMAIN DictOf(s) \cup {c}
    BY <1>1, <1>5
  <1> QED BY <1>8, <1>9, Zenon DEF DictWith

\* What an addition has to do to be the dictionary's.
LEMMA AddRefines ==
    ASSUME SearchInv, SearchInv', ~bypass, UNCHANGED bypass,
           NEW c \in ClientAddr, NEW a \in CudaAddr, Answer("add", c, a, 0),
           Redefines(map_res, map_res', c, a)
    PROVE  Map!HNext
  <1>1. /\ map_res \in Seq(Entry) /\ SortedList(map_res)
        /\ map_res' \in Seq(Entry) /\ SortedList(map_res')
    BY DEF SearchInv, Sorted, SortedList
  <1>2. Dict = DictOf(map_res) /\ Dict' = DictOf(map_res')
    BY DEF Dict, DictOf, KeysOf, IndexIn
  <1>3. DictOf(map_res') = DictWith(map_res, c, a)
    BY <1>1, DictAdds
  <1>4. Map!HAdd(c, a)
    BY <1>2, <1>3 DEF Map!HAdd, Map!Answer, Answer, DictWith
  <1> QED BY <1>4 DEF Map!HNext

LEMMA AddProbeStep ==
    ASSUME SearchInv, AddProbe PROVE [Map!HNext]_(Map!hvars)
  <1>1. /\ call # Idle /\ UNCHANGED bypass /\ ~bypass /\ start <= end
        /\ call.client \in ClientAddr /\ call.cuda \in CudaAddr
    BY IdleFacts DEF AddProbe, SearchInv, LoopState
  <1>2. /\ Mid + 1 \in 1 .. Len(map_res) /\ Probed = map_res[Mid + 1]
        /\ Probed \in Entry
    BY <1>1, ProbeFacts
  <1>3. Probed.client_address \in Nat /\ call.client \in Nat
    BY <1>1, <1>2, ResourceMgAssumption DEF Entry
  <1>4. CASE Probed.client_address # call.client
    <2>1. UNCHANGED <<map_res, answer>>
      BY <1>3, <1>4 DEF AddProbe
    <2> QED BY <1>1, <2>1, SameDict DEF Map!hvars
  <1>5. CASE Probed.client_address = call.client
    <2>1. /\ map_res' = [map_res EXCEPT ![Mid + 1] =
                            [map_res[Mid + 1] EXCEPT !.cuda_address = call.cuda]]
          /\ Answer("add", call.client, call.cuda, 0)
      BY <1>3, <1>5 DEF AddProbe, Return, Overwritten
    <2>2. [map_res[Mid + 1] EXCEPT !.cuda_address = call.cuda] \in Entry
      BY <1>1, <1>2 DEF Entry
    <2>3. /\ Len(map_res') = Len(map_res)
          /\ \A j \in 1 .. Len(map_res) : map_res'[j] =
               IF j = Mid + 1
               THEN [map_res[Mid + 1] EXCEPT !.cuda_address = call.cuda]
               ELSE map_res[j]
      BY <1>2, <2>1, <2>2, ExceptSeq DEF SearchInv
    <2>4. /\ map_res'[Mid + 1].client_address = call.client
          /\ map_res'[Mid + 1].cuda_address = call.cuda
      BY <1>2, <1>5, <2>3 DEF Entry
    <2>5. \A j \in 1 .. Len(map_res) :
            map_res[j].client_address # call.client => map_res'[j] = map_res[j]
      BY <1>2, <1>5, <2>3
    <2>6. \A j \in 1 .. Len(map_res) :
            map_res'[j].client_address = map_res[j].client_address
      BY <1>2, <1>5, <2>3, <2>4
    <2>7. SearchInv'
      BY AddProbeKeeps
    <2>8. Redefines(map_res, map_res', call.client, call.cuda)
      BY <1>2, <2>3, <2>4, <2>5, <2>6 DEF Redefines
    <2> QED BY <1>1, <2>1, <2>8, <2>7, AddRefines
  <1> QED BY <1>4, <1>5

LEMMA AddInsertStep ==
    ASSUME SearchInv, AddInsert PROVE [Map!HNext]_(Map!hvars)
  <1> DEFINE new == NewElem(call.client, call.cuda)
  <1>1. /\ call # Idle /\ UNCHANGED bypass /\ ~bypass
        /\ call.client \in ClientAddr /\ call.cuda \in CudaAddr
        /\ Answer("add", call.client, call.cuda, 0)
    BY IdleFacts DEF AddInsert, Return, SearchInv, LoopState
  <1>2. Len(map_res) \in Nat /\ start \in 0 .. Len(map_res)
    BY EntryFacts, InsertFacts DEF SearchInv
  <1>3. new.client_address = call.client /\ new.cuda_address = call.cuda
    BY DEF NewElem
  <1>4. map_res' = [i \in 1 .. Len(map_res) + 1 |->
                      IF i <= start THEN map_res[i]
                      ELSE IF i = start + 1 THEN new ELSE map_res[i - 1]]
    BY InsertFacts DEF AddInsert, InsertedAt
  <1> HIDE DEF new
  <1>5. SearchInv'
    BY AddInsertKeeps
  <1>6. Len(map_res') = Len(map_res) + 1
    <2>1. Len(map_res') \in Nat /\ DOMAIN map_res' = 1 .. Len(map_res')
      BY <1>5, LenProperties DEF SearchInv
    <2> QED BY <1>2, <1>4, <2>1
  <1>7. start + 1 \in 1 .. Len(map_res') /\ map_res'[start + 1] = new
    BY <1>2, <1>4, <1>6
  <1>8. ASSUME NEW i \in 1 .. Len(map_res)
        PROVE  \E k \in 1 .. Len(map_res') : map_res'[k] = map_res[i]
    <2>1. CASE i <= start
      BY <1>2, <1>4, <1>6, <2>1
    <2>2. CASE i > start
      <3>1. i + 1 \in 1 .. Len(map_res') /\ map_res'[i + 1] = map_res[i]
        BY <1>2, <1>4, <1>6, <2>2
      <3> QED BY <3>1
    <2> QED BY <1>2, <2>1, <2>2
  <1>9. ASSUME NEW k \in 1 .. Len(map_res'), k # start + 1
        PROVE  \E i \in 1 .. Len(map_res) : map_res[i] = map_res'[k]
    <2>1. CASE k <= start
      BY <1>2, <1>4, <1>6, <2>1
    <2>2. CASE k > start
      <3>1. k - 1 \in 1 .. Len(map_res) /\ map_res'[k] = map_res[k - 1]
        BY <1>2, <1>4, <1>6, <1>9, <2>2
      <3> QED BY <3>1
    <2> QED BY <1>2, <2>1, <2>2
  <1>10. Redefines(map_res, map_res', call.client, call.cuda)
    BY <1>3, <1>7, <1>8, <1>9 DEF Redefines
  <1> QED BY <1>1, <1>5, <1>10, AddRefines

LEMMA BeginStep ==
    ASSUME SearchInv, NEW c \in ClientAddr, NEW a \in CudaAddr, AddBegin(c, a)
    PROVE  [Map!HNext]_(Map!hvars)
  <1>1. UNCHANGED bypass
    BY DEF AddBegin
  <1>2. CASE bypass
    <2>1. UNCHANGED map_res /\ Answer("add", c, a, 1)
      BY <1>2 DEF AddBegin, Return
    <2>2. Map!HAdd(c, a)
      BY <1>1, <1>2, <2>1, SameDict DEF Map!HAdd, Map!Answer, Answer
    <2> QED BY <2>2 DEF Map!HNext
  <1>3. CASE ~bypass /\ Len(map_res) = 0
    <2>1. Answer("add", c, a, 0) /\ map_res' = <<NewElem(c, a)>>
      BY <1>3 DEF AddBegin, Return
    <2>2. /\ Len(map_res') = 1 /\ map_res'[1].client_address = c
          /\ map_res'[1].cuda_address = a
      BY <2>1 DEF NewElem
    <2>3. SearchInv'
      BY BeginKeeps
    <2>4. Redefines(map_res, map_res', c, a)
      BY <1>3, <2>2 DEF Redefines
    <2> QED BY <1>1, <1>3, <2>1, <2>3, <2>4, AddRefines
  <1>4. CASE ~bypass /\ Len(map_res) # 0
    <2>1. UNCHANGED <<map_res, answer>>
      BY <1>4 DEF AddBegin, Enter
    <2> QED BY <1>1, <2>1, SameDict DEF Map!hvars
  <1> QED BY <1>2, <1>3, <1>4

LEMMA GetBeginStep ==
    ASSUME SearchInv, NEW c \in ClientAddr, GetBegin(c)
    PROVE  [Map!HNext]_(Map!hvars)
  <1>1. UNCHANGED <<map_res, bypass>>
    BY DEF GetBegin, Enter
  <1>2. CASE answer' = answer
    BY <1>1, <1>2, SameDict DEF Map!hvars
  <1>3. CASE answer' # answer
    <2>1. (bypass \/ Len(map_res) = 0) /\ Answer("get", c, 0, c)
      BY <1>3 DEF GetBegin, Enter, Return
    <2>2. Map!Resolve(c) = c
      BY <2>1, ResolveMissing DEF SearchInv
    <2>3. Map!HGet(c)
      BY <1>1, <2>1, <2>2, SameDict DEF Map!HGet, Map!Answer, Answer
    <2> QED BY <2>3 DEF Map!HNext
  <1> QED BY <1>2, <1>3

LEMMA EmptyDict == KeysOf(<<>>) = {} /\ DictOf(<<>>) = Map!EmptyDict
  <1>1. KeysOf(<<>>) = {}
    BY DEF KeysOf
  <1> QED BY <1>1 DEF DictOf, Map!EmptyDict

LEMMA ReinitStep ==
    ASSUME SearchInv, NEW b \in BOOLEAN, Reinit(b)
    PROVE  Map!HNext
  <1>1. bypass' = b /\ Answer("init", 0, 0, 0)
    BY DEF Reinit, Return
  <1>2. Dict' = Map!EmptyDict
    <2>1. CASE b
      BY <1>1, <2>1 DEF Dict, Map!EmptyDict
    <2>2. CASE ~b
      <3>1. map_res' = <<>>
        BY <2>2 DEF Reinit
      <3>2. Dict' = DictOf(<<>>)
        BY <1>1, <2>2, <3>1 DEF Dict, DictOf, KeysOf, IndexIn
      <3> QED BY <3>2, EmptyDict
    <2> QED BY <2>1, <2>2
  <1>3. Map!HReinit(b)
    BY <1>1, <1>2 DEF Map!HReinit, Map!Answer, Answer
  <1> QED BY <1>3 DEF Map!HNext

LEMMA InitRefines == Init => Map!HInit
  <1> SUFFICES ASSUME Init PROVE Map!HInit
    OBVIOUS
  <1>1. map_res = <<>> /\ bypass \in BOOLEAN /\ answer = [op |-> "init", arg |-> 0, by |-> 0, val |-> 0]
    BY DEF Init
  <1>2. Dict = Map!EmptyDict
    <2>1. CASE bypass
      BY <2>1 DEF Dict, Map!EmptyDict
    <2>2. CASE ~bypass
      BY <1>1, <2>2, EmptyDict, DictIs
    <2> QED BY <1>1, <2>1, <2>2
  <1> QED BY <1>1, <1>2 DEF Map!HInit

LEMMA StepRefines == SearchInv /\ [Next]_rvars => [Map!HNext]_(Map!hvars)
  <1> SUFFICES ASSUME SearchInv, [Next]_rvars PROVE [Map!HNext]_(Map!hvars)
    OBVIOUS
  <1>1. CASE Loop
    BY <1>1, GetStep, AddProbeStep, AddInsertStep DEF Loop
  <1>2. ASSUME NEW b \in BOOLEAN, Reinit(b) PROVE Map!HNext
    BY <1>2, ReinitStep
  <1>3. ASSUME NEW a \in CudaAddr, Create(a) PROVE Map!HNext
    <2>1. UNCHANGED <<map_res, bypass>> /\ Answer("create", a, 0, 0)
      BY <1>3 DEF Create, Return
    <2>2. Map!HCreate(a)
      BY <2>1, SameDict DEF Map!HCreate, Map!Answer, Answer
    <2> QED BY <2>2 DEF Map!HNext
  <1>4. ASSUME NEW c \in ClientAddr, GetBegin(c) PROVE [Map!HNext]_(Map!hvars)
    BY <1>4, GetBeginStep
  <1>5. ASSUME NEW c \in ClientAddr, NEW a \in CudaAddr, AddBegin(c, a)
        PROVE  [Map!HNext]_(Map!hvars)
    BY <1>5, BeginStep
  <1>6. CASE UNCHANGED rvars
    BY <1>6, SameDict DEF rvars, Map!hvars
  <1> QED BY <1>1, <1>2, <1>3, <1>4, <1>5, <1>6 DEF Next

(* The manager's list and its two halving loops do what the dictionary     *)
(* does: an addition replaces the entry of its address and no other, and a *)
(* lookup answers with the entry of its address if and only if it has one. *)
THEOREM ManagerImplementsDictionary == Spec => ImplementsDictionary
  <1>1. Init => Map!HInit
    BY InitRefines
  <1>2. SearchInv /\ [Next]_rvars => [Map!HNext]_(Map!hvars)
    BY StepRefines
  <1> QED BY <1>1, <1>2, SearchAlways, PTL DEF Spec, ImplementsDictionary, Map!HSpec

-----------------------------------------------------------------------------
(***************************************************************************)
(* Types.  The bounds stay a size_t, or -1, because the list's length does. *)
(***************************************************************************)
TypeInv ==
    /\ new_res \in Seq(CudaAddr)
    /\ call \in Calls
    /\ start \in Nat
    /\ end \in -1 .. SizeMax
    /\ answer \in [op : {"init", "create", "get", "add"}, arg : Nat, by : Nat, val : Nat]
    /\ Len(map_res) <= SizeMax + 1
    /\ call.op = "add" => Len(map_res) < MaxEntries

LEMMA InitTypes == Init => TypeInv
  <1> SUFFICES ASSUME Init PROVE TypeInv
    OBVIOUS
  <1>1. 0 \in -1 .. SizeMax /\ 0 <= SizeMax + 1
    BY ResourceMgAssumption
  <1>2. Idle \in Calls /\ Idle.op = "idle"
    BY DEF Idle, Calls
  <1>3. map_res = <<>> /\ Len(map_res) = 0 /\ new_res \in Seq(CudaAddr)
    BY DEF Init
  <1> QED BY <1>1, <1>2, <1>3 DEF Init, TypeInv

\* A call returns.
LEMMA ReturnTypes ==
    ASSUME TypeInv, NEW op \in {"init", "create", "get", "add"}, NEW arg \in Nat,
           NEW by \in Nat, NEW val \in Nat, Return(op, arg, by, val),
           new_res' \in Seq(CudaAddr), Len(map_res') <= SizeMax + 1
    PROVE  TypeInv'
  <1>1. Idle \in Calls /\ Idle.op = "idle"
    BY DEF Idle, Calls
  <1>2. answer' \in [op : {"init", "create", "get", "add"}, arg : Nat, by : Nat, val : Nat]
    BY DEF Return, Answer
  <1> QED BY <1>1, <1>2 DEF Return, TypeInv, Calls

\* A call enters its loop.
LEMMA EnterTypes ==
    ASSUME SearchInv, TypeInv, NEW op, NEW c, NEW a, Enter(op, c, a), UNCHANGED new_res,
           [op |-> op, client |-> c, cuda |-> a] \in Calls,
           op = "add" => Len(map_res) < MaxEntries
    PROVE  TypeInv'
  <1>1. Len(map_res) \in Nat
    BY EntryFacts DEF SearchInv
  <1>2. Len(map_res) - 1 \in -1 .. SizeMax
    BY <1>1, ResourceMgAssumption DEF TypeInv
  <1>3. call'.op = op /\ call' \in Calls
    BY DEF Enter
  <1>4. Len(map_res') = Len(map_res)
    BY DEF Enter
  <1> QED BY <1>2, <1>3, <1>4 DEF Enter, TypeInv

LEMMA ProbeTypes ==
    ASSUME SearchInv, TypeInv, call # Idle, start <= end
    PROVE  /\ Mid \in Nat /\ Mid <= SizeMax /\ AfterMid \in Nat
           /\ Before(Mid) \in -1 .. SizeMax /\ Mid - 1 \in -1 .. SizeMax
           /\ Probed.cuda_address \in Nat
  <1>1. Mid \in start .. end /\ start \in Nat /\ end \in -1 .. SizeMax /\ Probed \in Entry
    BY ProbeFacts DEF TypeInv
  <1>2. Mid \in Nat /\ Mid <= SizeMax
    BY <1>1, ResourceMgAssumption
  <1>3. PICK m : m = Mid
    OBVIOUS
  <1>4. m \in Nat /\ m <= SizeMax /\ m + 1 \in Nat /\ m - 1 \in -1 .. SizeMax
    BY <1>2, <1>3, ResourceMgAssumption
  <1>5. Before(m) \in -1 .. SizeMax
    BY <1>4, ResourceMgAssumption DEF Before
  <1>6. Probed.cuda_address \in Nat
    BY <1>1, ResourceMgAssumption DEF Entry
  <1> QED BY <1>3, <1>4, <1>5, <1>6 DEF AfterMid

LEMMA LoopTypes == ASSUME SearchInv, TypeInv, Loop PROVE TypeInv'
  <1>1. call # Idle /\ call.client \in Nat
    BY IdleFacts, ResourceMgAssumption
    DEF Loop, GetProbe, GetMiss, AddProbe, AddInsert, SearchInv, LoopState
  <1>2. CASE GetProbe
    <2>1. start <= end /\ UNCHANGED <<map_res, new_res>>
      BY <1>2 DEF GetProbe, SearchInv, LoopState
    <2>2. PICK mid, before, after, val : /\ mid = Mid /\ before = Before(Mid) /\ after = AfterMid
                                         /\ val = Probed.cuda_address
      OBVIOUS
    <2>3. before \in -1 .. SizeMax /\ after \in Nat /\ val \in Nat
      BY <1>1, <2>1, <2>2, ProbeTypes
    <2>4. CASE end' = before /\ UNCHANGED <<start, call, answer>>
      BY <2>1, <2>3, <2>4 DEF TypeInv
    <2>5. CASE end' = before /\ UNCHANGED start /\ Answer("get", call.client, 0, call.client) /\ call' = Idle
      <3>1. Idle \in Calls /\ Idle.op = "idle"
        BY DEF Idle, Calls
      <3>2. answer' \in [op : {"init", "create", "get", "add"}, arg : Nat, by : Nat, val : Nat]
        BY <1>1, <2>5 DEF Answer
      <3> QED BY <2>1, <2>3, <2>5, <3>1, <3>2 DEF TypeInv
    <2>6. CASE start' = after /\ UNCHANGED <<end, call, answer>>
      BY <2>1, <2>3, <2>6 DEF TypeInv
    <2>7. CASE Return("get", call.client, 0, val)
      BY <1>1, <2>1, <2>3, <2>7, ReturnTypes DEF TypeInv
    <2> QED BY <1>2, <2>2, <2>4, <2>5, <2>6, <2>7 DEF GetProbe
  <1>3. CASE GetMiss
    BY <1>1, <1>3, ReturnTypes DEF GetMiss, TypeInv
  <1>4. CASE AddProbe
    <2>1. start <= end /\ UNCHANGED new_res
      BY <1>4 DEF AddProbe, SearchInv, LoopState
    <2>2. PICK mid, after : mid = Mid - 1 /\ after = AfterMid
      OBVIOUS
    <2>3. mid \in -1 .. SizeMax /\ after \in Nat
      BY <1>1, <2>1, <2>2, ProbeTypes
    <2>4. CASE end' = mid /\ UNCHANGED <<map_res, start, call, answer>>
      BY <2>1, <2>3, <2>4 DEF TypeInv
    <2>5. CASE start' = after /\ UNCHANGED <<map_res, end, call, answer>>
      BY <2>1, <2>3, <2>5 DEF TypeInv
    <2>6. CASE map_res' = Overwritten /\ Return("add", call.client, call.cuda, 0)
      <3>1. call.cuda \in Nat
        BY <1>1, <1>4, ResourceMgAssumption DEF AddProbe, SearchInv, LoopState
      <3>2. Len(map_res') = Len(map_res)
        BY <2>6 DEF Overwritten, SearchInv
      <3> QED BY <1>1, <2>1, <2>6, <3>1, <3>2, ReturnTypes DEF TypeInv
    <2> QED BY <1>4, <2>2, <2>4, <2>5, <2>6 DEF AddProbe
  <1>5. CASE AddInsert
    <2>1. call.cuda \in Nat /\ Len(map_res) \in Nat /\ Len(map_res) < MaxEntries
      BY <1>1, <1>5, EntryFacts, ResourceMgAssumption DEF AddInsert, SearchInv, LoopState, TypeInv
    <2>2. map_res' \in Seq(Entry)
      BY <1>5, AddInsertKeeps DEF SearchInv
    <2>3. DOMAIN map_res' = 1 .. Len(map_res) + 1
      BY <1>5 DEF AddInsert, InsertedAt
    <2>4. Len(map_res') = Len(map_res) + 1
      BY <2>1, <2>2, <2>3, LenProperties
    <2>5. Len(map_res') <= SizeMax + 1
      BY <2>1, <2>4, ResourceMgAssumption
    <2>6. Return("add", call.client, call.cuda, 0) /\ UNCHANGED new_res
      BY <1>5 DEF AddInsert
    <2> QED BY <1>1, <2>1, <2>5, <2>6, ReturnTypes DEF TypeInv
  <1> QED BY <1>2, <1>3, <1>4, <1>5 DEF Loop

LEMMA GetBeginTypes ==
    ASSUME SearchInv, TypeInv, NEW c \in ClientAddr, GetBegin(c)
    PROVE  TypeInv'
  <1>1. c \in Nat /\ UNCHANGED new_res
    BY ResourceMgAssumption DEF GetBegin
  <1>2. CASE Return("get", c, 0, c) /\ UNCHANGED map_res
    BY <1>1, <1>2, ReturnTypes DEF TypeInv
  <1>3. CASE Enter("get", c, 0)
    <2>1. [op |-> "get", client |-> c, cuda |-> 0] \in Calls
      BY DEF Calls
    <2> QED BY <1>1, <1>3, <2>1, EnterTypes
  <1> QED BY <1>2, <1>3 DEF GetBegin

LEMMA AddBeginTypes ==
    ASSUME SearchInv, TypeInv, NEW c \in ClientAddr, NEW a \in CudaAddr, AddBegin(c, a)
    PROVE  TypeInv'
  <1>1. c \in Nat /\ a \in Nat /\ UNCHANGED new_res
    BY ResourceMgAssumption DEF AddBegin
  <1>2. CASE Return("add", c, a, 1) /\ UNCHANGED map_res
    BY <1>1, <1>2, ReturnTypes DEF TypeInv
  <1>3. CASE map_res' = <<NewElem(c, a)>> /\ Return("add", c, a, 0)
    <2>1. Len(map_res') = 1
      BY <1>3
    <2>2. Len(map_res') <= SizeMax + 1
      BY <2>1, ResourceMgAssumption
    <2> QED BY <1>1, <1>3, <2>2, ReturnTypes DEF TypeInv
  <1>4. CASE Len(map_res) \in 1 .. MaxEntries - 1 /\ Enter("add", c, a)
    <2>1. [op |-> "add", client |-> c, cuda |-> a] \in Calls
      BY DEF Calls
    <2>2. Len(map_res) < MaxEntries
      BY <1>4, ResourceMgAssumption
    <2> QED BY <1>1, <1>4, <2>1, <2>2, EnterTypes
  <1> QED BY <1>2, <1>3, <1>4 DEF AddBegin

LEMMA StepTypes == SearchInv /\ TypeInv /\ [Next]_rvars => TypeInv'
  <1> SUFFICES ASSUME SearchInv, TypeInv, [Next]_rvars PROVE TypeInv'
    OBVIOUS
  <1>1. CASE Loop
    BY <1>1, LoopTypes
  <1>2. ASSUME NEW b \in BOOLEAN, Reinit(b) PROVE TypeInv'
    <2>1. new_res' \in Seq(CudaAddr) /\ Return("init", 0, 0, 0)
      BY <1>2 DEF Reinit
    <2>2. Len(map_res') <= SizeMax + 1
      <3>1. CASE b
        BY <1>2, <3>1 DEF Reinit, TypeInv
      <3>2. CASE ~b
        <4>1. Len(map_res') = 0
          BY <1>2, <3>2 DEF Reinit
        <4> QED BY <4>1, ResourceMgAssumption
      <3> QED BY <3>1, <3>2
    <2> QED BY <2>1, <2>2, ReturnTypes
  <1>3. ASSUME NEW a \in CudaAddr, Create(a) PROVE TypeInv'
    <2>1. new_res' \in Seq(CudaAddr)
      BY <1>3, AppendProperties DEF Create, TypeInv
    <2>2. Return("create", a, 0, 0) /\ Len(map_res') = Len(map_res) /\ a \in Nat
      BY <1>3, ResourceMgAssumption DEF Create
    <2> QED BY <2>1, <2>2, ReturnTypes DEF TypeInv
  <1>4. ASSUME NEW c \in ClientAddr, GetBegin(c) PROVE TypeInv'
    BY <1>4, GetBeginTypes
  <1>5. ASSUME NEW c \in ClientAddr, NEW a \in CudaAddr, AddBegin(c, a) PROVE TypeInv'
    BY <1>5, AddBeginTypes
  <1>6. CASE UNCHANGED rvars
    BY <1>6 DEF rvars, TypeInv
  <1> QED BY <1>1, <1>2, <1>3, <1>4, <1>5, <1>6 DEF Next

(* Every variable holds values of its kind: entries pair a client address  *)
(* with a device address, and the loop bounds are a size_t or -1.          *)
THEOREM ManagerKeepsTypes == Spec => []ManagerTypeOK
  <1>1. SearchInv /\ TypeInv => ManagerTypeOK
    BY DEF SearchInv, TypeInv, ManagerTypeOK
  <1> QED BY <1>1, InitTypes, StepTypes, SearchAlways, PTL DEF Spec

(***************************************************************************)
(* How long a search takes.                                                *)
(***************************************************************************)
Left == end - start + 1

\* A turn that finds nothing leaves at most half of the entries to look at.
Halves == 2 * Left' <= Left /\ Left' >= 0

LEMMA ProbeHalves == ASSUME SearchInv, GetProbe \/ AddProbe, call' # Idle PROVE Halves
  <1>1. call # Idle /\ start <= end
    <2>1. start \in Int /\ end \in Int
      BY IdleFacts DEF GetProbe, AddProbe, SearchInv, LoopState
    <2> QED BY <2>1, IdleFacts DEF GetProbe, AddProbe
  <1>2. start \in Nat /\ end \in Int /\ Mid \in start .. end
    BY <1>1, ProbeFacts DEF SearchInv, LoopState
  <1>3. 2 * (Mid - start) <= end - start /\ 2 * (end - Mid) <= end - start + 1
    BY <1>1, <1>2 DEF Mid
  <1>4. \/ end' = Mid - 1 /\ start' = start
        \/ start' = Mid + 1 /\ end' = end
    BY <1>2 DEF GetProbe, AddProbe, Return, Before, AtFront, AfterMid
  <1>5. CASE end' = Mid - 1 /\ start' = start
    BY <1>2, <1>3, <1>5 DEF Halves, Left
  <1>6. CASE start' = Mid + 1 /\ end' = end
    BY <1>2, <1>3, <1>6 DEF Halves, Left
  <1> QED BY <1>4, <1>5, <1>6

(* Both loops end after as many turns as the list can be halved: a turn    *)
(* that has not found the address leaves at most half of the entries that  *)
(* were between the bounds, also where the unsigned bound could wrap.      *)
THEOREM SearchesHalve == Spec => [][(GetProbe \/ AddProbe) /\ call' # Idle => Halves]_rvars
  <1>1. SearchInv /\ [Next]_rvars => [(GetProbe \/ AddProbe) /\ call' # Idle => Halves]_rvars
    BY ProbeHalves
  <1> QED BY <1>1, SearchAlways, PTL DEF Spec
=============================================================================
