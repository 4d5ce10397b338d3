----------------------------- MODULE ResourceMg -----------------------------
(***************************************************************************)
(* One resource manager of cpu/resource-mg.c.                              *)
(*                                                                         *)
(* After a restore the addresses a client holds are not the addresses the  *)
(* device uses: map_res, kept sorted by client address, translates them    *)
(* and is searched by halving.  Resources of this run go to new_res under  *)
(* their own address.  A bypassed manager translates nothing.              *)
(*                                                                         *)
(* The two loops run one probe per step, so that their bounds, including   *)
(* the unsigned ones of resource_mg_search_map, are part of the state.     *)
(* The lists are the sequences CList implements; list_get(l, i) is l[i+1]. *)
(***************************************************************************)
EXTENDS Integers, Sequences

CONSTANTS ClientAddr, \* addresses clients hold
          CudaAddr,   \* addresses the device hands out
          SizeMax,    \* largest size_t
          MaxEntries, \* bound on entries of map_res
          MaxNew      \* bound on entries of new_res

ASSUME ResourceMgAssumption ==
    /\ ClientAddr \subseteq Nat
    /\ CudaAddr \subseteq Nat
    /\ SizeMax \in Nat
    /\ MaxEntries \in 0 .. SizeMax   \* list.length is a size_t
    /\ MaxNew \in Nat

VARIABLES map_res, new_res, bypass,
          call,       \* the call whose loop is running, or Idle
          start, end, \* its loop bounds
          answer      \* last completed call, with what it returned

rvars == <<map_res, new_res, bypass, call, start, end, answer>>

Entry == [client_address : ClientAddr, cuda_address : CudaAddr]

Idle == [op |-> "idle", client |-> 0, cuda |-> 0]

Calls ==
    {Idle}
    \cup [op : {"get"}, client : ClientAddr, cuda : {0}]
    \cup [op : {"add"}, client : ClientAddr, cuda : CudaAddr]

ManagerTypeOK ==
    /\ map_res \in Seq(Entry)
    /\ new_res \in Seq(CudaAddr)
    /\ bypass \in BOOLEAN
    /\ call \in Calls
    /\ start \in Nat
    /\ end \in -1 .. SizeMax \cup 0 .. Len(map_res)
    /\ answer \in [op : {"init", "create", "get", "add"}, arg : Nat, by : Nat,
                   val : Nat]

Answer(op, arg, by, val) ==
    answer' = [op |-> op, arg |-> arg, by |-> by, val |-> val]

Return(op, arg, by, val) ==
    /\ Answer(op, arg, by, val)
    /\ call' = Idle
    /\ UNCHANGED <<start, end>>

\* Leaves the loop bounds of the call that begins.
Enter(op, client, cuda) ==
    /\ call' = [op |-> op, client |-> client, cuda |-> cuda]
    /\ start' = 0
    /\ end' = Len(map_res) - 1
    /\ UNCHANGED <<map_res, answer>>

Init ==
    /\ map_res = <<>>
    /\ new_res = <<>>
    /\ bypass \in BOOLEAN
    /\ call = Idle
    /\ start = 0
    /\ end = 0
    /\ answer = [op |-> "init", arg |-> 0, by |-> 0, val |-> 0]

-----------------------------------------------------------------------------
(* resource_mg_init on a manager already in use, as the server does when   *)
(* it initialises a library after the restore: a bypassed manager leaves   *)
(* its translations where they are, unread.                                *)
Reinit(b) ==
    /\ call = Idle
    /\ bypass' = b
    /\ new_res' = <<>>
    /\ map_res' = IF b THEN map_res ELSE <<>>
    /\ Return("init", 0, 0, 0)

Create(a) ==
    /\ call = Idle
    /\ Len(new_res) < MaxNew
    /\ new_res' = Append(new_res, a)
    /\ Return("create", a, 0, 0)
    /\ UNCHANGED <<map_res, bypass>>

GetBegin(c) ==
    /\ call = Idle
    /\ \/ /\ bypass \/ Len(map_res) = 0
          /\ Return("get", c, 0, c)
          /\ UNCHANGED map_res
       \/ ~bypass /\ Len(map_res) > 0 /\ Enter("get", c, 0)
    /\ UNCHANGED <<new_res, bypass>>

Mid == start + (end - start) \div 2
Probed == map_res[Mid + 1]

\* Unsigned decrement.
Before(i) == IF i = 0 THEN SizeMax ELSE i - 1

\* Mutants of AfterMid: no progress, and one element overstepped.
FromMid == Mid
PastNext == Mid + 2
AfterMid == Mid + 1

\* Mutant of AtFront: the loop goes on with the wrapped bound.
NeverAtFront == FALSE
\* The break that keeps the wrapped bound out of another turn.
AtFront == Mid = 0

\* One turn of the loop of resource_mg_search_map.
GetProbe ==
    /\ call.op = "get"
    /\ end >= start
    /\ \/ /\ Probed.client_address > call.client
          /\ end' = Before(Mid)
          /\ UNCHANGED start
          /\ \/ /\ AtFront
                /\ Answer("get", call.client, 0, call.client)
                /\ call' = Idle
             \/ ~AtFront /\ UNCHANGED <<call, answer>>
       \/ /\ Probed.client_address < call.client
          /\ start' = AfterMid
          /\ UNCHANGED <<end, call, answer>>
       \/ /\ Probed.client_address = call.client
          /\ Return("get", call.client, 0, Probed.cuda_address)
    /\ UNCHANGED <<map_res, new_res, bypass>>

GetMiss ==
    /\ call.op = "get"
    /\ end < start
    /\ Return("get", call.client, 0, call.client)
    /\ UNCHANGED <<map_res, new_res, bypass>>

-----------------------------------------------------------------------------
\* Mutant of NewElem: the two addresses swapped.
NewElemSwapped(c, a) == [client_address |-> a, cuda_address |-> c]
NewElem(c, a) == [client_address |-> c, cuda_address |-> a]

AddBegin(c, a) ==
    /\ call = Idle
    /\ \/ bypass /\ Return("add", c, a, 1) /\ UNCHANGED map_res
       \/ /\ ~bypass
          /\ Len(map_res) = 0
          /\ map_res' = <<NewElem(c, a)>>
          /\ Return("add", c, a, 0)
       \/ /\ ~bypass
          /\ Len(map_res) \in 1 .. MaxEntries - 1
          /\ Enter("add", c, a)
    /\ UNCHANGED <<new_res, bypass>>

\* Mutant of Overwritten: the first of two entries for an address stays.
FirstKept == map_res
Overwritten == [map_res EXCEPT ![Mid + 1].cuda_address = call.cuda]

\* One turn of the loop of resource_mg_add_sorted, whose indexes are signed.
AddProbe ==
    /\ call.op = "add"
    /\ end >= start
    /\ \/ /\ Probed.client_address > call.client
          /\ end' = Mid - 1
          /\ UNCHANGED <<map_res, start, call, answer>>
       \/ /\ Probed.client_address < call.client
          /\ start' = AfterMid
          /\ UNCHANGED <<map_res, end, call, answer>>
       \/ /\ Probed.client_address = call.client
          /\ map_res' = Overwritten
          /\ Return("add", call.client, call.cuda, 0)
    /\ UNCHANGED <<new_res, bypass>>

\* The memmove of list_insert, on sequences.
InsertedAt(at, e) ==
    [i \in 1 .. Len(map_res) + 1 |->
        IF i <= at THEN map_res[i]
        ELSE IF i = at + 1 THEN e ELSE map_res[i - 1]]

\* Mutant of InsertPosition: always before the last element looked at.
InsertBeforeLast == IF end < 0 THEN 0 ELSE end
\* Where the new element goes once the loop has missed.
InsertPosition ==
    LET last == IF end < 0 THEN 0 ELSE end
    IN  IF map_res[last + 1].client_address < call.client
        THEN last + 1 ELSE last

AddInsert ==
    /\ call.op = "add"
    /\ end < start
    /\ map_res' = InsertedAt(InsertPosition, NewElem(call.client, call.cuda))
    /\ Return("add", call.client, call.cuda, 0)
    /\ UNCHANGED <<new_res, bypass>>

Loop == GetProbe \/ GetMiss \/ AddProbe \/ AddInsert

Next ==
    \/ Loop
    \/ \E b \in BOOLEAN : Reinit(b)
    \/ \E a \in CudaAddr : Create(a)
    \/ \E c \in ClientAddr : GetBegin(c) \/ \E a \in CudaAddr : AddBegin(c, a)

Spec == Init /\ [][Next]_rvars

(* The loops are straight code: a call that has begun goes on.             *)
FairSpec == Spec /\ WF_rvars(Loop)

-----------------------------------------------------------------------------
(***************************************************************************)
(* Properties                                                              *)
(***************************************************************************)

(* The list the header calls "sorted, enabling binary searching" is, and   *)
(* holds one entry per client address, after any sequence of additions.    *)
Sorted ==
    \A i, j \in 1 .. Len(map_res) :
        i < j => map_res[i].client_address < map_res[j].client_address

(* A loop that is about to probe has both bounds inside the list: the      *)
(* unsigned end never wraps into another turn.                             *)
ProbesInBounds ==
    call # Idle /\ start <= end => end < Len(map_res)

(* The halving never steps over the address it looks for: everything left  *)
(* of start is smaller, everything right of end is larger.                 *)
SearchNarrows ==
    call # Idle =>
        /\ start <= end + 1
        /\ \A i \in 1 .. Len(map_res) :
              /\ i <= start => map_res[i].client_address < call.client
              /\ i > end + 1 => map_res[i].client_address > call.client

(* The manager is the dictionary its callers take it for: the entries are  *)
(* those added since the last initialisation, the latest one winning, and  *)
(* each lookup answers with them, bypassed managers with the address.      *)
KeysOf(s) == {s[i].client_address : i \in 1 .. Len(s)}
IndexIn(s, c) == CHOOSE i \in 1 .. Len(s) : s[i].client_address = c
Dict == IF bypass THEN [c \in {} |-> c]
        ELSE [c \in KeysOf(map_res) |-> map_res[IndexIn(map_res, c)].cuda_address]
Map == INSTANCE HandleMap WITH dict <- Dict, bypassed <- bypass
ImplementsDictionary == Map!HSpec

(* Every lookup and every addition ends, whatever the list holds.          *)
CallsReturn == call # Idle ~> call = Idle
=============================================================================
