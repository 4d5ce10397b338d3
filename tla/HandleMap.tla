------------------------------ MODULE HandleMap ------------------------------
(***************************************************************************)
(* What a resource manager promises the server's handlers: a dictionary    *)
(* from the address a client holds to the address the device uses now.  An *)
(* address without an entry stands for itself, and every address does      *)
(* while the manager is bypassed.  ResourceMg implements this module.      *)
(***************************************************************************)
CONSTANTS ClientAddr, CudaAddr

VARIABLES dict,     \* the entries in force
          bypassed, \* is the manager bypassed?
          answer    \* last completed call, with what it returned

hvars == <<dict, bypassed, answer>>

Answer(op, arg, by, val) ==
    answer' = [op |-> op, arg |-> arg, by |-> by, val |-> val]

EmptyDict == [c \in {} |-> c]

Resolve(c) == IF c \in DOMAIN dict THEN dict[c] ELSE c

HInit ==
    /\ bypassed \in BOOLEAN
    /\ dict = EmptyDict
    /\ answer = [op |-> "init", arg |-> 0, by |-> 0, val |-> 0]

HReinit(b) == dict' = EmptyDict /\ bypassed' = b /\ Answer("init", 0, 0, 0)

HCreate(a) == UNCHANGED <<dict, bypassed>> /\ Answer("create", a, 0, 0)

HGet(c) == UNCHANGED <<dict, bypassed>> /\ Answer("get", c, 0, Resolve(c))

HAdd(c, a) ==
    /\ UNCHANGED bypassed
    /\ \/ bypassed /\ UNCHANGED dict /\ Answer("add", c, a, 1)
       \/ /\ ~bypassed
          /\ dict' = [x \in DOMAIN dict \cup {c} |->
                        IF x = c THEN a ELSE dict[x]]
          /\ Answer("add", c, a, 0)

HNext ==
    \/ \E b \in BOOLEAN : HReinit(b)
    \/ \E a \in CudaAddr : HCreate(a)
    \/ \E c \in ClientAddr : HGet(c) \/ \E a \in CudaAddr : HAdd(c, a)

HSpec == HInit /\ [][HNext]_hvars
=============================================================================
