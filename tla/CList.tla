-------------------------------- MODULE CList --------------------------------
(***************************************************************************)
(* The growable array of cpu/list.c, on which every table of the server    *)
(* rests: api_records, mt_memcpy_list, kernel_infos, the scheduler's ids   *)
(* and the two lists of each resource manager.                             *)
(*                                                                         *)
(* A list is a heap buffer of `capacity' cells of which the first `length' *)
(* are in use.  Cells are addressed from 0 as list_get does; a cell that   *)
(* was never written holds Garbage.  `buffer' is what l->elements points   *)
(* to: a block of that capacity, NULL once malloc or realloc failed, a     *)
(* block already given back, or nothing the language defines any more.     *)
(* A list_init that fails leaves a list of no capacity whose elements have *)
(* no size; callers that log the failure go on with it (cpu-client.c:185). *)
(***************************************************************************)
EXTENDS Integers, Sequences

CONSTANTS Elem,            \* the values a caller may store
          Garbage,         \* content of a cell nobody has written
          Nothing,         \* out-parameter of a call that hands nothing back
          InitialCapacity, \* INITIAL_CAPACITY
          MaxLength,       \* bound on the calls that add an element
          AllocMayFail     \* may malloc and realloc return NULL?

ASSUME CListAssumption ==
    /\ InitialCapacity \in Nat \ {0}
    /\ MaxLength \in Nat
    /\ AllocMayFail \in BOOLEAN
    /\ Garbage \notin Elem

VARIABLES elements, capacity, length, buffer,
          elementSize,     \* 0 as cleared by a list_init that failed, else 1
          ret, out         \* what the last call reported to its caller

lvars == <<elements, capacity, length, buffer, elementSize, ret, out>>

Sized == elementSize # 0

Cell == Elem \cup {Garbage}

Blank(n) == [i \in 0 .. n - 1 |-> Garbage]

Report(code, value) == ret' = code /\ out' = value

ListTypeOK ==
    /\ capacity \in Nat
    /\ length \in Nat
    /\ elements \in [0 .. capacity - 1 -> Cell]
    /\ buffer \in {"valid", "null", "freed", "undefined"}
    /\ elementSize \in {0, 1}
    /\ ret \in {0, 1}
    /\ out \in Cell \cup {Nothing}

ListInit ==
    /\ elements = Blank(InitialCapacity)
    /\ capacity = InitialCapacity
    /\ length = 0
    /\ buffer = "valid"
    /\ elementSize = 1
    /\ ret = 0
    /\ out = Nothing

-----------------------------------------------------------------------------
(* list_init on a list that is already in use: the old block is forgotten. *)
Reinit ==
    /\ buffer # "undefined"
    /\ length' = 0
    /\ \/ /\ elements' = Blank(InitialCapacity)
          /\ capacity' = InitialCapacity
          /\ buffer' = "valid"
          /\ elementSize' = 1
          /\ Report(0, Nothing)
       \/ /\ AllocMayFail
          /\ elements' = Blank(0)
          /\ capacity' = 0
          /\ buffer' = "null"
          /\ elementSize' = 0
          /\ Report(1, Nothing)

Free ==
    /\ buffer \in {"valid", "null"}
    /\ elements' = Blank(0)
    /\ capacity' = 0
    /\ length' = 0
    /\ buffer' = "freed"
    /\ Report(0, Nothing)
    /\ UNCHANGED elementSize

\* The block after list_append has made room for one more element.  A NULL
\* block is replaced by a fresh one, whose cells nobody has written.
Full == capacity = length
\* Mutant of Grown: a fresh block instead of realloc.
GrownByMalloc == IF Full THEN Blank(2 * capacity) ELSE elements
Grown ==
    IF Full
    THEN [i \in 0 .. 2 * capacity - 1 |->
            IF i < capacity /\ buffer = "valid" THEN elements[i] ELSE Garbage]
    ELSE elements
\* Mutant of GrownCapacity: the new size is not noted.
CapacityForgotten == capacity
GrownCapacity == IF Full THEN 2 * capacity ELSE capacity

\* realloc returned NULL: the pointer is overwritten before it is tested.
GrowFails ==
    /\ Full
    /\ AllocMayFail
    /\ elements' = Blank(capacity)
    /\ buffer' = "null"
    /\ Report(1, Nothing)
    /\ UNCHANGED <<capacity, length, elementSize>>

\* The calls that may write: there is a block, or realloc provides one.
Writable ==
    /\ Sized /\ capacity > 0
    /\ buffer = "valid" \/ (buffer = "null" /\ Full)

\* Calls that are refused, or only count, touch no cell: they also work on the
\* NULL block a failed realloc leaves behind.
Initialized == buffer \in {"valid", "null"}

\* After a failed list_init no call asks for memory or copies any: realloc of
\* no bytes gives a block without cells, or gives the old one back and fails.
AddUnsized ==
    /\ ~Sized /\ Initialized
    /\ length < MaxLength
    /\ \/ /\ length' = length + 1
          /\ buffer' = IF Full THEN "valid" ELSE buffer
          /\ Report(0, Nothing)
       \/ /\ Full
          /\ buffer' = "null"
          /\ Report(1, Nothing)
          /\ UNCHANGED length
    /\ UNCHANGED <<elements, capacity, elementSize>>

\* list_append_copy, or list_append and the caller's write of the new cell.
AppendCopy(e) ==
    \/ AddUnsized
    \/ /\ length < MaxLength
       /\ Writable
       /\ \/ /\ elements' = [Grown EXCEPT ![length] = e]
             /\ capacity' = GrownCapacity
             /\ length' = length + 1
             /\ buffer' = "valid"
             /\ Report(0, Nothing)
             /\ UNCHANGED elementSize
          \/ GrowFails

\* Mutant of Insert: the list is not lengthened before the memmove.
InsertWithoutRoom(at, e) ==
    /\ Writable
    /\ at < length
    /\ length < MaxLength
    /\ elements' = [i \in DOMAIN elements \cup {length} |->
           IF i = at THEN e
           ELSE IF i > at /\ i <= length THEN elements[i - 1] ELSE elements[i]]
    /\ length' = length + 1
    /\ Report(0, Nothing)
    /\ UNCHANGED <<capacity, buffer, elementSize>>

Insert(at, e) ==
    \/ /\ Initialized
       /\ at > length
       /\ Report(1, Nothing)
       /\ UNCHANGED <<elements, capacity, length, buffer, elementSize>>
    \/ at = length /\ AppendCopy(e)
    \/ at < length /\ AddUnsized
    \/ /\ Writable
       /\ at < length
       /\ length < MaxLength
       /\ \/ /\ elements' = [i \in DOMAIN Grown |->
                  IF i = at THEN e
                  ELSE IF i > at /\ i <= length THEN Grown[i - 1]
                  ELSE Grown[i]]
             /\ capacity' = GrownCapacity
             /\ length' = length + 1
             /\ buffer' = "valid"
             /\ Report(0, Nothing)
             /\ UNCHANGED elementSize
          \/ GrowFails

At(at) ==
    /\ \/ /\ buffer = "valid" /\ at < length
          /\ Report(0, IF Sized THEN elements[at] ELSE Garbage)
       \/ Initialized /\ at >= length /\ Report(1, Nothing)
    /\ UNCHANGED <<elements, capacity, length, buffer, elementSize>>

\* Mutant of Rm: the memmove is one cell short.
RmMovesOneTooFew(at) ==
    /\ buffer = "valid"
    /\ at < length
    /\ elements' = [i \in DOMAIN elements |->
         IF i >= at /\ i < length - 2 THEN elements[i + 1] ELSE elements[i]]
    /\ length' = length - 1
    /\ Report(0, Nothing)
    /\ UNCHANGED <<capacity, buffer, elementSize>>

Rm(at) ==
    /\ \/ /\ Initialized
          /\ at >= length
          /\ Report(1, Nothing)
          /\ UNCHANGED <<elements, length>>
       \/ /\ buffer = "valid" \/ (buffer = "null" /\ at = length - 1)
          /\ at < length
          /\ elements' = [i \in DOMAIN elements |->
               IF i >= at /\ i < length - 1 THEN elements[i + 1]
               ELSE elements[i]]
          /\ length' = length - 1
          /\ Report(0, Nothing)
    /\ UNCHANGED <<capacity, buffer, elementSize>>

\* A caller that ignored an earlier error code reads or writes through NULL or
\* a block given back, or an element of a list whose block has no cells.
UseAfterFailure ==
    /\ \/ buffer = "null" /\ Sized
       \/ buffer = "valid" /\ ~Sized /\ length > 0
       \/ buffer = "freed"
    /\ buffer' = "undefined"
    /\ UNCHANGED <<elements, capacity, length, elementSize, ret, out>>

Indices == 0 .. length + 1

ListNext ==
    \/ Reinit
    \/ Free
    \/ UseAfterFailure
    \/ \E e \in Elem : AppendCopy(e)
    \/ \E at \in Indices : At(at) \/ Rm(at) \/ \E e \in Elem : Insert(at, e)

ListSpec == ListInit /\ [][ListNext]_lvars

-----------------------------------------------------------------------------
(***************************************************************************)
(* Properties                                                              *)
(***************************************************************************)

(* Once list_init has succeeded every cell in use lies inside the block,   *)
(* whatever fails then: list_append doubles the block before the one write *)
(* that would run past it, and no sequence of failed and repeated calls    *)
(* makes length outrun capacity.  After a list_init that failed the first  *)
(* append does: that list is not Sized.                                    *)
UsedCellsExist == Sized /\ Initialized => length <= capacity

(* What the comment in list_append says of a realloc that failed (list.c   *)
(* 68): the elements stored before can still be reached.  They cannot, for *)
(* the only pointer to them has been overwritten.                          *)
OldPointerRemainsValid == Sized /\ length > 0 => buffer # "null"

(* The array does what list.h promises: a growable sequence, of which every *)
(* element is one a caller stored.  The promise is kept by every step that  *)
(* neither fails to allocate nor starts on what such a failure, of realloc *)
(* or of list_init, leaves behind.                                         *)
Usable == buffer # "null" /\ Sized
Abstract == INSTANCE AbstractList
    WITH content <- [i \in 1 .. length |-> elements[i - 1]]
ImplementsSequence ==
    /\ Abstract!AInit
    /\ [][Usable /\ Usable' => [Abstract!ANext]_(Abstract!avars)]_lvars
=============================================================================
