----------------------------- MODULE CListProofs -----------------------------
(***************************************************************************)
(* For any values, initial capacity and length bound, the array of list.c  *)
(* never uses a cell outside its block once list_init has succeeded, and   *)
(* while memory lasts it implements the sequence list.h promises.          *)
(***************************************************************************)
EXTENDS CList, SequenceTheorems, TLAPS

\* A list whose list_init failed has no cells and never gets any.
NoCellsUnsized == ~Sized => capacity = 0

\* The facts that make the array memory safe, as one formula.
ArrayInv == ListTypeOK /\ UsedCellsExist /\ NoCellsUnsized

LEMMA BlankCells == \A n \in Nat : Blank(n) \in [0 .. n - 1 -> Cell]
  BY DEF Blank, Cell

LEMMA InitArray == ListInit => ArrayInv
  BY CListAssumption, BlankCells
  DEF ListInit, ArrayInv, ListTypeOK, UsedCellsExist, NoCellsUnsized, Sized

\* Growing keeps the cells in use and makes room for one more.
LEMMA GrownRoom ==
    ASSUME ArrayInv, Writable
    PROVE  /\ GrownCapacity \in Nat
           /\ length < GrownCapacity
           /\ Grown \in [0 .. GrownCapacity - 1 -> Cell]
           /\ buffer = "valid" =>
                \A i \in 0 .. length - 1 : Grown[i] = elements[i]
  <1> USE DEF ArrayInv, ListTypeOK, UsedCellsExist, Initialized, Writable, GrownCapacity, Full
  <1>1. CASE Full
    <2>1. Grown = [i \in 0 .. 2 * capacity - 1 |->
                    IF i < capacity /\ buffer = "valid"
                    THEN elements[i] ELSE Garbage]
      BY <1>1 DEF Grown
    <2>2. \A i \in 0 .. 2 * capacity - 1 : Grown[i] \in Cell
      BY <2>1 DEF Cell
    <2> QED BY <1>1, <2>1, <2>2
  <1>2. CASE ~Full
    BY <1>2 DEF Grown
  <1> QED BY <1>1, <1>2

LEMMA AddUnsizedKeepsArray ==
    ASSUME ArrayInv, AddUnsized
    PROVE  ArrayInv'
  BY DEF AddUnsized, Report, Initialized, Sized, Full, ArrayInv, ListTypeOK, UsedCellsExist, NoCellsUnsized

LEMMA AppendKeepsArray ==
    ASSUME ArrayInv, NEW e \in Elem, AppendCopy(e)
    PROVE  ArrayInv'
  <1> USE DEF ArrayInv, ListTypeOK, UsedCellsExist, NoCellsUnsized, Sized, Initialized
  <1>1. CASE GrowFails
    BY <1>1, BlankCells DEF GrowFails, Full, Report
  <1>2. CASE AddUnsized
    BY <1>2, AddUnsizedKeepsArray
  <1>3. CASE ~GrowFails /\ ~AddUnsized
    <2>1. /\ elements' = [Grown EXCEPT ![length] = e]
          /\ capacity' = GrownCapacity
          /\ length' = length + 1
          /\ buffer' = "valid" /\ elementSize' = elementSize
          /\ ret' = 0 /\ out' = Nothing
          /\ Writable
      BY <1>3 DEF AppendCopy, Report
    <2>2. e \in Cell
      BY DEF Cell
    <2> QED BY <2>1, <2>2, GrownRoom DEF Writable
  <1> QED BY <1>1, <1>2, <1>3

LEMMA InsertKeepsArray ==
    ASSUME ArrayInv, NEW at \in Indices, NEW e \in Elem, Insert(at, e)
    PROVE  ArrayInv'
  <1> USE DEF ArrayInv, ListTypeOK, UsedCellsExist, NoCellsUnsized, Sized, Initialized
  <1>1. CASE at > length
    BY <1>1 DEF Insert, Report, Indices
  <1>2. CASE at = length
    BY <1>2, AppendKeepsArray DEF Insert
  <1>5. CASE at < length /\ AddUnsized
    BY <1>5, AddUnsizedKeepsArray
  <1>3. CASE at < length /\ GrowFails
    BY <1>3, BlankCells DEF GrowFails, Full, Report
  <1>4. CASE at < length /\ ~GrowFails /\ ~AddUnsized
    <2>1. /\ elements' = [i \in DOMAIN Grown |->
                  IF i = at THEN e
                  ELSE IF i > at /\ i <= length THEN Grown[i - 1]
                  ELSE Grown[i]]
          /\ capacity' = GrownCapacity
          /\ length' = length + 1
          /\ buffer' = "valid" /\ elementSize' = elementSize
          /\ ret' = 0 /\ out' = Nothing
          /\ Writable
      BY <1>4 DEF Insert, Report, Indices
    <2>2. e \in Cell
      BY DEF Cell
    <2>3. \A i \in 0 .. GrownCapacity - 1 : i > at => i - 1 \in 0 .. GrownCapacity - 1
      BY <2>1, GrownRoom DEF Indices
    <2>4. elements' \in [0 .. GrownCapacity - 1 -> Cell]
      BY <2>1, <2>2, <2>3, GrownRoom
    <2>5. length < GrownCapacity /\ GrownCapacity \in Nat /\ Sized
      BY <2>1, GrownRoom DEF Writable
    <2> QED BY <2>1, <2>4, <2>5
  <1> QED BY <1>1, <1>2, <1>3, <1>4, <1>5 DEF Indices

LEMMA RmKeepsArray ==
    ASSUME ArrayInv, NEW at \in Indices, Rm(at)
    PROVE  ArrayInv'
  <1> USE DEF ArrayInv, ListTypeOK, UsedCellsExist, NoCellsUnsized, Sized, Initialized
  <1>1. CASE at >= length
    BY <1>1 DEF Rm, Report, Indices
  <1>2. CASE at < length
    <2>1. /\ elements' = [i \in DOMAIN elements |->
                 IF i >= at /\ i < length - 1 THEN elements[i + 1]
                 ELSE elements[i]]
          /\ length' = length - 1
          /\ buffer \in {"valid", "null"}
          /\ ret' = 0 /\ out' = Nothing
          /\ UNCHANGED <<capacity, buffer, elementSize>>
      BY <1>2 DEF Rm, Report, Indices
    <2>2. \A i \in 0 .. capacity - 1 : i < length - 1 => i + 1 \in 0 .. capacity - 1
      BY <2>1
    <2>3. elements' \in [0 .. capacity - 1 -> Cell]
      BY <2>1, <2>2
    <2> QED BY <1>2, <2>1, <2>3 DEF Indices
  <1> QED BY <1>1, <1>2 DEF Indices

LEMMA StepKeepsArray == ArrayInv /\ [ListNext]_lvars => ArrayInv'
  <1> SUFFICES ASSUME ArrayInv, [ListNext]_lvars PROVE ArrayInv'
    OBVIOUS
  <1> USE DEF ArrayInv, ListTypeOK, UsedCellsExist, NoCellsUnsized, Sized, Initialized
  <1>1. CASE Reinit
    <2>1. /\ capacity' \in {InitialCapacity, 0} /\ capacity' \in Nat /\ length' = 0
          /\ elements' = Blank(capacity') /\ buffer' \in {"valid", "null"}
          /\ elementSize' = (IF capacity' = 0 THEN 0 ELSE 1)
          /\ ret' \in {0, 1} /\ out' = Nothing
      BY <1>1, CListAssumption DEF Reinit, Report
    <2>2. elements' \in [0 .. capacity' - 1 -> Cell]
      BY <2>1, BlankCells
    <2>3. ListTypeOK'
      BY <2>1, <2>2
    <2>4. UsedCellsExist' /\ NoCellsUnsized'
      BY <2>1, CListAssumption
    <2> QED BY <2>3, <2>4
  <1>2. CASE Free
    BY <1>2, BlankCells DEF Free, Report
  <1>3. CASE UseAfterFailure
    BY <1>3 DEF UseAfterFailure
  <1>4. ASSUME NEW e \in Elem, AppendCopy(e) PROVE ArrayInv'
    BY <1>4, AppendKeepsArray
  <1>5. ASSUME NEW at \in Indices, At(at) PROVE ArrayInv'
    <2>1. /\ UNCHANGED <<elements, capacity, length, buffer, elementSize>>
          /\ ret' \in {0, 1} /\ out' \in {Nothing, Garbage} \cup {elements[i] : i \in {at} \cap (0 .. capacity - 1)}
      BY <1>5 DEF At, Report, Indices
    <2> QED BY <2>1 DEF Cell
  <1>6. ASSUME NEW at \in Indices, Rm(at) PROVE ArrayInv'
    BY <1>6, RmKeepsArray
  <1>7. ASSUME NEW at \in Indices, NEW e \in Elem, Insert(at, e) PROVE ArrayInv'
    BY <1>7, InsertKeepsArray
  <1>8. CASE UNCHANGED lvars
    BY <1>8 DEF lvars
  <1> QED BY <1>1, <1>2, <1>3, <1>4, <1>5, <1>6, <1>7, <1>8 DEF ListNext

(* Whatever allocation fails after list_init and whatever callers ignore,  *)
(* the cells in use lie inside the block that list_append doubled in time. *)
THEOREM CellsStayInBlock == ListSpec => [](ListTypeOK /\ UsedCellsExist)
  <1>1. ListSpec => []ArrayInv
    BY InitArray, StepKeepsArray, PTL DEF ListSpec
  <1>2. ArrayInv => ListTypeOK /\ UsedCellsExist
    BY DEF ArrayInv
  <1> QED BY <1>1, <1>2, PTL

-----------------------------------------------------------------------------
(***************************************************************************)
(* Refinement: the cells in use, read from cell 0 on, are the sequence.    *)
(***************************************************************************)
Stored == [i \in 1 .. length |-> elements[i - 1]]

LEMMA StoredIsSequence ==
    ASSUME ArrayInv, buffer = "valid", Sized
    PROVE  /\ Stored \in Seq(Cell)
           /\ Len(Stored) = length
           /\ \A i \in 1 .. length : Stored[i] = elements[i - 1]
  <1>1. Stored \in [1 .. length -> Cell]
    BY DEF Stored, ArrayInv, ListTypeOK, UsedCellsExist, Initialized
  <1> QED BY <1>1 DEF Stored, ArrayInv, ListTypeOK

LEMMA AppendRefines ==
    ASSUME ArrayInv, ArrayInv', Usable, Usable',
           NEW e \in Elem, AppendCopy(e)
    PROVE  Abstract!AAppend(e)
  <1>1. /\ elements' = [Grown EXCEPT ![length] = e]
        /\ length' = length + 1
        /\ buffer = "valid" /\ buffer' = "valid" /\ Sized
        /\ ret' = 0 /\ out' = Nothing
        /\ Writable
    BY DEF AppendCopy, AddUnsized, GrowFails, Report, Writable, Usable
  <1>2. \A i \in 1 .. length' : Stored'[i] = elements'[i - 1]
    BY DEF Stored
  <1>3. \A i \in 1 .. length + 1 :
          elements'[i - 1] = IF i = length + 1 THEN e ELSE elements[i - 1]
    <2>1. /\ GrownCapacity \in Nat /\ length < GrownCapacity
          /\ Grown \in [0 .. GrownCapacity - 1 -> Cell]
          /\ \A j \in 0 .. length - 1 : Grown[j] = elements[j]
      BY <1>1, GrownRoom
    <2>2. length \in Nat
      BY DEF ArrayInv, ListTypeOK
    <2>3. \A j \in 0 .. length : elements'[j] = IF j = length THEN e ELSE Grown[j]
      BY <1>1, <2>1, <2>2
    <2>4. ASSUME NEW i \in 1 .. length + 1
          PROVE  elements'[i - 1] = IF i = length + 1 THEN e ELSE elements[i - 1]
      BY <2>1, <2>2, <2>3
    <2> QED BY <2>4
  <1>4. Stored' = [i \in 1 .. length + 1 |->
                     IF i = length + 1 THEN e ELSE elements[i - 1]]
    BY <1>1, <1>3 DEF Stored
  <1>5. Append(Stored, e) = [i \in 1 .. length + 1 |->
                     IF i = length + 1 THEN e ELSE elements[i - 1]]
    <2>1. Stored \in Seq(Cell) /\ Len(Stored) = length /\ e \in Cell
      BY <1>1, StoredIsSequence DEF Cell
    <2>2. length \in Nat
      BY DEF ArrayInv, ListTypeOK
    <2>3. /\ Append(Stored, e) \in Seq(Cell)
          /\ Len(Append(Stored, e)) = length + 1
          /\ Append(Stored, e)[length + 1] = e
          /\ \A i \in 1 .. length : Append(Stored, e)[i] = Stored[i]
      BY <2>1, AppendProperties
    <2>4. \A i \in 1 .. length : Stored[i] = elements[i - 1]
      BY DEF Stored
    <2>5. \A i \in 1 .. length + 1 :
            Append(Stored, e)[i] = IF i = length + 1 THEN e ELSE elements[i - 1]
      BY <2>2, <2>3, <2>4
    <2>6. Append(Stored, e) \in [1 .. length + 1 -> Cell]
      BY <2>3, LenProperties
    <2> QED BY <2>5, <2>6
  <1> QED BY <1>1, <1>4, <1>5 DEF Abstract!AAppend, Abstract!Reply, Stored

LEMMA InsertRefines ==
    ASSUME ArrayInv, ArrayInv', Usable, Usable',
           NEW at \in Indices, NEW e \in Elem, Insert(at, e)
    PROVE  Abstract!AInsert(at, e) \/ Abstract!AAppend(e)
  <1>0. length \in Nat /\ at \in Nat
    BY DEF Indices, ArrayInv, ListTypeOK
  <1>1. CASE at > length
    <2>1. buffer = "valid" /\ Sized /\ ret' = 1 /\ out' = Nothing
          /\ UNCHANGED <<elements, length>>
      BY <1>0, <1>1 DEF Insert, Report, Initialized, Usable
    <2>2. Stored' = Stored /\ Len(Stored) = length
      BY <2>1, StoredIsSequence DEF Stored
    <2> QED BY <1>0, <1>1, <2>1, <2>2 DEF Abstract!AInsert, Abstract!Reply, Stored
  <1>2. CASE at = length
    <2>1. AppendCopy(e)
      BY <1>0, <1>2 DEF Insert
    <2> QED BY <2>1, AppendRefines
  <1>3. CASE at < length
    <2>1. /\ elements' = [i \in DOMAIN Grown |->
                  IF i = at THEN e
                  ELSE IF i > at /\ i <= length THEN Grown[i - 1]
                  ELSE Grown[i]]
          /\ length' = length + 1
          /\ buffer = "valid" /\ Sized
          /\ ret' = 0 /\ out' = Nothing
          /\ Writable
      BY <1>0, <1>3 DEF Insert, AddUnsized, GrowFails, Report, Writable, Usable
    <2>2. Len(Stored) = length
      BY <2>1, StoredIsSequence
    <2>3. \A i \in 1 .. length + 1 :
            elements'[i - 1] = IF i <= at THEN Stored[i]
                               ELSE IF i = at + 1 THEN e ELSE Stored[i - 1]
      <3>1. /\ GrownCapacity \in Nat /\ length < GrownCapacity
            /\ DOMAIN Grown = 0 .. GrownCapacity - 1
            /\ \A j \in 0 .. length - 1 : Grown[j] = elements[j]
        BY <2>1, GrownRoom
      <3>3. \A j \in 0 .. length :
              elements'[j] = IF j = at THEN e
                             ELSE IF j > at THEN Grown[j - 1] ELSE Grown[j]
        BY <1>0, <1>3, <2>1, <3>1
      <3>4. \A j \in 1 .. length : Stored[j] = elements[j - 1]
        BY DEF Stored
      <3>5. ASSUME NEW i \in 1 .. length + 1
            PROVE  elements'[i - 1] = IF i <= at THEN Stored[i]
                               ELSE IF i = at + 1 THEN e ELSE Stored[i - 1]
        <4>1. i - 1 \in 0 .. length /\ i \in Nat
          BY <1>0
        <4>2. elements'[i - 1] = IF i - 1 = at THEN e
                                 ELSE IF i - 1 > at THEN Grown[i - 2] ELSE Grown[i - 1]
          BY <3>3, <4>1
        <4>3. CASE i <= at
          BY <1>0, <1>3, <3>1, <3>4, <4>1, <4>2, <4>3
        <4>4. CASE i = at + 1
          BY <1>0, <4>2, <4>4
        <4>5. CASE i > at + 1
          <5>1. i - 1 \in 1 .. length /\ i - 2 \in 0 .. length - 1
            BY <1>0, <4>1, <4>5
          <5> QED BY <1>0, <3>1, <3>4, <4>2, <4>5, <5>1
        <4> QED BY <1>0, <4>1, <4>3, <4>4, <4>5
      <3> QED BY <3>5
    <2>4. Stored' = [i \in 1 .. length + 1 |->
                       IF i <= at THEN Stored[i]
                       ELSE IF i = at + 1 THEN e ELSE Stored[i - 1]]
      <3>1. Stored' = [i \in 1 .. length + 1 |-> elements'[i - 1]]
        BY <2>1 DEF Stored
      <3> QED BY <3>1, <2>3
    <2>5. Abstract!Inserted(at, e) = [i \in 1 .. Len(Stored) + 1 |->
                       IF i <= at THEN Stored[i]
                       ELSE IF i = at + 1 THEN e ELSE Stored[i - 1]]
      BY DEF Abstract!Inserted, Stored
    <2>7. Stored' = Abstract!Inserted(at, e)
      BY <2>2, <2>4, <2>5, Zenon
    <2>6. at <= Len(Stored)
      BY <1>0, <1>3, <2>2
    <2> QED BY <2>1, <2>6, <2>7 DEF Abstract!AInsert, Abstract!Reply, Stored
  <1> QED BY <1>0, <1>1, <1>2, <1>3

LEMMA RmRefines ==
    ASSUME ArrayInv, ArrayInv', Usable, NEW at \in Indices, Rm(at),
           buffer = "valid"
    PROVE  Abstract!ARemove(at)
  <1> USE DEF Indices, ArrayInv, ListTypeOK
  <1>1. Len(Stored) = length
    BY StoredIsSequence DEF Usable
  <1>2. CASE at >= length
    BY <1>1, <1>2 DEF Rm, Report, Abstract!ARemove, Abstract!Reply, Stored
  <1>3. CASE at < length
    <2>1. /\ elements' = [i \in DOMAIN elements |->
                 IF i >= at /\ i < length - 1 THEN elements[i + 1]
                 ELSE elements[i]]
          /\ length' = length - 1
          /\ ret' = 0 /\ out' = Nothing
      BY <1>3 DEF Rm, Report
    <2>2. \A i \in 1 .. length - 1 :
            elements'[i - 1] = IF i <= at THEN Stored[i] ELSE Stored[i + 1]
      <3>1. \A i \in 1 .. length : Stored[i] = elements[i - 1]
        BY StoredIsSequence DEF Usable
      <3>2. DOMAIN elements = 0 .. capacity - 1 /\ length <= capacity
        BY DEF UsedCellsExist, Usable, Initialized
      <3> QED BY <1>3, <2>1, <3>1, <3>2
    <2>3. Stored' = [i \in 1 .. length - 1 |->
                       IF i <= at THEN Stored[i] ELSE Stored[i + 1]]
      <3>1. Stored' = [i \in 1 .. length - 1 |-> elements'[i - 1]]
        BY <2>1 DEF Stored
      <3> QED BY <3>1, <2>2
    <2> QED BY <1>1, <1>3, <2>1, <2>3
            DEF Abstract!ARemove, Abstract!Reply, Abstract!Removed, Stored
  <1> QED BY <1>2, <1>3

LEMMA StepRefines ==
    ASSUME ArrayInv, ArrayInv', Usable, Usable',
           [ListNext]_lvars
    PROVE  [Abstract!ANext]_(Abstract!avars)
  <1> USE DEF Abstract!ANext, Abstract!avars
  <1>1. CASE Reinit \/ Free
    <2>1. length' = 0 /\ ret' = 0 /\ out' = Nothing
      BY <1>1 DEF Reinit, Free, Report, Usable
    <2>2. Stored' = << >>
      BY <2>1 DEF Stored
    <2> QED BY <2>1, <2>2 DEF Abstract!AReset, Abstract!Reply, Stored
  <1>2. CASE UseAfterFailure
    BY <1>2 DEF UseAfterFailure
  <1>3. ASSUME NEW e \in Elem, AppendCopy(e) PROVE Abstract!ANext
    BY <1>3, AppendRefines
  <1>4. ASSUME NEW at \in Indices, At(at) PROVE Abstract!ANext
    <2>1. buffer = "valid" /\ Sized
      BY <1>4 DEF At, Initialized, Usable
    <2>2. Len(Stored) = length /\ at \in 0 .. Len(Stored) + 1
      BY <2>1, StoredIsSequence DEF Indices
    <2>3. at < length => elements[at] = Stored[at + 1]
      <3>1. \A i \in 1 .. length : Stored[i] = elements[i - 1]
        BY <2>1, StoredIsSequence
      <3>2. length \in Nat
        BY DEF ArrayInv, ListTypeOK
      <3> QED BY <3>1, <3>2 DEF Indices
    <2>4. Abstract!AAt(at)
      BY <1>4, <2>1, <2>2, <2>3
      DEF At, Report, Abstract!AAt, Abstract!Reply, Stored
    <2> QED BY <2>2, <2>4 DEF Abstract!Positions, Stored
  <1>5. ASSUME NEW at \in Indices, Rm(at) PROVE Abstract!ANext
    <2>1. buffer = "valid" /\ Sized
      BY <1>5 DEF Rm, Initialized, Usable
    <2>2. at \in 0 .. Len(Stored) + 1
      BY <2>1, StoredIsSequence DEF Indices
    <2> QED BY <1>5, <2>1, <2>2, RmRefines DEF Abstract!Positions, Stored
  <1>6. ASSUME NEW at \in Indices, NEW e \in Elem, Insert(at, e)
        PROVE  Abstract!ANext
    <2>1. buffer = "valid" /\ Sized
      BY <1>6 DEF Insert, AppendCopy, AddUnsized, Writable, Initialized, Usable
    <2>2. at \in 0 .. Len(Stored) + 1
      BY <2>1, StoredIsSequence DEF Indices
    <2> QED BY <1>6, <2>2, InsertRefines DEF Abstract!Positions, Stored
  <1>7. CASE UNCHANGED lvars
    BY <1>7 DEF lvars
  <1> QED BY <1>1, <1>2, <1>3, <1>4, <1>5, <1>6, <1>7 DEF ListNext

(* Every operation of list.c does to the stored elements what list.h       *)
(* promises, for any values and any growth, and whatever allocation fails  *)
(* before or after it.                                                     *)
THEOREM ListImplementsSequence == ListSpec => ImplementsSequence
  <1>1. ListInit => Abstract!AInit
    <2>1. ASSUME ListInit PROVE Stored = << >>
      BY <2>1 DEF ListInit, Stored
    <2> QED BY <2>1 DEF ListInit, Abstract!AInit, Stored
  <1>2. ArrayInv /\ ArrayInv' /\ [ListNext]_lvars
          => [Usable /\ Usable' => [Abstract!ANext]_(Abstract!avars)]_lvars
    BY StepRefines DEF lvars
  <1> QED
    BY <1>1, <1>2, InitArray, StepKeepsArray, PTL
    DEF ListSpec, ImplementsSequence
=============================================================================
