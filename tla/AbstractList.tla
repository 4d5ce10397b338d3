---------------------------- MODULE AbstractList ----------------------------
(***************************************************************************)
(* What cpu/list.h promises its callers: a growable sequence with 0-based  *)
(* positions.  Each operation either does its work and reports 0 or, when  *)
(* the position is out of bounds, leaves the sequence alone and reports 1. *)
(* CList is shown to implement this module.                                *)
(***************************************************************************)
EXTENDS Integers, Sequences

CONSTANTS Elem,     \* the values a caller may store
          Nothing   \* the out-parameter of a call that hands nothing back

VARIABLES content,  \* the sequence
          ret,      \* return code of the last call
          out       \* element handed back by the last call, or Nothing

avars == <<content, ret, out>>

Reply(code, value) == ret' = code /\ out' = value

AInit == content = <<>> /\ ret = 0 /\ out = Nothing

AReset == content' = <<>> /\ Reply(0, Nothing)

AAppend(e) == content' = Append(content, e) /\ Reply(0, Nothing)

AAt(at) ==
    /\ UNCHANGED content
    /\ \/ at < Len(content) /\ Reply(0, content[at + 1])
       \/ at >= Len(content) /\ Reply(1, Nothing)

Inserted(at, e) ==
    [i \in 1 .. Len(content) + 1 |->
        IF i <= at THEN content[i]
        ELSE IF i = at + 1 THEN e ELSE content[i - 1]]

AInsert(at, e) ==
    \/ /\ at <= Len(content)
       /\ content' = Inserted(at, e)
       /\ Reply(0, Nothing)
    \/ at > Len(content) /\ Reply(1, Nothing) /\ UNCHANGED content

Removed(at) ==
    [i \in 1 .. Len(content) - 1 |->
        IF i <= at THEN content[i] ELSE content[i + 1]]

ARemove(at) ==
    \/ at < Len(content) /\ content' = Removed(at) /\ Reply(0, Nothing)
    \/ at >= Len(content) /\ Reply(1, Nothing) /\ UNCHANGED content

\* Every position past the end is refused alike: one of them stands for all.
Positions == 0 .. Len(content) + 1

ANext ==
    \/ AReset
    \/ \E e \in Elem : AAppend(e)
    \/ \E at \in Positions :
          AAt(at) \/ ARemove(at) \/ \E e \in Elem : AInsert(at, e)

ASpec == AInit /\ [][ANext]_avars
=============================================================================
