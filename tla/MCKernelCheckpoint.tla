------------------------- MODULE MCKernelCheckpoint -------------------------
(***************************************************************************)
(* A kernel k that calls f and g; f calls h, and g calls both.  f and k    *)
(* have room for a table, g and h have not.  Tables begin at each of the   *)
(* three places in four words there are, and fill their room exactly or    *)
(* not.  Other kernels have regions in regions, a loop in a region, too    *)
(* little room, or their instructions before and behind the table, as the  *)
(* kernels of the tests have.                                              *)
(***************************************************************************)
EXTENDS KernelCheckpoint

Other == Instr("other", 0)
Call(fn) == [op |-> "cal", to |-> 0, fn |-> fn]

\* A function whose instructions name the distance to where their lanes meet,
\* behind p others, with room for a table, or none (0), and those behind the room.
Around(p, body, room, tail) == [p |-> p, room |-> room, body |-> body, tail |-> tail]
Function(p, room, body) == Around(p, body, room, <<>>)

Times(n, instr) == [i \in 1 .. n |-> instr]
\* The address of instruction n, counted from 0.
InstrAddress(n) == n + (n \div 3) + 1
Assemble(f) ==
    LET instrs == Times(f.p, Other) \o f.body \o <<Instr("end", 0)>>
                  \o Times(f.room, Instr("bpt", 0)) \o f.tail \o Times(2, Instr("end", 0))
        At0(a) == a - (a \div 4)
        To(a)  == LET i == instrs[At0(a)]
                  IN  IF i.op = "cal" THEN a + 1
                      ELSE IF i.to = 0 THEN 0 ELSE InstrAddress(At0(a) - 1 + i.to)
    IN  [a \in 0 .. InstrAddress(Len(instrs) - 1) |->
            IF IsControl(a) THEN Control ELSE [instrs[At0(a)] EXCEPT !.to = To(a)]]

K == <<Instr("ssy", 4), Other, Call("f"), Other, Other, Call("g"), Other>>
F == <<Instr("ssy", 4), Other, Other, Call("h"), Other, Other>>
G(inside, behind) ==
    Function(0, 0, <<Instr("ssy", 4), Other, Call(inside), Other, Other, Call(behind), Other>>)
H == Function(0, 0, <<Instr("pbk", 2), Other, Other, Other>>)
Short == <<Other, Call("f"), Other>>
Nested == <<Instr("ssy", 5), Instr("ssy", 2), Other, Other, Other, Other, Other>>
SameEnd == <<Instr("ssy", 4), Instr("ssy", 3), Other, Other, Other, Other, Other>>
Loop == <<Instr("ssy", 5), Instr("pbk", 2), Other, Other, Other, Other>>
Open2 == <<Other, Instr("ssy", 3), Other, Other, Other>>
Calls2 == <<Other, Call("f"), Instr("ssy", 4), Other, Call("f"), Other, Other>>

Sources ==
    << [k |-> Function(0, 10, K), f |-> Function(2, 8, F), g |-> G("f", "h"), h |-> H],
       [k |-> Function(1, 9, K),  f |-> Function(1, 7, F), g |-> G("h", "f"), h |-> H],
       [k |-> Function(2, 10, K), f |-> Function(0, 8, F), g |-> G("f", "h"), h |-> H],
       [k |-> Function(0, 6, Short), f |-> Function(1, 5, <<Call("h"), Other>>), h |-> H],
       [k |-> Function(1, 7, Nested)], [k |-> Function(1, 8, Nested)],
       [k |-> Function(1, 7, SameEnd)],
       [k |-> Function(0, 5, Loop)], [k |-> Function(0, 4, Loop)], [k |-> Function(0, 0, Loop)],
       [k |-> Around(1, <<>>, 8, Open2 \o Open2)], [k |-> Around(0, Open2, 8, Open2)],
       [k |-> Around(0, <<>>, 10, Calls2), f |-> Around(2, <<>>, 6, Open2)] >>
MCWarps == <<1, 1, 1, 2, 2, 2, 2, 2, 2, 2, 2, 1, 1>>
MCPrograms == [i \in DOMAIN Sources |-> [fn \in DOMAIN Sources[i] |-> Assemble(Sources[i][fn])]]
=============================================================================
