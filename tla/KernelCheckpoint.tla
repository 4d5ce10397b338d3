--------------------------- MODULE KernelCheckpoint ---------------------------
(***************************************************************************)
(* The GDB tool that checkpoints a kernel while it runs on the GPU and     *)
(* restores it (gpu/src/main.c, cricket-cr.c).                             *)
(*                                                                         *)
(* A checkpoint lets a warp run on, if it is stopped in a function that    *)
(* has no room for a jump table, and saves where it is: the call stack,    *)
(* the program counter and the active lanes.  A restore launches the       *)
(* kernel with the patched functions, and has each warp walk through their *)
(* jump tables by single steps until its synchronization points, return    *)
(* addresses, lanes and program counter are what they were.                *)
(*                                                                         *)
(* How the GPU executes an instruction is taken from how the tool uses it. *)
(* Lanes that are set aside wait where their region ends, or have a branch *)
(* of the region still to run.                                             *)
(***************************************************************************)
EXTENDS JumpTable, Functions

CONSTANTS Programs, \* the programs the kernel may be of: their functions, by name
          Warps,    \* the number of warps each is launched with
          OnSmZero, \* the warps on the multiprocessor 0
          Lane,
          Kernel,   \* its name
          MaxDepth  \* bound on nested calls

ASSUME KernelAssumption ==
    /\ Warps \in [DOMAIN Programs -> Nat] /\ OnSmZero \subseteq Nat
    /\ 0 \in Lane
    /\ \A p \in DOMAIN Programs : Kernel \in DOMAIN Programs[p]
    /\ MaxDepth \in Nat

\* What a restore says of a function that is not in the jump tables.
NoTable == "no table"

ASSUME CodeAssumption ==
    \A p \in DOMAIN Programs :
        /\ NoTable \notin DOMAIN Programs[p]
        /\ \A fn \in DOMAIN Programs[p] :
              /\ IsFunction(Programs[p][fn])
              /\ \A a \in At(Programs[p][fn], "cal") : Programs[p][fn][a].fn \in DOMAIN Programs[p]

VARIABLES
    program,     \* the one it is of
    warps,       \* where each warp is stopped; during a restore: where it was
    files,       \* what the checkpoint says of each warp
    status,      \* what the tool does
    next,        \* the warp it is at
    level,       \* restore: the level of the call stack,
    index,       \* the function in whose table the warp should be, if it has one,
    cur_address, \* and where
    gpu          \* the warps of the new kernel

kvars == <<program, warps, files, status, next, level, index, cur_address, gpu>>

Warp == 0 .. Warps[program] - 1

\* The functions, what RRTO_elf_build_fun_info says of them, and what
\* RRTO_elf_patch_all makes of them.
Code(fn) == Programs[program][fn]
OfEach(Op(_)) == [p \in DOMAIN Programs |-> [fn \in DOMAIN Programs[p] |-> Op(Programs[p][fn])]]
FunInfo == OfEach(HasRoom)
HasTable(fn) == FunInfo[program][fn]
JumpTables == OfEach(LAMBDA code : IF HasRoom(code) THEN Index(code) ELSE <<>>)
JmpTbl(fn) == JumpTables[program][fn]
NewBinary == OfEach(Patched)
PatchedCode(fn) == NewBinary[program][fn]
Finished == [stack |-> <<>>, active |-> {}, level |-> 0, rest |-> 0]
NoFile == [stack |-> <<>>, active |-> {}]

-----------------------------------------------------------------------------
(* Where a warp may be stopped: a call stack, the innermost function first *)
(* and the others at return addresses; the level with the region in which  *)
(* lanes are set aside (0: none are), and where in it those lanes are.     *)

Frame(fn, pc) == [fn |-> fn, pc |-> pc]

\* The function that calls at the given return addresses lead to.
Called(p, calls) ==
    IF calls = <<>> THEN Kernel ELSE p[Head(calls).fn][Head(calls).pc - 1].fn
CallsOf(p, fn) == {Frame(fn, a + 1) : a \in At(p[fn], "cal")}
Calls(p) ==
    LET frames == UNION {CallsOf(p, fn) : fn \in DOMAIN p}
    IN  {calls \in UNION {[1 .. n -> frames] : n \in 0 .. MaxDepth} :
            \A i \in DOMAIN calls : calls[i].fn = Called(p, SubSeq(calls, i + 1, Len(calls)))}

\* Where lanes meet, it depends on the GPU whether the region is still open.
Stops(code) ==
    {a \in DOMAIN code :
        /\ ~IsControl(a) /\ code[a].op \in {"other", "ssy", "pbk", "cal"}
        /\ \A b \in Regions(code) : a # Skip(code[b].to)}

\* Where a function on the stack is: at its call, unless it is the innermost.
Where(stack, i) == IF i = 1 THEN stack[i].pc ELSE stack[i].pc - 1
\* The regions that are open there.
Open(code, pc, op) == {a \in At(code, op) : a < pc /\ pc < code[a].to}

\* Where the region ends in which the lanes of a position are set aside.
RegionStart(p, stack, i) == Max(Open(p[stack[i].fn], Where(stack, i), "ssy"))
RegionEnd(p, stack, i) == Skip(p[stack[i].fn][RegionStart(p, stack, i)].to)
Rests(p, stack, i) ==
    {RegionEnd(p, stack, i)} \cup
    {a \in Stops(p[stack[i].fn]) : /\ RegionStart(p, stack, i) < a /\ a < RegionEnd(p, stack, i)
                                   /\ a # Where(stack, i)}

Converged(stack) == [stack |-> stack, active |-> Lane, level |-> 0, rest |-> 0]
Diverged(p, stack) ==
    UNION {[stack : {stack}, active : SUBSET Lane \ {{}, Lane}, level : {i},
            rest : Rests(p, stack, i)]
           : i \in {j \in DOMAIN stack : Open(p[stack[j].fn], Where(stack, j), "ssy") # {}}}
Positions(p) ==
    LET stacks == UNION {{<<Frame(Called(p, calls), pc)>> \o calls : pc \in Stops(p[Called(p, calls)])}
                         : calls \in Calls(p)}
    IN  UNION {{Converged(stack)} \cup Diverged(p, stack) : stack \in stacks}

Init ==
    /\ program \in DOMAIN Programs
    /\ warps \in [Warp -> Positions(Programs[program]) \cup {Finished}]
    /\ files = [w \in Warp |-> NoFile]
    /\ status = "checkpoint" /\ next = 0
    /\ level = 0 /\ index = NoTable /\ cur_address = 0
    /\ gpu = [w \in Warp |-> [fn |-> Kernel, pc |-> 0, tokens |-> <<>>, active |-> Lane]]

-----------------------------------------------------------------------------
(* Checkpoint.                                                             *)

\* RRTO_cr_callstack: lane 0, whether it is active or not.
CallStack(pos) ==
    IF 0 \in pos.active THEN pos.stack
    ELSE <<Frame(pos.stack[pos.level].fn, pos.rest)>>
         \o SubSeq(pos.stack, pos.level + 1, Len(pos.stack))

\* resumeWarpsUntilPC: the warp runs to pc in the function at that depth, where the
\* lanes set aside in what is left meanwhile join.
RunTo(pos, depth, pc) ==
    LET i     == Len(pos.stack) - depth + 1
        stack == <<Frame(pos.stack[i].fn, pc)>> \o SubSeq(pos.stack, i + 1, Len(pos.stack))
        apart == \/ pos.level > i
                 \/ pos.level = i /\ pc < RegionEnd(Programs[program], pos.stack, i)
    IN  IF apart THEN [pos EXCEPT !.stack = stack, !.level = @ - i + 1]
                 ELSE Converged(stack)

\* The functions without a table, by level.
NoRoom(stack) == {i \in DOMAIN stack : ~HasTable(stack[i].fn)}

\* Mutant of StepsUp: nothing has to be left.
NeverStepsUp(i) == FALSE
\* Is level i, counted from 1, left for the level above it? (i > 1)
StepsUp(i) == i > 2

\* Where the lanes meet that the outermost function without room has apart, and
\* the end of its loop, if they lie ahead.
JoinsAt(frame) ==
    LET ahead(op) == LET to == Region(Code(frame.fn), op, frame.pc)
                     IN  IF to > frame.pc THEN <<Skip(to)>> ELSE <<>>
    IN  ahead("ssy") \o ahead("pbk")

\* How far RRTO_cr_make_checkpointable lets the warp run in that function.
Outermost(stack) == Max(NoRoom(stack))
RunsTo(stack) ==
    LET i == Outermost(stack)
    IN  IF NoRoom(stack) = {} THEN <<>>
        ELSE (IF StepsUp(i) THEN <<Skip(stack[i].pc + 1)>> ELSE <<>>) \o JoinsAt(stack[i])

\* The position in which the warp is saved, when it has run to each of these.
Checkpointable(pos, pcs) ==
    LET stack == CallStack(pos)
        depth == Len(stack) - Outermost(stack) + 1
        ran[n \in 0 .. Len(pcs)] == IF n = 0 THEN pos ELSE RunTo(ran[n - 1], depth, pcs[n])
    IN  ran[Len(pcs)]

\* The kernel itself has no room.
NoRoomAtAll(pos) == Room(Code(pos.stack[Len(pos.stack)].fn)) = 0

\* A stop that lies behind the warp is never reached.
Waits(pcs) == \E i, j \in DOMAIN pcs : i < j /\ pcs[i] > pcs[j]

\* The warp is not where it was to run to, or its lanes have not met.
Missed(pos, pcs) ==
    LET stack == CallStack(pos)
        i     == Outermost(stack)
    IN  /\ pcs # <<>>
        /\ \E new \in {Checkpointable(pos, pcs)} :
              \/ Len(CallStack(new)) # Len(stack) - i + 1
              \/ new.active # Lane /\ JoinsAt(stack[i]) # <<>>

Ends(s) == status' = s /\ UNCHANGED <<program, warps, files, next, level, index, cur_address, gpu>>

\* The kernel's name is that of a warp on multiprocessor 0.
NoKernelName == \A w \in OnSmZero \cap Warp : warps[w] = Finished

CheckpointWarp ==
    /\ status = "checkpoint" /\ next < Warps[program]
    /\ ~NoKernelName
    /\ LET pos == warps[next] IN
       \/ pos = Finished /\ UNCHANGED <<warps, files>>
       \/ /\ pos # Finished
          /\ ~NoRoomAtAll(pos)
          /\ \E pcs \in {RunsTo(CallStack(pos))} :
                /\ ~Waits(pcs) /\ ~Missed(pos, pcs)
                /\ warps' = [warps EXCEPT ![next] = Checkpointable(pos, pcs)]
          /\ files' = [files EXCEPT ![next] = [stack |-> CallStack(warps'[next]),
                                               active |-> warps'[next].active]]
    /\ next' = next + 1
    /\ UNCHANGED <<program, status, level, index, cur_address, gpu>>

CheckpointFails ==
    /\ status = "checkpoint" /\ next < Warps[program]
    /\ \/ NoKernelName /\ Ends("failed")
       \/ /\ ~NoKernelName /\ warps[next] # Finished
          /\ LET pos == warps[next] IN
             \/ NoRoomAtAll(pos) /\ Ends("failed")
             \/ /\ ~NoRoomAtAll(pos)
                /\ \E pcs \in {RunsTo(CallStack(pos))} :
                      \/ Waits(pcs) /\ Ends("waiting")
                      \/ ~Waits(pcs) /\ Missed(pos, pcs) /\ Ends("failed")

-----------------------------------------------------------------------------
(* What the GPU does in a single step of a patched function.               *)

Word(warp) ==
    LET code == PatchedCode(warp.fn)
    IN  IF warp.pc \in DOMAIN code THEN code[warp.pc] ELSE Instr("other", 0)

\* The warp goes on; a branch by the offset in a register, a jump to the address.
\* Lanes set aside wait at the token on top.
Execute(warp, word, offset, aside) ==
    [warp EXCEPT !.tokens = IF word.op \notin {"ssy", "pret"} THEN @
                            ELSE <<[kind |-> word.op, fn |-> warp.fn, to |-> word.to]>> \o @,
                 !.active = IF word.op = "sync" THEN @ \ aside ELSE @,
                 !.pc = Skip(@ + 1 + IF word.op = "brx" THEN offset ELSE 0)]
Step(warp, aside) == Execute(warp, Word(warp), 0, aside)
BranchBy(warp, offset) == Execute(warp, Word(warp), offset, {})
JumpTo(warp, frame) ==
    IF Word(warp).op = "jmx" THEN [warp EXCEPT !.fn = frame.fn, !.pc = Skip(frame.pc)]
    ELSE Step(warp, {})

-----------------------------------------------------------------------------
(* Restore.                                                                *)

Set(warp) == gpu' = [gpu EXCEPT ![next] = warp]

\* All warps of the new kernel go to the branch around the breakpoints.
StartRestore ==
    /\ status = "checkpoint" /\ next = Warps[program]
    /\ \E w \in OnSmZero \cap Warp : files[w] # NoFile
    /\ HasTable(Kernel)
    /\ status' = "enter"
    /\ next' = 0
    /\ gpu' = [w \in Warp |-> [gpu[w] EXCEPT !.pc = JmpTbl(Kernel).start_address]]
    /\ UNCHANGED <<program, warps, files, level, index, cur_address>>

\* The kernel is not found in the jump tables.
RestoreFails ==
    /\ status = "checkpoint" /\ next = Warps[program]
    /\ ~HasTable(Kernel)
    /\ Ends("failed")

\* Mutant of Entry: control words are not stepped over.
EntryAsIs == JmpTbl(Kernel).start_address + 1
\* Where the restore takes a warp to be when it has entered the kernel's table.
Entry == Skip(JmpTbl(Kernel).start_address + 1)

\* Mutant of ExitFrom: the warp is sent one word too far.
ExitTooFar == JmpTbl(Kernel).exit_address - Entry
ExitFrom == JmpTbl(Kernel).exit_address - Entry - 1

TopLevel(stack) == Len(stack)

\* A warp that is not in the checkpoint goes to the final EXIT.
EnterTable ==
    /\ status = "enter" /\ next < Warps[program]
    /\ \E entered \in {Step(gpu[next], {})} :
           \/ /\ files[next] = NoFile
              /\ Set(BranchBy(entered, ExitFrom))
              /\ next' = next + 1
              /\ UNCHANGED <<status, level, index, cur_address>>
           \/ /\ files[next] # NoFile
              /\ Set(entered)
              /\ cur_address' = Entry
              /\ level' = TopLevel(files[next].stack)
              /\ index' = Kernel
              /\ status' = "ssy"
              /\ UNCHANGED next
    /\ UNCHANGED <<program, warps, files>>

\* A walk to an entry of the table and one step on.
Take(entry, aside) ==
    \E there \in {BranchBy(gpu[next], entry - cur_address - 1)} : Set(Step(there, aside))

\* Mutant of Behind: control words are not stepped over.
BehindAsIs(entry) == entry + 1
\* Where RRTO_cr_rst_ssy takes the warp to be behind an entry.
Behind(entry) == Skip(entry + 1)

\* RRTO_elf_pc_info at a restore: it reads the new binary, where the entries of a
\* table that lies before the address are regions like those of the function.
RegionThere(frame) == Region(PatchedCode(frame.fn), "ssy", frame.pc)

\* RRTO_cr_rst_ssy: is there a region to open?
InRegion(frame) ==
    LET to == RegionThere(frame)
    IN  to >= IF IsControl(to) THEN frame.pc - 1 ELSE frame.pc

RestoreSsy ==
    /\ status = "ssy" /\ index # NoTable
    /\ LET frame == files[next].stack[level]
           entry == EntryAddress(Code(index), JmpTbl(index), "ssy", RegionThere(frame))
       IN  IF JmpTbl(index).has_ssy /\ InRegion(frame)
           THEN Take(entry, {}) /\ cur_address' = Behind(entry)
           ELSE UNCHANGED <<gpu, cur_address>>
    /\ status' = IF level > 1 THEN "call" ELSE "lanes"
    /\ UNCHANGED <<program, warps, files, next, level, index>>

\* Mutant of Arrived: the innermost function is taken to have a table.
NeverArrived(frame, to) == FALSE
\* Is the warp where it was stopped, in a function without a table?
Arrived(frame, to) == level - 1 = 1 /\ to = frame.pc

\* RRTO_cr_rst_subcall.
RestoreSubcall ==
    /\ status = "call"
    /\ Take(EntryAddress(Code(index), JmpTbl(index), "pret", files[next].stack[level].pc), {})
    /\ status' = "jump"
    /\ UNCHANGED <<program, warps, files, next, level, index, cur_address>>

\* The jump into the called function: to its table, or to where it was stopped.
EnterCalled ==
    /\ status = "jump"
    /\ LET called == files[next].stack[level - 1]
           to     == IF HasTable(called.fn) THEN JmpTbl(called.fn).start_address + 1
                                            ELSE called.pc
       IN  /\ Set(JumpTo(gpu[next], Frame(called.fn, to)))
           /\ cur_address' = to
           /\ index' = IF HasTable(called.fn) THEN called.fn ELSE NoTable
           /\ status' = IF Arrived(called, to) THEN "lanes" ELSE "ssy"
    /\ level' = level - 1
    /\ UNCHANGED <<program, warps, files, next>>

\* The lanes that were not active.
SetLanesAside ==
    /\ status = "lanes"
    /\ \/ /\ files[next].active = Lane
          /\ UNCHANGED <<gpu, cur_address>>
       \/ /\ files[next].active # Lane /\ index # NoTable
          /\ LET sync == JmpTbl(index).sync_address
             IN  /\ Take(sync, Lane \ files[next].active)
                 /\ cur_address' = sync + 1
    /\ status' = "pc"
    /\ UNCHANGED <<program, warps, files, next, level, index>>

RestorePc ==
    /\ status = "pc"
    /\ LET pc == files[next].stack[1].pc
       IN  IF cur_address # pc THEN Set(BranchBy(gpu[next], pc - cur_address - 1))
                               ELSE UNCHANGED gpu
    /\ next' = next + 1
    /\ status' = "enter"
    /\ UNCHANGED <<program, warps, files, level, index, cur_address>>

\* A table is used that was not found.
Crash ==
    /\ index = NoTable
    /\ \/ status = "ssy"
       \/ status = "lanes" /\ files[next].active # Lane
    /\ Ends("crashed")

-----------------------------------------------------------------------------
Next ==
    \/ CheckpointWarp \/ CheckpointFails
    \/ StartRestore \/ RestoreFails \/ EnterTable
    \/ RestoreSsy \/ RestoreSubcall \/ EnterCalled
    \/ SetLanesAside \/ RestorePc \/ Crash

Spec == Init /\ [][Next]_kvars

-----------------------------------------------------------------------------
(***************************************************************************)
(* Properties                                                              *)
(***************************************************************************)
\* The regions a function on the stack is in, the innermost first, and the call it
\* is to return from.
Tokens(stack, i) ==
    LET code == Code(stack[i].fn)
        open == Open(code, Where(stack, i), "ssy") \cup Open(code, Where(stack, i), "pbk")
        at   == [j \in 1 .. Cardinality(open) |-> Nth(open, Cardinality(open) + 1 - j)]
    IN  [j \in DOMAIN at |-> [kind |-> code[at[j]].op, fn |-> stack[i].fn, to |-> code[at[j]].to]]
        \o IF i < Len(stack)
           THEN <<[kind |-> "pret", fn |-> stack[i + 1].fn, to |-> stack[i + 1].pc]>>
           ELSE <<>>
\* Those of all functions from a level of the stack on.
TokensFrom(stack) ==
    LET from[i \in 1 .. Len(stack) + 1] ==
            IF i > Len(stack) THEN <<>> ELSE Tokens(stack, i) \o from[i + 1]
    IN  from
\* The warp as it was.
AsSaved(pos) ==
    [fn |-> Head(pos.stack).fn, pc |-> Head(pos.stack).pc, active |-> pos.active,
     tokens |-> TokensFrom(pos.stack)[1]]

(* What a restore can bring back.                                          *)
\* All functions but the innermost have tables.
TablesAbove(stack) == NoRoom(stack) \subseteq {1}
\* The lanes set aside wait where the innermost region ends.
LanesWait(pos) ==
    pos.level # 0 => /\ pos.level = 1
                     /\ pos.rest = RegionEnd(Programs[program], pos.stack, 1)
                     /\ HasTable(pos.stack[1].fn)
\* A level is in no region, or in one, which was opened last before its address; it
\* is neither about to open one nor at its first instruction, which is taken for the
\* end of a region at address 0; and the table's last entry is not taken for the
\* region, as it is behind the table until the function's next region opens.
OneRegion(stack, i) ==
    LET code == Code(stack[i].fn)
        here == Where(stack, i)
        to   == Region(code, "ssy", stack[i].pc)
    IN  /\ Open(code, here, "pbk") = {}
        /\ \A a, b \in Open(code, here, "ssy") : a = b
        /\ {code[a].to : a \in Open(code, here, "ssy")} = IF to > here THEN {to} ELSE {}
        /\ code[stack[i].pc].op # "ssy" /\ stack[i].pc # 1
        /\ RegionThere(stack[i]) = to
\* No control word where only the kernel's entry and RRTO_cr_rst_ssy reckon with one.
Reckoned(pos) ==
    /\ \A i \in 1 .. Len(pos.stack) - 1 :
          HasTable(pos.stack[i].fn) => ~IsControl(JmpTbl(pos.stack[i].fn).start_address + 1)
    /\ pos.level # 0 => ~IsControl(JmpTbl(pos.stack[1].fn).sync_address + 1)
Restorable(pos) ==
    /\ 0 \in pos.active
    /\ TablesAbove(pos.stack) /\ LanesWait(pos) /\ Reckoned(pos)
    /\ \A i \in DOMAIN pos.stack : OneRegion(pos.stack, i)

Restored(w) == status \in {"enter", "ssy", "call", "jump", "lanes", "pc"} /\ w < next

(* A restored warp has the regions, return addresses, lanes and program    *)
(* counter it was saved with, whichever functions on its stack have tables *)
(* and wherever in four words the tables begin; one that had finished      *)
(* before the checkpoint finishes at once, inside nothing and with all its *)
(* lanes.                                                                  *)
RestoredWhereSaved ==
    \A w \in Warp : Restored(w) =>
        /\ files[w] # NoFile /\ Restorable(warps[w]) => gpu[w] = AsSaved(warps[w])
        /\ warps[w] = Finished =>
              Word(gpu[w]).op = "exit" /\ gpu[w].tokens = <<>> /\ gpu[w].active = Lane

(* The tool steps warps blindly: whenever it is about to send a warp on,   *)
(* the warp is at the branch where the tool takes it to be.                *)
KnowsWhereItIs ==
    status \in {"ssy", "call", "lanes", "pc"} /\ index # NoTable /\ Restorable(warps[next]) =>
        gpu[next].pc = cur_address /\ Word(gpu[next]).op = "brx"

(* No restore uses a table that is not there, unless a function other than *)
(* the innermost has none, or lanes are apart in one that has none.  Of a  *)
(* saved stack only the two innermost functions may be without one:        *)
(* main.c:612 says the first alone, but RRTO_cr_make_checkpointable leaves *)
(* the second where it is.                                                 *)
NoTableIsMissed ==
    /\ status = "crashed" => ~Restorable(warps[next])
    /\ \A w \in Warp : files[w] # NoFile => NoRoom(files[w].stack) \subseteq {1, 2}

(* A table has control words where the hardware skips words, fits into the *)
(* buffer it is composed in, and replaces breakpoints only, unless there   *)
(* is exactly the room RRTO_elf_patch_all asks for.                        *)
TableFits ==
    OfEach(LAMBDA code : ControlInPlace(code) /\ FitsBuffer(code) /\ ReplacesBreakpoints(code))
TablesFit ==
    \A fn \in DOMAIN Programs[program] : HasTable(fn) => TableFits[program][fn]
=============================================================================
