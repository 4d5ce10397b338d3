------------------------------ MODULE JumpTable ------------------------------
(***************************************************************************)
(* The jump tables of the GDB tool (gpu/src/cricket-elf.c).                *)
(*                                                                         *)
(* Before a kernel is restored each of its functions is patched: the run   *)
(* of breakpoints the compiler left in it is replaced by a table that can  *)
(* push any of the function's synchronization points (SSY), any of its     *)
(* return addresses (PRET), leave the kernel (EXIT), set lanes aside       *)
(* (SYNC) and branch anywhere (BRX).                                       *)
(*                                                                         *)
(* A function is its instructions by address, in units of 8 bytes from its *)
(* start.  Every fourth word steers the three after it and is no           *)
(* instruction; the hardware goes on behind it.                            *)
(***************************************************************************)
EXTENDS Integers, FiniteSets, SequencesExt

\* An instruction, with the address it names: where lanes meet, a call returns.
Instr(op, to) == [op |-> op, to |-> to, fn |-> ""]
Control == Instr("control", 0)

IsControl(a) == a % 4 = 0
Skip(a) == IF IsControl(a) THEN a + 1 ELSE a

At(code, op) == {a \in DOMAIN code : code[a].op = op}
Regions(code) == At(code, "ssy") \cup At(code, "pbk")

\* RRTO_elf_find_bpt: the first run of breakpoints, 0 if there is none, and its
\* length in instructions.
FirstBpt(code) == LET bpts == At(code, "bpt") IN IF bpts = {} THEN 0 ELSE Min(bpts)
Room(code) ==
    LET first == FirstBpt(code)
        ends  == {a \in DOMAIN code : /\ a > first /\ ~IsControl(a)
                                      /\ code[a].op # "bpt"}
    IN  IF first = 0 THEN 0 ELSE Cardinality({a \in first .. Min(ends) - 1 : ~IsControl(a)})

\* RRTO_elf_count_ssy and RRTO_elf_count_cal: the destinations in code order.
Nth(addresses, i) ==
    CHOOSE a \in addresses : Cardinality({b \in addresses : b < a}) = i - 1
Destinations(code, op) ==
    [i \in 1 .. Cardinality(At(code, op)) |-> code[Nth(At(code, op), i)].to]

Needed(code) ==
    2 * Cardinality(At(code, "ssy")) + 2 * Cardinality(At(code, "cal")) + 3
HasRoom(code) == Room(code) # 0 /\ Room(code) >= Needed(code)

-----------------------------------------------------------------------------
\* Mutant of IsSteered: control words are counted from the table's start.
SteeredFromStart(code, i) == i % 4 = 0
\* Is word i of the table, counted from 0, a control word? (ctrl_offset)
IsSteered(code, i) == i % 4 = 4 - (FirstBpt(code) % 4)

\* The instructions of the table: an entry for each destination, and the last three.
Branch == Instr("brx", 0)
Pairs(destinations, op, jump) ==
    [k \in 1 .. 2 * Len(destinations) |->
        IF k % 2 = 1 THEN Instr(op, destinations[(k + 1) \div 2]) ELSE jump]
Instructions(code) ==
    <<Branch>>
    \o Pairs(Destinations(code, "ssy"), "ssy", Branch)
    \o Pairs(Destinations(code, "cal"), "pret", Instr("jmx", 0))
    \o <<Instr("exit", 0), Instr("sync", 0), Branch>>

\* How many of the first i words are instructions.
Placed(code, i) == Cardinality({j \in 0 .. i - 1 : ~IsSteered(code, j)})

\* The words RRTO_elf_patch_all writes over the breakpoints: an instruction each,
\* behind a control word where one is due.
Table(code) ==
    LET instrs == Instructions(code)
        length == CHOOSE n \in 1 .. 2 * Len(instrs) :
                      ~IsSteered(code, n - 1) /\ Placed(code, n) = Len(instrs)
    IN  [i \in 1 .. length |-> IF IsSteered(code, i - 1) THEN Control
                                                       ELSE instrs[Placed(code, i)]]

\* The words the table is composed in.
BufferSize(code) == Needed(code) + Needed(code) \div 3 + 2

\* The address of word i of the table, counted from 1.
Address(code, i) == FirstBpt(code) + i - 1

\* The word before the breakpoints that is no control word: the branch around them.
StartAddress(code) ==
    LET before == FirstBpt(code) - 1 IN IF IsControl(before) THEN before - 1 ELSE before

\* RRTO_jmptable_index: the words, and where they come to be.
Index(code) ==
    LET words == Table(code)
        Where(op) == Address(code, CHOOSE i \in DOMAIN words : words[i].op = op)
    IN  [words |-> words, start_address |-> StartAddress(code),
         exit_address |-> Where("exit"), sync_address |-> Where("sync"),
         has_ssy |-> At(code, "ssy") # {}]

\* RRTO_elf_get_jmptable_addr: 0 if there is no such entry.
EntryAddress(code, jmptbl, op, to) ==
    LET entries == {i \in DOMAIN jmptbl.words : jmptbl.words[i].op = op /\ jmptbl.words[i].to = to}
    IN  IF entries = {} THEN 0 ELSE Address(code, Min(entries))

\* The function as RRTO_elf_patch writes it to the new binary.
Patched(code) ==
    LET words == Table(code)
        first == FirstBpt(code)
        last  == first + Len(words) - 1
    IN  IF ~HasRoom(code) THEN code
        ELSE [a \in DOMAIN code \cup first .. last |->
                IF a \in first .. last THEN words[a - first + 1] ELSE code[a]]

\* RRTO_elf_pc_info: where the lanes of the region opened last before pc meet.
Region(code, op, pc) ==
    LET before == {a \in At(code, op) : a <= pc}
    IN  IF before = {} THEN 0 ELSE code[Max(before)].to

\* What a compiled function is like.  Control words are where they are due; regions
\* are nested; a call returns behind itself; something follows the breakpoints, and
\* the word before them opens no region.
Ops == {"control", "other", "ssy", "pbk", "cal", "bpt", "end"}
IsFunction(code) ==
    /\ IsFiniteSet(DOMAIN code) /\ DOMAIN code = 0 .. Cardinality(DOMAIN code) - 1
    /\ code \in [DOMAIN code -> [op : Ops, to : Nat, fn : STRING]]
    /\ \A a \in DOMAIN code : IF IsControl(a) THEN code[a] = Control ELSE code[a].op # "control"
    /\ \A a, b \in Regions(code) : a < b /\ b < code[a].to => code[b].to <= code[a].to
    /\ \A a \in At(code, "cal") : code[a].to = a + 1
    /\ At(code, "bpt") # {} =>
          /\ \E a \in DOMAIN code : a > FirstBpt(code) /\ ~IsControl(a) /\ code[a].op # "bpt"
          /\ StartAddress(code) \notin At(code, "ssy")

-----------------------------------------------------------------------------
(***************************************************************************)
(* Properties of a function, whatever its instructions.                    *)
(***************************************************************************)
\* Control words where the hardware takes words for control words, only there.
ControlInPlace(code) ==
    LET words == Table(code)
    IN  \A i \in DOMAIN words : words[i] = Control <=> IsControl(Address(code, i))

FitsBuffer(code) == Len(Table(code)) <= BufferSize(code)

\* A table longer than the breakpoints writes over what follows them: that
\* happens when there is exactly the room that is asked for.
ReplacesBreakpoints(code) ==
    LET patched == Patched(code)
    IN  Room(code) > Needed(code) =>
            \A a \in DOMAIN code : patched[a] # code[a] => code[a].op = "bpt"
=============================================================================
