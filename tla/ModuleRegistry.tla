--------------------------- MODULE ModuleRegistry ---------------------------
(* Device code: how a client's kernels and variables find their way from the  *)
(* registration calls the compiler emits (cpu-client.c), through the server's *)
(* module, function and variable managers (cpu-server-driver.c), to a launch  *)
(* or a copy to a symbol (cpu-client-runtime.c, cpu-server-runtime.c).        *)
(*                                                                            *)
(* The server has one RPC thread, and a client waits for each answer: a call  *)
(* and its handler are one step.  A manager is a dictionary, which ResourceMg *)
(* shows; the managers of all clients are the same three.  A call the client  *)
(* gives up on may have been handled or not.  Left out: the contents of       *)
(* binaries, the arguments of a launch, a manager that cannot allocate, and   *)
(* the scheduler the handlers call (gsched_none.c), which never gets as far   *)
(* as taking its mutex or choosing a device.                                  *)
EXTENDS Integers, Sequences, FiniteSets, SequencesExt

CONSTANTS Clients,    \* client programs; each may run several times
          Binaries,   \* fat binaries of a program
          KernelsOf,  \* the kernel names in each
          VarsOf,     \* the device variables in each
          MaxRestarts,\* bound: processes, of clients and of the server, that end
          MaxFaults   \* bound: driver calls and calls to the server that fail

ASSUME RegistryAssumption ==
    /\ MaxRestarts \in Nat /\ MaxFaults \in Nat
    /\ Clients # {} /\ Binaries # {}

VARIABLES
    layout,      \* do the client programs have their own addresses, or the same
    process,     \* per client: the number of the process that runs, fd included
    handle,      \* per client: the handle of each binary
    kernel_infos,\* per client: host_fun of each kernel name that is known
    registered,  \* per client: the functions registered, in order
    rm_modules, rm_functions, rm_globals,
    server,      \* the number of the server process
    since,       \* history, per client: the server this process loaded each binary on, or 0
    faults,      \* history: failures so far
    used         \* history: what the last launch or copy asked for and used

clientVars == <<process, handle, kernel_infos, registered>>
managers == <<rm_modules, rm_functions, rm_globals>>
vars == <<layout, clientVars, managers, server, since, faults, used>>

Names == UNION {KernelsOf[b] : b \in Binaries}

\* Two programs without address randomisation have the same addresses.
Address(c, b, x) == IF layout = "same" THEN <<b, x>> ELSE <<c, b, x>>
Handle(c, b) == Address(c, b, "handle")
Unmapped == [owner |-> "none"]
Garbage  == [owner |-> "garbage"]
Module(c, b) == [owner |-> c, process |-> process[c], binary |-> b]
Symbol(module, x) == [owner |-> module, name |-> x]
NoUse == [kind |-> "none"]
Absent == <<"absent">>
NotRegistered == <<"not registered">>

\* resource_mg_get on a dictionary of pairs: an unknown key stands for itself.
Get(mg, key) == IF key \in DOMAIN mg THEN mg[key] ELSE Unmapped
Put(mg, key, value) == [k \in DOMAIN mg \cup {key} |-> IF k = key THEN value ELSE mg[k]]
Empty == [k \in {} |-> Unmapped]

Restarts == FoldFunction(+, 0, [c \in Clients |-> process[c] - 1]) + server - 1

FreshProcess(c) ==
    /\ handle' = [handle EXCEPT ![c] = [b \in Binaries |-> Absent]]
    /\ kernel_infos' = [kernel_infos EXCEPT ![c] = [n \in Names |-> Absent]]
    /\ registered' = [registered EXCEPT ![c] = <<>>]
    /\ since' = [since EXCEPT ![c] = [b \in Binaries |-> 0]]

Init ==
    /\ layout \in {"same", "separate"}
    /\ process = [c \in Clients |-> 1]
    /\ handle = [c \in Clients |-> [b \in Binaries |-> Absent]]
    /\ kernel_infos = [c \in Clients |-> [n \in Names |-> Absent]]
    /\ registered = [c \in Clients |-> <<>>]
    /\ rm_modules = Empty /\ rm_functions = Empty /\ rm_globals = Empty
    /\ server = 1
    /\ since = [c \in Clients |-> [b \in Binaries |-> 0]]
    /\ faults = 0 /\ used = NoUse
-----------------------------------------------------------------------------
(* Registration.                                                              *)

Fault == faults < MaxFaults /\ faults' = faults + 1

\* elf2_get_fatbin_info enters the names in kernel_infos, but for known ones.
Enter(c, names) ==
    kernel_infos' = [kernel_infos EXCEPT ![c] =
        [n \in Names |-> IF n \in names /\ @[n] = Absent THEN NotRegistered ELSE @[n]]]

\* __cudaRegisterFatBinary: the client enters the names it does not know yet,
\* and rpc_elf_load enters the module under the client's handle.
RegisterFatBinary(c, b) ==
    /\ handle[c][b] = Absent
    /\ handle' = [handle EXCEPT ![c][b] = Handle(c, b)]
    /\ Enter(c, KernelsOf[b])
    /\ rm_modules' = Put(rm_modules, Handle(c, b), Module(c, b))
    /\ since' = [since EXCEPT ![c][b] = server]
    /\ used' = NoUse
    /\ UNCHANGED <<layout, process, registered, rm_functions, rm_globals, server, faults>>

\* The binary cannot be read to its end, or cuModuleLoadData fails: the caller
\* gets a null handle.
LoadFails(c, b) ==
    /\ handle[c][b] = Absent /\ Fault
    /\ handle' = [handle EXCEPT ![c][b] = <<"null">>]
    /\ \E names \in SUBSET KernelsOf[b] : Enter(c, names)
    /\ used' = NoUse
    /\ UNCHANGED <<layout, process, registered, managers, server, since>>

\* The call fails, handled or not, and the client goes on with a result that
\* nobody wrote: it takes the binary for loaded or not.
LoadLost(c, b) ==
    /\ handle[c][b] = Absent /\ Fault
    /\ \E h \in {Handle(c, b), <<"null">>} : handle' = [handle EXCEPT ![c][b] = h]
    /\ Enter(c, KernelsOf[b])
    /\ \/ /\ rm_modules' = Put(rm_modules, Handle(c, b), Module(c, b))
          /\ since' = [since EXCEPT ![c][b] = server]
       \/ UNCHANGED <<rm_modules, since>>
    /\ used' = NoUse
    /\ UNCHANGED <<layout, process, registered, rm_functions, rm_globals, server>>

\* The process ends; the server hears nothing that changes its state.
Exit(c) ==
    /\ Restarts < MaxRestarts
    /\ process' = [process EXCEPT ![c] = @ + 1]
    /\ FreshProcess(c)
    /\ used' = NoUse
    /\ UNCHANGED <<layout, managers, server, faults>>

\* Mutant of RegisteredName: the name is entered for every kernel of the binary.
EveryName(b, k) == KernelsOf[b]
\* The entries whose host_fun __cudaRegisterFunction sets.
RegisteredName(b, k) == {k}

\* Mutant of FunctionOf: a function comes from the first module that has its name.
AnyFunction(module, k) ==
    Symbol(rm_modules[CHOOSE h \in DOMAIN rm_modules : k \in KernelsOf[rm_modules[h].binary]], k)
\* cuModuleGetFunction
FunctionOf(module, k) == Symbol(module, k)

\* Does __cudaRegisterFunction call the server?  It returns for a name that is
\* not in kernel_infos.
Registers(c, b, k) ==
    /\ handle[c][b] # Absent /\ kernel_infos[c][k] # Absent
    /\ ~Contains(registered[c], <<b, k>>)

\* __cudaRegisterFunction and rpc_register_function.
RegisterFunction(c, b, k) ==
    LET module == Get(rm_modules, handle[c][b])
    IN  /\ Registers(c, b, k) /\ module # Unmapped
        /\ rm_functions' = Put(rm_functions, Address(c, b, k), FunctionOf(module, k))
        /\ kernel_infos' = [kernel_infos EXCEPT ![c] =
               [n \in Names |-> IF n \in RegisteredName(b, k) THEN Address(c, b, k) ELSE @[n]]]
        /\ registered' = [registered EXCEPT ![c] = Append(@, <<b, k>>)]
        /\ used' = NoUse
        /\ UNCHANGED <<layout, process, handle, rm_modules, rm_globals, server, since, faults>>

\* The module is not known; or the driver does not find the function, and what
\* it left in the answer is entered; or the call fails, handled or not.  The
\* client process ends.
RegisterFunctionFails(c, b, k) ==
    LET module == Get(rm_modules, handle[c][b])
    IN  /\ Registers(c, b, k) /\ Restarts < MaxRestarts
        /\ \/ module = Unmapped /\ UNCHANGED <<rm_functions, faults>>
           \/ /\ module # Unmapped /\ Fault
              /\ \E f \in {Garbage, FunctionOf(module, k)} :
                     rm_functions' = Put(rm_functions, Address(c, b, k), f)
           \/ Fault /\ UNCHANGED rm_functions
        /\ process' = [process EXCEPT ![c] = @ + 1]
        /\ FreshProcess(c)
        /\ used' = NoUse
        /\ UNCHANGED <<layout, rm_modules, rm_globals, server>>

\* __cudaRegisterVar and rpc_register_var; the client ignores the result.
RegisterVar(c, b, v) ==
    LET module == Get(rm_modules, handle[c][b])
    IN  /\ handle[c][b] # Absent
        /\ \/ /\ module # Unmapped
              /\ rm_globals' = Put(rm_globals, Address(c, b, v), Symbol(module, v))
              /\ UNCHANGED faults
           \/ module # Unmapped /\ Fault /\ UNCHANGED rm_globals
           \/ module = Unmapped /\ UNCHANGED <<rm_globals, faults>>
        /\ used' = NoUse
        /\ UNCHANGED <<layout, clientVars, rm_modules, rm_functions, server, since>>
-----------------------------------------------------------------------------
(* Use.                                                                       *)

\* Mutant of Launchable: the client takes any function it has registered.
LaunchableByName(c, b, k) == kernel_infos[c][k] \notin {Absent, NotRegistered}
\* cudaLaunchKernel looks for host_fun in kernel_infos, and refuses a function
\* it does not find.
Launchable(c, b, k) == \E n \in Names : kernel_infos[c][n] = Address(c, b, k)

\* cuda_launch_kernel
Launch(c, b, k) ==
    /\ Launchable(c, b, k)
    /\ used' = [kind |-> "launch", client |-> c, binary |-> b, name |-> k,
                got |-> Get(rm_functions, Address(c, b, k))]
    /\ UNCHANGED <<layout, clientVars, managers, server, since, faults>>

\* cuda_memcpy_to_symbol tests for NULL, which resource_mg_get never returns.
CopyToSymbol(c, b, v) ==
    /\ handle[c][b] # Absent
    /\ used' = [kind |-> "symbol", client |-> c, binary |-> b, name |-> v,
                got |-> Get(rm_globals, Address(c, b, v))]
    /\ UNCHANGED <<layout, clientVars, managers, server, since, faults>>

\* A new server process knows no modules, restored or not; clients reconnect
\* (repair_connection) and register nothing again.
RestartServer ==
    /\ Restarts < MaxRestarts
    /\ server' = server + 1
    /\ rm_modules' = Empty /\ rm_functions' = Empty /\ rm_globals' = Empty
    /\ used' = NoUse
    /\ UNCHANGED <<layout, clientVars, since, faults>>

Next ==
    \/ \E c \in Clients, b \in Binaries :
        \/ RegisterFatBinary(c, b)
        \/ LoadFails(c, b)
        \/ LoadLost(c, b)
        \/ \E k \in KernelsOf[b] :
               RegisterFunction(c, b, k) \/ RegisterFunctionFails(c, b, k) \/ Launch(c, b, k)
        \/ \E v \in VarsOf[b] : RegisterVar(c, b, v) \/ CopyToSymbol(c, b, v)
    \/ \E c \in Clients : Exit(c)
    \/ RestartServer

Spec == Init /\ [][Next]_vars
-----------------------------------------------------------------------------
(* Properties.                                                                *)

\* A launch or a copy that reaches a symbol reaches one of the binary and the
\* name the caller meant, even when another program registered the same
\* addresses; with addresses of its own, it is the caller's own instance, if
\* the call that loaded the binary was handled.
UsesReachTheirSymbol ==
    used.kind # "none" /\ used.got \notin {Unmapped, Garbage} =>
        /\ used.got.name = used.name
        /\ used.got.owner.binary = used.binary
        /\ layout = "separate" => used.got.owner.owner = used.client
        /\ /\ layout = "separate" /\ used.kind = "launch"
           /\ since[used.client][used.binary] # 0
           => used.got.owner.process = process[used.client]

\* A kernel that is launched is known to the server, unless the server is
\* another one than that on which the caller loaded the binary; a registration
\* that failed shows only where another program has the same addresses.
LaunchesFindTheirKernel ==
    used.kind = "launch" /\ since[used.client][used.binary] = server =>
        used.got # Unmapped /\ (layout = "separate" => used.got # Garbage)

\* A registered function can be launched, unless a function of the same name
\* was registered after it.
RegisteredCanBeLaunched ==
    \A c \in Clients : \A i \in DOMAIN registered[c] :
        LET name(j) == registered[c][j][2]
        IN  (\A j \in i + 1 .. Len(registered[c]) : name(j) # name(i))
                => Launchable(c, registered[c][i][1], name(i))
=============================================================================
