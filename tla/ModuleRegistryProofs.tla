------------------------ MODULE ModuleRegistryProofs ------------------------
(***************************************************************************)
(* For any programs, binaries, kernels, failures and restarts: a launch or *)
(* a copy to a symbol that reaches a symbol reaches the right one, a       *)
(* kernel that is launched is known to the server its binary was loaded    *)
(* on, and registered functions can be launched.                           *)
(***************************************************************************)
EXTENDS ModuleRegistry, SequenceTheorems, TLAPS

Handles == {Absent, <<"null">>} \cup {Handle(c, b) : c \in Clients, b \in Binaries}
HostFuns == {Absent, NotRegistered} \cup {Address(c, b, n) : c \in Clients, b \in Binaries, n \in Names}

(* What the clients and the history hold.                                  *)
ClientTypes ==
    /\ layout \in {"same", "separate"}
    /\ process \in [Clients -> Nat]
    /\ handle \in [Clients -> [Binaries -> Handles]]
    /\ \A c \in Clients, b \in Binaries : handle[c][b] \in {Absent, <<"null">>, Handle(c, b)}
    /\ kernel_infos \in [Clients -> [Names -> HostFuns]]
    /\ registered \in [Clients -> Seq(Binaries \X Names)]
    /\ server \in Nat
    /\ since \in [Clients -> [Binaries -> Nat]]
    /\ \A c \in Clients, b \in Binaries : handle[c][b] = Absent => since[c][b] = 0

(* A module is the one its handle stands for.                              *)
ModulesMatch ==
    /\ DOMAIN rm_modules \subseteq {Handle(c, b) : c \in Clients, b \in Binaries}
    /\ \A c \in Clients, b \in Binaries : Handle(c, b) \in DOMAIN rm_modules =>
          LET m == rm_modules[Handle(c, b)]
          IN  /\ m.binary = b
              /\ layout = "separate" => m.owner = c
              /\ layout = "separate" /\ handle[c][b] = Handle(c, b) /\ since[c][b] # 0
                    => m.process = process[c]

(* A function is the one its address stands for, and of the process that   *)
(* can launch it.                                                          *)
FunctionsMatch ==
    \A c \in Clients, b \in Binaries : \A k \in KernelsOf[b] :
        Address(c, b, k) \in DOMAIN rm_functions =>
            LET f == rm_functions[Address(c, b, k)]
            IN  f # Garbage =>
                    /\ f.name = k
                    /\ f.owner.binary = b
                    /\ layout = "separate" => f.owner.owner = c
                    /\ layout = "separate" /\ Launchable(c, b, k) /\ since[c][b] # 0
                          => f.owner.process = process[c]
GlobalsMatch ==
    \A c \in Clients, b \in Binaries : \A v \in VarsOf[b] :
        Address(c, b, v) \in DOMAIN rm_globals =>
            LET g == rm_globals[Address(c, b, v)]
            IN  /\ g.name = v
                /\ g.owner.binary = b
                /\ layout = "separate" => g.owner.owner = c

(* A kernel that can be launched is of a loaded binary, and known to the   *)
(* server the binary was loaded on.                                        *)
LaunchableKnown ==
    /\ \A c \in Clients, b \in Binaries : since[c][b] <= server
    /\ \A c \in Clients, b \in Binaries : \A k \in KernelsOf[b] :
          Launchable(c, b, k) =>
              /\ handle[c][b] # Absent
              /\ since[c][b] = server =>
                    /\ Address(c, b, k) \in DOMAIN rm_functions
                    /\ rm_functions[Address(c, b, k)] # Unmapped
                    /\ layout = "separate" => rm_functions[Address(c, b, k)] # Garbage

(* The last function registered under a name is the one of kernel_infos.   *)
LastRegistered ==
    \A c \in Clients : \A i \in DOMAIN registered[c] :
        (\A j \in i + 1 .. Len(registered[c]) : registered[c][j][2] # registered[c][i][2])
            => kernel_infos[c][registered[c][i][2]] = Address(c, registered[c][i][1], registered[c][i][2])

RegistryInv ==
    /\ ClientTypes /\ ModulesMatch /\ FunctionsMatch /\ GlobalsMatch
    /\ LaunchableKnown /\ LastRegistered

(* Addresses determine what they are addresses of.                         *)
LEMMA AddressesDiffer ==
    ASSUME layout \in {"same", "separate"}, NEW c, NEW d, NEW b, NEW e, NEW x, NEW y
    PROVE  Address(c, b, x) = Address(d, e, y) =>
               b = e /\ x = y /\ (layout = "separate" => c = d)
  <1>1. CASE layout = "same"
    BY <1>1 DEF Address
  <1>2. CASE layout = "separate"
    BY <1>2 DEF Address
  <1> QED BY <1>1, <1>2

LEMMA AddressesProper ==
    ASSUME layout \in {"same", "separate"}, NEW c, NEW b, NEW x
    PROVE  Address(c, b, x) \notin {Absent, NotRegistered, <<"null">>}
  <1>1. CASE layout = "same"
    BY <1>1 DEF Address, Absent, NotRegistered
  <1>2. CASE layout = "separate"
    BY <1>2 DEF Address, Absent, NotRegistered
  <1> QED BY <1>1, <1>2

LEMMA SymbolsDiffer ==
    ASSUME NEW m, NEW x
    PROVE  Symbol(m, x) # Unmapped /\ Symbol(m, x) # Garbage /\ Garbage # Unmapped
  <1>1. "name" \in DOMAIN Symbol(m, x) /\ "name" \notin DOMAIN Unmapped /\ "name" \notin DOMAIN Garbage
    BY DEF Symbol, Unmapped, Garbage
  <1>2. Garbage.owner # Unmapped.owner
    BY DEF Garbage, Unmapped
  <1> QED BY <1>1, <1>2

LEMMA KernelsAreNames == \A b \in Binaries : KernelsOf[b] \subseteq Names
  BY DEF Names

LEMMA PutFacts ==
    ASSUME NEW mg, NEW key, NEW value
    PROVE  /\ DOMAIN Put(mg, key, value) = DOMAIN mg \cup {key}
           /\ Put(mg, key, value)[key] = value
           /\ \A k \in DOMAIN mg \ {key} : Put(mg, key, value)[k] = mg[k]
  BY DEF Put

LEMMA InitHolds == Init => RegistryInv /\ UsesReachTheirSymbol /\ LaunchesFindTheirKernel
  <1> SUFFICES ASSUME Init PROVE RegistryInv /\ UsesReachTheirSymbol /\ LaunchesFindTheirKernel
    OBVIOUS
  <1>1. ClientTypes
    <2>1. <<>> \in Seq(Binaries \X Names)
      BY EmptySeq
    <2> QED BY <2>1 DEF Init, ClientTypes, Handles, HostFuns
  <1>2. \A k : \A c \in Clients, b \in Binaries : ~Launchable(c, b, k)
    BY <1>1, AddressesProper DEF Init, Launchable, ClientTypes
  <1>3. ModulesMatch /\ FunctionsMatch /\ GlobalsMatch
    BY DEF Init, ModulesMatch, FunctionsMatch, GlobalsMatch, Empty
  <1>4. LaunchableKnown
    BY <1>2 DEF Init, LaunchableKnown
  <1>5. LastRegistered
    BY EmptySeq DEF Init, LastRegistered
  <1>6. UsesReachTheirSymbol /\ LaunchesFindTheirKernel
    BY DEF Init, UsesReachTheirSymbol, LaunchesFindTheirKernel, NoUse
  <1> QED BY <1>1, <1>3, <1>4, <1>5, <1>6 DEF RegistryInv

-----------------------------------------------------------------------------
(* Loading a binary.                                                       *)

\* A step that loads a binary only adds to the names that are known.
LEMMA NamesEntered ==
    ASSUME RegistryInv, UNCHANGED layout, NEW c \in Clients, NEW names, Enter(c, names)
    PROVE  /\ kernel_infos' \in [Clients -> [Names -> HostFuns]]
           /\ \A d \in Clients, n \in Names : kernel_infos'[d][n] # kernel_infos[d][n] =>
                  kernel_infos[d][n] = Absent /\ kernel_infos'[d][n] = NotRegistered
           /\ \A k : \A d \in Clients, e \in Binaries : Launchable(d, e, k)' => Launchable(d, e, k)
  <1>1. kernel_infos \in [Clients -> [Names -> HostFuns]] /\ layout \in {"same", "separate"}
    BY DEF RegistryInv, ClientTypes
  <1>2. NotRegistered \in HostFuns
    BY DEF HostFuns
  <1>0. kernel_infos' = [kernel_infos EXCEPT ![c] =
            [n \in Names |-> IF n \in names /\ @[n] = Absent THEN NotRegistered ELSE @[n]]]
    BY DEF Enter
  <1>3. \A d \in Clients, n \in Names :
            kernel_infos'[d][n] = IF d = c /\ n \in names /\ kernel_infos[d][n] = Absent
                                  THEN NotRegistered ELSE kernel_infos[d][n]
    BY <1>0, <1>1
  <1>4. kernel_infos' \in [Clients -> [Names -> HostFuns]]
    BY <1>0, <1>1, <1>2
  <1>5. \A k : \A d \in Clients, e \in Binaries : Address(d, e, k)' = Address(d, e, k)
    BY DEF Address
  <1>6. \A k : \A d \in Clients, e \in Binaries : Launchable(d, e, k)' => Launchable(d, e, k)
    BY <1>1, <1>3, <1>5, AddressesProper DEF Launchable
  <1> QED BY <1>3, <1>4, <1>6

LEMMA LastStays ==
    ASSUME RegistryInv, UNCHANGED <<layout, registered>>,
           \A d \in Clients, n \in Names : kernel_infos'[d][n] # kernel_infos[d][n] => kernel_infos[d][n] = Absent
    PROVE  LastRegistered'
  <1> SUFFICES ASSUME NEW d \in Clients, NEW i \in DOMAIN registered[d],
                      \A j \in i + 1 .. Len(registered[d]) : registered[d][j][2] # registered[d][i][2]
               PROVE  kernel_infos'[d][registered[d][i][2]] = Address(d, registered[d][i][1], registered[d][i][2])
    BY DEF LastRegistered, Address
  <1>1. kernel_infos[d][registered[d][i][2]] = Address(d, registered[d][i][1], registered[d][i][2])
    BY DEF RegistryInv, LastRegistered
  <1>2. registered[d] \in Seq(Binaries \X Names)
    BY DEF RegistryInv, ClientTypes
  <1>3. registered[d][i] \in Binaries \X Names
    BY <1>2, ElementOfSeq
  <1> QED BY <1>1, <1>3, AddressesProper DEF RegistryInv, ClientTypes

LEMMA LoadKeeps ==
    ASSUME RegistryInv, NEW c \in Clients, NEW b \in Binaries,
           RegisterFatBinary(c, b) \/ LoadFails(c, b) \/ LoadLost(c, b)
    PROVE  RegistryInv'
  <1>1. /\ handle[c][b] = Absent
        /\ \/ handle' = [handle EXCEPT ![c][b] = Handle(c, b)]
           \/ handle' = [handle EXCEPT ![c][b] = <<"null">>]
        /\ \/ /\ rm_modules' = Put(rm_modules, Handle(c, b), Module(c, b))
              /\ since' = [since EXCEPT ![c][b] = server]
           \/ UNCHANGED <<rm_modules, since>>
        /\ UNCHANGED <<layout, process, registered, rm_functions, rm_globals, server>>
    BY DEF RegisterFatBinary, LoadFails, LoadLost, managers
  <1>0. since[c][b] = 0
    BY <1>1 DEF RegistryInv, ClientTypes
  <1>2. /\ layout \in {"same", "separate"} /\ handle \in [Clients -> [Binaries -> Handles]]
        /\ since \in [Clients -> [Binaries -> Nat]] /\ server \in Nat
    BY DEF RegistryInv, ClientTypes
  <1>3. /\ kernel_infos' \in [Clients -> [Names -> HostFuns]]
        /\ \A d \in Clients, n \in Names : kernel_infos'[d][n] # kernel_infos[d][n] => kernel_infos[d][n] = Absent
        /\ \A k : \A d \in Clients, e \in Binaries : Launchable(d, e, k)' => Launchable(d, e, k)
    BY <1>1, NamesEntered DEF RegisterFatBinary, LoadFails, LoadLost
  <1>4. \A d, e, x : Address(d, e, x)' = Address(d, e, x) /\ Handle(d, e)' = Handle(d, e)
    BY <1>1 DEF Address, Handle
  <1>5. /\ handle'[c][b] \in {Handle(c, b), <<"null">>}
        /\ \A d \in Clients, e \in Binaries : ~(d = c /\ e = b) =>
               handle'[d][e] = handle[d][e] /\ since'[d][e] = since[d][e]
        /\ since'[c][b] \in {since[c][b], server}
    BY <1>1, <1>2
  <1>6. Handles' = Handles /\ HostFuns' = HostFuns
    BY <1>4 DEF Handles, HostFuns
  <1>7. ClientTypes'
    <2>1. handle' \in [Clients -> [Binaries -> Handles]]
      <3>1. Handle(c, b) \in Handles /\ <<"null">> \in Handles
        BY DEF Handles
      <3>2. CASE handle' = [handle EXCEPT ![c][b] = Handle(c, b)]
        BY <1>2, <3>1, <3>2
      <3>3. CASE handle' = [handle EXCEPT ![c][b] = <<"null">>]
        BY <1>2, <3>1, <3>3
      <3> QED BY <1>1, <3>2, <3>3
    <2>2. since' \in [Clients -> [Binaries -> Nat]]
      <3>1. CASE since' = [since EXCEPT ![c][b] = server]
        BY <1>2, <3>1
      <3> QED BY <1>1, <1>2, <3>1
    <2>3. \A d \in Clients, e \in Binaries : handle'[d][e] \in {Absent, <<"null">>, Handle(d, e)}
      BY <1>5 DEF RegistryInv, ClientTypes
    <2>4. \A d \in Clients, e \in Binaries : handle'[d][e] = Absent => since'[d][e] = 0
      <3>0. Handle(c, b) # Absent
        BY <1>2, AddressesProper DEF Handle
      <3>1. Handle(c, b) # Absent /\ <<"null">> # Absent
        BY <3>0 DEF Absent
      <3>2. handle'[c][b] # Absent
        BY <1>5, <3>1
      <3>3. \A d \in Clients, e \in Binaries : handle[d][e] = Absent => since[d][e] = 0
        BY DEF RegistryInv, ClientTypes
      <3> SUFFICES ASSUME NEW d \in Clients, NEW e \in Binaries, handle'[d][e] = Absent
                   PROVE  since'[d][e] = 0
        OBVIOUS
      <3>4. handle'[d][e] = handle[d][e] /\ since'[d][e] = since[d][e]
        BY <1>5, <3>2
      <3> QED BY <3>3, <3>4
    <2> QED BY <1>1, <1>3, <1>4, <1>6, <2>1, <2>2, <2>3, <2>4 DEF RegistryInv, ClientTypes
  <1>8. ModulesMatch'
    <2> DEFINE all == {Handle(d, e) : d \in Clients, e \in Binaries}
    <2>1. DOMAIN rm_modules' \subseteq all
      <3>1. Handle(c, b) \in all /\ DOMAIN rm_modules \subseteq all
        BY DEF RegistryInv, ModulesMatch
      <3> HIDE DEF all
      <3>2. DOMAIN Put(rm_modules, Handle(c, b), Module(c, b)) = DOMAIN rm_modules \cup {Handle(c, b)}
        BY PutFacts
      <3> QED BY <1>1, <3>1, <3>2
    <2> DEFINE put == Put(rm_modules, Handle(c, b), Module(c, b))
    <2>0. /\ put[Handle(c, b)] = Module(c, b)
          /\ DOMAIN put = DOMAIN rm_modules \cup {Handle(c, b)}
          /\ \A h \in DOMAIN rm_modules \ {Handle(c, b)} : put[h] = rm_modules[h]
      BY DEF Put
    <2> HIDE DEF put
    <2>2. ASSUME NEW d \in Clients, NEW e \in Binaries, Handle(d, e) \in DOMAIN rm_modules'
          PROVE  LET m == rm_modules'[Handle(d, e)]
                 IN  /\ m.binary = e
                     /\ layout = "separate" => m.owner = d
                     /\ layout = "separate" /\ handle'[d][e] = Handle(d, e) /\ since'[d][e] # 0
                           => m.process = process[d]
      <3>1. CASE UNCHANGED <<rm_modules, since>>
        <4>1. since'[d][e] # 0 => handle'[d][e] = handle[d][e]
          BY <1>0, <1>5, <3>1
        <4> QED BY <2>2, <3>1, <4>1 DEF RegistryInv, ModulesMatch
      <3>2. CASE rm_modules' = put /\ Handle(d, e) = Handle(c, b)
        <4>1. e = b /\ (layout = "separate" => d = c)
          BY <1>2, <3>2, AddressesDiffer DEF Handle
        <4>2. rm_modules'[Handle(d, e)] = Module(c, b)
          BY <2>0, <3>2
        <4> QED BY <4>1, <4>2 DEF Module
      <3>3. CASE rm_modules' = put /\ Handle(d, e) # Handle(c, b)
        <4>2. Handle(d, e) \in DOMAIN rm_modules
          BY <2>0, <2>2, <3>3
        <4>3. rm_modules'[Handle(d, e)] = rm_modules[Handle(d, e)]
          BY <2>0, <3>3, <4>2
        <4>4. handle'[d][e] = handle[d][e] /\ since'[d][e] = since[d][e]
          BY <1>5, <3>3
        <4> QED BY <4>2, <4>3, <4>4 DEF RegistryInv, ModulesMatch
      <3>4. \/ rm_modules' = put
            \/ UNCHANGED <<rm_modules, since>>
        BY <1>1, <1>2 DEF put
      <3> QED BY <3>1, <3>2, <3>3, <3>4
    <2>3. \A d \in Clients, e \in Binaries : Handle(d, e)' = Handle(d, e)
      BY <1>4
    <2> QED BY <1>1, <2>1, <2>2, <2>3 DEF ModulesMatch
  <1>9. FunctionsMatch'
    <2>1. \A d \in Clients, e \in Binaries : \A k \in KernelsOf[e] :
              Launchable(d, e, k)' => Launchable(d, e, k) /\ since'[d][e] = since[d][e]
      BY <1>1, <1>3, <1>5 DEF RegistryInv, LaunchableKnown
    <2> QED BY <1>1, <1>4, <2>1 DEF RegistryInv, FunctionsMatch
  <1>10. GlobalsMatch'
    BY <1>1, <1>4 DEF RegistryInv, GlobalsMatch
  <1>11. LaunchableKnown'
    <2>1. \A d \in Clients, e \in Binaries : since'[d][e] <= server
      BY <1>2, <1>5 DEF RegistryInv, LaunchableKnown
    <2>2. ASSUME NEW d \in Clients, NEW e \in Binaries, NEW k \in KernelsOf[e], Launchable(d, e, k)
          PROVE  ~(d = c /\ e = b) /\ handle'[d][e] # Absent /\ since'[d][e] = since[d][e]
      BY <1>1, <1>5, <2>2 DEF RegistryInv, LaunchableKnown
    <2> QED BY <1>1, <1>3, <1>4, <2>1, <2>2 DEF RegistryInv, LaunchableKnown
  <1>12. LastRegistered'
    BY <1>1, <1>3, LastStays
  <1> QED BY <1>7, <1>8, <1>9, <1>10, <1>11, <1>12 DEF RegistryInv

-----------------------------------------------------------------------------
(* The end of a process, and registration.                                 *)

LEMMA FreshFacts ==
    ASSUME RegistryInv, NEW c \in Clients, UNCHANGED <<layout>>,
           FreshProcess(c), process' = [process EXCEPT ![c] = @ + 1]
    PROVE  /\ process' \in [Clients -> Nat]
           /\ handle' \in [Clients -> [Binaries -> Handles]]
           /\ kernel_infos' \in [Clients -> [Names -> HostFuns]]
           /\ registered' \in [Clients -> Seq(Binaries \X Names)]
           /\ since' \in [Clients -> [Binaries -> Nat]]
           /\ \A b \in Binaries : handle'[c][b] = Absent /\ since'[c][b] = 0
           /\ \A b, k : ~Launchable(c, b, k)'
           /\ registered'[c] = <<>>
           /\ \A d \in Clients \ {c} :
                 /\ process'[d] = process[d] /\ handle'[d] = handle[d] /\ since'[d] = since[d]
                 /\ registered'[d] = registered[d] /\ kernel_infos'[d] = kernel_infos[d]
                 /\ \A b, k : Launchable(d, b, k)' <=> Launchable(d, b, k)
  <1>1. /\ layout \in {"same", "separate"}
        /\ process \in [Clients -> Nat] /\ handle \in [Clients -> [Binaries -> Handles]]
        /\ kernel_infos \in [Clients -> [Names -> HostFuns]]
        /\ registered \in [Clients -> Seq(Binaries \X Names)]
        /\ since \in [Clients -> [Binaries -> Nat]]
    BY DEF RegistryInv, ClientTypes
  <1>2. /\ handle' = [handle EXCEPT ![c] = [b \in Binaries |-> Absent]]
        /\ kernel_infos' = [kernel_infos EXCEPT ![c] = [n \in Names |-> Absent]]
        /\ registered' = [registered EXCEPT ![c] = <<>>]
        /\ since' = [since EXCEPT ![c] = [b \in Binaries |-> 0]]
    BY DEF FreshProcess
  <1>3. Absent \in Handles /\ Absent \in HostFuns /\ <<>> \in Seq(Binaries \X Names)
    BY EmptySeq DEF Handles, HostFuns
  <1>4. [b \in Binaries |-> Absent] \in [Binaries -> Handles] /\ [n \in Names |-> Absent] \in [Names -> HostFuns]
    BY <1>3
  <1>5. /\ process' \in [Clients -> Nat] /\ handle' \in [Clients -> [Binaries -> Handles]]
        /\ kernel_infos' \in [Clients -> [Names -> HostFuns]]
        /\ registered' \in [Clients -> Seq(Binaries \X Names)]
        /\ since' \in [Clients -> [Binaries -> Nat]]
    BY <1>1, <1>2, <1>3, <1>4
  <1>6. \A d, b, k : Address(d, b, k)' = Address(d, b, k)
    BY DEF Address
  <1>7. \A b, k : ~Launchable(c, b, k)'
    <2>1. \A n \in Names : kernel_infos'[c][n] = Absent
      BY <1>1, <1>2
    <2>2. \A b, k : Address(c, b, k) # Absent
      BY <1>1, AddressesProper
    <2> QED BY <1>6, <2>1, <2>2 DEF Launchable
  <1>8. \A d \in Clients \ {c} :
            /\ process'[d] = process[d] /\ handle'[d] = handle[d] /\ since'[d] = since[d]
            /\ registered'[d] = registered[d] /\ kernel_infos'[d] = kernel_infos[d]
    BY <1>1, <1>2
  <1>9. \A d \in Clients \ {c} : \A b, k : Launchable(d, b, k)' <=> Launchable(d, b, k)
    BY <1>6, <1>8 DEF Launchable
  <1>10. registered'[c] = <<>> /\ \A b \in Binaries : handle'[c][b] = Absent /\ since'[c][b] = 0
    BY <1>1, <1>2
  <1> QED BY <1>5, <1>7, <1>8, <1>9, <1>10

\* A process ends; what may change on the server is one function, to garbage or
\* to what its registration was to enter.
LEMMA EndKeeps ==
    ASSUME RegistryInv, NEW c \in Clients, NEW b \in Binaries, NEW k, NEW f,
           FreshProcess(c), process' = [process EXCEPT ![c] = @ + 1],
           UNCHANGED <<layout, rm_modules, rm_globals, server>>,
           \/ UNCHANGED rm_functions
           \/ rm_functions' = Put(rm_functions, Address(c, b, k), f),
           f # Unmapped,
           f # Garbage => f.name = k /\ f.owner.binary = b /\ (layout = "separate" => f.owner.owner = c)
    PROVE  RegistryInv'
  <1>0. /\ process' \in [Clients -> Nat]
        /\ handle' \in [Clients -> [Binaries -> Handles]]
        /\ kernel_infos' \in [Clients -> [Names -> HostFuns]]
        /\ registered' \in [Clients -> Seq(Binaries \X Names)]
        /\ since' \in [Clients -> [Binaries -> Nat]]
        /\ \A e \in Binaries : handle'[c][e] = Absent /\ since'[c][e] = 0
        /\ \A e, n : ~Launchable(c, e, n)'
        /\ registered'[c] = <<>>
        /\ \A d \in Clients \ {c} :
              /\ process'[d] = process[d] /\ handle'[d] = handle[d] /\ since'[d] = since[d]
              /\ registered'[d] = registered[d] /\ kernel_infos'[d] = kernel_infos[d]
              /\ \A e, n : Launchable(d, e, n)' <=> Launchable(d, e, n)
    <2>1. UNCHANGED <<layout>>
      OBVIOUS
    <2> QED BY <2>1, FreshFacts, ZenonT(30)
  <1>1. /\ layout \in {"same", "separate"} /\ server \in Nat
    BY DEF RegistryInv, ClientTypes
  <1>2. \A d, e, x : Address(d, e, x)' = Address(d, e, x) /\ Handle(d, e)' = Handle(d, e)
    BY DEF Address, Handle
  <1>3. Handles' = Handles /\ HostFuns' = HostFuns
    BY <1>2 DEF Handles, HostFuns
  <1>4. ClientTypes'
    <2>1. \A d \in Clients, e \in Binaries : handle'[d][e] \in {Absent, <<"null">>, Handle(d, e)}
      <3>0. ClientTypes
        BY DEF RegistryInv
      <3> TAKE d \in Clients, e \in Binaries
      <3>1. CASE d = c
        BY <1>0, <3>1
      <3>2. CASE d # c
        <4>1. handle'[d] = handle[d]
          BY <3>2, <1>0
        <4> QED BY <4>1, <3>0 DEF ClientTypes
      <3> QED BY <3>1, <3>2
    <2>2. /\ process' \in [Clients -> Nat] /\ handle' \in [Clients -> [Binaries -> Handles]]
          /\ kernel_infos' \in [Clients -> [Names -> HostFuns]]
          /\ registered' \in [Clients -> Seq(Binaries \X Names)]
      BY <1>0
    <2>3. /\ since' \in [Clients -> [Binaries -> Nat]]
          /\ \A d \in Clients, e \in Binaries : handle'[d][e] = Absent => since'[d][e] = 0
      <3>1. since' \in [Clients -> [Binaries -> Nat]]
        BY <1>0
      <3>2. \A d \in Clients \ {c}, e \in Binaries : handle'[d][e] = Absent => since'[d][e] = 0
        <4>1. \A d \in Clients, e \in Binaries : handle[d][e] = Absent => since[d][e] = 0
          BY DEF RegistryInv, ClientTypes
        <4> SUFFICES ASSUME NEW d \in Clients \ {c}, NEW e \in Binaries, handle'[d][e] = Absent
                     PROVE  since'[d][e] = 0
          OBVIOUS
        <4>2. handle'[d] = handle[d] /\ since'[d] = since[d]
          BY <1>0
        <4> QED BY <4>1, <4>2
      <3>3. \A e \in Binaries : since'[c][e] = 0
        BY <1>0
      <3> QED BY <3>1, <3>2, <3>3
    <2> QED BY <1>1, <1>2, <1>3, <2>1, <2>2, <2>3 DEF ClientTypes
  <1>5. ModulesMatch'
    <2>1. ASSUME NEW d \in Clients, NEW e \in Binaries, handle'[d][e] = Handle(d, e)
          PROVE  process'[d] = process[d] /\ handle'[d][e] = handle[d][e] /\ since'[d][e] = since[d][e]
      <3>1. Handle(d, e) # Absent
        BY <1>1, AddressesProper DEF Handle
      <3>2. d # c
        BY <1>0, <2>1, <3>1
      <3> QED BY <1>0, <3>2
    <2> QED BY <1>2, <2>1 DEF RegistryInv, ModulesMatch
  <1>6. \A a \in DOMAIN rm_functions' : \/ rm_functions'[a] = f /\ a = Address(c, b, k)
                                        \/ a \in DOMAIN rm_functions /\ rm_functions'[a] = rm_functions[a]
    <2>1. CASE UNCHANGED rm_functions
      BY <2>1
    <2>2. CASE rm_functions' = Put(rm_functions, Address(c, b, k), f)
      <3> DEFINE put == Put(rm_functions, Address(c, b, k), f)
      <3>1. /\ DOMAIN put = DOMAIN rm_functions \cup {Address(c, b, k)}
            /\ put[Address(c, b, k)] = f
            /\ \A a \in DOMAIN rm_functions \ {Address(c, b, k)} : put[a] = rm_functions[a]
        BY DEF Put
      <3> HIDE DEF put
      <3>2. rm_functions' = put
        BY <2>2 DEF put
      <3>3. ASSUME NEW a \in DOMAIN put, a # Address(c, b, k)
            PROVE  a \in DOMAIN rm_functions /\ put[a] = rm_functions[a]
        <4>1. a \in DOMAIN rm_functions
          BY <3>1, <3>3
        <4> QED BY <3>1, <3>3, <4>1
      <3>4. \A a \in DOMAIN put : \/ put[a] = f /\ a = Address(c, b, k)
                                  \/ a \in DOMAIN rm_functions /\ put[a] = rm_functions[a]
        BY <3>1, <3>3
      <3> QED BY <3>2, <3>4
    <2> QED BY <2>1, <2>2
  <1>7. \A a \in DOMAIN rm_functions : a \in DOMAIN rm_functions' /\ rm_functions'[a] \in {rm_functions[a], f}
    BY DEF Put
  <1>8. FunctionsMatch'
    <2> SUFFICES ASSUME NEW d \in Clients, NEW e \in Binaries, NEW n \in KernelsOf[e],
                        Address(d, e, n) \in DOMAIN rm_functions',
                        rm_functions'[Address(d, e, n)] # Garbage
                 PROVE  LET g == rm_functions'[Address(d, e, n)]
                        IN  /\ g.name = n
                            /\ g.owner.binary = e
                            /\ layout = "separate" => g.owner.owner = d
                            /\ layout = "separate" /\ Launchable(d, e, n)' /\ since'[d][e] # 0
                                  => g.owner.process = process'[d]
      BY <1>2 DEF FunctionsMatch
    <2>1. Launchable(d, e, n)' =>
              d # c /\ Launchable(d, e, n) /\ process'[d] = process[d] /\ since'[d] = since[d]
      BY <1>0
    <2>2. CASE Address(d, e, n) \in DOMAIN rm_functions
               /\ rm_functions'[Address(d, e, n)] = rm_functions[Address(d, e, n)]
      BY <2>1, <2>2 DEF RegistryInv, FunctionsMatch
    <2>3. CASE rm_functions'[Address(d, e, n)] = f /\ Address(d, e, n) = Address(c, b, k)
      <3>1. e = b /\ n = k /\ (layout = "separate" => d = c)
        BY <1>1, <2>3, AddressesDiffer
      <3> QED BY <2>1, <2>3, <3>1
    <2> QED BY <1>6, <2>2, <2>3
  <1>9. GlobalsMatch'
    BY <1>2 DEF RegistryInv, GlobalsMatch
  <1>10. LaunchableKnown'
    <2> SUFFICES ASSUME NEW d \in Clients, NEW e \in Binaries, NEW n \in KernelsOf[e], Launchable(d, e, n)'
                 PROVE  /\ handle'[d][e] # Absent
                        /\ since'[d][e] = server =>
                              /\ Address(d, e, n) \in DOMAIN rm_functions'
                              /\ rm_functions'[Address(d, e, n)] # Unmapped
                              /\ layout = "separate" => rm_functions'[Address(d, e, n)] # Garbage
      <3>1. \A d \in Clients, e \in Binaries : since'[d][e] <= server
        <4> TAKE d \in Clients, e \in Binaries
        <4>1. since'[d][e] \in {0, since[d][e]}
          BY <1>0
        <4> QED BY <1>1, <4>1 DEF RegistryInv, LaunchableKnown
      <3> QED BY <1>2, <3>1 DEF LaunchableKnown
    <2>1. d # c /\ Launchable(d, e, n) /\ handle'[d][e] = handle[d][e] /\ since'[d][e] = since[d][e]
      BY <1>0
    <2>2. /\ handle[d][e] # Absent
          /\ since[d][e] = server =>
                    /\ Address(d, e, n) \in DOMAIN rm_functions
                    /\ rm_functions[Address(d, e, n)] # Unmapped
                    /\ layout = "separate" => rm_functions[Address(d, e, n)] # Garbage
      BY <2>1 DEF RegistryInv, LaunchableKnown
    <2>3. layout = "separate" => Address(d, e, n) # Address(c, b, k)
      BY <1>1, <2>1, AddressesDiffer
    <2> QED BY <1>6, <1>7, <2>1, <2>2, <2>3
  <1>11. LastRegistered'
    <2> SUFFICES ASSUME NEW d \in Clients, NEW i \in DOMAIN registered'[d],
                        \A j \in i + 1 .. Len(registered'[d]) : registered'[d][j][2] # registered'[d][i][2]
                 PROVE  kernel_infos'[d][registered'[d][i][2]] = Address(d, registered'[d][i][1], registered'[d][i][2])
      BY <1>2 DEF LastRegistered
    <2>1. d # c
      <3>1. registered'[c] = <<>>
        BY <1>0
      <3>2. DOMAIN <<>> = {}
        OBVIOUS
      <3>3. DOMAIN registered'[c] = {}
        BY <3>1, <3>2
      <3> QED BY <3>3
    <2>2. registered'[d] = registered[d] /\ kernel_infos'[d] = kernel_infos[d]
      BY <2>1, <1>0
    <2>3. i \in DOMAIN registered[d] /\ \A j \in i + 1 .. Len(registered[d]) : registered[d][j][2] # registered[d][i][2]
      BY <2>2
    <2>4. kernel_infos[d][registered[d][i][2]] = Address(d, registered[d][i][1], registered[d][i][2])
      BY <2>3 DEF RegistryInv, LastRegistered
    <2> QED BY <2>2, <2>4
  <1> QED BY <1>4, <1>5, <1>8, <1>9, <1>10, <1>11 DEF RegistryInv

LEMMA ExitKeeps == ASSUME RegistryInv, NEW c \in Clients, Exit(c) PROVE RegistryInv'
  <1>1. PICK b \in Binaries : TRUE
    BY RegistryAssumption
  <1>2. /\ FreshProcess(c) /\ process' = [process EXCEPT ![c] = @ + 1]
        /\ UNCHANGED <<layout, rm_modules, rm_functions, rm_globals, server>>
    BY DEF Exit, managers
  <1>3. Garbage # Unmapped
    BY SymbolsDiffer
  <1> QED BY <1>1, <1>2, <1>3, EndKeeps

\* A client's handle that is known to the server is that of the binary.
LEMMA HandlesAreOwn ==
    ASSUME RegistryInv, NEW c \in Clients, NEW b \in Binaries, handle[c][b] # Absent,
           handle[c][b] \in DOMAIN rm_modules
    PROVE  handle[c][b] = Handle(c, b)
  <1>1. handle[c][b] \in {<<"null">>, Handle(c, b)} /\ layout \in {"same", "separate"}
    BY DEF RegistryInv, ClientTypes
  <1>2. PICK d \in Clients, e \in Binaries : handle[c][b] = Handle(d, e)
    BY DEF RegistryInv, ModulesMatch
  <1>3. handle[c][b] # <<"null">>
    BY <1>1, <1>2, AddressesProper DEF Handle
  <1> QED BY <1>1, <1>3

\* The module a client's handle stands for.
LEMMA ModuleOfHandle ==
    ASSUME RegistryInv, NEW c \in Clients, NEW b \in Binaries, handle[c][b] # Absent,
           Get(rm_modules, handle[c][b]) # Unmapped
    PROVE  LET m == Get(rm_modules, handle[c][b])
           IN  /\ m.binary = b
               /\ layout = "separate" => m.owner = c
               /\ layout = "separate" /\ since[c][b] # 0 => m.process = process[c]
  <1>1. handle[c][b] \in DOMAIN rm_modules /\ Get(rm_modules, handle[c][b]) = rm_modules[handle[c][b]]
    BY DEF Get
  <1>2. handle[c][b] = Handle(c, b)
    BY <1>1, HandlesAreOwn
  <1> QED BY <1>1, <1>2 DEF RegistryInv, ModulesMatch

LEMMA RegisterFunctionFailsKeeps ==
    ASSUME RegistryInv, NEW c \in Clients, NEW b \in Binaries, NEW k \in KernelsOf[b],
           RegisterFunctionFails(c, b, k)
    PROVE  RegistryInv'
  <1> DEFINE module == Get(rm_modules, handle[c][b])
  <1>1. /\ FreshProcess(c) /\ process' = [process EXCEPT ![c] = @ + 1]
        /\ UNCHANGED <<layout, rm_modules, rm_globals, server>>
        /\ handle[c][b] # Absent
        /\ \/ UNCHANGED rm_functions
           \/ /\ module # Unmapped
              /\ \E f \in {Garbage, Symbol(module, k)} :
                     rm_functions' = Put(rm_functions, Address(c, b, k), f)
    BY DEF RegisterFunctionFails, Registers, FunctionOf
  <1>2. module # Unmapped => module.binary = b /\ (layout = "separate" => module.owner = c)
    BY <1>1, ModuleOfHandle
  <1>3. /\ Symbol(module, k).name = k /\ Symbol(module, k).owner = module
        /\ Symbol(module, k) # Unmapped /\ Garbage # Unmapped
    BY SymbolsDiffer DEF Symbol
  <1> HIDE DEF module
  <1>4. CASE UNCHANGED rm_functions
    BY <1>1, <1>3, <1>4, EndKeeps
  <1>5. CASE module # Unmapped /\ \E f \in {Garbage, Symbol(module, k)} :
                 rm_functions' = Put(rm_functions, Address(c, b, k), f)
    <2>1. PICK f \in {Garbage, Symbol(module, k)} : rm_functions' = Put(rm_functions, Address(c, b, k), f)
      BY <1>5
    <2>2. f # Unmapped
      BY <1>3
    <2>3. f # Garbage => f.name = k /\ f.owner.binary = b /\ (layout = "separate" => f.owner.owner = c)
      BY <1>2, <1>3, <1>5
    <2> QED BY <1>1, <2>1, <2>2, <2>3, EndKeeps
  <1> QED BY <1>1, <1>4, <1>5

LEMMA RegisterFunctionKeeps ==
    ASSUME RegistryInv, NEW c \in Clients, NEW b \in Binaries, NEW k \in KernelsOf[b],
           RegisterFunction(c, b, k)
    PROVE  RegistryInv'
  <1> DEFINE module == Get(rm_modules, handle[c][b])
             here   == Address(c, b, k)
             put    == Put(rm_functions, here, Symbol(module, k))
  <1>1. /\ handle[c][b] # Absent /\ module # Unmapped
        /\ rm_functions' = put
        /\ kernel_infos' = [kernel_infos EXCEPT ![c] = [n \in Names |-> IF n = k THEN here ELSE @[n]]]
        /\ registered' = [registered EXCEPT ![c] = Append(@, <<b, k>>)]
        /\ UNCHANGED <<layout, process, handle, rm_modules, rm_globals, server, since>>
    BY DEF RegisterFunction, Registers, FunctionOf, RegisteredName
  <1>2. /\ DOMAIN put = DOMAIN rm_functions \cup {here}
        /\ put[here] = Symbol(module, k)
        /\ \A a \in DOMAIN rm_functions \ {here} : put[a] = rm_functions[a]
    BY DEF Put
  <1>3. /\ layout \in {"same", "separate"} /\ server \in Nat /\ k \in Names
        /\ kernel_infos \in [Clients -> [Names -> HostFuns]]
        /\ registered \in [Clients -> Seq(Binaries \X Names)]
    BY KernelsAreNames DEF RegistryInv, ClientTypes
  <1>4. /\ module.binary = b
        /\ layout = "separate" => module.owner = c
        /\ layout = "separate" /\ since[c][b] # 0 => module.process = process[c]
    BY <1>1, ModuleOfHandle
  <1>5. Symbol(module, k).name = k /\ Symbol(module, k).owner = module
        /\ Symbol(module, k) # Unmapped /\ Symbol(module, k) # Garbage
    BY SymbolsDiffer DEF Symbol
  <1>6. \A d, e, x : Address(d, e, x)' = Address(d, e, x) /\ Handle(d, e)' = Handle(d, e)
    BY <1>1 DEF Address, Handle
  <1>7. Handles' = Handles /\ HostFuns' = HostFuns
    BY <1>6 DEF Handles, HostFuns
  <1>8. here \in HostFuns
    BY <1>3 DEF HostFuns
  <1> HIDE DEF module, here, put
  <1>9. /\ kernel_infos' \in [Clients -> [Names -> HostFuns]]
        /\ \A d \in Clients, n \in Names :
              kernel_infos'[d][n] = IF d = c /\ n = k THEN here ELSE kernel_infos[d][n]
    BY <1>1, <1>3, <1>8
  <1>10. \A x : \A d \in Clients, e \in Binaries :
             Launchable(d, e, x)' => Launchable(d, e, x) \/ (d = c /\ Address(d, e, x) = here)
    BY <1>6, <1>9 DEF Launchable
  <1>11. ClientTypes'
    <2>1. <<b, k>> \in Binaries \X Names
      BY <1>3
    <2>2. registered' \in [Clients -> Seq(Binaries \X Names)]
      BY <1>1, <1>3, <2>1, AppendProperties
    <2> QED BY <1>1, <1>6, <1>7, <1>9, <2>2 DEF RegistryInv, ClientTypes
  <1>12. ModulesMatch' /\ GlobalsMatch'
    BY <1>1, <1>6 DEF RegistryInv, ModulesMatch, GlobalsMatch
  <1>13. FunctionsMatch'
    <2> SUFFICES ASSUME NEW d \in Clients, NEW e \in Binaries, NEW n \in KernelsOf[e],
                        Address(d, e, n) \in DOMAIN put, put[Address(d, e, n)] # Garbage
                 PROVE  LET f == put[Address(d, e, n)]
                        IN  /\ f.name = n
                            /\ f.owner.binary = e
                            /\ layout = "separate" => f.owner.owner = d
                            /\ layout = "separate" /\ Launchable(d, e, n)' /\ since[d][e] # 0
                                  => f.owner.process = process[d]
      BY <1>1, <1>6 DEF FunctionsMatch
    <2>1. CASE Address(d, e, n) = here
      <3>1. e = b /\ n = k /\ (layout = "separate" => d = c)
        BY <1>3, <2>1, AddressesDiffer DEF here
      <3> QED BY <1>2, <1>4, <1>5, <2>1, <3>1
    <2>2. CASE Address(d, e, n) # here
      <3>1. Address(d, e, n) \in DOMAIN rm_functions /\ put[Address(d, e, n)] = rm_functions[Address(d, e, n)]
        BY <1>2, <2>2
      <3>2. Launchable(d, e, n)' => Launchable(d, e, n)
        BY <1>10, <2>2
      <3> QED BY <3>1, <3>2 DEF RegistryInv, FunctionsMatch
    <2> QED BY <2>1, <2>2
  <1>14. LaunchableKnown'
    <2> SUFFICES ASSUME NEW d \in Clients, NEW e \in Binaries, NEW n \in KernelsOf[e], Launchable(d, e, n)'
                 PROVE  /\ handle[d][e] # Absent
                        /\ since[d][e] = server =>
                              /\ Address(d, e, n) \in DOMAIN put
                              /\ put[Address(d, e, n)] # Unmapped
                              /\ layout = "separate" => put[Address(d, e, n)] # Garbage
      BY <1>1, <1>6 DEF RegistryInv, LaunchableKnown
    <2>1. CASE d = c /\ Address(d, e, n) = here
      <3>1. e = b
        BY <1>3, <2>1, AddressesDiffer DEF here
      <3> QED BY <1>1, <1>2, <1>5, <2>1, <3>1
    <2>2. CASE Launchable(d, e, n)
      <3>1. /\ handle[d][e] # Absent
            /\ since[d][e] = server =>
                  /\ Address(d, e, n) \in DOMAIN rm_functions
                  /\ rm_functions[Address(d, e, n)] # Unmapped
                  /\ layout = "separate" => rm_functions[Address(d, e, n)] # Garbage
        BY <2>2 DEF RegistryInv, LaunchableKnown
      <3>2. CASE Address(d, e, n) = here
        BY <1>2, <1>5, <3>1, <3>2
      <3>3. CASE Address(d, e, n) # here
        BY <1>2, <3>1, <3>3
      <3> QED BY <3>2, <3>3
    <2> QED BY <1>10, <2>1, <2>2
  <1>15. LastRegistered'
    <2> SUFFICES ASSUME NEW d \in Clients, NEW i \in DOMAIN registered'[d],
                        \A j \in i + 1 .. Len(registered'[d]) : registered'[d][j][2] # registered'[d][i][2]
                 PROVE  kernel_infos'[d][registered'[d][i][2]] = Address(d, registered'[d][i][1], registered'[d][i][2])
      BY <1>6 DEF LastRegistered
    <2>1. CASE d # c
      <3>1. registered'[d] = registered[d] /\ \A n \in Names : kernel_infos'[d][n] = kernel_infos[d][n]
        BY <1>1, <1>3, <1>9, <2>1
      <3>2. registered[d] \in Seq(Binaries \X Names) /\ i \in DOMAIN registered[d]
        BY <1>3, <3>1
      <3>3. registered[d][i][2] \in Names
        BY <3>2, ElementOfSeq
      <3>4. kernel_infos[d][registered[d][i][2]] = Address(d, registered[d][i][1], registered[d][i][2])
        <4>1. \A j \in i + 1 .. Len(registered[d]) : registered[d][j][2] # registered[d][i][2]
          BY <3>1
        <4> QED BY <3>2, <4>1 DEF RegistryInv, LastRegistered
      <3> QED BY <3>1, <3>3, <3>4
    <2>2. CASE d = c
      <3> DEFINE old == registered[c]
      <3>1. registered'[c] = Append(old, <<b, k>>) /\ old \in Seq(Binaries \X Names)
        BY <1>1, <1>3
      <3>2. /\ Len(registered'[c]) = Len(old) + 1 /\ Len(old) \in Nat
            /\ i \in 1 .. Len(old) + 1
            /\ registered'[c][Len(old) + 1] = <<b, k>>
            /\ \A j \in 1 .. Len(old) : registered'[c][j] = old[j]
        BY <2>2, <3>1, AppendProperties
      <3>3. CASE i = Len(old) + 1
        BY <1>3, <1>9, <2>2, <3>2, <3>3 DEF here
      <3>4. CASE i # Len(old) + 1
        <4>1. i \in 1 .. Len(old) /\ registered'[c][i] = old[i] /\ i \in DOMAIN old
          BY <3>1, <3>2, <3>4
        <4>2. old[i][2] \in Names
          BY <3>1, <4>1, ElementOfSeq
        <4>3. old[i][2] # k
          BY <2>2, <3>2, <4>1
        <4>4. ASSUME NEW j \in i + 1 .. Len(old) PROVE old[j][2] # old[i][2]
          <5>1. j \in i + 1 .. Len(registered'[d]) /\ j \in 1 .. Len(old)
            BY <2>2, <3>2, <4>1
          <5>2. registered'[d][j][2] # registered'[d][i][2]
            BY <5>1
          <5> QED BY <2>2, <3>2, <4>1, <5>1, <5>2
        <4>5. kernel_infos[c][old[i][2]] = Address(c, old[i][1], old[i][2])
          BY <4>1, <4>4 DEF RegistryInv, LastRegistered
        <4> QED BY <1>9, <2>2, <4>1, <4>2, <4>3, <4>5
      <3> QED BY <3>3, <3>4
    <2> QED BY <2>1, <2>2
  <1> QED BY <1>11, <1>12, <1>13, <1>14, <1>15 DEF RegistryInv

LEMMA RegisterVarKeeps ==
    ASSUME RegistryInv, NEW c \in Clients, NEW b \in Binaries, NEW v \in VarsOf[b], RegisterVar(c, b, v)
    PROVE  RegistryInv'
  <1> DEFINE module == Get(rm_modules, handle[c][b])
             here   == Address(c, b, v)
             put    == Put(rm_globals, here, Symbol(module, v))
  <1>1. /\ UNCHANGED rm_globals \/ (handle[c][b] # Absent /\ module # Unmapped /\ rm_globals' = put)
        /\ UNCHANGED <<layout, process, handle, kernel_infos, registered, rm_modules, rm_functions, server, since>>
    BY DEF RegisterVar, clientVars
  <1>2. /\ DOMAIN put = DOMAIN rm_globals \cup {here}
        /\ put[here] = Symbol(module, v)
        /\ \A a \in DOMAIN rm_globals \ {here} : put[a] = rm_globals[a]
    BY DEF Put
  <1>3. handle[c][b] # Absent /\ module # Unmapped =>
            module.binary = b /\ (layout = "separate" => module.owner = c)
    BY ModuleOfHandle
  <1>4. Symbol(module, v).name = v /\ Symbol(module, v).owner = module
    BY DEF Symbol
  <1>5. \A d, e, x : Address(d, e, x)' = Address(d, e, x) /\ Handle(d, e)' = Handle(d, e)
    BY <1>1 DEF Address, Handle
  <1>6. Handles' = Handles /\ HostFuns' = HostFuns /\ \A d, e, x : Launchable(d, e, x)' = Launchable(d, e, x)
    BY <1>1, <1>5 DEF Handles, HostFuns, Launchable
  <1>7. layout \in {"same", "separate"}
    BY DEF RegistryInv, ClientTypes
  <1> HIDE DEF module, here, put
  <1>8. GlobalsMatch'
    <2> SUFFICES ASSUME NEW d \in Clients, NEW e \in Binaries, NEW n \in VarsOf[e],
                        Address(d, e, n) \in DOMAIN rm_globals'
                 PROVE  LET g == rm_globals'[Address(d, e, n)]
                        IN  /\ g.name = n
                            /\ g.owner.binary = e
                            /\ layout = "separate" => g.owner.owner = d
      BY <1>1, <1>5 DEF GlobalsMatch
    <2>1. CASE rm_globals' = put /\ handle[c][b] # Absent /\ module # Unmapped /\ Address(d, e, n) = here
      <3>1. e = b /\ n = v /\ (layout = "separate" => d = c)
        BY <1>7, <2>1, AddressesDiffer DEF here
      <3> QED BY <1>2, <1>3, <1>4, <2>1, <3>1
    <2>2. CASE Address(d, e, n) \in DOMAIN rm_globals /\ rm_globals'[Address(d, e, n)] = rm_globals[Address(d, e, n)]
      BY <2>2 DEF RegistryInv, GlobalsMatch
    <2> QED BY <1>1, <1>2, <2>1, <2>2
  <1>9. ClientTypes' /\ ModulesMatch'
    BY <1>1, <1>5, <1>6 DEF RegistryInv, ClientTypes, ModulesMatch
  <1>10. FunctionsMatch' /\ LaunchableKnown'
    BY <1>1, <1>5, <1>6 DEF RegistryInv, FunctionsMatch, LaunchableKnown
  <1>11. LastRegistered'
    BY <1>1, <1>5 DEF RegistryInv, LastRegistered
  <1> QED BY <1>8, <1>9, <1>10, <1>11 DEF RegistryInv
-----------------------------------------------------------------------------
(* Use, and a new server.                                                  *)

LEMMA UsesKeep ==
    ASSUME RegistryInv,
           UNCHANGED <<layout, process, handle, kernel_infos, registered, rm_modules, rm_functions,
                       rm_globals, server, since>>
    PROVE  RegistryInv'
  <1>1. \A d, e, x : Address(d, e, x)' = Address(d, e, x) /\ Handle(d, e)' = Handle(d, e)
    BY DEF Address, Handle
  <1>2. Handles' = Handles /\ HostFuns' = HostFuns /\ \A d, e, x : Launchable(d, e, x)' = Launchable(d, e, x)
    BY <1>1 DEF Handles, HostFuns, Launchable
  <1>3. ClientTypes' /\ ModulesMatch'
    BY <1>1, <1>2 DEF RegistryInv, ClientTypes, ModulesMatch
  <1>4. FunctionsMatch' /\ LaunchableKnown'
    BY <1>1, <1>2 DEF RegistryInv, FunctionsMatch, LaunchableKnown
  <1>5. GlobalsMatch' /\ LastRegistered'
    BY <1>1 DEF RegistryInv, GlobalsMatch, LastRegistered
  <1> QED BY <1>3, <1>4, <1>5 DEF RegistryInv

LEMMA RestartServerKeeps == ASSUME RegistryInv, RestartServer PROVE RegistryInv'
  <1>1. /\ server' = server + 1
        /\ rm_modules' = Empty /\ rm_functions' = Empty /\ rm_globals' = Empty
        /\ UNCHANGED <<layout, process, handle, kernel_infos, registered, since>>
    BY DEF RestartServer, clientVars
  <1>2. DOMAIN Empty = {}
    BY DEF Empty
  <1>3. \A d, e, x : Address(d, e, x)' = Address(d, e, x) /\ Handle(d, e)' = Handle(d, e)
    BY <1>1 DEF Address, Handle
  <1>4. Handles' = Handles /\ HostFuns' = HostFuns /\ \A d, e, x : Launchable(d, e, x)' = Launchable(d, e, x)
    BY <1>1, <1>3 DEF Handles, HostFuns, Launchable
  <1>5. ClientTypes'
    BY <1>1, <1>3, <1>4 DEF RegistryInv, ClientTypes
  <1>6. ModulesMatch' /\ FunctionsMatch' /\ GlobalsMatch'
    BY <1>1, <1>2 DEF ModulesMatch, FunctionsMatch, GlobalsMatch
  <1>7. \A d \in Clients, e \in Binaries : since[d][e] < server'
    BY <1>1 DEF RegistryInv, ClientTypes, LaunchableKnown
  <1>8. LaunchableKnown'
    <2>1. \A d \in Clients, e \in Binaries : since'[d][e] <= server' /\ since'[d][e] # server'
      BY <1>1, <1>7 DEF RegistryInv, ClientTypes
    <2> QED BY <1>1, <1>4, <2>1 DEF RegistryInv, LaunchableKnown
  <1>9. LastRegistered'
    BY <1>1, <1>3 DEF RegistryInv, LastRegistered
  <1> QED BY <1>5, <1>6, <1>8, <1>9 DEF RegistryInv

UsesAreRight == UsesReachTheirSymbol /\ LaunchesFindTheirKernel

LEMMA LaunchIsRight ==
    ASSUME RegistryInv, NEW c \in Clients, NEW b \in Binaries, NEW k \in KernelsOf[b], Launch(c, b, k)
    PROVE  UsesAreRight'
  <1> DEFINE here == Address(c, b, k)
  <1>1. /\ Launchable(c, b, k)
        /\ used' = [kind |-> "launch", client |-> c, binary |-> b, name |-> k, got |-> Get(rm_functions, here)]
        /\ UNCHANGED <<layout, process, server, since>>
    BY DEF Launch, clientVars
  <1>2. /\ used'.kind = "launch" /\ used'.client = c /\ used'.binary = b /\ used'.name = k
        /\ used'.got = Get(rm_functions, here)
    BY <1>1
  <1> HIDE DEF here
  <1>3. UsesReachTheirSymbol'
    <2>1. used'.got # Unmapped => here \in DOMAIN rm_functions /\ used'.got = rm_functions[here]
      BY <1>2 DEF Get
    <2>2. here \in DOMAIN rm_functions /\ rm_functions[here] # Garbage =>
              /\ rm_functions[here].name = k
              /\ rm_functions[here].owner.binary = b
              /\ layout = "separate" => rm_functions[here].owner.owner = c
              /\ layout = "separate" /\ since[c][b] # 0 => rm_functions[here].owner.process = process[c]
      BY <1>1 DEF RegistryInv, FunctionsMatch, here
    <2> QED BY <1>1, <1>2, <2>1, <2>2 DEF UsesReachTheirSymbol
  <1>4. LaunchesFindTheirKernel'
    <2>1. since[c][b] = server =>
              /\ here \in DOMAIN rm_functions /\ rm_functions[here] # Unmapped
              /\ layout = "separate" => rm_functions[here] # Garbage
      BY <1>1 DEF RegistryInv, LaunchableKnown, here
    <2>2. here \in DOMAIN rm_functions => used'.got = rm_functions[here]
      BY <1>2 DEF Get
    <2> QED BY <1>1, <1>2, <2>1, <2>2 DEF LaunchesFindTheirKernel
  <1> QED BY <1>3, <1>4 DEF UsesAreRight

LEMMA CopyIsRight ==
    ASSUME RegistryInv, NEW c \in Clients, NEW b \in Binaries, NEW v \in VarsOf[b], CopyToSymbol(c, b, v)
    PROVE  UsesAreRight'
  <1> DEFINE here == Address(c, b, v)
  <1>1. /\ used' = [kind |-> "symbol", client |-> c, binary |-> b, name |-> v, got |-> Get(rm_globals, here)]
        /\ UNCHANGED layout
    BY DEF CopyToSymbol
  <1>2. /\ used'.kind = "symbol" /\ used'.client = c /\ used'.binary = b /\ used'.name = v
        /\ used'.got = Get(rm_globals, here)
    BY <1>1
  <1> HIDE DEF here
  <1>3. used'.got # Unmapped => here \in DOMAIN rm_globals /\ used'.got = rm_globals[here]
    BY <1>2 DEF Get
  <1>4. here \in DOMAIN rm_globals =>
            /\ rm_globals[here].name = v
            /\ rm_globals[here].owner.binary = b
            /\ layout = "separate" => rm_globals[here].owner.owner = c
    BY DEF RegistryInv, GlobalsMatch, here
  <1> QED BY <1>1, <1>2, <1>3, <1>4 DEF UsesAreRight, UsesReachTheirSymbol, LaunchesFindTheirKernel

LEMMA NoUseIsRight == used' = NoUse => UsesAreRight'
  BY DEF NoUse, UsesAreRight, UsesReachTheirSymbol, LaunchesFindTheirKernel

LEMMA StepKeeps ==
    ASSUME RegistryInv, UsesAreRight, [Next]_vars
    PROVE  RegistryInv' /\ UsesAreRight'
  <1>1. ASSUME NEW c \in Clients, NEW b \in Binaries, RegisterFatBinary(c, b) \/ LoadFails(c, b) \/ LoadLost(c, b)
        PROVE  RegistryInv' /\ UsesAreRight'
    BY <1>1, LoadKeeps, NoUseIsRight DEF RegisterFatBinary, LoadFails, LoadLost
  <1>2. ASSUME NEW c \in Clients, NEW b \in Binaries, NEW k \in KernelsOf[b], RegisterFunction(c, b, k)
        PROVE  RegistryInv' /\ UsesAreRight'
    BY <1>2, RegisterFunctionKeeps, NoUseIsRight DEF RegisterFunction
  <1>3. ASSUME NEW c \in Clients, NEW b \in Binaries, NEW k \in KernelsOf[b], RegisterFunctionFails(c, b, k)
        PROVE  RegistryInv' /\ UsesAreRight'
    BY <1>3, RegisterFunctionFailsKeeps, NoUseIsRight DEF RegisterFunctionFails
  <1>4. ASSUME NEW c \in Clients, NEW b \in Binaries, NEW v \in VarsOf[b], RegisterVar(c, b, v)
        PROVE  RegistryInv' /\ UsesAreRight'
    BY <1>4, RegisterVarKeeps, NoUseIsRight DEF RegisterVar
  <1>5. ASSUME NEW c \in Clients, NEW b \in Binaries, NEW k \in KernelsOf[b], Launch(c, b, k)
        PROVE  RegistryInv' /\ UsesAreRight'
    BY <1>5, UsesKeep, LaunchIsRight DEF Launch, clientVars, managers
  <1>6. ASSUME NEW c \in Clients, NEW b \in Binaries, NEW v \in VarsOf[b], CopyToSymbol(c, b, v)
        PROVE  RegistryInv' /\ UsesAreRight'
    BY <1>6, UsesKeep, CopyIsRight DEF CopyToSymbol, clientVars, managers
  <1>7. ASSUME NEW c \in Clients, Exit(c) PROVE RegistryInv' /\ UsesAreRight'
    BY <1>7, ExitKeeps, NoUseIsRight DEF Exit
  <1>8. CASE RestartServer
    BY <1>8, RestartServerKeeps, NoUseIsRight DEF RestartServer
  <1>9. CASE UNCHANGED vars
    BY <1>9, UsesKeep
    DEF vars, clientVars, managers, UsesAreRight, UsesReachTheirSymbol, LaunchesFindTheirKernel
  <1> QED BY <1>1, <1>2, <1>3, <1>4, <1>5, <1>6, <1>7, <1>8, <1>9 DEF Next

LEMMA InvHolds == Spec => [](RegistryInv /\ UsesAreRight)
  <1>1. Init => RegistryInv /\ UsesAreRight
    BY InitHolds DEF UsesAreRight
  <1>2. RegistryInv /\ UsesAreRight /\ [Next]_vars => (RegistryInv /\ UsesAreRight)'
    BY StepKeeps
  <1> QED BY <1>1, <1>2, PTL DEF Spec
-----------------------------------------------------------------------------
(* A launch or a copy that reaches a symbol reaches one of the caller's    *)
(* binary and name; with addresses of its own, the caller's own instance   *)
(* (rpc_register_function_1_svc, cuda_launch_kernel_1_svc).                *)
THEOREM RightSymbolIsUsed == Spec => []UsesReachTheirSymbol
  <1>1. RegistryInv /\ UsesAreRight => UsesReachTheirSymbol
    BY DEF UsesAreRight
  <1> QED BY <1>1, InvHolds, PTL

(* A kernel that can be launched is known to the server on which its       *)
(* binary was loaded.                                                      *)
THEOREM LaunchedKernelsAreKnown == Spec => []LaunchesFindTheirKernel
  <1>1. RegistryInv /\ UsesAreRight => LaunchesFindTheirKernel
    BY DEF UsesAreRight
  <1> QED BY <1>1, InvHolds, PTL

(* cudaLaunchKernel finds the last function registered under each name.    *)
THEOREM LastFunctionIsLaunchable == Spec => []RegisteredCanBeLaunched
  <1>1. RegistryInv => RegisteredCanBeLaunched
    <2> SUFFICES ASSUME RegistryInv, NEW c \in Clients, NEW i \in DOMAIN registered[c],
                        \A j \in i + 1 .. Len(registered[c]) : registered[c][j][2] # registered[c][i][2]
                 PROVE  Launchable(c, registered[c][i][1], registered[c][i][2])
      BY DEF RegisteredCanBeLaunched
    <2>1. kernel_infos[c][registered[c][i][2]] = Address(c, registered[c][i][1], registered[c][i][2])
      BY DEF RegistryInv, LastRegistered
    <2>2. registered[c] \in Seq(Binaries \X Names)
      BY DEF RegistryInv, ClientTypes
    <2>3. registered[c][i][2] \in Names
      BY <2>2, ElementOfSeq
    <2> QED BY <2>1, <2>3 DEF Launchable
  <1> QED BY <1>1, InvHolds, PTL
=============================================================================
