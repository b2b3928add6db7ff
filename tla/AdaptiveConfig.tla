--------------------------- MODULE AdaptiveConfig ---------------------------
(***************************************************************************)
(* src/src/runtime/runtime_config.cpp: what the host offers, what the      *)
(* environment overrides, and the budgets the engine derives from both.    *)
(* Sizes are unsigned and wrap at Word; an override is what atoll or atoi  *)
(* makes of the variable, 0 when it is absent or no number.                *)
(***************************************************************************)
EXTENDS Integers

CONSTANTS
    MiB,          \* the unit of the overrides
    Word          \* sizes wrap here (2^64 bytes)

GiB == 1024 * MiB

ASSUME MiBAssumption == MiB \in Nat \ {0}
ASSUME WordAssumption == Word \in Nat /\ Word > 128 * GiB

Lesser(a, b) == IF a < b THEN a ELSE b
Greater(a, b) == IF a > b THEN a ELSE b

Wrap(n) == n % Word
Size == 0 .. Word - 1

Backends == {"none", "cuda", "mps"}
Requests == {"auto", "cpu", "cuda", "mps"}

\* What can be detected; unified memory makes an MPS device as large as the RAM.
Profiles ==
    {p \in [ram : Size, threads : Nat \ {0}, backend : Backends, memory : Size] :
        p.backend = "none" => p.memory = 0}

-----------------------------------------------------------------------------

\* VRAM held back for the driver
GpuReserve(total) == Lesser(total \div 8, 512 * MiB)

\* RAM left to the system and the tokenizer's process
OsReserve(ram) == Greater(GiB, Lesser(ram \div 12, 8 * GiB))

MbEnv(mb) == IF mb > 0 THEN [set |-> TRUE, value |-> Wrap(mb * MiB)]
                       ELSE [set |-> FALSE, value |-> 0]

IntEnv(n) == IF n > 0 THEN [set |-> TRUE, value |-> n] ELSE [set |-> FALSE, value |-> 0]

\* env.gpu may be any text; the rest are numbers.
ReadEnv(env) ==
    [gpu     |-> IF env.gpu \in Requests THEN env.gpu ELSE "auto",
     lru     |-> MbEnv(env.lru),
     ram     |-> MbEnv(env.ram),
     vram    |-> MbEnv(env.vram),
     iocp    |-> IntEnv(env.iocp),
     threads |-> IntEnv(env.threads)]

ResolveGpuBackend(backend, request) ==
    IF request \in {"auto", backend} THEN backend ELSE "none"

-----------------------------------------------------------------------------

\* At least two GiB, whatever is detected or pretended.
Ram(profile, o) ==
    Greater(IF o.ram.set /\ o.ram.value > 0 THEN o.ram.value ELSE profile.ram, 2 * GiB)

Vram(profile, o) ==
    IF o.vram.set THEN o.vram.value
    ELSE profile.memory - GpuReserve(profile.memory)

\* The window the cache should have: three fifths of the RAM up to 40 GiB, more
\* where the memory is unified.
LruWanted(ram, gpu, o) ==
    IF o.lru.set THEN o.lru.value
    ELSE Greater(256 * MiB,
                 IF gpu = "mps" THEN Lesser(Wrap(3 * ram) \div 4, 96 * GiB)
                                ELSE Lesser(Wrap(3 * ram) \div 5, 40 * GiB))

\* What is left when the reserve is taken, or else when there is none to take.
Beside(reserve, ram, wanted, else) ==
    IF reserve >= ram THEN else ELSE Lesser(wanted, ram - reserve)

LruBytes(ram, gpu, o) ==
    LET wanted == LruWanted(ram, gpu, o)
    IN  Greater(256 * MiB, Beside(OsReserve(ram), ram, wanted, wanted))

RamBudget(ram, lru) ==
    LET wanted == Greater(Wrap(4 * ram) \div 5, Wrap(lru + lru \div 2))
    IN  Greater(lru, Beside(OsReserve(ram), ram, wanted, lru))

VramBudget(vram, gpu) ==
    IF gpu = "cuda" THEN vram
    ELSE IF gpu = "mps" THEN Lesser(vram \div 2, 64 * GiB)
    ELSE 0

ComputeThreads(profile, o) ==
    Greater(1, Lesser(IF o.threads.set THEN o.threads.value ELSE profile.threads, 512))

IocpWorkers(threads, o) ==
    Greater(1, Lesser(16, IF o.iocp.set THEN o.iocp.value ELSE Greater(3, threads \div 2)))

ComputeAdaptiveConfig(profile, o) ==
    LET gpu == ResolveGpuBackend(profile.backend, o.gpu)
        ram == Ram(profile, o)
        vram == Vram(profile, o)
        lru == LruBytes(ram, gpu, o)
        threads == ComputeThreads(profile, o)
    IN  [ram |-> ram, gpu |-> gpu, vram |-> vram, lru |-> lru,
         ramBudget |-> RamBudget(ram, lru),
         vramBudget |-> VramBudget(vram, gpu),
         threads |-> threads,
         iocp |-> IocpWorkers(threads, o)]

-----------------------------------------------------------------------------
(***************************************************************************)
(* The budgets fit the memory they are derived from, beside the reserve of *)
(* the system, whatever the overrides and even when the arithmetic wraps;  *)
(* that memory is the detected one unless it is overridden or below the    *)
(* floor.                                                                  *)
(***************************************************************************)
BudgetsFit(profile, o, c) ==
    /\ 256 * MiB <= c.lru /\ c.lru <= c.ramBudget
    /\ c.ramBudget + OsReserve(c.ram) <= c.ram
    /\ c.ram = profile.ram \/ c.ram = 2 * GiB \/ o.ram.set
    /\ c.vramBudget <= c.vram
    /\ c.vram <= profile.memory \/ o.vram.set
    /\ c.threads \in 1 .. 512 /\ c.iocp \in 1 .. 16
=============================================================================
