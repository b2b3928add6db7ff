------------------------------ MODULE Session ------------------------------
(***************************************************************************)
(* main() (src/src/main.cpp): one run of the program, from its command     *)
(* line to its exit code, over the tokenizer's process (TokenizerBridge),  *)
(* the warm-up pass (WarmPass) and the choice of a device                  *)
(* (AdaptiveConfig).  What a forward pass does is Forward's and MoeLayer's *)
(* subject; here it yields a token, or nothing when it is given no ids.    *)
(***************************************************************************)
EXTENDS WarmPass, TokenizerBridge, AdaptiveConfig

CONSTANTS
    CommandLines,    \* bound: the command lines considered, sequences of [opt, val]
    GpuEnvs,         \* bound: values of GLM_GPU
    RawLimit,        \* tokens generated from raw ids without a limit: 8
    MaxMade          \* bound: tokens counted

VARIABLES
    cmd,             \* Args
    gpu,             \* AdaptiveConfig::gpu
    device,          \* CUDA has been initialised
    gpuOn,           \* gpuExpertsEnabled()
    pc,              \* the part of main() that is next
    prompt,          \* the ids of the prompt: "none", "whole", "torn" or "empty"
    made,            \* tokens generated
    exit             \* the exit code, -1 before

mainVars == <<cmd, gpu, device, gpuOn, prompt, made, exit>>
vars == <<readerVars, warmVars, bridgeVars, mainVars, pc>>

-----------------------------------------------------------------------------
(* parseArgs *)

NoArgs ==
    [ok |-> TRUE, mode |-> {}, model |-> "", prompt |-> "", rawIds |-> FALSE, dump |-> FALSE,
     native |-> FALSE, mtp |-> FALSE, useGpu |-> TRUE, gpu |-> "auto", gpuExperts |-> 0,
     maxTokens |-> -1]

EarlyModes == {"--version", "--self-test", "--cuda-self-test", "--check-weights"}

\* --gpu cpu-only is --gpu cpu; a word that is no backend leaves what was asked.
GpuAsked(word, before) ==
    IF word = "cpu-only" THEN "cpu" ELSE IF word \in Requests THEN word ELSE before

\* One option; a later one overrides an earlier one, an unknown one is ignored.
WithOption(args, o) ==
    CASE o.opt \in EarlyModes      -> [args EXCEPT !.mode = @ \cup {o.opt}]
      [] o.opt \in {"--help", "-h"} -> [args EXCEPT !.ok = FALSE]
      [] o.opt = "--model"         -> [args EXCEPT !.model = o.val]
      [] o.opt = "--prompt"        -> [args EXCEPT !.prompt = o.val]
      [] o.opt = "--prompt-tokens" -> [args EXCEPT !.rawIds = @ \/ o.val # <<>>]
      [] o.opt = "--dump-tokens"   -> [args EXCEPT !.dump = o.val # ""]
      [] o.opt = "--tokenizer"     -> [args EXCEPT !.native = (o.val = "native"),
                                                   !.ok = o.val \in {"native", "python"}]
      [] o.opt = "--mtp"           -> [args EXCEPT !.mtp = TRUE]
      [] o.opt = "--no-gpu"        -> [args EXCEPT !.useGpu = FALSE]
      [] o.opt = "--gpu"           -> [args EXCEPT !.gpu = GpuAsked(o.val, @)]
      [] o.opt = "--gpu-experts"   -> [args EXCEPT !.gpuExperts = Greater(o.val, 0)]
      [] o.opt = "--max-tokens"    -> [args EXCEPT !.maxTokens = o.val]
      [] OTHER                     -> args

\* Parsing ends at the first option that is refused.
Parsed(argv) ==
    FoldLeft(LAMBDA args, o : IF args.ok THEN WithOption(args, o) ELSE args, NoArgs, argv)

Accepted(args) == args.ok /\ (args.mode # {} \/ args.model # "")

Init ==
    /\ WarmInit
    /\ BridgeInit
    /\ \E argv \in CommandLines : cmd = Parsed(argv)
    /\ gpu = "none"
    /\ device = FALSE
    /\ gpuOn = FALSE
    /\ pc = "parse"
    /\ prompt = "none"
    /\ made = 0
    /\ exit = -1

\* The process is there, and main() is at p.
At(p) == pc = p /\ bridge # "killed"

Goto(p) == pc' = p

\* return from main(): the destructors follow.
Return(code) ==
    /\ exit' = code
    /\ pc' = "leaving"

StepTo(p) == pc' = p /\ UNCHANGED exit

OthersUnchanged == UNCHANGED <<readerVars, warmVars, bridgeVars>>

-----------------------------------------------------------------------------
(* Before the model is touched. *)

\* --version, the self tests and --check-weights end the process at once.
Parse ==
    /\ At("parse")
    /\ IF ~Accepted(cmd) THEN Return(1)
       ELSE IF "--version" \in cmd.mode THEN Return(0)
       ELSE IF cmd.mode # {} /\ ("--self-test" \in cmd.mode \/ "--cuda-self-test" \in cmd.mode
                                   \/ cmd.model # "")
         THEN \E code \in {0, 1} : Return(code)
       ELSE IF cmd.mode # {} THEN Return(1)
       ELSE StepTo("configure")
    /\ OthersUnchanged
    /\ UNCHANGED <<cmd, gpu, device, gpuOn, prompt, made>>

\* The command line overrides the environment.
GpuRequest(env) ==
    IF ~cmd.useGpu THEN "cpu"
    ELSE IF cmd.gpu # "auto" THEN cmd.gpu
    ELSE IF env \in Requests THEN env ELSE "auto"

Configure ==
    /\ At("configure")
    /\ \E backend \in Backends, env \in GpuEnvs :
        gpu' = ResolveGpuBackend(backend, GpuRequest(env))
    /\ StepTo("index")
    /\ OthersUnchanged
    /\ UNCHANGED <<cmd, device, gpuOn, prompt, made>>

\* --mtp is refused, whatever the checkpoint holds.
BuildIndex ==
    /\ At("index")
    /\ \/ Return(1)
       \/ IF cmd.mtp THEN Return(1) ELSE StepTo("device")
    /\ OthersUnchanged
    /\ UNCHANGED <<cmd, gpu, device, gpuOn, prompt, made>>

\* A device that does not start is only warned about.
InitDevice ==
    /\ At("device")
    /\ device' \in (IF gpu = "cuda" THEN BOOLEAN ELSE {FALSE})
    /\ StepTo("tokenizer")
    /\ OthersUnchanged
    /\ UNCHANGED <<cmd, gpu, gpuOn, prompt, made>>

UsesPython == ~cmd.rawIds /\ ~cmd.native

AfterTokenizer == IF cmd.dump THEN "dump" ELSE "scheduler"

\* Raw ids need no tokenizer; the native one is loaded, or fails to.
NoPython ==
    /\ At("tokenizer")
    /\ ~UsesPython
    /\ \/ StepTo(AfterTokenizer)
       \/ cmd.native /\ ~cmd.rawIds /\ Return(1)
    /\ OthersUnchanged
    /\ UNCHANGED <<cmd, gpu, device, gpuOn, prompt, made>>

StartPython ==
    /\ At("tokenizer")
    /\ UsesPython
    /\ Spawn \/ SpawnFails
    /\ UNCHANGED <<readerVars, warmVars, mainVars, pc>>

PythonStarted ==
    /\ At("tokenizer")
    /\ UsesPython
    /\ \/ bridge = "idle" /\ StepTo(AfterTokenizer)
       \/ bridge = "failed" /\ Return(1)
    /\ OthersUnchanged
    /\ UNCHANGED <<cmd, gpu, device, gpuOn, prompt, made>>

-----------------------------------------------------------------------------
(* Requests to the tokenizer. *)

\* The child is asked, or the native tokenizer answers in place.
AskTokenizer(from, to) ==
    /\ At(from)
    /\ IF UsesPython THEN Ask ELSE UNCHANGED bridgeVars
    /\ StepTo(to)
    /\ UNCHANGED <<readerVars, warmVars, cmd, gpu, device, gpuOn, prompt, made>>

Answered(at) == At(at) /\ (UsesPython => bridge = "idle")

\* What the ids of a reply are worth: a reply without any is an empty prompt.
IdsRead ==
    IF cmd.native \/ reply.what = "whole" THEN {"whole"}
    ELSE IF reply.what = "torn" THEN {"torn", "empty"}
    ELSE {"empty"}

\* --dump-tokens: encode, decode, print and leave.
DumpEncode == AskTokenizer("dump", "dump ids")
DumpDecode == Answered("dump ids") /\ AskTokenizer("dump ids", "dump text")
DumpEnd ==
    /\ Answered("dump text")
    /\ Return(0)
    /\ OthersUnchanged
    /\ UNCHANGED <<cmd, gpu, device, gpuOn, prompt, made>>

-----------------------------------------------------------------------------
(* The engine. *)

\* A scheduler whose reader does not start is only warned about.
InitScheduler ==
    /\ At("scheduler")
    /\ StepTo("warm")
    /\ OthersUnchanged
    /\ UNCHANGED <<cmd, gpu, device, gpuOn, prompt, made>>

\* The pass over the Windows reader, step by step.
Warm ==
    /\ At("warm")
    /\ platform = "windows"
    /\ WarmStep
    /\ UNCHANGED <<bridgeVars, mainVars, pc>>

\* It is over, GLM_NO_WARM is set, or it was the POSIX reader's.
WarmOver ==
    /\ At("warm")
    /\ warm = "over" \/ warm = "idle"
    /\ StepTo("forward")
    /\ OthersUnchanged
    /\ UNCHANGED <<cmd, gpu, device, gpuOn, prompt, made>>

InitForward ==
    /\ At("forward")
    /\ StepTo("experts") \/ Return(1)
    /\ OthersUnchanged
    /\ UNCHANGED <<cmd, gpu, device, gpuOn, prompt, made>>

\* mutation: an offload that is not available is only warned about
EnableGpuExperts_Warns ==
    /\ At("experts")
    /\ gpuOn' \in (IF device /\ cmd.gpuExperts > 0 THEN BOOLEAN ELSE {FALSE})
    /\ StepTo("prompt")
    /\ OthersUnchanged
    /\ UNCHANGED <<cmd, gpu, device, prompt, made>>

EnableGpuExperts ==
    /\ At("experts")
    /\ gpuOn' \in (IF device /\ cmd.gpuExperts > 0 THEN BOOLEAN ELSE {FALSE})
    /\ IF cmd.gpuExperts > 0 /\ ~gpuOn' THEN Return(1) ELSE StepTo("prompt")
    /\ OthersUnchanged
    /\ UNCHANGED <<cmd, gpu, device, prompt, made>>

-----------------------------------------------------------------------------
(* Generation. *)

NothingToDo ==
    /\ At("prompt")
    /\ ~cmd.rawIds /\ cmd.prompt = ""
    /\ StepTo("shutdown")
    /\ OthersUnchanged
    /\ UNCHANGED <<cmd, gpu, device, gpuOn, prompt, made>>

RawPrompt ==
    /\ At("prompt")
    /\ cmd.rawIds
    /\ prompt' = "whole"
    /\ StepTo("loop")
    /\ OthersUnchanged
    /\ UNCHANGED <<cmd, gpu, device, gpuOn, made>>

EncodePrompt ==
    /\ ~cmd.rawIds /\ cmd.prompt # ""
    /\ AskTokenizer("prompt", "encoded")

PromptEncoded ==
    /\ Answered("encoded")
    /\ prompt' \in IdsRead
    /\ StepTo("loop")
    /\ OthersUnchanged
    /\ UNCHANGED <<cmd, gpu, device, gpuOn, made>>

\* Raw ids cannot stop on an end of text, so they always have a limit.
TokenLimit == IF cmd.rawIds /\ cmd.maxTokens < 0 THEN RawLimit ELSE cmd.maxTokens

\* mutation: no limit is none for raw ids either
Unlimited_Raw == cmd.maxTokens < 0

Unlimited == ~cmd.rawIds /\ cmd.maxTokens < 0

\* One turn of the loop.  The tokenizer's end of text ends it.
Generate ==
    /\ At("loop")
    /\ Unlimited \/ made < TokenLimit
    /\ prompt # "empty"
    /\ made' = Lesser(made + 1, MaxMade)
    /\ \/ StepTo("loop")
       \/ ~cmd.rawIds /\ StepTo("output")
    /\ OthersUnchanged
    /\ UNCHANGED <<cmd, gpu, device, gpuOn, prompt>>

\* The limit is reached, or forward() has no token to start from.
StopGenerating ==
    /\ At("loop")
    /\ (~Unlimited /\ made >= TokenLimit) \/ prompt = "empty"
    /\ StepTo("output")
    /\ OthersUnchanged
    /\ UNCHANGED <<cmd, gpu, device, gpuOn, prompt, made>>

DecodeOutput ==
    /\ IF cmd.rawIds
       THEN /\ At("output")
            /\ StepTo("shutdown")
            /\ OthersUnchanged
            /\ UNCHANGED <<cmd, gpu, device, gpuOn, prompt, made>>
       ELSE AskTokenizer("output", "decoded")

OutputDecoded ==
    /\ Answered("decoded")
    /\ StepTo("shutdown")
    /\ OthersUnchanged
    /\ UNCHANGED <<cmd, gpu, device, gpuOn, prompt, made>>

\* The scheduler's reader is drained and stopped, and the device left.
Shutdown ==
    /\ At("shutdown")
    /\ Return(0)
    /\ device' = FALSE
    /\ OthersUnchanged
    /\ UNCHANGED <<cmd, gpu, gpuOn, prompt, made>>

\* ~PythonTokenizer
StopTokenizer ==
    /\ pc \in {"leaving", "tokenizer"}
    /\ Stop
    /\ pc = "leaving" \/ bridge = "giving up"
    /\ UNCHANGED <<readerVars, warmVars, mainVars, pc>>

Leave ==
    /\ At("leaving")
    /\ bridge \in {"closed", "failed", "stopped"}
    /\ pc' = "ended"
    /\ OthersUnchanged
    /\ UNCHANGED mainVars

-----------------------------------------------------------------------------

CallGoesOn == CallStep /\ UNCHANGED <<readerVars, warmVars, mainVars, pc>>

ChildGoesOn == ChildStep /\ UNCHANGED <<readerVars, warmVars, mainVars, pc>>

\* The steps of the host's thread that wait for nothing but the child.
Host ==
    \/ Parse \/ Configure \/ BuildIndex \/ InitDevice
    \/ NoPython \/ StartPython \/ PythonStarted
    \/ DumpEncode \/ DumpDecode \/ DumpEnd
    \/ InitScheduler \/ InitForward \/ EnableGpuExperts
    \/ NothingToDo \/ RawPrompt \/ EncodePrompt \/ PromptEncoded
    \/ Generate \/ StopGenerating \/ DecodeOutput \/ OutputDecoded
    \/ StopTokenizer \/ Leave \/ CallGoesOn

Next == Host \/ Warm \/ WarmOver \/ Shutdown \/ ChildGoesOn

Fairness ==
    /\ WF_vars(Host)
    /\ WF_vars(ChildWorks /\ UNCHANGED <<readerVars, warmVars, mainVars, pc>>)

Spec == Init /\ [][Next]_vars /\ Fairness

-----------------------------------------------------------------------------

Ended == pc = "ended" \/ bridge = "killed"

CpuOnly == ~cmd.useGpu \/ cmd.gpu = "cpu"

(***************************************************************************)
(* What main() refuses to degrade.  A run that succeeds, early modes       *)
(* aside, was not asked for --mtp, and has the --gpu-experts offload it    *)
(* was asked for unless it only dumped tokens; a run told to stay on the   *)
(* CPU never has a device.  A token is only generated with that offload,   *)
(* and after a whole prompt unless the child died while it answered.       *)
(*                                                                         *)
(* The other options are not promised: --gpu cuda without a device and     *)
(* unknown options are warned about, --temperature has no effect on raw    *)
(* ids, and the torn reply of a child that died is generated from.         *)
(***************************************************************************)
RefusesToDegrade ==
    /\ exit = 0 /\ cmd.mode = {} =>
        /\ ~cmd.mtp
        /\ cmd.gpuExperts > 0 => gpuOn \/ cmd.dump
    /\ CpuOnly => ~device /\ ~gpuOn
    /\ made > 0 =>
        /\ cmd.gpuExperts > 0 => gpuOn /\ gpu = "cuda"
        /\ prompt = "whole" \/ child = "gone"

(***************************************************************************)
(* Every run ends, except that it may hang in a drain, at the warm-up or   *)
(* at the shutdown, and may go on for ever when it has no limit: a child   *)
(* that dies, prints or errs never makes the host wait for ever.           *)
(***************************************************************************)
RunEnds ==
    \/ <>Ended
    \/ <>[](pc \in {"warm", "shutdown"})
    \/ <>[](pc = "loop" /\ ~cmd.rawIds /\ cmd.maxTokens < 0)
=============================================================================
