------------------------------ MODULE Processes ------------------------------
(***************************************************************************)
(* The main process and its children (Source/Engine.cpp, and the signal    *)
(* handlers of Source/Linux/System.cpp).                                   *)
(*                                                                         *)
(* The main process has one thread.  A signal handler runs on top of it,   *)
(* between any two of its steps, and to its end before the next of them:   *)
(* a handler is one action.  Children die at any time.                     *)
(*                                                                         *)
(* The k-th socket pair, the process forked for it and its process id are  *)
(* all called k; ids are not used again.  A command waits in its pair      *)
(* until the child reads it, so it may be sent before the fork.            *)
(***************************************************************************)
EXTENDS Integers, FiniteSets

CONSTANTS MaxProcess,   \* mConfig.mMaxProcess: the number of children wanted
          Pairs,        \* bound on the number of socket pairs ever opened
          Terms,        \* bound on the number of SIGTERM and SIGINT
          Deaths        \* exit codes a child may die with by itself

ASSUME ProcessConstants ==
    /\ MaxProcess \in Nat \ {0}
    /\ Pairs \in Nat
    /\ Terms \in Nat
    /\ Deaths \subseteq 0 .. 255

Slots == 1 .. MaxProcess      \* mChild[0 .. MaxProcess - 1]
Pids == 1 .. Pairs
None == 0                     \* no process id; no open socket
Fatal == 2                    \* the exit code of a child that is not respawned

VARIABLES
    mProcStatus, mProcResponCount,
    mID, mStatus, mAlive, mSocket,    \* of the slots, mChild
    pc, idx,        \* where the main process is, and with which slot
    starting,       \* it is in createProcess(), before runMainProcess()
    pairs,          \* number of socket pairs opened
    proc, code,     \* of a process: its state, and the code it ended with
    told,           \* the pairs an exit command was written to
    sig,            \* pending signals
    terms,          \* number of SIGTERM so far
    stuck           \* the main process waits for a mutex it holds

slotVars == <<mID, mStatus, mAlive, mSocket>>
mainVars == <<pc, idx, starting, pairs>>
kernVars == <<proc, code>>
vars == <<mProcStatus, mProcResponCount, slotVars, mainVars, kernVars, told,
          sig, terms, stuck>>

Running == ~stuck /\ pc # "gone"
Up == {p \in Pids : proc[p] = "up"}

-----------------------------------------------------------------------------
(* createProcess(idx), for every slot at the start and for dead ones later. *)

At(where) == Running /\ pc = where
NextSlot == pc' = "slot" /\ idx' = idx + 1

\* if (!mAlive && EPS_RESPAWN == mStatus)
\* Mutant: only whether it was given up.
MustCreateUnlessExited(i) == starting \/ mStatus[i] # "exited"
MustCreate(i) == starting \/ (~mAlive[i] /\ mStatus[i] = "respawn")

SkipSlot ==
    /\ At("slot") /\ idx \in Slots /\ ~MustCreate(idx)
    /\ NextSlot
    /\ UNCHANGED <<mProcStatus, mProcResponCount, slotVars, starting, pairs,
                   kernVars, told, sig, terms, stuck>>

\* The slot is marked before the process exists.
OpenPair ==
    /\ At("slot") /\ idx \in Slots /\ MustCreate(idx)
    /\ pairs < Pairs
    /\ pairs' = pairs + 1
    /\ mStatus' = [mStatus EXCEPT ![idx] = "running"]
    /\ mAlive' = [mAlive EXCEPT ![idx] = TRUE]
    /\ mSocket' = [mSocket EXCEPT ![idx] = pairs + 1]
    /\ pc' = "fork"
    /\ UNCHANGED <<mProcStatus, mProcResponCount, mID, idx, starting,
                   kernVars, told, sig, terms, stuck>>

\* GT_PROC_FAIL
GiveUp ==
    /\ mID' = [mID EXCEPT ![idx] = None]
    /\ mStatus' = [mStatus EXCEPT ![idx] = "exited"]
    /\ mAlive' = [mAlive EXCEPT ![idx] = FALSE]
    /\ NextSlot
    /\ UNCHANGED <<mProcStatus, mProcResponCount, mSocket, starting, pairs,
                   kernVars, told, sig, terms, stuck>>

OpenPairFails ==
    /\ At("slot") /\ idx \in Slots /\ MustCreate(idx)
    /\ GiveUp

\* fork() fails.  pair.close() leaves the slot the number of the socket it has
\* closed.
ForkFails ==
    /\ At("fork")
    /\ GiveUp

Fork ==
    /\ At("fork")
    /\ proc' = [proc EXCEPT ![pairs] = "up"]
    /\ pc' = "store"
    /\ UNCHANGED <<mProcStatus, mProcResponCount, slotVars, idx, starting,
                   pairs, code, told, sig, terms, stuck>>

\* nd.mID = System::createProcess(): in here the child may be dead already.
StoreID ==
    /\ At("store")
    /\ mID' = [mID EXCEPT ![idx] = pairs]
    /\ pc' = "log"
    /\ UNCHANGED <<mProcStatus, mProcResponCount, mStatus, mAlive, mSocket, idx,
                   starting, pairs, kernVars, told, sig, terms, stuck>>

Created ==
    /\ At("log")
    /\ NextSlot
    /\ UNCHANGED <<mProcStatus, mProcResponCount, slotVars, starting, pairs,
                   kernVars, told, sig, terms, stuck>>

-----------------------------------------------------------------------------
(* run() of the main process.                                              *)

\* runMainProcess()
Started ==
    /\ At("slot") /\ idx \notin Slots /\ starting
    /\ starting' = FALSE
    /\ mProcStatus' = "running"
    /\ pc' = "check"
    /\ UNCHANGED <<mProcResponCount, slotVars, idx, pairs, kernVars, told, sig,
                   terms, stuck>>

\* Mutant: what was asked for meanwhile is taken for done.
CountAfterScanNone == 0
CountAfterScan == mProcResponCount

IsAsked == mProcResponCount > 0

BeginScan ==
    /\ At("check") /\ mProcStatus = "running"
    /\ IsAsked
    /\ mProcResponCount' = mProcResponCount - 1
    /\ pc' = "slot" /\ idx' = 1
    /\ UNCHANGED <<mProcStatus, slotVars, starting, pairs, kernVars, told, sig,
                   terms, stuck>>

EndScan ==
    /\ At("slot") /\ idx \notin Slots /\ ~starting
    /\ mProcResponCount' = CountAfterScan
    /\ pc' = "check"
    /\ UNCHANGED <<mProcStatus, slotVars, idx, starting, pairs, kernVars, told,
                   sig, terms, stuck>>

\* The loop ends; waitProcess() does nothing on Linux.
\* Mutant: it is left only when nothing is to be respawned.
MayLeaveIdle == mProcStatus # "running" /\ mProcResponCount = 0
MayLeave == mProcStatus # "running"

Leave ==
    /\ At("check")
    /\ MayLeave
    /\ pc' = "gone"
    /\ UNCHANGED <<mProcStatus, mProcResponCount, slotVars, idx, starting,
                   pairs, kernVars, told, sig, terms, stuck>>

-----------------------------------------------------------------------------
(* Signals.                                                                *)

\* System_getStatus(): every dead child is waited for, and looked for in
\* mChild; then postCommand(ECT_RESPAWN), known or not, unless it was fatal.
\* Mutant: one child for each signal, though signals that are pending coalesce.
ZombieOne ==
    {p \in Pids : proc[p] = "zombie" /\ \A q \in Pids : q < p => proc[q] # "zombie"}
Zombies == {p \in Pids : proc[p] = "zombie"}
Known(i) == mID[i] \in Zombies

Respawns == Cardinality({p \in Zombies : code[p] # Fatal})

NewStatus(i) == IF code[mID[i]] = Fatal THEN "exited" ELSE "respawn"

OnSignalChild ==
    /\ Running /\ "CHLD" \in sig
    /\ sig' = sig \ {"CHLD"}
    /\ mStatus' = [i \in Slots |-> IF Known(i) THEN NewStatus(i) ELSE mStatus[i]]
    /\ mAlive' = [i \in Slots |-> mAlive[i] /\ ~Known(i)]
    /\ mSocket' = [i \in Slots |-> IF Known(i) THEN None ELSE mSocket[i]]
    /\ mProcResponCount' = mProcResponCount + Respawns
    /\ proc' = [p \in Pids |-> IF p \in Zombies THEN "waited" ELSE proc[p]]
    /\ UNCHANGED <<mProcStatus, mID, mainVars, code, told, terms, stuck>>

\* postCommand(ECT_EXIT) to every slot whose socket is open.
OnSignalTerm ==
    /\ Running /\ "TERM" \in sig
    /\ sig' = sig \ {"TERM"}
    /\ told' = told \cup ({mSocket[i] : i \in Slots} \ {None})
    /\ mProcStatus' = "exiting"
    /\ UNCHANGED <<mProcResponCount, slotVars, mainVars, kernVars, terms, stuck>>

\* Every handler calls Logger::log(), which locks a mutex: one that comes
\* while the main process, or the handler of the other signal, logs waits for
\* it for ever.
SelfDeadlock ==
    /\ Running
    /\ \/ sig # {} /\ pc \in {"store", "log"}
       \/ Cardinality(sig) = 2
    /\ stuck' = TRUE
    /\ UNCHANGED <<mProcStatus, mProcResponCount, slotVars, mainVars, kernVars,
                   told, sig, terms>>

-----------------------------------------------------------------------------
(* The children, and whoever sends the main process a SIGTERM.             *)

Ends(p, c) ==
    /\ proc[p] = "up"
    /\ proc' = [proc EXCEPT ![p] = "zombie"]
    /\ code' = [code EXCEPT ![p] = c]
    /\ sig' = sig \cup {"CHLD"}
    /\ UNCHANGED <<mProcStatus, mProcResponCount, slotVars, mainVars, told,
                   terms, stuck>>

ChildDies(p) == \E c \in Deaths : Ends(p, c)

\* ECT_EXIT: Loop::stop(), then main() returns 0.
ChildExits(p) == p \in told /\ Ends(p, 0)

Terminate ==
    /\ terms < Terms
    /\ terms' = terms + 1
    /\ sig' = sig \cup {"TERM"}
    /\ UNCHANGED <<mProcStatus, mProcResponCount, slotVars, mainVars, kernVars,
                   told, stuck>>

-----------------------------------------------------------------------------
Init ==
    /\ mProcStatus = "init" /\ mProcResponCount = 0
    /\ mID = [i \in Slots |-> None]
    /\ mStatus = [i \in Slots |-> "init"]
    /\ mAlive = [i \in Slots |-> FALSE]
    /\ mSocket = [i \in Slots |-> None]
    /\ pc = "slot" /\ idx = 1 /\ starting = TRUE
    /\ pairs = 0
    /\ proc = [p \in Pids |-> "none"] /\ code = [p \in Pids |-> 0]
    /\ told = {} /\ sig = {} /\ terms = 0 /\ stuck = FALSE

MainStep ==
    \/ SkipSlot \/ OpenPair \/ OpenPairFails \/ ForkFails \/ Fork
    \/ StoreID \/ Created \/ Started \/ BeginScan \/ EndScan \/ Leave

Next ==
    \/ MainStep
    \/ OnSignalChild \/ OnSignalTerm \/ SelfDeadlock
    \/ \E p \in Pids : ChildDies(p) \/ ChildExits(p)
    \/ Terminate

Spec == Init /\ [][Next]_vars

\* The main process runs on, pending signals are delivered, and a child that
\* has been told to exit does.  Nothing makes a child die, a fork succeed or
\* fail, or anybody send a SIGTERM.
FairSpec ==
    /\ Spec
    /\ WF_vars(MainStep) /\ WF_vars(OnSignalChild) /\ WF_vars(OnSignalTerm)
    /\ \A p \in Pids : WF_vars(ChildExits(p))

-----------------------------------------------------------------------------
(* Properties.                                                             *)

\* Every variable has a value of its type.
TypeOK ==
    /\ mProcStatus \in {"init", "running", "exiting"}
    /\ mProcResponCount \in Nat
    /\ mID \in [Slots -> Pids \cup {None}]
    /\ mStatus \in [Slots -> {"init", "running", "respawn", "exited"}]
    /\ mAlive \in [Slots -> BOOLEAN]
    /\ mSocket \in [Slots -> Pids \cup {None}]
    /\ pc \in {"slot", "fork", "store", "log", "check", "gone"}
    /\ idx \in 1 .. MaxProcess + 1
    /\ starting \in BOOLEAN
    /\ pairs \in 0 .. Pairs
    /\ proc \in [Pids -> {"none", "up", "zombie", "waited"}]
    /\ code \in [Pids -> 0 .. 255]
    /\ told \subseteq Pids
    /\ sig \subseteq {"CHLD", "TERM"}
    /\ terms \in Nat
    /\ stuck \in BOOLEAN

\* No slot that is to be respawned is forgotten: there is a request that the
\* loop has not seen, or the scan that it started comes to this slot yet.
\* Signals arrive before, during and after the scan.
NoRespawnForgotten ==
    \A i \in Slots : mStatus[i] = "respawn" =>
        \/ mProcResponCount > 0
        \/ pc = "slot" /\ ~starting /\ idx <= i
        \/ pc \in {"fork", "store", "log"} /\ ~starting /\ idx < i

\* No child runs that no slot knows: it could be sent no command.
ChildKnown ==
    \A p \in Up : \E i \in Slots : mAlive[i] /\ mSocket[i] = p

\* A slot that is given up after the start stays so: a child that died of the
\* fatal code is not replaced when another slot is respawned.
FatalIsFinal ==
    [][\A i \in Slots : mStatus[i] = "exited" /\ ~starting =>
          mStatus'[i] = "exited" /\ mID'[i] = mID[i]]_vars

\* A child that its slot knows by its id, and that died of anything but the
\* fatal code, is replaced, or its slot is given up because it cannot be; also
\* when one SIGCHLD stands for several deaths.  (One that dies before its id is
\* stored is not: OnlyFatalGivenUp.)
RespawnComes ==
    \A p \in Pids :
        (proc[p] = "zombie" /\ code[p] # Fatal /\ \E i \in Slots : mID[i] = p) ~>
            ((\A i \in Slots : mID[i] # p) \/ mProcStatus = "exiting" \/ stuck)

\* A SIGTERM that arrives when the engine runs ends it.
TermEnds == (mProcStatus = "exiting" /\ ~starting) ~> (pc = "gone" \/ stuck)

\* What System.cpp:142 says: a child is given up for the fatal code alone.  A
\* main process with nothing to do has no slot whose child was waited for.
OnlyFatalGivenUp ==
    pc = "check" /\ mProcStatus = "running" /\ mProcResponCount = 0 =>
        \A i \in Slots : mAlive[i] => proc[mID[i]] # "waited"

\* What Engine.cpp:289 says: when the main process leaves run() its children
\* exit, which they do when they were told to.
ExitToldAll == pc = "gone" => Up \subseteq told
=============================================================================
