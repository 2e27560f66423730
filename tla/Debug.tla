------------------------------- MODULE Debug -------------------------------
(***************************************************************************)
(* The run control of libr/debug/debug.c: r_debug_step, r_debug_step_hard, *)
(* r_debug_step_soft, r_debug_continue_kill, r_debug_continue_until,       *)
(* r_debug_wait, r_debug_bp_hit and r_debug_recoil, which call each other  *)
(* recursively, over a debuggee that runs by itself between two calls of   *)
(* the debugger plugin (h->step / h->cont and h->wait).                    *)
(*                                                                         *)
(* stack is the C call stack: a frame names the place where its function   *)
(* goes on, and ret is the value the last call returned.  Breakpoints are  *)
(* one byte (bpsize), as on x86.                                           *)
(***************************************************************************)
EXTENDS BpItems

CONSTANTS
    Prog,        \* addresses of the program's instructions, without 0
    Succ,        \* [Prog -> SUBSET Prog], where each of them can go next
    AnalNext,    \* [Prog -> Seq(Prog)], the next[] of r_debug_step_soft
    BpAddrs,     \* addresses the user sets breakpoints at
    InitPcs,     \* where the debuggee is when the debugger attaches
    MaxBps,      \* bound on the user's breakpoints
    Uses         \* how sessions are used: a set of records, see Use

ASSUME ProgAssumption ==
    /\ Prog \subseteq 1 .. (Width - 2)
    /\ Succ \in [Prog -> SUBSET Prog]
    /\ AnalNext \in [Prog -> Seq(Prog)]
    /\ \A a \in Prog : Len(AnalNext[a]) <= 2
    /\ BpAddrs \cup InitPcs \subseteq Prog
ASSUME BoundAssumption == MaxBps \in Nat

\* What the user and the debuggee do in a session, and how often.
Use == [
    steps    : SUBSET Prog,      \* addresses the user steps from
    untils   : SUBSET Prog,      \* targets of r_debug_continue_until
    dcus     : SUBSET Prog,      \* targets of dcu
    pcs      : SUBSET Prog,      \* values the user writes to the program counter
    enables  : SUBSET BOOLEAN,   \* values the user sets the enabled flag to
    kinds    : SUBSET {"break", "trace", "cond"},
    events   : SUBSET {"SIGNAL", "NEW_PID", "DEAD", "ERROR"},
    policies : SUBSET {"stop", "cont", "skip"},   \* r_debug_signal_setup
    swsteps  : SUBSET BOOLEAN,   \* values of dbg->swstep
    maxEvents : Nat,             \* bound on the events of a behaviour
    maxOwed   : Nat]             \* bound on the signals a user sends with dck
ASSUME UsesAssumption ==
    \A u \in Uses : u \in Use /\ u.policies # {} /\ u.swsteps # {}

VARIABLES
    \* the debuggee
    pc,           \* its program counter
    mem,          \* its bytes
    proc,         \* "stopped", "stepping", "running" or "dead"
    event,        \* the stop that h->wait has yet to report, or "none"
    nevents,      \* events so far, bounded by use.maxEvents
    \* the debugger
    bps,          \* dbg->bp->bps
    recoil_mode,  \* dbg->recoil_mode
    bp_addr,      \* dbg->reason.bp_addr, 0 when no breakpoint was hit
    signum,       \* dbg->reason.signum: "none", "TRAP" or "SIG"
    swstep,       \* dbg->swstep
    policy,       \* r_debug_signal_what (dbg, SIG)
    stack, ret,   \* control
    use,          \* the use of this session, a member of Uses
    \* history, read by the properties only
    trapped,      \* pc is one past a trap that was executed
    moved,        \* the current command has executed an instruction
    owed,         \* signals received or sent by the user, minus delivered
    mine          \* addresses of the breakpoints the user has set

inferior == <<pc, mem, proc, event, nevents>>
control  == <<stack, ret>>
history  == <<trapped, moved, owed, mine>>
config   == <<swstep, policy, use>>
vars     == <<inferior, bps, recoil_mode, bp_addr, signum, config, control, history>>

----------------------------------------------------------------------------
(* Breakpoints and the call stack.                                         *)

Item == [addr : Addr, size : {1}, hw : {FALSE}, prot : {TRUE},
         enabled : BOOLEAN, kind : {"break", "trace", "cond"}, swstep : BOOLEAN,
         obytes : [{0} -> Byte]]

\* r_bp_add_sw (dbg->bp, a, bpsize, R_BP_PROT_EXEC): the list after it.
WithBp(s, a, kind, sw) ==
    IF r_bp_get_in(s, a, TRUE) # NoPos THEN s
    ELSE Append(s, [addr |-> a, size |-> 1, hw |-> FALSE, prot |-> TRUE,
                    enabled |-> TRUE, kind |-> kind, swstep |-> sw,
                    obytes |-> ReadAt(mem, a, 1)])

\* r_bp_del: the list after it.
WithoutBp(s, a) ==
    LET i == r_bp_get_at(s, a) IN IF i = NoPos THEN s ELSE Without(s, i)

Places == {"step", "step_ret", "hard", "hard_recoiled", "hard_go", "hard_wait",
           "recoil", "recoil_stepped", "cont", "cont_recoiled", "cont_wait",
           "cont_skip", "soft", "soft_ret", "until", "until_loop", "dcu", "dcu_ret"}

\* mode: argument of r_debug_recoil; sig: of r_debug_continue_kill;
\* to: target of r_debug_continue_until and dcu; tmp: breakpoints to delete on return.
Frame == [at : Places, mode : {"NONE", "STEP", "CONTINUE"}, sig : BOOLEAN,
          to : Addr, tmp : Seq(Addr)]

Fr(at) == [at |-> at, mode |-> "NONE", sig |-> FALSE, to |-> 0, tmp |-> << >>]

At(place)    == stack # << >> /\ Head(stack).at = place
Goto(f)      == stack' = <<f>> \o Tail(stack) /\ UNCHANGED ret
Call(f, g)   == stack' = <<g, f>> \o Tail(stack) /\ UNCHANGED ret
Return(v)    == stack' = Tail(stack) /\ ret' = v
Resume(at)   == [Head(stack) EXCEPT !.at = at]
Idle         == stack = << >>
Dead         == proc = "dead"

Init ==
    /\ pc \in InitPcs /\ mem = Code /\ proc = "stopped"
    /\ event = "none" /\ nevents = 0
    /\ bps = << >> /\ recoil_mode = "NONE" /\ bp_addr = 0 /\ signum = "none"
    /\ use \in Uses /\ swstep \in use.swsteps /\ policy \in use.policies
    /\ stack = << >> /\ ret = FALSE
    /\ trapped = FALSE /\ moved = FALSE /\ owed = 0 /\ mine = {}

----------------------------------------------------------------------------
(* The debuggee (external): it executes the byte at pc, or is interrupted. *)

Resumed == proc \in {"stepping", "running"}

Stop(e) == proc' = "stopped" /\ event' = e

Exec ==
    /\ Resumed
    /\ pc \in Prog /\ mem[pc] # Trap
    /\ \E next \in Succ[pc] : pc' = next
    /\ IF proc = "stepping" THEN Stop("TRAP") ELSE UNCHANGED <<proc, event>>
    /\ moved' = TRUE
    /\ UNCHANGED <<mem, nevents, bps, recoil_mode, bp_addr, signum, config,
                   control, trapped, owed, mine>>

ExecTrap ==
    /\ Resumed
    /\ mem[pc] = Trap
    /\ pc' = pc + 1
    /\ Stop("TRAP")
    /\ trapped' = TRUE
    /\ UNCHANGED <<mem, nevents, bps, recoil_mode, bp_addr, signum, config,
                   control, moved, owed, mine>>

\* A signal, a fork, or a failing waitpid stops it before an instruction.
Interrupt(e) ==
    /\ Resumed
    /\ e \in use.events \ {"DEAD"} /\ nevents < use.maxEvents
    /\ Stop(e)
    /\ nevents' = nevents + 1
    /\ owed' = IF e = "SIGNAL" THEN owed + 1 ELSE owed
    /\ UNCHANGED <<pc, mem, bps, recoil_mode, bp_addr, signum, config, control,
                   trapped, moved, mine>>

\* It ends, by an event or because there is no instruction to go on with: it
\* exits, or is killed, and then its registers cannot be read after the wait.
Die ==
    /\ Resumed
    /\ \/ "DEAD" \in use.events
       \/ mem[pc] # Trap /\ (pc \in Prog => Succ[pc] = {})
    /\ proc' = "dead" /\ event' \in {"DEAD", "ERROR"}
    /\ UNCHANGED <<pc, mem, nevents, bps, recoil_mode, bp_addr, signum, config,
                   control, history>>

----------------------------------------------------------------------------
(* r_debug_bp_hit.  All software breakpoints are taken out.  Nothing else  *)
(* happens in a hardware-stepped recoil.  Otherwise an item at pc - bpsize *)
(* is the one that was hit: pc goes back by its size, and bp_addr is set   *)
(* for r_debug_recoil, unless the item was only there for a software step. *)
(* Without such an item bp_addr stays what it was.                         *)

Recoiling == ~swstep /\ recoil_mode # "NONE"

HitPos == IF Recoiling THEN NoPos ELSE r_bp_get_at(bps, pc - 1)

\* Mutated: pc is not wound back; only the trap that was hit is taken out.
BpHitNoRewind ==
    /\ mem' = r_bp_restore(bps, mem, FALSE)
    /\ trapped' = FALSE
    /\ bp_addr' = IF HitPos = NoPos THEN bp_addr ELSE bps[HitPos].addr
    /\ UNCHANGED pc
BpHitTakesOne ==
    /\ mem' = IF HitPos = NoPos THEN mem ELSE r_bp_restore(<<bps[HitPos]>>, mem, FALSE)
    /\ IF Recoiling THEN bp_addr' = 0 /\ UNCHANGED <<pc, trapped>>
       ELSE IF HitPos = NoPos THEN UNCHANGED <<pc, bp_addr, trapped>>
       ELSE /\ pc' = pc - 1 /\ trapped' = FALSE
            /\ bp_addr' = IF bps[HitPos].swstep THEN 0 ELSE bps[HitPos].addr

r_debug_bp_hit ==
    /\ mem' = r_bp_restore(bps, mem, FALSE)
    /\ IF Recoiling
       THEN bp_addr' = 0 /\ UNCHANGED <<pc, trapped>>
       ELSE IF HitPos = NoPos
       THEN UNCHANGED <<pc, bp_addr, trapped>>
       ELSE /\ pc' = pc - 1
            /\ trapped' = FALSE
            /\ bp_addr' = IF bps[HitPos].swstep THEN 0 ELSE bps[HitPos].addr

(* r_debug_wait: the reason it returns, and what it does to the state.     *)
(* The linux plugin reports every SIGTRAP as R_DEBUG_REASON_BREAKPOINT; a  *)
(* tracepoint or a condition on the item that was hit changes the reason.  *)

r_debug_native_wait == IF event = "TRAP" THEN "BREAKPOINT" ELSE event

KindReason(kind) ==
    CASE kind = "break" -> "BREAKPOINT"
      [] kind = "trace" -> "TRACEPOINT"
      [] kind = "cond"  -> "COND"

WaitReason ==
    IF r_debug_native_wait = "BREAKPOINT" /\ HitPos # NoPos
    THEN KindReason(bps[HitPos].kind) ELSE r_debug_native_wait

\* Mutated: the signal of an earlier stop survives a breakpoint.
WaitStaleSignum ==
    /\ event # "none"
    /\ event' = "none"
    /\ IF event = "TRAP" THEN r_debug_bp_hit
                         ELSE UNCHANGED <<pc, mem, bp_addr, trapped>>
    /\ signum' = IF event = "SIGNAL" THEN "SIG" ELSE signum

r_debug_wait ==
    /\ event # "none"
    /\ event' = "none"
    /\ IF event = "TRAP" THEN r_debug_bp_hit
                         ELSE UNCHANGED <<pc, mem, bp_addr, trapped>>
    /\ signum' = CASE event = "TRAP"   -> "TRAP"
                   [] event = "SIGNAL" -> "SIG"
                   [] OTHER            -> signum

----------------------------------------------------------------------------
(* r_debug_step (one step) and r_debug_step_hard.                          *)

Quiet == UNCHANGED <<inferior, bps, recoil_mode, bp_addr, signum, config, history>>

r_debug_step ==
    /\ At("step")
    /\ IF Dead THEN Return(FALSE)
               ELSE Call(Fr("step_ret"), Fr(IF swstep THEN "soft" ELSE "hard"))
    /\ Quiet

StepReturn == At("step_ret") /\ Return(ret) /\ Quiet

StepHardEnter ==
    /\ At("hard")
    /\ CASE Dead -> Return(FALSE)
         [] ~Dead /\ recoil_mode = "NONE" ->
              Call(Fr("hard_recoiled"), [Fr("recoil") EXCEPT !.mode = "STEP"])
         [] OTHER -> Goto(Fr("hard_go"))
    /\ Quiet

\* The recoil may already have made the step the caller asked for.
StepHardRecoiled ==
    /\ At("hard_recoiled")
    /\ CASE ~ret -> Return(FALSE) /\ UNCHANGED recoil_mode
         [] ret /\ recoil_mode = "STEP" -> Return(TRUE) /\ recoil_mode' = "NONE"
         [] OTHER -> Goto(Fr("hard_go")) /\ UNCHANGED recoil_mode
    /\ UNCHANGED <<inferior, bps, bp_addr, signum, config, history>>

\* h->step, which fails when ptrace does.
StepHardGo ==
    /\ At("hard_go")
    /\ \/ /\ proc' = "stepping"
          /\ Goto(Fr("hard_wait"))
          /\ UNCHANGED nevents
       \/ /\ "ERROR" \in use.events /\ nevents < use.maxEvents
          /\ nevents' = nevents + 1
          /\ Return(FALSE)
          /\ UNCHANGED proc
    /\ UNCHANGED <<pc, mem, event, bps, recoil_mode, bp_addr, signum, config, history>>

StepHardWait ==
    /\ At("hard_wait")
    /\ r_debug_wait
    /\ Return(event \notin {"ERROR", "DEAD"})
    /\ UNCHANGED <<proc, nevents, bps, recoil_mode, config, moved, owed, mine>>

----------------------------------------------------------------------------
(* r_debug_step_soft: breakpoints at the next instructions, then continue. *)

\* The list after r_bp_add_sw, or r_bp_del, at each address of next.
WithTmp(s, next) ==
    LET one == WithBp(s, next[1], "break", TRUE)
    IN  IF Len(next) = 1 THEN one ELSE WithBp(one, next[2], "break", TRUE)

WithoutTmp(s, next) ==
    CASE next = << >>  -> s
      [] Len(next) = 1 -> WithoutBp(s, next[1])
      [] OTHER         -> WithoutBp(WithoutBp(s, next[1]), next[2])

\* r_anal_op does not know every instruction: the step then fails.
StepSoftEnter ==
    /\ At("soft")
    /\ recoil_mode' = IF recoil_mode = "NONE" THEN "STEP" ELSE recoil_mode
    /\ IF Dead \/ pc \notin Prog \/ AnalNext[pc] = << >>
       THEN Return(FALSE) /\ UNCHANGED bps
       ELSE /\ bps' = WithTmp(bps, AnalNext[pc])
            /\ Call([Fr("soft_ret") EXCEPT !.tmp = AnalNext[pc]], Fr("cont"))
    /\ UNCHANGED <<inferior, bp_addr, signum, config, history>>

StepSoftReturn ==
    /\ At("soft_ret")
    /\ bps' = WithoutTmp(bps, Head(stack).tmp)
    /\ Return(ret)
    /\ UNCHANGED <<inferior, recoil_mode, bp_addr, signum, config, history>>

----------------------------------------------------------------------------
(* r_debug_recoil: get the breakpoints back into the debuggee, after one   *)
(* step with all of them out when the debuggee stands on one.              *)

\* Mutated: the breakpoint at pc is left out, in all cases.
BpsEnableExcept ==
    /\ mem' = r_bp_restore_except(bps, mem, TRUE, pc)
    /\ recoil_mode' = "NONE"

r_debug_bps_enable ==
    /\ mem' = r_bp_restore(bps, mem, TRUE)
    /\ recoil_mode' = "NONE"

\* Mutated: no step over the breakpoint that was hit.
RecoilNoStep ==
    /\ At("recoil")
    /\ r_debug_bps_enable /\ Return(TRUE)
    /\ UNCHANGED <<pc, proc, event, nevents, bps, bp_addr, signum, config, history>>

RecoilEnter ==
    /\ At("recoil")
    /\ CASE bp_addr = 0 -> r_debug_bps_enable /\ Return(TRUE)
         [] bp_addr # 0 /\ recoil_mode # "NONE" ->
              /\ mem' = IF swstep THEN r_bp_restore_except(bps, mem, TRUE, bp_addr)
                                  ELSE mem
              /\ UNCHANGED recoil_mode
              /\ Return(TRUE)
         [] OTHER ->
              /\ recoil_mode' = Head(stack).mode
              /\ UNCHANGED mem
              /\ Call(Fr("recoil_stepped"), Fr("step"))
    /\ UNCHANGED <<pc, proc, event, nevents, bps, bp_addr, signum, config, history>>

RecoilStepped ==
    /\ At("recoil_stepped")
    /\ CASE ~ret -> UNCHANGED <<mem, recoil_mode>> /\ Return(FALSE)
         [] ret /\ bp_addr = 0 /\ recoil_mode = "STEP" ->
              UNCHANGED <<mem, recoil_mode>> /\ Return(TRUE)
         [] OTHER -> r_debug_bps_enable /\ Return(TRUE)
    /\ UNCHANGED <<pc, proc, event, nevents, bps, bp_addr, signum, config, history>>

----------------------------------------------------------------------------
(* r_debug_continue_kill.  "cont" is the label repeat.                     *)

ContRepeat ==
    /\ At("cont")
    /\ IF Dead THEN Return(FALSE)
       ELSE Call(Resume("cont_recoiled"), [Fr("recoil") EXCEPT !.mode = "CONTINUE"])
    /\ Quiet

\* h->cont hands the signal of the frame to the debuggee.
ContGo ==
    /\ At("cont_recoiled")
    /\ IF ret
       THEN /\ proc' = "running"
            /\ owed' = IF Head(stack).sig THEN owed - 1 ELSE owed
            /\ Goto(Resume("cont_wait"))
       ELSE Return(FALSE) /\ UNCHANGED <<proc, owed>>
    /\ UNCHANGED <<pc, mem, event, nevents, bps, recoil_mode, bp_addr, signum,
                   config, trapped, moved, mine>>

(* What r_debug_continue_kill does with the stop.  A condition that holds  *)
(* off and a tracepoint go back to repeat with the signal they came with;  *)
(* only then is the signal cleared, and the policy for signum looked up,   *)
(* whatever the reason of this stop was.                                   *)
Again(sig) == Goto([Resume("cont") EXCEPT !.sig = sig])

Policy == IF signum' = "SIG" THEN policy ELSE "stop"

ContWait ==
    /\ At("cont_wait")
    /\ r_debug_wait
    /\ CASE Dead -> Return(FALSE)
         [] ~Dead /\ WaitReason = "TRACEPOINT" -> Call(Resume("cont"), Fr("step"))
         [] ~Dead /\ WaitReason = "COND" -> Goto(Resume("cont")) \/ Return(TRUE)
         [] OTHER ->
              CASE Policy = "stop" -> Return(TRUE)
                [] Policy = "cont" -> Again(TRUE)
                [] Policy = "skip" -> Goto([Resume("cont_skip") EXCEPT !.sig = FALSE])
    /\ UNCHANGED <<proc, nevents, bps, recoil_mode, config, moved, owed, mine>>

\* R_DBG_SIGNAL_SKIP: past the instruction at pc, as it now reads in memory.
\* What does not decode stalls the continuation there.
ContSkip ==
    /\ At("cont_skip")
    /\ IF pc \in Prog /\ AnalNext[pc] # << >>
       THEN pc' = pc + 1 /\ Goto(Resume("cont"))
       ELSE Return(TRUE) /\ UNCHANGED pc
    /\ UNCHANGED <<mem, proc, event, nevents, bps, recoil_mode, bp_addr, signum,
                   config, history>>

----------------------------------------------------------------------------
(* r_debug_continue_until.                                                 *)

\* Mutated: the breakpoint at the target is deleted, whoever set it.
UntilAlwaysDeletes ==
    /\ At("until")
    /\ LET to == Head(stack).to
       IN  IF Dead THEN Return(FALSE) /\ UNCHANGED bps
           ELSE /\ bps' = WithBp(bps, to, "break", FALSE)
                /\ Goto([Resume("until_loop") EXCEPT !.tmp = <<to>>])
    /\ UNCHANGED <<inferior, recoil_mode, bp_addr, signum, config, history>>

UntilEnter ==
    /\ At("until")
    /\ LET to  == Head(stack).to
           has == r_bp_get_in(bps, to, TRUE) # NoPos
       IN  IF Dead THEN Return(FALSE) /\ UNCHANGED bps
           ELSE /\ bps' = WithBp(bps, to, "break", FALSE)
                /\ Goto([Resume("until_loop") EXCEPT
                            !.tmp = IF has THEN << >> ELSE <<to>>])
    /\ UNCHANGED <<inferior, recoil_mode, bp_addr, signum, config, history>>

UntilLoop ==
    /\ At("until_loop")
    /\ IF Dead \/ pc = Head(stack).to \/ r_bp_get_at(bps, pc) # NoPos
       THEN bps' = WithoutTmp(bps, Head(stack).tmp) /\ Return(TRUE)
       ELSE Call(Head(stack), Fr("cont")) /\ UNCHANGED bps
    /\ UNCHANGED <<inferior, recoil_mode, bp_addr, signum, config, history>>

----------------------------------------------------------------------------
(* dcu: a breakpoint at the address, one continuation wherever it stops,   *)
(* and whatever breakpoint is at the address is deleted.                   *)

DcuEnter ==
    /\ At("dcu")
    /\ bps' = WithBp(bps, Head(stack).to, "break", FALSE)
    /\ Call([Resume("dcu_ret") EXCEPT !.tmp = <<Head(stack).to>>], Fr("cont"))
    /\ UNCHANGED <<inferior, recoil_mode, bp_addr, signum, config, history>>

DcuReturn ==
    /\ At("dcu_ret")
    /\ bps' = WithoutTmp(bps, Head(stack).tmp)
    /\ Return(TRUE)
    /\ UNCHANGED <<inferior, recoil_mode, bp_addr, signum, config, history>>

----------------------------------------------------------------------------
(* The user, at the prompt.                                                *)

Start(f) == Idle /\ stack' = <<f>> /\ UNCHANGED ret /\ moved' = FALSE

Unmoved == UNCHANGED <<inferior, bps, recoil_mode, bp_addr, signum, config, trapped, mine>>

CmdStep == pc \in use.steps /\ Start(Fr("step")) /\ UNCHANGED owed /\ Unmoved

CmdContinue(sig) ==
    /\ sig => owed < use.maxOwed
    /\ Start([Fr("cont") EXCEPT !.sig = sig])
    /\ owed' = IF sig THEN owed + 1 ELSE owed
    /\ Unmoved

CmdUntil(a) == Start([Fr("until") EXCEPT !.to = a]) /\ UNCHANGED owed /\ Unmoved

CmdDcu(a) == Start([Fr("dcu") EXCEPT !.to = a]) /\ UNCHANGED owed /\ Unmoved

AtPrompt == Idle /\ UNCHANGED <<mem, proc, event, nevents, recoil_mode, bp_addr,
                                signum, control, owed, moved>>

\* r_debug_bp_add, and the commands that set a trace or a condition on it.
CmdAdd(a, kind) ==
    /\ AtPrompt /\ Len(bps) < MaxBps
    /\ bps' = WithBp(bps, a, kind, FALSE)
    /\ mine' = mine \cup {a}
    /\ UNCHANGED <<pc, config, trapped>>

CmdDel(a) ==
    /\ AtPrompt
    /\ bps' = WithoutBp(bps, a)
    /\ mine' = mine \ {a}
    /\ UNCHANGED <<pc, config, trapped>>

CmdEnable(a, set) ==
    LET i == r_bp_get_in(bps, a, FALSE)
    IN  /\ AtPrompt /\ i # NoPos
        /\ bps' = [bps EXCEPT ![i].enabled = set]
        /\ UNCHANGED <<pc, config, trapped, mine>>

CmdSetPc(a) == AtPrompt /\ ~Dead /\ pc' = a /\ trapped' = FALSE /\ UNCHANGED <<bps, config, mine>>

CmdConfig ==
    /\ AtPrompt
    /\ swstep' \in use.swsteps /\ policy' \in use.policies /\ UNCHANGED use
    /\ UNCHANGED <<pc, bps, trapped, mine>>

Inferior == Exec \/ ExecTrap \/ (\E e \in use.events : Interrupt(e)) \/ Die

Debugger ==
    \/ r_debug_step \/ StepReturn
    \/ StepHardEnter \/ StepHardRecoiled \/ StepHardGo \/ StepHardWait
    \/ StepSoftEnter \/ StepSoftReturn
    \/ RecoilEnter \/ RecoilStepped
    \/ ContRepeat \/ ContGo \/ ContWait \/ ContSkip
    \/ UntilEnter \/ UntilLoop
    \/ DcuEnter \/ DcuReturn

User ==
    \/ CmdStep
    \/ \E sig \in BOOLEAN : CmdContinue(sig)
    \/ \E a \in use.untils : CmdUntil(a)
    \/ \E a \in use.dcus : CmdDcu(a)
    \/ \E a \in BpAddrs : \/ \E kind \in use.kinds : CmdAdd(a, kind)
                          \/ CmdDel(a)
                          \/ \E set \in use.enables : CmdEnable(a, set)
    \/ \E a \in use.pcs : CmdSetPc(a)
    \/ CmdConfig

Next == Inferior \/ Debugger \/ User

Spec == Init /\ [][Next]_vars

\* The debugger is a running thread, and the kernel runs a resumed debuggee.
Fairness == WF_vars(Debugger) /\ WF_vars(Inferior)

FairSpec == Spec /\ Fairness

----------------------------------------------------------------------------
(* Properties.                                                             *)

TypeOK ==
    /\ pc \in Addr /\ mem \in [Addr -> Byte]
    /\ proc \in {"stopped", "stepping", "running", "dead"}
    /\ event \in {"none", "TRAP", "SIGNAL", "NEW_PID", "DEAD", "ERROR"}
    /\ nevents \in 0 .. use.maxEvents
    /\ bps \in Seq(Item)
    /\ recoil_mode \in {"NONE", "STEP", "CONTINUE"}
    /\ bp_addr \in Addr /\ signum \in {"none", "TRAP", "SIG"}
    /\ use \in Uses /\ swstep \in use.swsteps /\ policy \in use.policies
    /\ stack \in Seq(Frame) /\ ret \in BOOLEAN
    /\ trapped \in BOOLEAN /\ moved \in BOOLEAN /\ owed \in Int /\ mine \subseteq BpAddrs

\* While the debuggee runs freely every breakpoint of the list is in its
\* memory ("restore all sw breakpoints. we are about to step/continue so these
\* need to be in place"), except the one that a software step leaves.
NoMissedBreakpoint ==
    proc = "running" =>
        \A i \in DOMAIN bps :
            mem[bps[i].addr] = Trap \/ (swstep /\ bps[i].addr = bp_addr)

\* At the prompt the debuggee reads as the program ("while stopped we don't
\* want any breakpoints in the code messing up our analysis").
CleanWhenStopped == (Idle /\ ~Dead) => mem = Code

\* No command takes a breakpoint of the user with its temporary ones, and none
\* leaves one of its own: at the prompt the list holds what the user has set.
OnlyMine == Idle => {bps[i].addr : i \in DOMAIN bps} = mine

\* A breakpoint that was disabled ("Disable breakpoint") is never what stops
\* the debuggee.
DisabledNeverHit ==
    (event = "TRAP" /\ trapped) =>
        \A i \in DOMAIN bps : bps[i].addr = pc - 1 => bps[i].enabled

\* No signal reaches the debuggee more often than it was raised or sent
\* ("clear continuation after signal if needed").
SignalOnce == owed >= 0

----------------------------------------------------------------------------
(* What the user is promised: DebugSession, seen through this mapping.  A  *)
(* trap that was executed and not yet wound back does not count.           *)

Stops == {bps[i].addr : i \in {j \in DOMAIN bps :
                                  bps[j].kind = "break" /\ ~bps[j].swstep}}

Command ==
    CASE Idle -> "idle"
      [] ~Idle /\ stack[Len(stack)].at \in {"step", "step_ret"} -> "step"
      [] OTHER -> "run"

Session == INSTANCE DebugSession WITH
    lpc   <- IF trapped THEN pc - 1 ELSE pc,
    cmd   <- Command,
    stops <- Stops

\* Stepping and continuing show the program's own execution: no instruction
\* is skipped or executed twice, a step executes at most one, and a
\* continuation never executes past a breakpoint it has reached.
SessionSpec == Session!Spec

\* A step always comes back to the prompt, and so does a continuation that has
\* a breakpoint on every way the program can take: no stop is lost between
\* r_debug_recoil, the tracepoints it steps over and the signals it passes on.
Returns == (Command = "step" \/ (Command = "run" /\ Stops # {})) ~> Idle
=============================================================================
