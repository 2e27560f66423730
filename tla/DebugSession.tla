---------------------------- MODULE DebugSession ----------------------------
(***************************************************************************)
(* What libr/debug promises to the user at the prompt, without traps,      *)
(* recoils or plugins: the program only moves by executing its own         *)
(* instructions, one at most for a step, and never past a breakpoint that  *)
(* it reached during the command.                                          *)
(***************************************************************************)
CONSTANTS
    Prog,    \* addresses of the instructions
    Succ     \* where each of them can go next

VARIABLES
    lpc,     \* where the program is
    cmd,     \* "idle" at the prompt, "step" or "run" during a command
    moved,   \* an instruction was executed during the command
    stops    \* addresses of the breakpoints that stop it

vars == <<lpc, cmd, moved, stops>>

Init == cmd = "idle" /\ moved = FALSE /\ stops = {} /\ lpc \in Prog

\* At the prompt the user edits breakpoints and the program counter.
Edit == cmd = "idle" /\ cmd' = "idle" /\ UNCHANGED moved

Begin ==
    /\ cmd = "idle" /\ cmd' \in {"step", "run"}
    /\ moved' = FALSE
    /\ UNCHANGED <<lpc, stops>>

\* A command may set breakpoints of its own before the program moves.
Prepare ==
    /\ cmd # "idle" /\ ~moved
    /\ stops \subseteq stops'
    /\ UNCHANGED <<lpc, cmd, moved>>

Exec ==
    /\ cmd # "idle"
    /\ moved => (cmd = "run" /\ lpc \notin stops)
    /\ lpc \in Prog /\ lpc' \in Succ[lpc]
    /\ moved' = TRUE
    /\ UNCHANGED <<cmd, stops>>

\* The command ends, and takes the breakpoints it has set with it.
End ==
    /\ cmd # "idle" /\ cmd' = "idle"
    /\ stops' \subseteq stops
    /\ UNCHANGED <<lpc, moved>>

Next == Edit \/ Begin \/ Prepare \/ Exec \/ End

Spec == Init /\ [][Next]_vars
=============================================================================
