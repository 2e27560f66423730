------------------------------ MODULE MCDebug ------------------------------
(***************************************************************************)
(* Small instances of Debug.  The program is a loop with an exit:          *)
(*     1 -> 2 -> 3 -> 4 -> 1     and     3 -> 5, which exits.              *)
(***************************************************************************)
EXTENDS Debug

LoopProg == 1 .. 5
LoopSucc == [a \in LoopProg |->
    CASE a = 1 -> {2} [] a = 2 -> {3} [] a = 3 -> {4, 5} [] a = 4 -> {1} [] a = 5 -> {}]
LoopNext == [a \in LoopProg |->
    CASE a = 1 -> <<2>> [] a = 2 -> <<3>> [] a = 3 -> <<5, 4>> [] a = 4 -> <<1>>
      [] a = 5 -> << >>]

\* Hardware stepping with every kind of breakpoint, and a debuggee that dies.
Hard == [steps |-> LoopProg, untils |-> {3, 4}, dcus |-> {2}, pcs |-> {1, 2}, enables |-> BOOLEAN,
         kinds |-> {"break", "trace", "cond"}, events |-> {"DEAD"},
         policies |-> {"stop"}, swsteps |-> {FALSE}, maxEvents |-> 2, maxOwed |-> 0]

\* Continuations that one signal interrupts, which is passed on.
Signal == [Hard EXCEPT !.steps = {}, !.enables = {}, !.kinds = {"break"},
              !.events = {"SIGNAL", "DEAD"}, !.policies = {"cont"},
              !.maxEvents = 1, !.maxOwed = 1]

\* Software stepping from places whose successors hold no breakpoint.
Soft == [Hard EXCEPT !.steps = {1, 3}, !.untils = {}, !.dcus = {}, !.pcs = {},
             !.enables = {}, !.kinds = {"break"}, !.swsteps = {TRUE}]

\* Three signals at any moment, under policies that change.
Storm == [Hard EXCEPT !.untils = {}, !.dcus = {}, !.enables = {}, !.kinds = {"break"},
              !.events = {"SIGNAL"}, !.policies = {"cont", "stop", "skip"},
              !.maxEvents = 3, !.maxOwed = 1]

\* One signal, fork or death that stops any command.
Stopped == [Hard EXCEPT !.untils = {4}, !.dcus = {}, !.pcs = {}, !.enables = {},
                !.events = {"SIGNAL", "NEW_PID", "DEAD"}, !.maxEvents = 1]

\* A signal in the middle of a recoil, and another one.
TwoSignals == [Signal EXCEPT !.events = {"SIGNAL"}, !.maxEvents = 2, !.maxOwed = 0]

CleanUses == {Hard, Signal, Soft}
StormUses == {Storm, Stopped}
TwoSignalsUses == {TwoSignals}

X86Lens == <<1, 2>>
=============================================================================
