----------------------------- MODULE MCWorkGroup -----------------------------
(* What a group of cores does together, one part at a time: four cores meet in *)
(* the barrier, the host loads a group of three.                               *)
EXTENDS EBarrier

CONSTANTS
  LoadCores,    \* the cores of the group that is loaded
  Irqs,         \* the interrupts its old programs raise on each other
  MaxSignals    \* bound: how often they do so

ASSUME LoadConstants ==
    LoadCores \in Nat \ {0} /\ Irqs \subseteq {"sync", "user"} /\ MaxSignals \in Nat

VARIABLES part, core, lpc, cur, signals

Load == INSTANCE GroupLoad WITH NumCores <- LoadCores, pc <- lpc

loadVars == <<core, lpc, cur, signals>>
NoLoad == Load!Init /\ core = [c \in Load!Cores |-> Load!Left("halted", FALSE, FALSE, FALSE)]

MCInit ==
    /\ part \in {"barrier", "load"} /\ Init
    /\ IF part = "load" THEN Load!Init ELSE NoLoad
MCNext ==
    /\ UNCHANGED part
    /\ \/ part = "barrier" /\ Next /\ UNCHANGED loadVars
       \/ part = "load" /\ Load!Next /\ UNCHANGED vars

\* In the initial states nothing of the barrier is enabled that must happen, so its
\* fairness asks nothing of the other part.
LoadGoesOn ==
    /\ WF_loadVars(part = "load" /\ Load!Host)
    /\ \A c \in Load!Cores : WF_loadVars(part = "load" /\ Load!CoreStep(c))
MCSpec == MCInit /\ [][MCNext]_<<part, vars, loadVars>> /\ Fairness /\ LoadGoesOn

StartsComplete == Load!StartsComplete
NeverWild == Load!TypeOK /\ Load!NeverWild /\ Load!NoResetDuringRead
LoadEnds == Load!LoadEnds
=============================================================================
