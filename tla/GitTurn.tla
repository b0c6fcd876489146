------------------------------ MODULE GitTurn ------------------------------
(***************************************************************************)
(* What the git task queue of bitswan-gitops promises to everything that   *)
(* mutates a git repository (task_queue.py, module docstring): operations  *)
(* stand in one line, at most one of them has the turn, the turn goes to   *)
(* the head of the line, and an administrator may send the whole line home *)
(* but never takes the turn from the operation that has it.                *)
(***************************************************************************)
EXTENDS Naturals, Sequences

CONSTANTS
    Op,       \* the git-mutating operations that are ever submitted
    NoOp      \* nobody has the turn

VARIABLES
    arrived,  \* operations that have joined the line, ever, in this order
    waiting,  \* those that still stand in it
    turn      \* the operation whose turn it is

vars == <<arrived, waiting, turn>>

Init == arrived = <<>> /\ waiting = {} /\ turn = NoOp

Join(o) ==
    /\ \A i \in DOMAIN arrived : arrived[i] # o
    /\ arrived' = Append(arrived, o)
    /\ waiting' = waiting \cup {o}
    /\ UNCHANGED turn

\* Nobody in front of this place is still waiting.
HeadOfLine(i) ==
    /\ arrived[i] \in waiting
    /\ \A j \in DOMAIN arrived : j < i => arrived[j] \notin waiting

TakeTurn ==
    /\ turn = NoOp
    /\ \E i \in DOMAIN arrived :
          /\ HeadOfLine(i)
          /\ turn' = arrived[i]
          /\ waiting' = waiting \ {arrived[i]}
    /\ UNCHANGED arrived

GiveBack ==
    /\ turn # NoOp
    /\ turn' = NoOp
    /\ UNCHANGED <<arrived, waiting>>

SendHome ==
    /\ waiting' = {}
    /\ UNCHANGED <<arrived, turn>>

Next == (\E o \in Op : Join(o)) \/ TakeTurn \/ GiveBack \/ SendHome

Spec == Init /\ [][Next]_vars
=============================================================================
