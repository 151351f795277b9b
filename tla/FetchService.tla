---------------------------- MODULE FetchService ----------------------------
(***************************************************************************)
(* What the instruction side of the co-simulation promises the warps, with *)
(* no signals and no phases of simulate(): an instruction memory that the  *)
(* test code fills before the run and that stays fixed while the DUT runs, *)
(* and per channel a fetch that is begun with an address, completes with   *)
(* the memory's word at that address within the clock it is waiting in,  *)
(* and is released (or reset) by the core.                                 *)
(*                                                                         *)
(* One Clock step is a rising edge of the DUT: every channel takes at most *)
(* one step of its own, all at once.                                       *)
(***************************************************************************)
CONSTANTS
    Chan,    \* the instruction-memory channels (one fetcher each)
    Addrs,   \* instruction addresses
    Words    \* instruction words

VARIABLES
    mem,      \* the word a fetch of each address returns
    running,  \* simulate() has started: the memory is frozen
    fetch     \* fetch[c]: state, address and latched instruction of channel c

vars == <<mem, running, fetch>>

States == {"IDLE", "FETCHING", "DONE"}
FetchRec == [state : States, addr : Addrs, instr : Words]
Cleared == [state |-> "IDLE", addr |-> 0, instr |-> 0]

Init ==
    /\ mem = [a \in Addrs |-> 0]
    /\ running = FALSE
    /\ fetch = [c \in Chan |-> Cleared]

\* The test code stores a word before the run, while no fetch is active.
Store(a, w) ==
    /\ ~running
    /\ \A c \in Chan : fetch[c].state = "IDLE"
    /\ mem' = [mem EXCEPT ![a] = w]
    /\ UNCHANGED <<running, fetch>>

Start ==
    /\ ~running
    /\ running' = TRUE
    /\ UNCHANGED <<mem, fetch>>

(* The step of one channel at a clock edge, from f to g (g is a FetchRec, *)
(* so a fetch may begin at any address).                                   *)
Begins(f, g) == f.state = "IDLE" /\ g.state = "FETCHING" /\ g.instr = f.instr
Completes(f, g) ==
    f.state = "FETCHING" /\ g.state = "DONE" /\ g.addr = f.addr /\ g.instr = mem[f.addr]
Releases(f, g) == f.state = "DONE" /\ g.state = "IDLE" /\ g.addr = f.addr /\ g.instr = f.instr
Resets(f, g) == g = Cleared

\* A waiting fetch is never left waiting by a clock edge.
ChannelStep(f, g) ==
    \/ g = f /\ f.state # "FETCHING"
    \/ Begins(f, g) \/ Completes(f, g) \/ Releases(f, g) \/ Resets(f, g)

Clock ==
    /\ running
    /\ fetch' \in [Chan -> FetchRec]
    /\ \A c \in Chan : ChannelStep(fetch[c], fetch'[c])
    /\ UNCHANGED <<mem, running>>

Next ==
    \/ \E a \in Addrs, w \in Words : Store(a, w)
    \/ Start
    \/ Clock

Spec == Init /\ [][Next]_vars
=============================================================================
