---------------------------- MODULE DataService ----------------------------
(***************************************************************************)
(* What the data side of the co-simulation promises the load/store units,  *)
(* with no signals and no phases of simulate(): a data memory that the     *)
(* test code fills before the run, and per channel a read request, a       *)
(* write request with its data, and the read data returned.                *)
(*                                                                         *)
(* During the run the DUT issues requests (Request) and the memory serves  *)
(* them (Serve). Serving changes only the served addresses that some       *)
(* channel asked to write, each to the data of one of its writers. Every   *)
(* read of a served address returns the memory as the writes left it, and *)
(* a channel that asks nothing keeps the data it has.                      *)
(***************************************************************************)
EXTENDS Integers

CONSTANTS
    Chan,    \* the data-memory channels
    Addrs,   \* data addresses
    Served,  \* the addresses the memory serves (the others are refused)
    Words    \* data words

VARIABLES
    mem,      \* the data memory
    running,  \* simulate() has started
    rreq,     \* rreq[c]: the address channel c reads, or NoReq
    wreq,     \* wreq[c]: the address channel c writes, or NoReq
    wdata,    \* wdata[c]: the word channel c writes
    rdata     \* rdata[c]: the word returned to channel c

vars == <<mem, running, rreq, wreq, wdata, rdata>>

\* No request on a channel (no address is negative).
NoReq == -1
Req == {NoReq} \cup Addrs

Init ==
    /\ mem = [a \in Addrs |-> 0]
    /\ running = FALSE
    /\ rreq = [c \in Chan |-> NoReq]
    /\ wreq = [c \in Chan |-> NoReq]
    /\ wdata = [c \in Chan |-> 0]
    /\ rdata = [c \in Chan |-> 0]

\* The test code stores a word before the run.
Store(a, w) ==
    /\ ~running
    /\ mem' = [mem EXCEPT ![a] = w]
    /\ UNCHANGED <<running, rreq, wreq, wdata, rdata>>

Start ==
    /\ ~running
    /\ running' = TRUE
    /\ UNCHANGED <<mem, rreq, wreq, wdata, rdata>>

\* The DUT puts new requests on the channels.
Request ==
    /\ running
    /\ rreq' \in [Chan -> Req]
    /\ wreq' \in [Chan -> Req]
    /\ wdata' \in [Chan -> Words]
    /\ UNCHANGED <<mem, running, rdata>>

\* The channels that ask to write address a.
Writers(a) == {c \in Chan : wreq[c] = a}

\* The memory serves every request at once, writes before reads.
Serve ==
    /\ running
    /\ mem' \in [Addrs -> Words]
    /\ \A a \in Served : Writers(a) # {} => \E c \in Writers(a) : mem'[a] = wdata[c]
    /\ \A a \in Addrs : a \notin Served \/ Writers(a) = {} => mem'[a] = mem[a]
    /\ rdata' \in [Chan -> Words]
    /\ \A c \in Chan : rreq[c] \in Served => rdata'[c] = mem'[rreq[c]]
    /\ \A c \in Chan : rreq[c] = NoReq => rdata'[c] = rdata[c]
    /\ UNCHANGED <<running, rreq, wreq, wdata>>

Next ==
    \/ \E a \in Addrs, w \in Words : Store(a, w)
    \/ Start
    \/ Request
    \/ Serve

Spec == Init /\ [][Next]_vars
=============================================================================
