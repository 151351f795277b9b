------------------------------ MODULE MCCoSim ------------------------------
(* Small instances of CoSim for TLC.                                       *)
EXTENDS CoSim

\* Data reads stay below MAX_SIZE in the passing runs: a read at MAX_SIZE
\* nulls the channel's read-data pointer (run cosim_oob_read shows it).
MCDReadAddrsInRange == 0..(AddrMax - 1)
MCAllAddrs == 0..AddrMax
=============================================================================
