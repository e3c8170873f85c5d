--------------------------------- MODULE Noc ---------------------------------
(***************************************************************************)
(* The DMA side of the NoC driver (c/libnoc/noc.c) as the message passing  *)
(* library sees it.  A core owns one DMA table entry per remote core; an   *)
(* entry is either done (its ACTIVE bit is clear) or it holds the transfer *)
(* it is working on.  The network interface that moves the data is not     *)
(* part of the driver: the modules that extend this one say what arriving  *)
(* data changes and then release the entry with DmaArrives, because the    *)
(* driver takes a cleared ACTIVE bit to mean that the block has been       *)
(* written to the remote scratchpad memory.                                *)
(***************************************************************************)
CONSTANTS Channel,    \* the DMA entries in use, one per (local core, remote core)
          NoTransfer  \* contents of an entry whose ACTIVE bit is clear

VARIABLE dma          \* DMA table: entry -> the transfer in progress

\* All entries are done after configuration.
NocInit == dma = [ch \in Channel |-> NoTransfer]

\* noc_dma_done: the ACTIVE bit of the entry is clear.
noc_dma_done(ch) == dma[ch] = NoTransfer

\* One successful iteration of noc_nbwrite / noc_write: the entry is free and
\* is set up.  noc_write spins until this step is possible; noc_nbwrite
\* returns 0 when it is not.
noc_write(ch, transfer) ==
  /\ noc_dma_done(ch)
  /\ dma' = [dma EXCEPT ![ch] = transfer]

\* The network interface has moved the whole block and clears ACTIVE.
DmaArrives(ch) ==
  /\ ~ noc_dma_done(ch)
  /\ dma' = [dma EXCEPT ![ch] = NoTransfer]
==============================================================================
