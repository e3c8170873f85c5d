---------------------------- MODULE HardwareBounds ---------------------------
(***************************************************************************)
(* The devices of a core whose time the software counts on, side by side:  *)
(* the two memories that the cores share in turns and the stack cache.     *)
(***************************************************************************)
EXTENDS CASPM, TransactionalMemory, StackCache

\* What worst-case execution time analysis relies on: a command to the compare-and-swap or
\* the transactional memory is answered within a fixed number of cycles, and an operation of
\* the stack cache takes a fixed number of bursts.  For the transactional memory this is so
\* as long as no transaction on any core fills its buffer (the exceptions of TmInTime).
WorstCaseBounds == CasInTime /\ TmInTime /\ BurstsBounded
==============================================================================
