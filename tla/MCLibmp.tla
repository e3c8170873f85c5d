------------------------------- MODULE MCLibmp -------------------------------
(***************************************************************************)
(* Parts of the libraries libmp and libcorethread that work at different   *)
(* times; the initial state says which is at work, the others rest.        *)
(*  - lock: cores 0 and 1, with tickets that stay below their width;       *)
(*  - ports: the channels of MCPorts;                                      *)
(*  - threads: two workers, each with up to two threads.                   *)
(***************************************************************************)
EXTENDS Lock, MCPorts, CoreThread

VARIABLE part

MCInit ==
  /\ part \in {"lock", "ports", "threads"}
  /\ Init /\ PortInit /\ ThreadInit
  /\ part # "ports" => spm_free = MCEnough
  /\ part # "threads" => \A w \in Worker : slave[w].status = "INIT"

On(p, A) == part = p /\ A

MCNext ==
  /\ \/ On("lock", Next) /\ UNCHANGED <<portvars, threadvars>>
     \/ On("ports", PortNext) /\ UNCHANGED <<vars, threadvars>>
     \/ On("threads", ThreadNext) /\ UNCHANGED <<vars, portvars>>
  /\ UNCHANGED part

\* The fairness of each part.
MCSpec ==
  /\ MCInit /\ [][MCNext]_<<part, vars, portvars, threadvars>>
  /\ \A c \in Core : /\ WF_vars(On("lock", CoreStep(c))) /\ WF_vars(On("lock", Release(c)))
                     /\ WF_vars(On("lock", Deliver(c)))
  /\ \A c \in PortCore : WF_portvars(On("ports", PortStep(c)))
  /\ \A w \in Worker : /\ WF_threadvars(On("threads", Mains(w)))
                       /\ WF_threadvars(On("threads", Works(w)))

\* The words of the lock, the descriptors of the ports and the words of boot_info that
\* threads use have their types.
LibmpTypeOK == TypeOK /\ PortTypeOK /\ ThreadTypeOK

\* StartupFinishes for the ports: unless a core ran out of memory, mp_init_ports returns on
\* every core; no cycle of cores waits for each other's ids.
PortsConnect == part = "ports" => StartupFinishes
==============================================================================
