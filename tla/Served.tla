-------------------------------- MODULE Served --------------------------------
(***************************************************************************)
(* The modules with liveness properties, one at a time: "loaded" says      *)
(* which one takes the steps, and the state of the others stays at one of  *)
(* their initial states.                                                   *)
(***************************************************************************)
EXTENDS Integers, Sequences, FiniteSets

CONSTANTS
  Procs, Users, Uid, Euid, Capable,  \* scull access control
  PoolSizes,                         \* snull
  Writers, Size, MaxCount            \* shortprint

ASSUME ProcsAssumption == IsFiniteSet(Procs)
ASSUME UsersAssumption == Users # {}
ASSUME SizesAssumption == Size \in Nat \ {0} /\ MaxCount \in Nat /\ PoolSizes \subseteq Nat

VARIABLES
  loaded,  \* which of the modules is checked
  device, available, count, owner, queue, clones, mine, access_pc,
  use_napi, lockup, net, polling, fault,
  phase, lacks, print_fault, data, head, tail, active, timer, queued, work, sem,
  print_pc, left, last, early, cut

accessVars ==
  <<device, available, count, owner, queue, clones, mine, access_pc>>
snullVars ==
  <<use_napi, lockup, net, polling, fault>>
printVars ==
  <<phase, lacks, print_fault, data, head, tail, active, timer, queued, work,
    sem, print_pc, left, last, early, cut>>
vars ==
  <<loaded, accessVars, snullVars, printVars>>

Access == INSTANCE ScullAccess WITH
  pc <- access_pc
Net == INSTANCE Snull
Printer == INSTANCE ShortPrint WITH
  pc <- print_pc, fault <- print_fault

Init ==
  /\ loaded \in {"access", "snull", "print"}
  /\ Access!Init
  /\ Net!Init
  /\ Printer!Init
  /\ loaded # "access" => device = "single" /\ owner = CHOOSE u \in Users : TRUE
  /\ loaded # "snull" =>
       ~use_napi /\ ~lockup /\ \A d \in {0, 1} : net[d].total = 0

Next ==
  \/ /\ loaded = "access" /\ Access!Next
     /\ UNCHANGED <<loaded, snullVars, printVars>>
  \/ /\ loaded = "snull" /\ Net!Next
     /\ UNCHANGED <<loaded, accessVars, printVars>>
  \/ /\ loaded = "print" /\ Printer!Next
     /\ UNCHANGED <<loaded, accessVars, snullVars>>

(* What the modules say of the kernel's scheduling of their parts.         *)
Spec ==
  /\ Init /\ [][Next]_vars
  /\ Access!Fairness /\ Net!Fairness /\ Printer!Fairness

-----------------------------------------------------------------------------
(* scull access control: only those have a device open who may.            *)
AccessSafe == Access!AccessSafe

(* scullwuid: who waits for the device is woken.                           *)
WaiterWakes == Access!WaiterWakes

(* snull: buffers are not lost; no interrupt frees a packet twice (the     *)
(* timeout may), and what was received is polled for unless an interrupt   *)
(* while the interface was closed has shut it off.                         *)
PacketsSafe == Net!PacketsSafe

(* snull: an empty pool gets a buffer back.                                *)
PoolRefills == Net!PoolRefills

(* shortprint: output that is active goes on, and what it uses is there;   *)
(* its timer outlives the module only after a close that a signal cut or a *)
(* load that failed under an open file.                                    *)
PrintSafe == Printer!PrintSafe

(* shortprint: the buffer is a stream of bytes.                            *)
ImplementsPrinter == Printer!ImplementsStream

(* shortprint: a writer that waits for room gets it.                       *)
WriterServed == Printer!WriterServed

==============================================================================
