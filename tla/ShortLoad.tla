------------------------------- MODULE ShortLoad -------------------------------
(***************************************************************************)
(* Loading and unloading short (short/short.c): the ports or the memory of *)
(* the device, its number, the search for the interrupt line, the handler, *)
(* and what is left running when the module goes.                          *)
(***************************************************************************)
EXTENDS Integers

CONSTANTS
  Trials,   \* the lines short_selfprobe tries
  MaxTries  \* how often the probes go round

VARIABLES
  phase,
  use_mem, irq, probe, share, bh,  \* the parameters; bh: "none", "wq", "tasklet"
  region,    \* "none", "ports", or "memory"
  mapped, chrdev, buffer,
  short_irq,
  tried,     \* lines that have the probing handler
  fired,     \* lines that have interrupted in this try
  count,     \* tries
  handler,   \* of short_irq: "none", "direct", "shared", or "half"
  reporting, \* the device is told to interrupt
  pending    \* the bottom half is scheduled

params == <<use_mem, irq, probe, share, bh>>
resources == <<region, mapped, chrdev, buffer>>
probing == <<tried, fired, count>>
running == <<handler, reporting, pending>>
vars == <<phase, params, resources, short_irq, probing, running>>

Init ==
  /\ phase = "unloaded"
  /\ use_mem \in BOOLEAN /\ irq \in {-1} \cup Trials /\ probe \in 0..2
  /\ share \in BOOLEAN /\ bh \in {"none", "wq", "tasklet"}
  /\ region = "none" /\ mapped = FALSE /\ chrdev = FALSE /\ buffer = FALSE
  /\ short_irq = -1 /\ tried = {} /\ fired = {} /\ count = 0
  /\ handler = "none" /\ reporting = FALSE /\ pending = FALSE

-----------------------------------------------------------------------------
(* short_init.                                                             *)

ShortInit ==
  /\ phase = "unloaded" /\ region = "none"
  /\ \/ UNCHANGED vars  \* the region is taken
     \/ /\ region' = IF use_mem THEN "memory" ELSE "ports"
        /\ mapped' = use_mem /\ short_irq' = irq /\ phase' = "register"
        /\ UNCHANGED <<params, chrdev, buffer, probing, running>>

\* If there is no number the ports are released; memory is not.
Register ==
  /\ phase = "register"
  /\ \/ /\ phase' = "unloaded"
        /\ region' = IF use_mem THEN region ELSE "none"
        /\ UNCHANGED <<mapped, chrdev, buffer>>
     \/ /\ chrdev' = TRUE /\ buffer' = TRUE
        /\ phase' = IF short_irq >= 0 THEN "install"
                    ELSE CASE probe = 1 -> "kernel" [] probe = 2 -> "self" [] OTHER -> "default"
        /\ UNCHANGED <<region, mapped>>
  /\ UNCHANGED <<params, short_irq, probing, running>>

\* probe_irq_off finds one line, none (0, made -1), or too many (negative).
KernelProbe ==
  /\ phase = "kernel"
  /\ short_irq' \in {-1} \cup Trials \cup {-i : i \in Trials}
  /\ count' = IF short_irq' < 0 /\ count + 1 < MaxTries THEN count + 1 ELSE 0
  /\ phase' = IF count' > 0 THEN "kernel" ELSE "default"
  /\ UNCHANGED <<params, resources, tried, fired, running>>

\* The lines that other handlers hold are not tried.
SelfProbe ==
  /\ phase = "self" /\ phase' = "try"
  /\ tried' \in SUBSET Trials
  /\ short_irq' = 0 /\ fired' = {} /\ count' = 1
  /\ UNCHANGED <<params, resources, running>>

\* Mutation of Found: the last line wins.
FoundLast(i) == i
Found(i) == IF short_irq = 0 \/ short_irq = i THEN i ELSE -i

ShortProbing(i) ==
  /\ phase = "try" /\ i \in tried
  /\ short_irq' = Found(i) /\ fired' = fired \cup {i}
  /\ UNCHANGED <<phase, params, resources, tried, count, running>>

\* The end of a try: again, or the probing handlers are given back.
SelfProbeTry ==
  /\ phase = "try"
  /\ \/ /\ short_irq <= 0 /\ count < MaxTries
        /\ count' = count + 1 /\ short_irq' = 0 /\ fired' = {}
        /\ UNCHANGED <<phase, tried>>
     \/ /\ short_irq > 0 \/ count = MaxTries
        /\ phase' = "default" /\ tried' = {} /\ count' = 0
        /\ UNCHANGED <<short_irq, fired>>
  /\ UNCHANGED <<params, resources, running>>

\* A base that is not of a parallel port has no default.
Default ==
  /\ phase = "default" /\ phase' = "install"
  /\ short_irq' \in IF short_irq < 0 THEN Trials \cup {short_irq} ELSE {short_irq}
  /\ UNCHANGED <<params, resources, probing, running>>

\* request_irq of one handler after the other; one that fails makes it -1.
Install ==
  /\ phase = "install" /\ phase' = "live"
  /\ \/ short_irq < 0 /\ UNCHANGED <<short_irq, handler, reporting>>
     \/ /\ short_irq >= 0
        /\ \/ short_irq' = -1 /\ UNCHANGED <<handler, reporting>>
           \/ /\ handler' = IF share THEN "shared" ELSE IF bh = "none" THEN "direct" ELSE "half"
              /\ reporting' = TRUE /\ UNCHANGED short_irq
           \/ /\ ~share /\ bh # "none"
              /\ short_irq' = -1 /\ reporting' = TRUE /\ UNCHANGED handler
  /\ UNCHANGED <<params, resources, probing, pending>>

-----------------------------------------------------------------------------
Interrupt ==
  /\ phase = "live" /\ handler = "half" /\ pending' = TRUE
  /\ UNCHANGED <<phase, params, resources, short_irq, probing, handler, reporting>>
BottomHalf ==
  /\ phase = "live" /\ pending /\ pending' = FALSE
  /\ UNCHANGED <<phase, params, resources, short_irq, probing, handler, reporting>>

\* Mutation of FreeIrq: the handler is given back with the wrong dev_id.
FreeIrqNull == IF handler = "shared" THEN handler ELSE "none"
FreeIrq == IF share /\ handler # "shared" THEN handler ELSE "none"

\* Mutation of Flush: the work queue is not flushed.
FlushNot == pending
Flush == bh = "tasklet" /\ pending

\* A tasklet is disabled, which leaves it in its list if it was scheduled.
Cleanup ==
  /\ phase = "live" /\ phase' = "unloaded"
  /\ IF short_irq >= 0 THEN reporting' = FALSE /\ handler' = FreeIrq
     ELSE UNCHANGED <<reporting, handler>>
  /\ pending' = Flush
  /\ region' = "none" /\ mapped' = FALSE /\ chrdev' = FALSE /\ buffer' = FALSE
  /\ UNCHANGED <<params, short_irq, probing>>

Stop ==
  /\ phase = "unloaded" /\ region = "memory" /\ UNCHANGED vars

Next ==
  \/ ShortInit \/ Register \/ KernelProbe \/ SelfProbe \/ SelfProbeTry
  \/ \E i \in Trials : ShortProbing(i)
  \/ Default \/ Install \/ Interrupt \/ BottomHalf \/ Cleanup \/ Stop

Spec == Init /\ [][Next]_vars

-----------------------------------------------------------------------------
(* Properties.                                                             *)

(* The line that short_selfprobe finds is one that has interrupted in the  *)
(* last try, in which no other has: "ambiguous" is not forgotten, whatever *)
(* interrupts follow.  If none has, the result is 0 and not -1.            *)
FoundIsTheOnlyOne ==
  phase = "try" =>
    \/ short_irq > 0 /\ fired = {short_irq}
    \/ short_irq = 0 /\ fired = {}
    \/ short_irq < 0 /\ -short_irq \in fired

(* The handler that was installed, if any, is the one that is given back,  *)
(* and no probing handler stays; only memory whose driver got no number    *)
(* stays requested and mapped.                                             *)
UnloadedHandlers ==
  phase = "unloaded" =>
    handler = "none" /\ tried = {} /\ (region = "none" \/ use_mem)

(* "Make sure we don't leave work queue/tasklet functions running": it is  *)
(* made sure of the work queue; a tasklet is only disabled.                *)
BottomHalfLeft == phase = "unloaded" /\ pending => bh = "tasklet"

(* The interrupt line of short, from the probe to the unload.              *)
ShortSafe == FoundIsTheOnlyOne /\ UnloadedHandlers /\ BottomHalfLeft

-----------------------------------------------------------------------------
(* The inductive invariant.                                                *)

\* The handler that is installed is the one the parameters ask for.
HandlerInv ==
  /\ handler # "none" => phase = "live" /\ short_irq >= 0
  /\ share => handler \in {"none", "shared"}

IInv ==
  /\ irq \in Int /\ short_irq \in Int /\ fired \subseteq Trials /\ tried \subseteq Trials
  /\ count \in Int
  /\ (phase # "try" => tried = {})
  /\ phase = "unloaded" => region = "none" \/ use_mem
  /\ phase # "live" /\ pending => bh = "tasklet"
  /\ HandlerInv /\ FoundIsTheOnlyOne
=============================================================================
