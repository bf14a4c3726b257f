------------------------------- MODULE ScullLoad -------------------------------
(***************************************************************************)
(* Loading and unloading scull: main.c registers its numbers, allocates    *)
(* and adds its devices, then lets pipe.c and access.c do the same; it     *)
(* goes on when one of those fails.  The cleanup also undoes a load that   *)
(* failed half-way.                                                        *)
(***************************************************************************)
EXTENDS Integers

CONSTANTS BareDevs, PipeDevs, AccessDevs  \* their cdevs

Cdevs == BareDevs \cup PipeDevs \cup AccessDevs
Parts == {"bare", "pipe", "access"}

VARIABLES
  pc,
  regions,  \* the parts whose device numbers are registered
  arrays,   \* those whose devices are allocated
  cdevs,    \* "zero", "ready" (cdev_init only), "live", "put" or "gone"
  proc,     \* the entries of /proc
  misuse    \* cdevs deleted that were not initialised, or put before

vars == <<pc, regions, arrays, cdevs, proc, misuse>>

Init ==
  /\ pc = "unloaded" /\ regions = {} /\ arrays = {}
  /\ cdevs = [c \in Cdevs |-> "zero"] /\ proc = FALSE /\ misuse = {}

\* cdev_init and cdev_add of several; an error of the latter is logged.
Setup(devs, onError) ==
  \E added \in SUBSET devs :
    cdevs' = [c \in Cdevs |-> IF c \in added THEN "live"
                              ELSE IF c \in devs THEN onError ELSE cdevs[c]]

\* cdev_del, which unmaps the numbers and puts the kobject.
Del(devs) ==
  /\ cdevs' = [c \in Cdevs |-> IF c \in devs THEN "gone" ELSE cdevs[c]]
  /\ misuse' = misuse \cup {c \in devs : cdevs[c] \notin {"ready", "live"}}

InitModule ==
  /\ pc = "unloaded"
  /\ \/ UNCHANGED vars  \* the numbers are taken
     \/ /\ regions' = {"bare"} /\ pc' = "alloc"
        /\ cdevs' = [c \in Cdevs |-> "zero"] /\ misuse' = {}
        /\ UNCHANGED <<arrays, proc>>

AllocDevices ==
  /\ pc = "alloc"
  /\ \/ pc' = "cleanup" /\ UNCHANGED <<arrays, cdevs>>  \* no memory
     \/ arrays' = {"bare"} /\ Setup(BareDevs, "ready") /\ pc' = "pipe"
  /\ UNCHANGED <<regions, proc, misuse>>

PipeInit ==
  /\ pc = "pipe" /\ pc' = "access"
  /\ \/ UNCHANGED <<regions, arrays, cdevs, proc>>  \* no numbers, or no memory
     \/ /\ regions' = regions \cup {"pipe"} /\ arrays' = arrays \cup {"pipe"}
        /\ Setup(PipeDevs, "ready") /\ proc' = TRUE
  /\ UNCHANGED misuse

\* access_setup also puts the kobject of a cdev that could not be added.
AccessInit ==
  /\ pc = "access" /\ pc' = "proc"
  /\ \/ UNCHANGED <<regions, cdevs>>  \* no numbers
     \/ regions' = regions \cup {"access"} /\ Setup(AccessDevs, "put")
  /\ UNCHANGED <<arrays, proc, misuse>>

CreateProc ==
  /\ pc = "proc" /\ pc' = "live" /\ proc' = TRUE
  /\ UNCHANGED <<regions, arrays, cdevs, misuse>>

CleanupModule ==
  /\ pc = "live" /\ pc' = "cleanup"
  /\ UNCHANGED <<regions, arrays, cdevs, proc, misuse>>

\* Mutation of BareCleanup: the numbers are kept if there are no devices.
BareCleanupEarly ==
  IF "bare" \in arrays
  THEN Del(BareDevs) /\ arrays' = arrays \ {"bare"} /\ regions' = regions \ {"bare"}
  ELSE UNCHANGED <<cdevs, misuse, arrays, regions>>
BareCleanup ==
  /\ IF "bare" \in arrays THEN Del(BareDevs) ELSE UNCHANGED <<cdevs, misuse>>
  /\ arrays' = arrays \ {"bare"} /\ regions' = regions \ {"bare"}

Cleanup ==
  /\ pc = "cleanup" /\ pc' = "pipe_cleanup"
  /\ BareCleanup /\ proc' = FALSE

\* Mutation of PipeCleanup: the test of scull_p_devices is left out.
PipeCleanupBlind ==
  Del(PipeDevs) /\ arrays' = arrays \ {"pipe"} /\ regions' = regions \ {"pipe"}
PipeCleanup ==
  IF "pipe" \notin arrays THEN UNCHANGED <<cdevs, misuse, arrays, regions>>
  ELSE Del(PipeDevs) /\ arrays' = arrays \ {"pipe"} /\ regions' = regions \ {"pipe"}

CleanupPipe ==
  /\ pc = "pipe_cleanup" /\ pc' = "access_cleanup"
  /\ PipeCleanup /\ proc' = FALSE

CleanupAccess ==
  /\ pc = "access_cleanup" /\ pc' = "unloaded"
  /\ Del(AccessDevs)
  /\ regions' = regions \ {"access"}
  /\ UNCHANGED <<arrays, proc>>

Next ==
  \/ InitModule \/ AllocDevices \/ PipeInit \/ AccessInit \/ CreateProc
  \/ CleanupModule \/ Cleanup \/ CleanupPipe \/ CleanupAccess

Spec == Init /\ [][Next]_vars

-----------------------------------------------------------------------------
(* Properties.                                                             *)

(* Whether all of the load succeeded, or some of it, or it was given up,   *)
(* nothing is left of it when the module is gone: the numbers, the cdevs   *)
(* and the entries of /proc would lead into freed memory.                  *)
NothingLeft ==
  pc = "unloaded" =>
    regions = {} /\ arrays = {} /\ ~proc /\ \A c \in Cdevs : cdevs[c] \in {"zero", "gone"}

(* main.c and pipe.c delete exactly the cdevs they have initialised.  Only *)
(* access.c, "required to never fail, even if nothing was initialized      *)
(* first", deletes cdevs that were not, or puts for the second time those  *)
(* that could not be added.                                                *)
UndoesWhatWasDone == misuse \subseteq AccessDevs

(* The loads and unloads of scull: nothing is left of one, and the cleanup *)
(* deletes only what was set up, but for the cdevs of access.c.            *)
LoadSafe == NothingLeft /\ UndoesWhatWasDone

-----------------------------------------------------------------------------
(* The inductive invariant: how far the load, or the cleanup, has come.    *)

All(devs, states) == \A c \in devs : cdevs[c] \in states
Added(part, devs, states) ==
  All(devs, IF part \in regions THEN states ELSE {"zero"})

\* What main.c, pipe.c and access.c each have, at every point.
BareInv ==
  /\ pc = "alloc" => regions = {"bare"} /\ arrays = {} /\ All(Cdevs, {"zero"})
  /\ pc \in {"pipe", "access", "proc", "live"} =>
       "bare" \in regions \cap arrays /\ All(BareDevs, {"ready", "live"})
  /\ pc = "cleanup" => All(BareDevs, IF "bare" \in arrays THEN {"ready", "live"} ELSE {"zero"})
  /\ pc \in {"unloaded", "pipe_cleanup", "access_cleanup"} =>
       "bare" \notin regions \cup arrays /\ All(BareDevs, {"zero", "gone"})
PipeInv ==
  /\ "pipe" \in regions <=> "pipe" \in arrays
  /\ pc \in {"pipe", "access_cleanup", "unloaded"} => "pipe" \notin regions
  /\ IF pc \in {"unloaded", "access_cleanup"} THEN All(PipeDevs, {"zero", "gone"})
     ELSE Added("pipe", PipeDevs, {"ready", "live"})
AccessInv ==
  /\ "access" \notin arrays
  /\ pc \in {"pipe", "access", "unloaded"} => "access" \notin regions
  /\ IF pc = "unloaded" THEN All(AccessDevs, {"zero", "gone"})
     ELSE Added("access", AccessDevs, {"live", "put"})

IInv ==
  /\ pc \in {"unloaded", "alloc", "pipe", "access", "proc", "live", "cleanup",
            "pipe_cleanup", "access_cleanup"}
  /\ regions \subseteq Parts /\ arrays \subseteq Parts
  /\ cdevs \in [Cdevs -> {"zero", "ready", "live", "put", "gone"}]
  /\ proc \in BOOLEAN
  /\ pc \in {"alloc", "pipe", "access_cleanup", "unloaded"} => ~proc
  /\ BareInv /\ PipeInv /\ AccessInv /\ UndoesWhatWasDone
=============================================================================
