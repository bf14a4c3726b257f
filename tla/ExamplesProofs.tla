---------------------------- MODULE ExamplesProofs ----------------------------
(***************************************************************************)
(* What the drivers of the examples keep to, for any number of processes,  *)
(* files, sectors and lines: each of them has its inductive invariant,     *)
(* which is preserved by its own steps; those of the others leave its      *)
(* state alone.                                                            *)
(***************************************************************************)
EXTENDS MCExamples, FiniteSetTheorems, SequenceTheorems, TLAPS

\* SCULLC_QUANTUM and SCULLC_QSET, SCULLP_ORDER and SCULLP_QSET.
LEMMA DefaultsPositive ==
  /\ SlabDefault \in [quantum : Nat \ {0}, qset : Nat \ {0}]
  /\ PageDefault \in [order : Nat, qset : Nat \ {0}]
BY DEF SlabDefault, PageDefault

-----------------------------------------------------------------------------
(* Loading scull.                                                          *)

\* What a part does with its cdevs leaves those of the others alone.
LEMMA LoadOthersKept ==
  ASSUME cdevs \in [Load!Cdevs -> {"zero", "ready", "live", "put", "gone"}],
         NEW devs \in {BareDevs, PipeDevs, AccessDevs},
         (\E onError \in {"ready", "put"} : Load!Setup(devs, onError)) \/ Load!Del(devs)
  PROVE  /\ cdevs' \in [Load!Cdevs -> {"zero", "ready", "live", "put", "gone"}]
         /\ \A c \in Load!Cdevs : c \notin devs => cdevs'[c] = cdevs[c]
BY DEF Load!Setup, Load!Del

LEMMA LoadSetupCdevs ==
  ASSUME NEW devs \in {BareDevs, PipeDevs, AccessDevs},
         NEW onError \in {"ready", "put"}, Load!Setup(devs, onError)
  PROVE  \A c \in devs : cdevs'[c] \in {"live", onError}
BY DEF Load!Setup, Load!Cdevs

LEMMA LoadDelCdevs ==
  ASSUME NEW devs \in {BareDevs, PipeDevs, AccessDevs}, Load!Del(devs)
  PROVE  \A c \in devs : cdevs'[c] = "gone"
BY DEF Load!Del, Load!Cdevs

LEMMA LoadDelMisuse ==
  ASSUME NEW devs \in {BareDevs, PipeDevs}, Load!Del(devs), Load!UndoesWhatWasDone,
         Load!All(devs, {"ready", "live"})
  PROVE  Load!UndoesWhatWasDone'
BY DEF Load!Del, Load!UndoesWhatWasDone, Load!All

LEMMA LoadInitIInv == ASSUME Load!Init PROVE Load!IInv
BY DEF Load!Init, Load!IInv, Load!BareInv, Load!PipeInv, Load!AccessInv, Load!All, Load!Added,
   Load!UndoesWhatWasDone, Load!Cdevs

LEMMA LoadInitModuleStep == ASSUME Load!IInv, Load!InitModule PROVE Load!IInv'
<1>1. CASE UNCHANGED Load!vars
  BY <1>1 DEF Load!IInv, Load!BareInv, Load!PipeInv, Load!AccessInv, Load!All, Load!Added,
     Load!UndoesWhatWasDone, Load!vars
<1>2. CASE /\ regions' = {"bare"} /\ load_pc' = "alloc"
           /\ cdevs' = [c \in Load!Cdevs |-> "zero"] /\ misuse' = {}
           /\ UNCHANGED <<load_arrays, proc>>
  <2> USE <1>2 DEF Load!InitModule, Load!IInv
  <2>1. load_arrays = {} /\ proc = FALSE
    BY DEF Load!BareInv, Load!PipeInv, Load!AccessInv, Load!Parts
  <2>2. Load!BareInv' /\ Load!PipeInv' /\ Load!AccessInv'
    BY <2>1 DEF Load!BareInv, Load!PipeInv, Load!AccessInv, Load!All, Load!Added, Load!Cdevs
  <2> QED
    BY <2>1, <2>2 DEF Load!UndoesWhatWasDone, Load!Parts
<1> QED
  BY <1>1, <1>2 DEF Load!InitModule

LEMMA LoadAllocDevicesStep == ASSUME Load!IInv, Load!AllocDevices PROVE Load!IInv'
<1> USE DEF Load!AllocDevices, Load!IInv
<1>0. regions = {"bare"} /\ load_arrays = {} /\ Load!All(Load!Cdevs, {"zero"}) /\ ~proc
  BY DEF Load!BareInv
<1>1. CASE load_pc' = "cleanup" /\ UNCHANGED <<load_arrays, cdevs>>
  BY <1>0, <1>1 DEF Load!BareInv, Load!PipeInv, Load!AccessInv, Load!All, Load!Added,
     Load!Cdevs, Load!UndoesWhatWasDone
<1>2. CASE load_arrays' = {"bare"} /\ Load!Setup(BareDevs, "ready") /\ load_pc' = "pipe"
  <2>1. /\ cdevs' \in [Load!Cdevs -> {"zero", "ready", "live", "put", "gone"}]
        /\ \A c \in Load!Cdevs : c \notin BareDevs => cdevs'[c] = cdevs[c]
    BY <1>2, LoadOthersKept
  <2>2. \A c \in BareDevs : cdevs'[c] \in {"live", "ready"}
    BY <1>2, LoadSetupCdevs
  <2>3. Load!BareInv' /\ Load!PipeInv' /\ Load!AccessInv'
    BY <1>0, <1>2, <2>1, <2>2, CdevsAssumption DEF Load!BareInv, Load!PipeInv, Load!AccessInv,
       Load!All, Load!Added, Load!Cdevs
  <2> QED
    BY <1>0, <1>2, <2>1, <2>3 DEF Load!UndoesWhatWasDone, Load!Parts
<1> QED
  BY <1>1, <1>2

LEMMA LoadPipeInitStep == ASSUME Load!IInv, Load!PipeInit PROVE Load!IInv'
<1> USE DEF Load!PipeInit, Load!IInv
<1>1. CASE UNCHANGED <<regions, load_arrays, cdevs, proc>>
  BY <1>1 DEF Load!BareInv, Load!PipeInv, Load!AccessInv, Load!All, Load!Added,
     Load!UndoesWhatWasDone
<1>2. CASE /\ regions' = regions \cup {"pipe"} /\ load_arrays' = load_arrays \cup {"pipe"}
           /\ Load!Setup(PipeDevs, "ready") /\ proc' = TRUE
  <2>1. /\ cdevs' \in [Load!Cdevs -> {"zero", "ready", "live", "put", "gone"}]
        /\ \A c \in Load!Cdevs : c \notin PipeDevs => cdevs'[c] = cdevs[c]
    BY <1>2, LoadOthersKept
  <2>2. \A c \in PipeDevs : cdevs'[c] \in {"live", "ready"}
    BY <1>2, LoadSetupCdevs
  <2>3. Load!BareInv' /\ Load!PipeInv' /\ Load!AccessInv'
    BY <1>2, <2>1, <2>2, CdevsAssumption DEF Load!BareInv, Load!PipeInv, Load!AccessInv,
       Load!All, Load!Added, Load!Cdevs
  <2> QED
    BY <1>2, <2>1, <2>3 DEF Load!UndoesWhatWasDone, Load!Parts
<1> QED
  BY <1>1, <1>2

LEMMA LoadAccessInitStep == ASSUME Load!IInv, Load!AccessInit PROVE Load!IInv'
<1> USE DEF Load!AccessInit, Load!IInv
<1>1. CASE UNCHANGED <<regions, cdevs>>
  BY <1>1 DEF Load!BareInv, Load!PipeInv, Load!AccessInv, Load!All, Load!Added,
     Load!UndoesWhatWasDone
<1>2. CASE regions' = regions \cup {"access"} /\ Load!Setup(AccessDevs, "put")
  <2>1. /\ cdevs' \in [Load!Cdevs -> {"zero", "ready", "live", "put", "gone"}]
        /\ \A c \in Load!Cdevs : c \notin AccessDevs => cdevs'[c] = cdevs[c]
    BY <1>2, LoadOthersKept
  <2>2. \A c \in AccessDevs : cdevs'[c] \in {"live", "put"}
    BY <1>2, LoadSetupCdevs
  <2>3. Load!BareInv' /\ Load!PipeInv' /\ Load!AccessInv'
    BY <1>2, <2>1, <2>2, CdevsAssumption DEF Load!BareInv, Load!PipeInv, Load!AccessInv,
       Load!All, Load!Added, Load!Cdevs
  <2> QED
    BY <1>2, <2>1, <2>3 DEF Load!UndoesWhatWasDone, Load!Parts
<1> QED
  BY <1>1, <1>2

LEMMA LoadCreateProcStep == ASSUME Load!IInv, Load!CreateProc PROVE Load!IInv'
<1> USE DEF Load!CreateProc, Load!IInv
<1>2. Load!BareInv'
  BY DEF Load!BareInv, Load!All
<1>3. Load!PipeInv'
  BY DEF Load!PipeInv, Load!All, Load!Added
<1>4. Load!AccessInv'
  BY DEF Load!AccessInv, Load!All, Load!Added
<1> QED
  BY <1>2, <1>3, <1>4 DEF Load!UndoesWhatWasDone

LEMMA LoadCleanupModuleStep == ASSUME Load!IInv, Load!CleanupModule PROVE Load!IInv'
<1> USE DEF Load!CleanupModule, Load!IInv
<1>2. Load!BareInv'
  BY DEF Load!BareInv, Load!All
<1>3. Load!PipeInv'
  BY DEF Load!PipeInv, Load!All, Load!Added
<1>4. Load!AccessInv'
  BY DEF Load!AccessInv, Load!All, Load!Added
<1> QED
  BY <1>2, <1>3, <1>4 DEF Load!UndoesWhatWasDone

LEMMA LoadStutterStep == ASSUME Load!IInv, UNCHANGED Load!vars PROVE Load!IInv'
BY DEF Load!vars, Load!IInv, Load!BareInv, Load!PipeInv, Load!AccessInv, Load!All, Load!Added,
   Load!UndoesWhatWasDone

LEMMA LoadCleanupStep == ASSUME Load!IInv, Load!Cleanup PROVE Load!IInv'
<1> USE DEF Load!Cleanup, Load!BareCleanup, Load!IInv
<1>0. load_arrays' = load_arrays \ {"bare"} /\ regions' = regions \ {"bare"} /\ proc' = FALSE
  OBVIOUS
<1>1. CASE "bare" \notin load_arrays
  BY <1>1 DEF Load!BareInv, Load!PipeInv, Load!AccessInv, Load!All, Load!Added,
     Load!UndoesWhatWasDone, Load!Parts
<1>2. CASE "bare" \in load_arrays
  <2>1. Load!Del(BareDevs) /\ Load!All(BareDevs, {"ready", "live"})
    BY <1>2 DEF Load!BareInv
  <2>2. /\ cdevs' \in [Load!Cdevs -> {"zero", "ready", "live", "put", "gone"}]
        /\ \A c \in Load!Cdevs : c \notin BareDevs => cdevs'[c] = cdevs[c]
    BY <2>1, LoadOthersKept
  <2>3. \A c \in BareDevs : cdevs'[c] = "gone"
    BY <2>1, LoadDelCdevs
  <2>4. Load!UndoesWhatWasDone'
    BY <2>1, LoadDelMisuse
  <2>5. Load!BareInv' /\ Load!PipeInv' /\ Load!AccessInv'
    BY <1>0, <2>2, <2>3, CdevsAssumption DEF Load!BareInv, Load!PipeInv, Load!AccessInv,
       Load!All, Load!Added, Load!Cdevs
  <2> QED
    BY <1>0, <2>2, <2>4, <2>5
<1> QED
  BY <1>1, <1>2

LEMMA LoadCleanupPipeStep == ASSUME Load!IInv, Load!CleanupPipe PROVE Load!IInv'
<1> USE DEF Load!CleanupPipe, Load!PipeCleanup, Load!IInv
<1>1. CASE "pipe" \notin load_arrays
  BY <1>1 DEF Load!BareInv, Load!PipeInv, Load!AccessInv, Load!All, Load!Added,
     Load!UndoesWhatWasDone
<1>2. CASE "pipe" \in load_arrays
  <2>0. load_arrays' = load_arrays \ {"pipe"} /\ regions' = regions \ {"pipe"} /\ proc' = FALSE
    BY <1>2
  <2>1. Load!Del(PipeDevs) /\ Load!All(PipeDevs, {"ready", "live"})
    BY <1>2 DEF Load!PipeInv, Load!Added
  <2>2. /\ cdevs' \in [Load!Cdevs -> {"zero", "ready", "live", "put", "gone"}]
        /\ \A c \in Load!Cdevs : c \notin PipeDevs => cdevs'[c] = cdevs[c]
    BY <2>1, LoadOthersKept
  <2>3. \A c \in PipeDevs : cdevs'[c] = "gone"
    BY <2>1, LoadDelCdevs
  <2>4. Load!UndoesWhatWasDone'
    BY <2>1, LoadDelMisuse
  <2>5. Load!BareInv' /\ Load!PipeInv' /\ Load!AccessInv'
    BY <2>0, <2>2, <2>3, CdevsAssumption DEF Load!BareInv, Load!PipeInv, Load!AccessInv,
       Load!All, Load!Added, Load!Cdevs
  <2> QED
    BY <2>0, <2>2, <2>4, <2>5
<1> QED
  BY <1>1, <1>2

LEMMA LoadCleanupAccessStep == ASSUME Load!IInv, Load!CleanupAccess PROVE Load!IInv'
<1> USE DEF Load!CleanupAccess, Load!IInv
<1>1. /\ cdevs' \in [Load!Cdevs -> {"zero", "ready", "live", "put", "gone"}]
      /\ \A c \in Load!Cdevs : c \notin AccessDevs => cdevs'[c] = cdevs[c]
  BY LoadOthersKept
<1>2. \A c \in AccessDevs : cdevs'[c] = "gone"
  BY LoadDelCdevs
<1>3. Load!UndoesWhatWasDone'
  BY DEF Load!UndoesWhatWasDone, Load!Del
<1>4. Load!BareInv' /\ Load!PipeInv' /\ Load!AccessInv'
  BY <1>1, <1>2, CdevsAssumption DEF Load!BareInv, Load!PipeInv, Load!AccessInv, Load!All,
     Load!Added, Load!Cdevs
<1> QED
  BY <1>1, <1>3, <1>4

LEMMA LoadNextIInv == ASSUME Load!IInv, Load!Next \/ UNCHANGED Load!vars PROVE Load!IInv'
BY LoadInitModuleStep, LoadAllocDevicesStep, LoadPipeInitStep, LoadAccessInitStep,
   LoadCreateProcStep,
   LoadCleanupModuleStep, LoadStutterStep,
   LoadCleanupStep, LoadCleanupPipeStep, LoadCleanupAccessStep DEF Load!Next

LEMMA LoadIInvSafe == ASSUME Load!IInv PROVE Load!LoadSafe
<1>1. load_pc = "unloaded" => regions = {} /\ load_arrays = {}
  BY DEF Load!IInv, Load!BareInv, Load!PipeInv, Load!AccessInv, Load!Parts
<1>2. load_pc = "unloaded" => \A c \in Load!Cdevs : cdevs[c] \in {"zero", "gone"}
  BY DEF Load!IInv, Load!BareInv, Load!PipeInv, Load!AccessInv, Load!All, Load!Cdevs
<1> QED
  BY <1>1, <1>2 DEF Load!IInv, Load!LoadSafe, Load!NothingLeft

-----------------------------------------------------------------------------
(* The interrupt line of short.                                            *)

LEMMA ShortInitIInv == ASSUME Short!Init PROVE Short!IInv
BY DEF Short!Init, Short!IInv, Short!HandlerInv, Short!FoundIsTheOnlyOne

LEMMA ShortLoadingStep ==
  ASSUME Short!IInv, Short!ShortInit \/ Short!Register \/ Short!KernelProbe
          \/ Short!SelfProbe \/ Short!Default
  PROVE  Short!IInv'
<1>1. CASE Short!ShortInit
  <2>1. CASE UNCHANGED Short!vars
    BY <2>1 DEF Short!IInv, Short!HandlerInv, Short!FoundIsTheOnlyOne, Short!vars,
       Short!params, Short!resources, Short!probing, Short!running
  <2>2. CASE short_phase' = "register" /\ short_irq' = irq
              /\ UNCHANGED <<Short!params, Short!probing, Short!running>>
    <3>1. handler = "none" /\ irq \in Int
      BY <1>1 DEF Short!ShortInit, Short!IInv, Short!HandlerInv
    <3> QED
      BY <1>1, <2>2, <3>1 DEF Short!ShortInit, Short!IInv, Short!HandlerInv,
         Short!FoundIsTheOnlyOne, Short!params, Short!probing, Short!running
  <2> QED
    BY <1>1, <2>1, <2>2 DEF Short!ShortInit
<1>2. CASE Short!Register
  <2>1. /\ short_phase = "register"
            /\ short_phase' \in {"unloaded", "install", "default", "kernel", "self"}
        /\ UNCHANGED <<short_irq, Short!params, Short!probing, Short!running>>
    BY <1>2 DEF Short!Register
  <2>2. short_phase' = "unloaded" => short_region' = "none" \/ use_mem'
    BY <1>2 DEF Short!Register, Short!params
  <2> QED
    BY <2>1, <2>2 DEF Short!IInv, Short!HandlerInv, Short!FoundIsTheOnlyOne, Short!params,
       Short!probing, Short!running
<1>3. CASE Short!KernelProbe
  BY <1>3, LineAssumption
  DEF Short!KernelProbe, Short!IInv, Short!HandlerInv, Short!FoundIsTheOnlyOne, Short!params,
     Short!resources, Short!running
<1>4. CASE Short!SelfProbe
  BY <1>4, LineAssumption
  DEF Short!SelfProbe, Short!IInv, Short!HandlerInv, Short!FoundIsTheOnlyOne, Short!params,
     Short!resources, Short!running
<1>5. CASE Short!Default
  BY <1>5, LineAssumption
  DEF Short!Default, Short!IInv, Short!HandlerInv, Short!FoundIsTheOnlyOne, Short!params,
     Short!resources, Short!probing, Short!running
<1> QED
  BY <1>1, <1>2, <1>3, <1>4, <1>5

\* The sign of short_irq says whether another line has interrupted.
LEMMA ShortShortProbingStep ==
  ASSUME Short!IInv, NEW i \in Trials, Short!ShortProbing(i)
  PROVE  Short!IInv'
<1> USE DEF Short!ShortProbing, Short!IInv
<1>1. i \in Nat \ {0} /\ short_irq \in Int
  BY LineAssumption
<1>2. Short!FoundIsTheOnlyOne'
  <2>1. CASE short_irq = 0
    <3>1. fired = {}
      BY <2>1 DEF Short!FoundIsTheOnlyOne
    <3>2. short_irq' = i /\ fired' = {i}
      BY <2>1, <3>1 DEF Short!Found
    <3> QED
      BY <1>1, <3>2 DEF Short!FoundIsTheOnlyOne
  <2>2. CASE short_irq = i
    BY <1>1, <2>2 DEF Short!FoundIsTheOnlyOne, Short!Found
  <2>3. CASE short_irq # 0 /\ short_irq # i
    BY <1>1, <2>3 DEF Short!Found, Short!FoundIsTheOnlyOne
  <2> QED
    BY <2>1, <2>2, <2>3
<1>3. Short!HandlerInv'
  BY DEF Short!HandlerInv, Short!running, Short!params
<1> QED
  <2>1. short_irq' \in Int
    BY <1>1 DEF Short!Found
  <2> QED
    BY <1>2, <1>3, <2>1 DEF Short!params, Short!resources, Short!running

LEMMA ShortSelfProbeTryStep == ASSUME Short!IInv, Short!SelfProbeTry PROVE Short!IInv'
BY DEF Short!SelfProbeTry, Short!IInv, Short!HandlerInv, Short!FoundIsTheOnlyOne, Short!params,
   Short!resources, Short!running

LEMMA ShortInstallStep == ASSUME Short!IInv, Short!Install PROVE Short!IInv'
BY DEF Short!Install, Short!IInv, Short!HandlerInv, Short!FoundIsTheOnlyOne, Short!params,
   Short!resources, Short!probing

LEMMA ShortRunningStep ==
  ASSUME Short!IInv, Short!Interrupt \/ Short!BottomHalf \/ Short!Stop \/ UNCHANGED Short!vars
  PROVE  Short!IInv'
BY DEF Short!Interrupt, Short!BottomHalf, Short!Stop, Short!vars, Short!IInv, Short!HandlerInv,
   Short!FoundIsTheOnlyOne, Short!params,
   Short!resources, Short!probing, Short!running

LEMMA ShortCleanupStep == ASSUME Short!IInv, Short!Cleanup PROVE Short!IInv'
BY DEF Short!Cleanup, Short!FreeIrq, Short!Flush, Short!IInv, Short!HandlerInv,
   Short!FoundIsTheOnlyOne, Short!params, Short!probing

LEMMA ShortNextIInv == ASSUME Short!IInv, Short!Next \/ UNCHANGED Short!vars PROVE Short!IInv'
BY ShortLoadingStep, ShortShortProbingStep, ShortSelfProbeTryStep, ShortInstallStep,
   ShortRunningStep, ShortCleanupStep
DEF Short!Next

LEMMA ShortIInvSafe == ASSUME Short!IInv PROVE Short!ShortSafe
BY DEF Short!IInv, Short!ShortSafe, Short!HandlerInv, Short!UnloadedHandlers,
   Short!BottomHalfLeft

-----------------------------------------------------------------------------
(* The USB skeleton: who refers to the struct, and who reads.              *)

LEMMA UsbCardinality == \A S : Usb!Cardinality(S) = Cardinality(S)
BY DEF Usb!Cardinality, Cardinality

LEMMA UsbOpenedFinite ==
  /\ IsFiniteSet(Usb!Opened) /\ Cardinality(Usb!Opened) \in Nat
  /\ \A f \in Files : usb_pc[f] # "closed" => Cardinality(Usb!Opened) > 0
<1>1. IsFiniteSet(Usb!Opened)
  BY FilesAssumption, FS_Subset DEF Usb!Opened
<1>2. Cardinality(Usb!Opened) \in Nat
  BY <1>1, FS_CardinalityType
<1>3. Cardinality(Usb!Opened) = 0 => Usb!Opened = {}
  BY <1>1, FS_EmptySet
<1> QED
  BY <1>1, <1>2, <1>3 DEF Usb!Opened

\* The references that there are, one by one.
LEMMA UsbKref ==
  ASSUME Usb!IInv
  PROVE  /\ kref \in Nat /\ Cardinality(Usb!Opened) \in Nat
         /\ usb_probe = "no" => kref = Cardinality(Usb!Opened)
         /\ usb_probe # "no" => kref = Cardinality(Usb!Opened) + 1
         /\ struct = "live" => kref > 0
         /\ kref > 0 => struct = "live"
         /\ usb_fault # "used_after_free"
<1>1. kref = Cardinality(Usb!Opened) + (IF usb_probe = "no" THEN 0 ELSE 1)
  BY UsbCardinality DEF Usb!IInv, Usb!FreedByTheLast
<1>2. kref \in Nat /\ Cardinality(Usb!Opened) \in Nat
  BY UsbOpenedFinite DEF Usb!IInv, Usb!TypeInv
<1>3. (struct = "live" <=> kref > 0) /\ usb_fault # "used_after_free"
  BY UsbCardinality DEF Usb!IInv, Usb!FreedByTheLast
<1> QED
  BY <1>1, <1>2, <1>3

\* An open file, and a device that is not gone, keep the struct alive.
LEMMA UsbKept ==
  ASSUME Usb!IInv
  PROVE  /\ usb_probe # "no" => kref > 0 /\ struct = "live"
         /\ \A f \in Files : usb_pc[f] # "closed" => kref > 0 /\ struct = "live"
<1>1. usb_probe # "no" => kref > 0
  BY UsbKref
<1>2. \A f \in Files : usb_pc[f] # "closed" => kref > 0
  BY UsbKref, UsbOpenedFinite
<1> QED
  BY <1>1, <1>2, UsbKref

\* What a step that leaves the files alone must show.
LEMMA UsbFilesKept ==
  ASSUME Usb!IInv, Usb!Files_, plugged' \in BOOLEAN, intfdata' \in BOOLEAN, node' \in BOOLEAN,
         usb_probe' \in {"no", "set", "done", "put"}, struct' \in {"none", "live", "freed"},
         usb_probe' = "no" => kref' = Cardinality(Usb!Opened),
         usb_probe' # "no" => kref' = Cardinality(Usb!Opened) + 1,
         struct' = "live" => kref' > 0, kref' > 0 => struct' = "live",
         usb_fault' = usb_fault, Usb!ProbeInv'
  PROVE  Usb!IInv'
<1>1. Usb!Opened' = Usb!Opened
  BY DEF Usb!Files_, Usb!Opened
<1>2. kref' \in Nat
  BY UsbOpenedFinite
<1>3. Usb!FreedByTheLast'
  <2>1. kref' = Cardinality(Usb!Opened') + (IF usb_probe' = "no" THEN 0 ELSE 1)
    BY <1>1, <1>2
  <2> QED
    BY <2>1, UsbKref, UsbCardinality DEF Usb!FreedByTheLast
<1>4. Usb!TypeInv'
  BY <1>2 DEF Usb!TypeInv, Usb!IInv, Usb!Files_
<1>5. Usb!AloneInv' /\ Usb!ReadsItsOwn'
  BY DEF Usb!IInv, Usb!AloneInv, Usb!ReadsItsOwn, Usb!Files_
<1> QED
  BY <1>3, <1>4, <1>5 DEF Usb!IInv

LEMMA UsbInitIInv == ASSUME Usb!Init PROVE Usb!IInv
<1> USE DEF Usb!Init
<1>1. Usb!Opened = {}
  BY DEF Usb!Opened
<1>2. Usb!FreedByTheLast
  <2>1. kref = Cardinality(Usb!Opened) + (IF usb_probe = "no" THEN 0 ELSE 1)
    BY <1>1, FS_EmptySet
  <2> QED
    BY <2>1, UsbCardinality DEF Usb!FreedByTheLast
<1>3. Usb!TypeInv /\ Usb!ProbeInv /\ Usb!AloneInv /\ Usb!ReadsItsOwn
  BY DEF Usb!TypeInv, Usb!ProbeInv, Usb!AloneInv, Usb!ReadsItsOwn
<1> QED
  BY <1>2, <1>3 DEF Usb!IInv

\* kref_put by the one whose reference is no longer counted.
LEMMA UsbPutKref ==
  ASSUME Usb!IInv, kref > 0, Usb!Put
  PROVE  /\ kref' = kref - 1 /\ kref' \in Nat
         /\ struct' \in {"none", "live", "freed"}
         /\ struct' = "live" => kref' > 0
         /\ kref' > 0 => struct' = "live"
<1>1. kref \in Nat /\ struct = "live"
  BY UsbKref
<1>2. CASE kref = 1
  BY <1>1, <1>2 DEF Usb!Put
<1>3. CASE kref # 1
  BY <1>1, <1>3 DEF Usb!Put
<1> QED
  BY <1>2, <1>3

LEMMA UsbProbeStep == ASSUME Usb!IInv, Usb!Probe PROVE Usb!IInv'
<1> USE DEF Usb!Probe
<1>1. kref = 0 /\ usb_probe = "no"
  BY UsbKept, UsbKref
<1>2. Cardinality(Usb!Opened) = 0
  BY <1>1, UsbKref
<1>3. CASE struct' = "freed" /\ kref' = 0 /\ UNCHANGED <<usb_probe, intfdata>>
  <2>1. Usb!ProbeInv' /\ node' \in BOOLEAN /\ intfdata' \in BOOLEAN
    BY <1>1, <1>3 DEF Usb!IInv, Usb!TypeInv, Usb!ProbeInv
  <2> QED
    BY <1>1, <1>2, <1>3, <2>1, UsbFilesKept
<1>4. CASE struct' = "live" /\ kref' = 1 /\ usb_probe' = "set" /\ intfdata' = TRUE
  <2>1. Usb!ProbeInv' /\ node' \in BOOLEAN
    BY <1>1, <1>4 DEF Usb!IInv, Usb!TypeInv, Usb!ProbeInv
  <2> QED
    BY <1>1, <1>2, <1>4, <2>1, UsbFilesKept
<1> QED
  BY <1>3, <1>4

LEMMA UsbProbeRegisterStep == ASSUME Usb!IInv, Usb!ProbeRegister PROVE Usb!IInv'
<1> USE DEF Usb!ProbeRegister
<1>0. kref = Cardinality(Usb!Opened) + 1 /\ kref > 0 /\ Cardinality(Usb!Opened) \in Nat
  BY UsbKref
<1>1. CASE usb_probe' = "done" /\ node' = TRUE /\ UNCHANGED <<intfdata, kref, struct>>
  <2>1. Usb!ProbeInv' /\ plugged' \in BOOLEAN /\ intfdata' \in BOOLEAN
    BY <1>1 DEF Usb!IInv, Usb!TypeInv, Usb!ProbeInv
  <2>2. struct' = "live" /\ kref' = kref
    BY <1>0, <1>1, UsbKref
  <2> QED
    BY <1>0, <1>1, <2>1, <2>2, UsbFilesKept
<1>2. CASE usb_probe' = "no" /\ intfdata' = FALSE /\ Usb!Put /\ UNCHANGED node
  <2>1. kref' = Cardinality(Usb!Opened)
    BY <1>0, <1>2, UsbPutKref
  <2>2. Usb!ProbeInv' /\ plugged' \in BOOLEAN /\ node' \in BOOLEAN
    BY <1>2 DEF Usb!IInv, Usb!TypeInv, Usb!ProbeInv
  <2>3. /\ struct' \in {"none", "live", "freed"}
        /\ struct' = "live" => kref' > 0
        /\ kref' > 0 => struct' = "live"
    BY <1>0, <1>2, UsbPutKref
  <2> QED
    BY <1>2, <2>1, <2>2, <2>3, UsbFilesKept
<1> QED
  BY <1>1, <1>2

LEMMA UsbUnplugStep == ASSUME Usb!IInv, Usb!Unplug \/ Usb!Shutdown PROVE Usb!IInv'
<1>1. /\ Usb!Files_ /\ plugged' = FALSE
      /\ UNCHANGED <<usb_probe, intfdata, node, struct, kref, usb_fault>>
  BY DEF Usb!Unplug, Usb!Shutdown
<1>2. Usb!ProbeInv' /\ intfdata' \in BOOLEAN /\ node' \in BOOLEAN
  BY <1>1 DEF Usb!IInv, Usb!TypeInv, Usb!ProbeInv
<1>3. usb_probe' \in {"no", "set", "done", "put"} /\ struct' \in {"none", "live", "freed"}
  BY <1>1 DEF Usb!IInv, Usb!TypeInv
<1> QED
  BY <1>1, <1>2, <1>3, UsbKref, UsbFilesKept

LEMMA UsbDisconnectStep == ASSUME Usb!IInv, Usb!Disconnect PROVE Usb!IInv'
<1> USE DEF Usb!Disconnect, Usb!Disconnected
<1>1. Usb!ProbeInv' /\ plugged' \in BOOLEAN /\ struct' \in {"none", "live", "freed"}
  BY DEF Usb!IInv, Usb!TypeInv, Usb!ProbeInv
<1> QED
  BY <1>1, UsbKref, UsbFilesKept

LEMMA UsbDisconnectPutStep == ASSUME Usb!IInv, Usb!DisconnectPut PROVE Usb!IInv'
<1> USE DEF Usb!DisconnectPut
<1>0. kref = Cardinality(Usb!Opened) + 1 /\ kref > 0 /\ Cardinality(Usb!Opened) \in Nat
  BY UsbKref
<1>1. kref' = Cardinality(Usb!Opened)
  BY <1>0, UsbPutKref
<1>2. Usb!ProbeInv' /\ plugged' \in BOOLEAN /\ intfdata' \in BOOLEAN /\ node' \in BOOLEAN
  BY DEF Usb!IInv, Usb!TypeInv, Usb!ProbeInv
<1>3. /\ struct' \in {"none", "live", "freed"}
      /\ struct' = "live" => kref' > 0
      /\ kref' > 0 => struct' = "live"
  BY <1>0, UsbPutKref
<1> QED
  BY <1>1, <1>2, <1>3, UsbFilesKept

LEMMA UsbCallbackStep ==
  ASSUME Usb!IInv, Usb!Callback \/ Usb!Stop \/ UNCHANGED Usb!vars
  PROVE  Usb!IInv'
<1>1. UNCHANGED <<plugged, usb_probe, intfdata, node, struct, kref, usb_pc, inbuffer, got,
                 usb_fault, alone>>
  BY DEF Usb!Callback, Usb!Stop, Usb!vars
<1>2. Usb!FreedByTheLast' /\ Usb!ProbeInv'
  BY <1>1, UsbCardinality DEF Usb!IInv, Usb!FreedByTheLast, Usb!ProbeInv, Usb!Opened
<1>3. Usb!TypeInv' /\ Usb!AloneInv' /\ Usb!ReadsItsOwn'
  BY <1>1 DEF Usb!IInv, Usb!TypeInv, Usb!AloneInv, Usb!ReadsItsOwn
<1> QED
  BY <1>2, <1>3 DEF Usb!IInv

LEMMA UsbOpenStep == ASSUME Usb!IInv, NEW f \in Files, Usb!Open(f) PROVE Usb!IInv'
<1> USE DEF Usb!Open, Usb!Goto, Usb!Get
<1>1. usb_probe = "done" /\ struct = "live"
  BY UsbKept DEF Usb!IInv, Usb!ProbeInv
<1>2. usb_pc \in [Files -> {"closed", "open", "reading", "read"}]
  BY DEF Usb!IInv, Usb!TypeInv
<1>3. Usb!Opened' = Usb!Opened \cup {f} /\ f \notin Usb!Opened
  BY <1>2 DEF Usb!Opened
<1>4. Cardinality(Usb!Opened') = Cardinality(Usb!Opened) + 1
  BY <1>3, UsbOpenedFinite, FS_AddElement
<1>5. kref \in Nat /\ kref = Cardinality(Usb!Opened) + 1 /\ usb_fault # "used_after_free"
  BY <1>1, UsbKref
<1>6. Usb!FreedByTheLast'
  <2>1. kref' = Cardinality(Usb!Opened') + (IF usb_probe' = "no" THEN 0 ELSE 1) /\ kref' > 0
    BY <1>1, <1>4, <1>5
  <2> QED
    BY <1>1, <1>5, <2>1, UsbCardinality DEF Usb!FreedByTheLast
<1>7. Usb!TypeInv'
  BY <1>5 DEF Usb!IInv, Usb!TypeInv
<1>8. \A g \in Files : usb_pc'[g] \in {"reading", "read"} => usb_pc[g] = usb_pc'[g]
  BY <1>2
<1>9. Usb!ProbeInv' /\ Usb!AloneInv' /\ Usb!ReadsItsOwn'
  BY <1>8 DEF Usb!IInv, Usb!ProbeInv, Usb!AloneInv, Usb!ReadsItsOwn
<1> QED
  BY <1>6, <1>7, <1>9 DEF Usb!IInv

LEMMA UsbReleaseStep == ASSUME Usb!IInv, NEW f \in Files, Usb!Release(f) PROVE Usb!IInv'
<1> USE DEF Usb!Release, Usb!Goto
<1>1. kref > 0 /\ struct = "live"
  BY UsbKept
<1>2. usb_pc \in [Files -> {"closed", "open", "reading", "read"}]
  BY DEF Usb!IInv, Usb!TypeInv
<1>3. Usb!Opened' = Usb!Opened \ {f} /\ f \in Usb!Opened
  BY <1>2 DEF Usb!Opened
<1>4. Cardinality(Usb!Opened') = Cardinality(Usb!Opened) - 1
  BY <1>3, UsbOpenedFinite, FS_RemoveElement
<1>5. /\ kref' = kref - 1 /\ kref' \in Nat /\ struct' \in {"none", "live", "freed"}
      /\ struct' = "live" => kref' > 0
      /\ kref' > 0 => struct' = "live"
  BY <1>1, UsbPutKref
<1>6. kref' = Cardinality(Usb!Opened') + (IF usb_probe' = "no" THEN 0 ELSE 1)
  BY <1>4, <1>5, UsbKref
<1>7. Usb!FreedByTheLast'
  BY <1>1, <1>5, <1>6, UsbKref, UsbCardinality DEF Usb!FreedByTheLast
<1>8. Usb!TypeInv'
  BY <1>5 DEF Usb!IInv, Usb!TypeInv
<1>9. \A g \in Files : usb_pc'[g] \in {"reading", "read"} => usb_pc[g] = usb_pc'[g]
  BY <1>2
<1>10. Usb!ProbeInv' /\ Usb!AloneInv' /\ Usb!ReadsItsOwn'
  BY <1>9 DEF Usb!IInv, Usb!ProbeInv, Usb!AloneInv, Usb!ReadsItsOwn
<1> QED
  BY <1>7, <1>8, <1>10 DEF Usb!IInv

\* What a step of an open file that stays open must show.
LEMMA UsbDeviceKept ==
  ASSUME Usb!IInv, NEW f \in Files, usb_pc[f] # "closed", NEW to \in {"open", "reading",
          "read"},
         usb_pc' = [usb_pc EXCEPT ![f] = to], Usb!Device, usb_fault' # "used_after_free",
         inbuffer' \in Files \cup {Usb!Nobody}, got' \in [Files -> Files \cup {Usb!Nobody}],
         alone' \in BOOLEAN,
         Usb!AloneInv', Usb!ReadsItsOwn'
  PROVE  Usb!IInv'
<1>1. Usb!Opened' = Usb!Opened
  BY DEF Usb!Opened, Usb!IInv, Usb!TypeInv
<1>2. Usb!FreedByTheLast'
  BY <1>1, UsbCardinality DEF Usb!FreedByTheLast, Usb!IInv, Usb!Device
<1>3. Usb!TypeInv' /\ Usb!ProbeInv'
  BY DEF Usb!TypeInv, Usb!ProbeInv, Usb!IInv, Usb!Device
<1> QED
  BY <1>2, <1>3 DEF Usb!IInv

LEMMA UsbTouched ==
  ASSUME Usb!IInv, NEW f \in Files, usb_pc[f] # "closed", Usb!Touch
  PROVE  usb_fault' # "used_after_free"
BY UsbKept, UsbCardinality DEF Usb!Touch, Usb!IInv, Usb!FreedByTheLast

LEMMA UsbReadBeginStep == ASSUME Usb!IInv, NEW f \in Files, Usb!ReadBegin(f) PROVE Usb!IInv'
<1> USE DEF Usb!ReadBegin, Usb!Goto
<1>1. usb_pc[f] # "closed" /\ usb_fault' # "used_after_free"
  BY UsbTouched
<1>2. usb_pc \in [Files -> {"closed", "open", "reading", "read"}]
  BY DEF Usb!IInv, Usb!TypeInv
<1>3. Usb!AloneInv' /\ Usb!ReadsItsOwn'
  BY <1>2 DEF Usb!IInv, Usb!AloneInv, Usb!ReadsItsOwn
<1> QED
  BY <1>1, <1>3, UsbDeviceKept DEF Usb!IInv, Usb!TypeInv

LEMMA UsbReadFailsStep == ASSUME Usb!IInv, NEW f \in Files, Usb!ReadFails(f) PROVE Usb!IInv'
<1> USE DEF Usb!ReadFails, Usb!Failed, Usb!Goto
<1>1. usb_pc[f] # "closed" /\ usb_fault' # "used_after_free"
  BY UsbTouched
<1>2. usb_pc \in [Files -> {"closed", "open", "reading", "read"}]
  BY DEF Usb!IInv, Usb!TypeInv
<1>3. Usb!AloneInv' /\ Usb!ReadsItsOwn'
  BY <1>2 DEF Usb!IInv, Usb!AloneInv, Usb!ReadsItsOwn
<1> QED
  BY <1>1, <1>3, UsbDeviceKept DEF Usb!IInv, Usb!TypeInv

LEMMA UsbReadDoneStep == ASSUME Usb!IInv, NEW f \in Files, Usb!ReadDone(f) PROVE Usb!IInv'
<1> USE DEF Usb!ReadDone, Usb!Goto
<1>1. usb_pc[f] # "closed" /\ usb_fault' # "used_after_free"
  BY UsbTouched
<1>2. usb_pc \in [Files -> {"closed", "open", "reading", "read"}]
  BY DEF Usb!IInv, Usb!TypeInv
<1>3. Usb!AloneInv' /\ Usb!ReadsItsOwn'
  BY <1>2 DEF Usb!IInv, Usb!AloneInv, Usb!ReadsItsOwn
<1> QED
  BY <1>1, <1>3, UsbDeviceKept DEF Usb!IInv, Usb!TypeInv

LEMMA UsbReadCopyStep == ASSUME Usb!IInv, NEW f \in Files, Usb!ReadCopy(f) PROVE Usb!IInv'
<1> USE DEF Usb!ReadCopy, Usb!Goto
<1>1. usb_pc[f] # "closed" /\ usb_fault' # "used_after_free"
  BY UsbTouched
<1>2. usb_pc \in [Files -> {"closed", "open", "reading", "read"}]
  BY DEF Usb!IInv, Usb!TypeInv
<1>3. Usb!AloneInv'
  BY <1>2 DEF Usb!IInv, Usb!AloneInv
<1>5. Usb!ReadsItsOwn'
  <2>1. alone => inbuffer = f
    BY DEF Usb!IInv, Usb!AloneInv
  <2>2. got \in [Files -> Files \cup {Usb!Nobody}] /\ (alone => \A g \in Files : got[g] = g)
    BY DEF Usb!IInv, Usb!TypeInv, Usb!ReadsItsOwn
  <2> QED
    BY <2>1, <2>2 DEF Usb!ReadsItsOwn
<1>4. got' \in [Files -> Files \cup {Usb!Nobody}]
  BY DEF Usb!IInv, Usb!TypeInv
<1> QED
  BY <1>1, <1>3, <1>4, <1>5, UsbDeviceKept DEF Usb!IInv, Usb!TypeInv

LEMMA UsbWriteStep ==
  ASSUME Usb!IInv, NEW f \in Files, Usb!Write(f) \/ Usb!WriteError(f)
  PROVE  Usb!IInv'
<1> USE DEF Usb!Write, Usb!WriteError
<1>1. usb_pc[f] = "open"
  OBVIOUS
<1>4. usb_fault' # "used_after_free"
  BY <1>1, UsbTouched
<1>2. usb_pc' = [usb_pc EXCEPT ![f] = "open"]
  BY <1>1 DEF Usb!IInv, Usb!TypeInv
<1>3. Usb!AloneInv' /\ Usb!ReadsItsOwn'
  BY DEF Usb!IInv, Usb!AloneInv, Usb!ReadsItsOwn
<1> QED
  BY <1>1, <1>2, <1>3, <1>4, UsbDeviceKept DEF Usb!IInv, Usb!TypeInv

LEMMA UsbNextIInv == ASSUME Usb!IInv, Usb!Next \/ UNCHANGED Usb!vars PROVE Usb!IInv'
BY UsbProbeStep, UsbProbeRegisterStep, UsbUnplugStep, UsbDisconnectStep, UsbDisconnectPutStep,
   UsbCallbackStep,
   UsbOpenStep, UsbReleaseStep, UsbReadBeginStep, UsbReadFailsStep, UsbReadDoneStep,
   UsbReadCopyStep, UsbWriteStep
DEF Usb!Next, Usb!Step

LEMMA UsbIInvSafe == ASSUME Usb!IInv PROVE Usb!UsbSafe
<1>1. Usb!NodeHasDevice
  BY UsbKept DEF Usb!IInv, Usb!ProbeInv, Usb!NodeHasDevice
<1> QED
  BY <1>1 DEF Usb!IInv, Usb!UsbSafe

-----------------------------------------------------------------------------
(* sbull: its users, its timer, and the requests under the lock.           *)

LEMMA DiskCardinality == \A S : Disk!Cardinality(S) = Cardinality(S)
BY DEF Disk!Cardinality, Cardinality

LEMMA DiskInUseFinite ==
  /\ IsFiniteSet(Disk!InUse) /\ Cardinality(Disk!InUse) \in Nat
  /\ Cardinality(Disk!InUse) = 0
      => \A u \in Users : sbull_pc[u] \notin {"open", "read", "write"}
  /\ (\A u \in Users : sbull_pc[u] \notin {"open", "read", "write"})
      => Cardinality(Disk!InUse) = 0
<1>1. IsFiniteSet(Disk!InUse)
  BY UsersAssumption, FS_Subset DEF Disk!InUse
<1>2. Cardinality(Disk!InUse) \in Nat /\ (Cardinality(Disk!InUse) = 0 <=> Disk!InUse = {})
  BY <1>1, FS_CardinalityType, FS_EmptySet
<1> QED
  BY <1>1, <1>2 DEF Disk!InUse

\* What a step that leaves the requests alone must show.
LEMMA DiskRequestsKept ==
  ASSUME Disk!IInv, UNCHANGED <<request_mode, Disk!io>>,
         \A u \in Users :
           sbull_pc[u] \in {"read", "write"} \/ sbull_pc'[u] \in {"read", "write"}
            => sbull_pc'[u] = sbull_pc[u]
  PROVE  Disk!RequestInv' /\ Disk!WholeRequests'
BY DEF Disk!IInv, Disk!RequestInv, Disk!WholeRequests, Disk!SameFrom, Disk!WrittenTo, Disk!io

LEMMA DiskIoTypes ==
  ASSUME Disk!IInv, UNCHANGED Disk!io
  PROVE  /\ lock' \in Users \cup {Disk!Nobody}
         /\ disk' \in [0..(Sectors - 1) -> Users \cup {Disk!Zero}]
         /\ at' \in [Users -> 0..Sectors]
             /\ seen' \in [Users -> SUBSET (Users \cup {Disk!Zero})]
BY DEF Disk!IInv, Disk!TypeInv, Disk!io

\* What a step that leaves those who use the disk, and its media, must show.
LEMMA DiskMediaKept ==
  ASSUME Disk!IInv, UNCHANGED Disk!media, Disk!InUse' = Disk!InUse,
         \A u \in Users : sbull_pc'[u] = "opening" <=> sbull_pc[u] = "opening"
  PROVE  Disk!UsersInv' /\ Disk!TimerSanity'
BY DiskCardinality DEF Disk!IInv, Disk!UsersInv, Disk!TimerSanity, Disk!media

LEMMA DiskBlankType ==
  /\ Disk!Blank \in [0..(Sectors - 1) -> Users \cup {Disk!Zero}]
  /\ \A a, b \in 0..(Sectors - 1) : Disk!Blank[a] = Disk!Blank[b]
BY DEF Disk!Blank

LEMMA DiskInitIInv == ASSUME Disk!Init PROVE Disk!IInv
<1> USE DEF Disk!Init
<1>1. users = Cardinality(Disk!InUse)
  BY DiskInUseFinite
<1>2. Disk!UsersInv /\ Disk!TimerSanity /\ Disk!PhaseInv
  <2>1. \A u \in Users : sbull_pc[u] = "opening" <=> opener = u
    BY UsersAssumption DEF Disk!Nobody
  <2>2. ~timer /\ ~media_change /\ ~insane /\ ~gd /\ ~queue
    OBVIOUS
  <2>3. Disk!UsersInv
    BY <1>1, <2>1, <2>2, DiskCardinality DEF Disk!UsersInv
  <2>4. Disk!TimerSanity /\ Disk!PhaseInv
    BY <2>2 DEF Disk!TimerSanity, Disk!PhaseInv
  <2> QED
    BY <2>3, <2>4
<1>3. Disk!TypeInv
  <2>1. 0 \in 0..Sectors
    BY SectorsAssumption
  <2>2. /\ disk \in [0..(Sectors - 1) -> Users \cup {Disk!Zero}]
        /\ at \in [Users -> 0..Sectors] /\ seen \in [Users -> SUBSET (Users \cup {Disk!Zero})]
    BY <2>1, DiskBlankType
  <2> QED
    BY <2>2 DEF Disk!TypeInv
<1>4. Disk!RequestInv /\ Disk!WholeRequests
  BY DiskBlankType, UsersAssumption DEF Disk!RequestInv, Disk!WholeRequests, Disk!SameFrom,
     Disk!Nobody
<1> QED
  BY <1>2, <1>3, <1>4 DEF Disk!IInv

LEMMA DiskSbullInitStep == ASSUME Disk!IInv, Disk!SbullInit PROVE Disk!IInv'
<1> USE DEF Disk!SbullInit
<1>1. Disk!UsersInv' /\ Disk!TimerSanity'
  BY DiskCardinality DEF Disk!IInv, Disk!UsersInv, Disk!TimerSanity, Disk!media, Disk!InUse
<1>2. Disk!RequestInv' /\ Disk!WholeRequests'
  BY DiskRequestsKept
<1>3. Disk!TypeInv'
  BY DiskIoTypes DEF Disk!IInv, Disk!TypeInv, Disk!media
<1>4. Disk!PhaseInv'
  BY DEF Disk!IInv, Disk!PhaseInv, Disk!media
<1> QED
  BY <1>1, <1>2, <1>3, <1>4 DEF Disk!IInv

LEMMA DiskSetupDeviceStep == ASSUME Disk!IInv, Disk!SetupDevice PROVE Disk!IInv'
<1> USE DEF Disk!SetupDevice
<1>1. \A u \in Users : sbull_pc[u] = "closed"
  BY DEF Disk!IInv, Disk!PhaseInv
<1>2. Disk!InUse' = Disk!InUse /\ Cardinality(Disk!InUse) = 0
  BY <1>1, DiskInUseFinite DEF Disk!InUse
<1>3. Disk!UsersInv' /\ Disk!TimerSanity'
  BY <1>2, DiskCardinality DEF Disk!IInv, Disk!UsersInv, Disk!TimerSanity
<1>4. Disk!RequestInv' /\ Disk!WholeRequests'
  <2>1. Disk!SameFrom(0)'
    BY DiskBlankType DEF Disk!SameFrom
  <2>2. Disk!RequestInv'
    BY <1>1, <2>1 DEF Disk!IInv, Disk!RequestInv
  <2> QED
    BY <2>2 DEF Disk!IInv, Disk!WholeRequests
<1>5. Disk!TypeInv'
  BY DiskBlankType DEF Disk!IInv, Disk!TypeInv
<1>6. Disk!PhaseInv'
  BY <1>1 DEF Disk!PhaseInv
<1> QED
  BY <1>3, <1>4, <1>5, <1>6 DEF Disk!IInv

LEMMA DiskSbullExitStep == ASSUME Disk!IInv, Disk!SbullExit PROVE Disk!IInv'
<1> USE DEF Disk!SbullExit, Disk!DelTimer
<1>1. Disk!UsersInv' /\ Disk!TimerSanity'
  BY DiskCardinality DEF Disk!IInv, Disk!UsersInv, Disk!TimerSanity, Disk!InUse
<1>2. Disk!RequestInv' /\ Disk!WholeRequests'
  BY DiskRequestsKept
<1>3. Disk!TypeInv'
  BY DiskIoTypes DEF Disk!IInv, Disk!TypeInv
<1>4. memory' \in {"none", "freed", "freed_twice"}
  <2>1. memory \in {"none", "allocated", "dangling"}
    BY DEF Disk!IInv, Disk!PhaseInv
  <2>2. CASE memory = "none"
    BY <2>2
  <2>3. CASE memory = "allocated"
    BY <2>3
  <2>4. CASE memory = "dangling"
    BY <2>4
  <2> QED
    BY <2>1, <2>2, <2>3, <2>4
<1>5. Disk!PhaseInv'
  BY <1>4 DEF Disk!PhaseInv
<1> QED
  BY <1>1, <1>2, <1>3, <1>5 DEF Disk!IInv

LEMMA DiskOpenTimerStep == ASSUME Disk!IInv, NEW u \in Users, Disk!OpenTimer(u) PROVE Disk!IInv'
<1> USE DEF Disk!OpenTimer, Disk!DelTimer, Disk!Goto
<1>1. sbull_pc \in [Users -> {"closed", "opening", "open", "read", "write"}]
  BY DEF Disk!IInv, Disk!TypeInv
<1>2. Disk!InUse' = Disk!InUse
  BY <1>1 DEF Disk!InUse
<1>3. \A v \in Users : sbull_pc'[v] = "opening" <=> opener' = v
  BY <1>1, UsersAssumption, DiskCardinality DEF Disk!IInv, Disk!UsersInv, Disk!Nobody
<1>4. Disk!UsersInv' /\ Disk!TimerSanity'
  BY <1>2, <1>3, DiskCardinality DEF Disk!IInv, Disk!UsersInv, Disk!TimerSanity
<1>5. Disk!RequestInv' /\ Disk!WholeRequests'
  BY <1>1, DiskRequestsKept DEF Disk!module
<1>6. Disk!TypeInv'
  BY DiskIoTypes DEF Disk!IInv, Disk!TypeInv, Disk!module
<1>7. Disk!PhaseInv'
  BY DEF Disk!IInv, Disk!PhaseInv, Disk!module
<1> QED
  BY <1>4, <1>5, <1>6, <1>7 DEF Disk!IInv

LEMMA DiskOpenStep == ASSUME Disk!IInv, NEW u \in Users, Disk!Open(u) PROVE Disk!IInv'
<1> USE DEF Disk!Open, Disk!Goto
<1>1. sbull_pc \in [Users -> {"closed", "opening", "open", "read", "write"}] /\ users \in Nat
  BY DEF Disk!IInv, Disk!TypeInv
<1>2. Disk!InUse' = Disk!InUse \cup {u} /\ u \notin Disk!InUse
  BY <1>1 DEF Disk!InUse
<1>3. Cardinality(Disk!InUse') = Cardinality(Disk!InUse) + 1
  BY <1>2, DiskInUseFinite, FS_AddElement
<1>4. users' = Cardinality(Disk!InUse') /\ users' \in Nat
  BY <1>1, <1>3, DiskCardinality DEF Disk!IInv, Disk!UsersInv
<1>5. \A v \in Users : sbull_pc'[v] = "opening" <=> opener' = v
  BY <1>1, UsersAssumption, DiskCardinality DEF Disk!IInv, Disk!UsersInv, Disk!Nobody
<1>6. ~timer
  BY UsersAssumption, DiskCardinality DEF Disk!IInv, Disk!UsersInv, Disk!Nobody
<1>7. ~media_change'
  <2>1. users > 0 \/ users = 0
    BY <1>1
  <2> QED
    BY <2>1 DEF Disk!CheckDiskChange, Disk!IInv, Disk!TimerSanity, Disk!TypeInv
<1>8. Disk!UsersInv' /\ Disk!TimerSanity'
  BY <1>4, <1>5, <1>6, <1>7, DiskCardinality DEF Disk!IInv, Disk!UsersInv, Disk!TimerSanity
<1>9. Disk!RequestInv' /\ Disk!WholeRequests'
  <2>1. CASE UNCHANGED disk
    BY <1>1, <2>1, DiskRequestsKept DEF Disk!module, Disk!io
  <2>2. CASE users = 0 /\ disk' = Disk!Blank
    <3>1. \A v \in Users : sbull_pc[v] \notin {"open", "read", "write"}
      BY <2>2, DiskInUseFinite, DiskCardinality DEF Disk!IInv, Disk!UsersInv
    <3>2. \A v \in Users : sbull_pc'[v] \notin {"read", "write"}
      BY <1>1, <3>1
    <3>3. Disk!SameFrom(0)'
      BY <2>2, DiskBlankType DEF Disk!SameFrom
    <3>4. Disk!RequestInv'
      BY <3>1, <3>2, <3>3 DEF Disk!IInv, Disk!RequestInv, Disk!module
    <3> QED
      BY <3>4 DEF Disk!IInv, Disk!WholeRequests, Disk!module
  <2> QED
    BY <2>1, <2>2 DEF Disk!CheckDiskChange
<1>10. Disk!TypeInv'
  BY <1>4, <1>7, DiskBlankType DEF Disk!IInv, Disk!TypeInv, Disk!module, Disk!CheckDiskChange
<1>11. Disk!PhaseInv'
  BY <1>1 DEF Disk!IInv, Disk!PhaseInv, Disk!module
<1> QED
  BY <1>8, <1>9, <1>10, <1>11 DEF Disk!IInv

LEMMA DiskReleaseStep == ASSUME Disk!IInv, NEW u \in Users, Disk!Release(u) PROVE Disk!IInv'
<1> USE DEF Disk!Release, Disk!Goto
<1>1. sbull_pc \in [Users -> {"closed", "opening", "open", "read", "write"}] /\ users \in Nat
  BY DEF Disk!IInv, Disk!TypeInv
<1>2. Disk!InUse' = Disk!InUse \ {u} /\ u \in Disk!InUse
  BY <1>1 DEF Disk!InUse
<1>3. Cardinality(Disk!InUse') = Cardinality(Disk!InUse) - 1 /\ Cardinality(Disk!InUse) > 0
  BY <1>2, DiskInUseFinite, FS_RemoveElement
<1>4. users' = Cardinality(Disk!InUse') /\ users' \in Nat /\ users > 0 /\ users # 0
  BY <1>1, <1>3, DiskCardinality DEF Disk!IInv, Disk!UsersInv
<1>5. \A v \in Users : sbull_pc'[v] = "opening" <=> opener' = v
  BY <1>1, DiskCardinality DEF Disk!IInv, Disk!UsersInv
<1>6. ~timer
  BY <1>4, DiskCardinality DEF Disk!IInv, Disk!UsersInv
<1>7. timer' => users' = 0
  <2>1. timer' => users = 1
    BY <1>6 DEF Disk!Last
  <2> QED
    BY <1>1, <2>1
<1>8. Disk!UsersInv' /\ Disk!TimerSanity'
  <2>1. ~media_change
    BY <1>4 DEF Disk!IInv, Disk!TimerSanity
  <2> QED
    BY <1>4, <1>5, <1>7, <2>1, DiskCardinality DEF Disk!IInv, Disk!UsersInv, Disk!TimerSanity
<1>9. Disk!RequestInv' /\ Disk!WholeRequests'
  BY <1>1, DiskRequestsKept DEF Disk!module
<1>10. Disk!TypeInv'
  BY <1>4, DiskIoTypes DEF Disk!IInv, Disk!TypeInv, Disk!module
<1>11. Disk!PhaseInv'
  BY <1>1 DEF Disk!IInv, Disk!PhaseInv, Disk!module
<1> QED
  BY <1>8, <1>9, <1>10, <1>11 DEF Disk!IInv

\* The timer finds no users, and nobody that is about to be one.
LEMMA DiskInvalidateStep == ASSUME Disk!IInv, Disk!Invalidate PROVE Disk!IInv'
<1> USE DEF Disk!Invalidate
<1>1. users = 0 /\ media_change' = TRUE /\ insane' = insane
  BY DiskCardinality DEF Disk!IInv, Disk!UsersInv
<1>2. Disk!UsersInv' /\ Disk!TimerSanity'
  BY <1>1, DiskCardinality DEF Disk!IInv, Disk!UsersInv, Disk!TimerSanity, Disk!InUse
<1>3. Disk!RequestInv' /\ Disk!WholeRequests'
  BY DiskRequestsKept DEF Disk!module
<1>4. Disk!TypeInv'
  BY <1>1, DiskIoTypes DEF Disk!IInv, Disk!TypeInv, Disk!module
<1>5. Disk!PhaseInv'
  BY DEF Disk!IInv, Disk!PhaseInv, Disk!module
<1> QED
  BY <1>2, <1>3, <1>4, <1>5 DEF Disk!IInv

LEMMA DiskSubmitStep == ASSUME Disk!IInv, NEW u \in Users, Disk!Submit(u) PROVE Disk!IInv'
<1> USE DEF Disk!Submit, Disk!Goto
<1>1. /\ sbull_pc \in [Users -> {"closed", "opening", "open", "read", "write"}]
      /\ at \in [Users -> 0..Sectors] /\ seen \in [Users -> SUBSET (Users \cup {Disk!Zero})]
  BY DEF Disk!IInv, Disk!TypeInv
<1>2. PICK what \in {"read", "write"} : sbull_pc' = [sbull_pc EXCEPT ![u] = what]
  OBVIOUS
<1>3. Disk!UsersInv' /\ Disk!TimerSanity'
  <2>1. Disk!InUse' = Disk!InUse
    BY <1>1, <1>2 DEF Disk!InUse
  <2> QED
    BY <1>1, <1>2, <2>1, DiskMediaKept
<1>4. lock # u \/ request_mode = "RM_NOQUEUE"
  BY DEF Disk!IInv, Disk!RequestInv
<1>5. Disk!RequestInv'
  <2> SUFFICES ASSUME request_mode # "RM_NOQUEUE" PROVE Disk!RequestInv'
    BY DEF Disk!RequestInv, Disk!module
  <2>1. \A v \in Users : v # u => sbull_pc'[v] = sbull_pc[v] /\ at'[v] = at[v]
         /\ seen'[v] = seen[v]
    BY <1>1, <1>2
  <2>2. at'[u] = 0 /\ seen'[u] = {}
    BY <1>1
  <2> QED
    BY <1>4, <2>1, <2>2 DEF Disk!IInv, Disk!RequestInv, Disk!SameFrom, Disk!WrittenTo,
       Disk!module
<1>6. Disk!WholeRequests'
  BY <1>1 DEF Disk!IInv, Disk!WholeRequests, Disk!module
<1>7. Disk!TypeInv'
  BY <1>1, <1>2, SectorsAssumption DEF Disk!IInv, Disk!TypeInv, Disk!module, Disk!media
<1>8. Disk!PhaseInv'
  BY <1>1, <1>2 DEF Disk!IInv, Disk!PhaseInv, Disk!module, Disk!media
<1> QED
  BY <1>3, <1>5, <1>6, <1>7, <1>8 DEF Disk!IInv

\* What a step that serves a request must show.
LEMMA DiskServed ==
  ASSUME Disk!IInv, NEW u \in Users, UNCHANGED <<Disk!module, Disk!media>>,
          sbull_pc[u] \in {"read", "write"},
         sbull_pc' = sbull_pc \/ sbull_pc' = [sbull_pc EXCEPT ![u] = "open"],
         lock' \in Users \cup {Disk!Nobody},
          disk' \in [0..(Sectors - 1) -> Users \cup {Disk!Zero}],
         at' \in [Users -> 0..Sectors], seen' \in [Users -> SUBSET (Users \cup {Disk!Zero})],
         Disk!RequestInv', Disk!WholeRequests'
  PROVE  Disk!IInv'
<1>1. sbull_pc \in [Users -> {"closed", "opening", "open", "read", "write"}]
  BY DEF Disk!IInv, Disk!TypeInv
<1>2. Disk!InUse' = Disk!InUse
  BY <1>1 DEF Disk!InUse
<1>3. Disk!UsersInv' /\ Disk!TimerSanity'
  BY <1>1, <1>2, DiskMediaKept
<1>4. Disk!TypeInv'
  BY <1>1 DEF Disk!IInv, Disk!TypeInv, Disk!module, Disk!media
<1>5. Disk!PhaseInv'
  BY <1>1 DEF Disk!IInv, Disk!PhaseInv, Disk!module, Disk!media
<1> QED
  BY <1>3, <1>4, <1>5 DEF Disk!IInv

LEMMA DiskTakeRequestStep ==
  ASSUME Disk!IInv, NEW u \in Users, Disk!TakeRequest(u)
  PROVE  Disk!IInv'
<1> USE DEF Disk!TakeRequest, Disk!Locked
<1>1. Disk!RequestInv'
  <2>1. Disk!SameFrom(0) /\ at[u] = 0 /\ seen[u] = {}
    BY UsersAssumption DEF Disk!IInv, Disk!RequestInv, Disk!Nobody
  <2>2. Disk!WrittenTo(at[u], u) /\ Disk!SameFrom(at[u])
    BY <2>1 DEF Disk!WrittenTo
  <2>3. \A v \in Users : lock # v
    BY UsersAssumption DEF Disk!Nobody
  <2> QED
    BY <2>1, <2>2, <2>3, UsersAssumption DEF Disk!IInv, Disk!RequestInv, Disk!SameFrom,
       Disk!WrittenTo, Disk!module, Disk!Nobody
<1>2. Disk!WholeRequests'
  BY DEF Disk!IInv, Disk!WholeRequests, Disk!module
<1> QED
  BY <1>1, <1>2, DiskServed DEF Disk!IInv, Disk!TypeInv

\* A sector that is read is like those read before, and like those to come;
\* one that is written joins those already written.
LEMMA DiskTransferStep == ASSUME Disk!IInv, NEW u \in Users, Disk!Transfer(u) PROVE Disk!IInv'
<1> USE DEF Disk!Transfer
<1>1. /\ disk \in [0..(Sectors - 1) -> Users \cup {Disk!Zero}] /\ at \in [Users -> 0..Sectors]
      /\ seen \in [Users -> SUBSET (Users \cup {Disk!Zero})]
  BY DEF Disk!IInv, Disk!TypeInv
<1>2. at[u] \in 0..(Sectors - 1) /\ at[u] + 1 \in 0..Sectors
  BY <1>1, SectorsAssumption
<1>3. disk' \in [0..(Sectors - 1) -> Users \cup {Disk!Zero}]
  BY <1>1
<1>4. at' \in [Users -> 0..Sectors] /\ seen' \in [Users -> SUBSET (Users \cup {Disk!Zero})]
  BY <1>1, <1>2
<1>5. Disk!RequestInv' /\ Disk!WholeRequests'
  <2> SUFFICES ASSUME request_mode # "RM_NOQUEUE" PROVE Disk!RequestInv' /\ Disk!WholeRequests'
    BY DEF Disk!RequestInv, Disk!WholeRequests, Disk!module
  <2>1. lock = u /\ u # Disk!Nobody
    BY UsersAssumption DEF Disk!Locked, Disk!Nobody
  <2>2. \A v \in Users : v # u => at'[v] = at[v] /\ seen'[v] = seen[v]
    BY <1>1
  <2>3. \A v \in Users : sbull_pc[v] \in {"read", "write"} /\ lock # v => at[v] = 0
         /\ seen[v] = {}
    BY DEF Disk!IInv, Disk!RequestInv
  <2>4. CASE sbull_pc[u] = "read"
    <3>1. disk' = disk /\ seen'[u] = seen[u] \cup {disk[at[u]]}
      BY <1>1, <2>4
    <3>2. /\ Disk!SameFrom(0) /\ \A x \in seen[u] : \A a \in 0..(Sectors - 1) : disk[a] = x
      BY <2>1, <2>4 DEF Disk!IInv, Disk!RequestInv
    <3>3. \A a \in 0..(Sectors - 1) : disk[a] = disk[at[u]]
      BY <1>2, <3>2 DEF Disk!SameFrom
    <3>4. \A x \in seen'[u] : \A a \in 0..(Sectors - 1) : disk'[a] = x
      BY <3>1, <3>2, <3>3
    <3>5. Disk!SameFrom(0)'
      BY <3>1, <3>2 DEF Disk!SameFrom
    <3>6. Disk!RequestInv'
      BY <2>1, <2>2, <2>3, <2>4, <3>4, <3>5 DEF Disk!RequestInv
    <3>7. \A a, b \in seen'[u] : a = b
      BY <1>2, <3>1, <3>4
    <3>8. Disk!WholeRequests'
      BY <2>2, <3>7 DEF Disk!IInv, Disk!WholeRequests
    <3> QED
      BY <3>6, <3>8
  <2>5. CASE sbull_pc[u] = "write"
    <3>1. disk' = [disk EXCEPT ![at[u]] = u] /\ seen' = seen /\ at'[u] = at[u] + 1
      BY <1>1, <2>5
    <3>2. Disk!WrittenTo(at[u], u) /\ Disk!SameFrom(at[u])
      BY <2>1, <2>5 DEF Disk!IInv, Disk!RequestInv
    <3>3. \A a \in 0..(Sectors - 1) : a < at[u] + 1 => disk'[a] = u
      BY <1>1, <1>2, <3>1, <3>2 DEF Disk!WrittenTo
    <3>4. \A a, b \in 0..(Sectors - 1) : a >= at[u] + 1 /\ b >= at[u] + 1 => disk'[a] = disk'[b]
      BY <1>1, <1>2, <3>1, <3>2 DEF Disk!SameFrom
    <3>5. Disk!WrittenTo(at[u], u)' /\ Disk!SameFrom(at[u])'
      BY <3>1, <3>3, <3>4 DEF Disk!WrittenTo, Disk!SameFrom
    <3>6. Disk!RequestInv'
      BY <2>1, <2>2, <2>3, <2>5, <3>5 DEF Disk!RequestInv
    <3>7. Disk!WholeRequests'
      BY <3>1 DEF Disk!IInv, Disk!WholeRequests, Disk!module
    <3> QED
      BY <3>6, <3>7
  <2> QED
    BY <2>4, <2>5
<1> QED
  BY <1>3, <1>4, <1>5, DiskServed DEF Disk!IInv, Disk!TypeInv

LEMMA DiskEndStep == ASSUME Disk!IInv, NEW u \in Users, Disk!End(u) PROVE Disk!IInv'
<1> USE DEF Disk!End
<1>1. sbull_pc \in [Users -> {"closed", "opening", "open", "read", "write"}]
  BY DEF Disk!IInv, Disk!TypeInv
<1>2. Disk!RequestInv'
  <2> SUFFICES ASSUME request_mode # "RM_NOQUEUE" PROVE Disk!RequestInv'
    BY DEF Disk!RequestInv, Disk!module
  <2>1. \A v \in Users : v # u => sbull_pc'[v] = sbull_pc[v]
    BY <1>1
  <2>2. sbull_pc'[u] = "open"
    BY <1>1
  <2>3. CASE lock = u
    <3>1. sbull_pc[u] = "read" => Disk!SameFrom(0)
      BY <2>3 DEF Disk!IInv, Disk!RequestInv
    <3>2. ASSUME sbull_pc[u] = "write" PROVE Disk!SameFrom(0)
      <4>1. Disk!WrittenTo(Sectors, u)
        BY <2>3, <3>2 DEF Disk!IInv, Disk!RequestInv
      <4> QED
        BY <4>1, SectorsAssumption DEF Disk!WrittenTo, Disk!SameFrom
    <3>3. Disk!SameFrom(0)
      BY <3>1, <3>2
    <3>4. lock' = Disk!Nobody /\ \A v \in Users : v # Disk!Nobody
      BY <2>3, UsersAssumption DEF Disk!Nobody
    <3> QED
      BY <2>1, <2>2, <2>3, <3>3, <3>4 DEF Disk!IInv, Disk!RequestInv, Disk!SameFrom
  <2>4. CASE lock # u
    BY <2>1, <2>2, <2>4 DEF Disk!IInv, Disk!RequestInv, Disk!SameFrom, Disk!WrittenTo
  <2> QED
    BY <2>3, <2>4
<1>3. Disk!WholeRequests'
  BY DEF Disk!IInv, Disk!WholeRequests, Disk!module
<1> QED
  BY <1>2, <1>3, DiskServed DEF Disk!IInv, Disk!TypeInv

LEMMA DiskNextIInv == ASSUME Disk!IInv, Disk!Next \/ UNCHANGED Disk!vars PROVE Disk!IInv'
<1>1. CASE UNCHANGED Disk!vars
  <2>1. Disk!InUse' = Disk!InUse
    BY <1>1 DEF Disk!vars, Disk!InUse
  <2>2. Disk!UsersInv' /\ Disk!TimerSanity'
    BY <1>1, <2>1, DiskMediaKept DEF Disk!vars
  <2>3. Disk!RequestInv' /\ Disk!WholeRequests'
    BY <1>1, DiskRequestsKept DEF Disk!vars, Disk!module
  <2>4. Disk!TypeInv' /\ Disk!PhaseInv'
    BY <1>1 DEF Disk!vars, Disk!module, Disk!media, Disk!io, Disk!IInv, Disk!TypeInv,
       Disk!PhaseInv
  <2> QED
    BY <2>2, <2>3, <2>4 DEF Disk!IInv
<1> QED
  BY <1>1, DiskSbullInitStep, DiskSetupDeviceStep, DiskSbullExitStep, DiskOpenTimerStep,
     DiskOpenStep, DiskReleaseStep,
     DiskInvalidateStep, DiskSubmitStep, DiskTakeRequestStep, DiskTransferStep, DiskEndStep
  DEF Disk!Next, Disk!Serve

LEMMA DiskIInvSafe == ASSUME Disk!IInv PROVE Disk!DiskSafe
BY DEF Disk!IInv, Disk!PhaseInv, Disk!UnloadedIsGone, Disk!DiskSafe

-----------------------------------------------------------------------------
(* tiny_tty: one process at a time, and one port.                          *)

LEMMA TtyCardinality == \A S : Tty!Cardinality(S) = Cardinality(S)
BY DEF Tty!Cardinality, Cardinality

LEMMA TtyCountedFinite ==
  /\ IsFiniteSet(Tty!Counted) /\ Cardinality(Tty!Counted) \in Nat
  /\ Cardinality(Tty!Counted) = 0 <=> Tty!Counted = {}
<1>1. IsFiniteSet(Tty!Counted)
  BY TtyAssumption, FS_Subset DEF Tty!Counted
<1> QED
  BY <1>1, FS_CardinalityType, FS_EmptySet

\* Who is busy is so alone.
LEMMA TtyOthersIdle ==
  ASSUME Tty!Quiet, NEW p \in TtyProcs, tty_pc[p] \notin {"out", "open"}
  PROVE  \A q \in TtyProcs : q # p => tty_pc[q] \in {"out", "open"}
BY DEF Tty!Quiet, Tty!Busy

\* What there is when a port is used.
LEMMA TtyOnePort ==
  ASSUME Tty!Quiet, used # 0
  PROVE  /\ used = 1 /\ Tty!OnePortInv /\ 1 \in Tty!Ports /\ port[1] \in Tty!PortStates
         /\ port[1].open_count = Cardinality(Tty!Counted)
<1>1. used = 1 /\ 1 \in Tty!Ports
  BY TtyAssumption DEF Tty!Quiet, Tty!TypeInv, Tty!Ports
<1>2. Tty!OnePortInv
  BY DEF Tty!Quiet
<1> QED
  BY <1>1, <1>2, TtyCardinality DEF Tty!OnePortInv, Tty!Quiet, Tty!TypeInv

\* The timer runs only while somebody is counted.
LEMMA TtyTimerCounted ==
  ASSUME Tty!Quiet, NEW i \in Tty!Ports, port[i].timer = "pending"
  PROVE  used = 1 /\ i = 1 /\ Tty!Counted # {} /\ Tty!Openers # {}
<1>1. Tty!NewPort.timer # "pending"
  BY DEF Tty!NewPort
<1>2. used # 0
  BY <1>1 DEF Tty!Quiet, Tty!NoPortInv
<1>3. Tty!OnePortInv /\ used = 1
  BY <1>2, TtyOnePort
<1>4. i = 1
  BY <1>1, <1>3, TtyCardinality DEF Tty!OnePortInv
<1>5. Tty!Counted # {}
  BY <1>3, <1>4, TtyCardinality DEF Tty!OnePortInv
<1> QED
  BY <1>3, <1>4, <1>5 DEF Tty!Counted, Tty!Openers

LEMMA TtyInitIInv == ASSUME Tty!Init PROVE Tty!IInv
<1> USE DEF Tty!Init
<1>1. Tty!TypeInv
  <2>1. port \in [Tty!Ports -> Tty!PortStates]
    BY DEF Tty!PortStates, Tty!NewPort
  <2>2. used \in {0, 1} /\ used <= MaxPorts
    BY TtyAssumption
  <2> QED
    BY <2>1, <2>2 DEF Tty!TypeInv, Tty!Labels, Tty!NoPort
<1>2. Tty!NoPortInv
  BY DEF Tty!NoPortInv
<1>3. Tty!TtyIsOpen
  BY DEF Tty!TtyIsOpen
<1>4. Tty!Openers = {} /\ Tty!Busy = {}
  BY DEF Tty!Openers, Tty!Busy
<1> QED
  BY <1>1, <1>2, <1>3, <1>4 DEF Tty!IInv, Tty!Quiet

LEMMA TtyOpenStep ==
  ASSUME Tty!Quiet, NEW p \in TtyProcs, Tty!Open(p), ~overlapped'
  PROVE  Tty!Quiet'
<1> USE DEF Tty!Open, Tty!Goto
<1>1. /\ tty_pc \in [TtyProcs -> Tty!Labels] /\ mine \in [TtyProcs -> {0, 1}]
  BY DEF Tty!Quiet, Tty!TypeInv
<1>2. \A q \in TtyProcs : tty_pc[q] \in {"out", "open"}
  BY DEF Tty!Busy
<1>3. \A q \in TtyProcs : q # p => tty_pc'[q] = tty_pc[q] /\ mine'[q] = mine[q]
  BY <1>1
<1>4. Tty!Busy' = {p}
  BY <1>1, <1>2 DEF Tty!Busy
<1>5. CASE used = 0
  <2>1. Tty!NoPortInv /\ table = 0
    BY <1>5 DEF Tty!Quiet, Tty!NoPort, Tty!NoPortInv
  <2>2. tty_pc' = [tty_pc EXCEPT ![p] = "alloc"] /\ mine' = [mine EXCEPT ![p] = 0]
    BY <2>1 DEF Tty!NoPort
  <2>3. Tty!TypeInv'
    BY <1>1, <2>2 DEF Tty!Quiet, Tty!TypeInv, Tty!Labels
  <2>4. Tty!NoPortInv'
    BY <1>1, <2>1, <2>2 DEF Tty!NoPortInv
  <2> QED
    BY <1>4, <1>5, <2>3, <2>4 DEF Tty!Quiet
<1>6. CASE used # 0
  <2>1. Tty!OnePortInv /\ table = 1 /\ used = 1
    BY <1>6, TtyOnePort, TtyCardinality DEF Tty!OnePortInv
  <2>2. tty_pc' = [tty_pc EXCEPT ![p] = "down"] /\ mine' = [mine EXCEPT ![p] = 1]
    BY <2>1 DEF Tty!NoPort
  <2>3. Tty!TypeInv'
    BY <1>1, <2>2 DEF Tty!Quiet, Tty!TypeInv, Tty!Labels
  <2>4. Tty!Counted' = Tty!Counted
    BY <1>1, <2>2 DEF Tty!Counted
  <2>5. \A q \in TtyProcs : tty_pc'[q] \notin {"timer", "failed", "close", "alloc"}
    BY <1>1, <1>2, <2>2
  <2>6. tty_pc'[p] = "down" /\ mine'[p] = 1 /\ \A q \in TtyProcs : tty_pc'[q] = "open"
         => tty_pc[q] = "open"
    BY <1>1, <2>2
  <2>7. Tty!OnePortInv'
    BY <1>2, <1>3, <1>4, <2>1, <2>4, <2>5, <2>6, TtyCardinality DEF Tty!OnePortInv, Tty!NoPort
  <2> QED
    BY <1>4, <1>6, <2>3, <2>7 DEF Tty!Quiet
<1> QED
  BY <1>5, <1>6

LEMMA TtyAllocStep ==
  ASSUME Tty!Quiet, NEW p \in TtyProcs, Tty!Alloc(p)
  PROVE  Tty!Quiet'
<1> USE DEF Tty!Alloc, Tty!Goto
<1>1. tty_pc \in [TtyProcs -> Tty!Labels] /\ mine \in [TtyProcs -> {0, 1}]
       /\ tty_pc[p] = "alloc"
  BY DEF Tty!Quiet, Tty!TypeInv
<1>2. used = 0 /\ Tty!NoPortInv
  BY <1>1, TtyCardinality DEF Tty!Quiet, Tty!OnePortInv
<1>3. \A q \in TtyProcs : q # p => tty_pc[q] = "out"
  BY <1>1, <1>2, TtyOthersIdle DEF Tty!NoPortInv
<1>4. tty_loaded
  BY <1>1 DEF Tty!Quiet, Tty!Openers
<1>5. CASE tty_pc' = [tty_pc EXCEPT ![p] = "failed"] /\ UNCHANGED <<table, used, mine>>
  <2>1. Tty!TypeInv'
    BY <1>1, <1>5 DEF Tty!Quiet, Tty!TypeInv, Tty!Labels
  <2>2. Tty!NoPortInv'
    BY <1>1, <1>2, <1>5 DEF Tty!NoPortInv
  <2>3. \A q, r \in Tty!Busy' : q = r
    BY <1>1, <1>3, <1>5 DEF Tty!Busy
  <2> QED
    BY <1>2, <1>4, <1>5, <2>1, <2>2, <2>3 DEF Tty!Quiet
<1>6. CASE /\ used < MaxPorts /\ used' = 1 /\ table' = 1
           /\ mine' = [mine EXCEPT ![p] = 1] /\ tty_pc' = [tty_pc EXCEPT ![p] = "down"]
  <2>1. 1 \in Tty!Ports /\ 1 <= MaxPorts
    BY <1>2, <1>6, TtyAssumption DEF Tty!Ports
  <2>2. Tty!TypeInv'
    BY <1>1, <1>6, <2>1 DEF Tty!Quiet, Tty!TypeInv, Tty!Labels
  <2>3. \A q \in TtyProcs : q # p => tty_pc'[q] = "out"
    BY <1>1, <1>3, <1>6
  <2>4. tty_pc'[p] = "down" /\ mine'[p] = 1
    BY <1>1, <1>6
  <2>5. Tty!Counted' = {} /\ Tty!Busy' = {p}
    BY <2>3, <2>4 DEF Tty!Counted, Tty!Busy
  <2>6. Cardinality(Tty!Counted') = 0
    BY <2>5, FS_EmptySet
  <2>7. /\ port'[1].open_count = 0 /\ port'[1].sem = TRUE
        /\ port'[1].timer = "none" /\ port'[1].freed = FALSE
    BY <1>2, <2>1 DEF Tty!NoPortInv, Tty!NewPort
  <2>8. Tty!OnePortInv'
    BY <1>2, <1>4, <1>6, <2>3, <2>4, <2>5, <2>6, <2>7, TtyCardinality DEF Tty!NoPortInv,
       Tty!OnePortInv, Tty!NoPort
  <2> QED
    BY <1>4, <1>6, <2>2, <2>5, <2>8 DEF Tty!Quiet
<1> QED
  BY <1>2, <1>5, <1>6

\* Who goes down has found the port, and is not counted yet.
LEMMA TtyDownStep ==
  ASSUME Tty!Quiet, NEW p \in TtyProcs, Tty!Down(p)
  PROVE  Tty!Quiet'
<1> USE DEF Tty!Down, Tty!Goto
<1>1. tty_pc \in [TtyProcs -> Tty!Labels] /\ mine \in [TtyProcs -> {0, 1}] /\ tty_pc[p] = "down"
  BY DEF Tty!Quiet, Tty!TypeInv
<1>2. used # 0
  BY <1>1 DEF Tty!Quiet, Tty!NoPortInv
<1>3. /\ used = 1 /\ Tty!OnePortInv /\ 1 \in Tty!Ports /\ port[1] \in Tty!PortStates
      /\ port[1].open_count = Cardinality(Tty!Counted)
  BY <1>2, TtyOnePort
<1>4. mine[p] = 1 /\ port[1].sem
  BY <1>1, <1>3, TtyCardinality DEF Tty!OnePortInv
<1>5. tty_loaded
  BY <1>1 DEF Tty!Quiet, Tty!Openers
<1>6. \A q \in TtyProcs : q # p => tty_pc[q] \in {"out", "open"}
  BY <1>1, TtyOthersIdle
<1>7. p \notin Tty!Counted /\ Tty!Counted = {q \in TtyProcs : tty_pc[q] = "open"}
  BY <1>1, <1>6 DEF Tty!Counted
<1>8. port \in [Tty!Ports -> Tty!PortStates]
  BY DEF Tty!Quiet, Tty!TypeInv
<1>9. CASE port[1].open_count = 0 /\ port[1].timer = "none"
  <2>1. /\ tty_pc' = [tty_pc EXCEPT ![p] = "timer"]
        /\ port' = [port EXCEPT ![1].open_count = 1, ![1].sem = FALSE]
    BY <1>4, <1>9 DEF Tty!Starts
  <2>2. Tty!Counted = {}
    BY <1>3, <1>9, TtyCountedFinite
  <2>3. Tty!Counted' = {p}
    BY <1>1, <1>6, <1>7, <2>1, <2>2 DEF Tty!Counted
  <2>4. Cardinality(Tty!Counted') = 1
    BY <2>3, FS_Singleton
  <2>5. /\ port'[1].open_count = 1 /\ port'[1].sem = FALSE
        /\ port'[1].timer = "none" /\ port'[1].freed = port[1].freed
        /\ \A i \in Tty!Ports : i # 1 => port'[i] = port[i]
    BY <1>3, <1>8, <1>9, <2>1 DEF Tty!PortStates
  <2>6. port' \in [Tty!Ports -> Tty!PortStates]
    <3>1. [port[1] EXCEPT !.open_count = 1, !.sem = FALSE] \in Tty!PortStates
      BY <1>3 DEF Tty!PortStates
    <3>2. port' = [port EXCEPT ![1] = [port[1] EXCEPT !.open_count = 1, !.sem = FALSE]]
      BY <1>3, <1>8, <2>1
    <3> QED
      BY <1>8, <3>1, <3>2
  <2>7. Tty!TypeInv'
    BY <1>1, <2>1, <2>6 DEF Tty!Quiet, Tty!TypeInv, Tty!Labels
  <2>8. \A q \in TtyProcs : q # p => tty_pc'[q] = "out"
    BY <1>1, <1>6, <1>7, <2>1, <2>2
  <2>9. tty_pc'[p] = "timer" /\ Tty!Busy' = {p}
    BY <1>1, <2>1, <2>8 DEF Tty!Busy
  <2>10. Tty!OnePortInv'
    BY <1>3, <1>5, <2>3, <2>4, <2>5, <2>8, <2>9, TtyCardinality DEF Tty!OnePortInv
  <2> QED
    BY <1>2, <1>5, <2>7, <2>9, <2>10 DEF Tty!Quiet
<1>10. CASE ~(port[1].open_count = 0 /\ port[1].timer = "none")
  <2>1. /\ tty_pc' = [tty_pc EXCEPT ![p] = "open"]
        /\ port' = IF port[1].open_count = 0 THEN [port EXCEPT ![1] = Tty!Started(1)]
                   ELSE [port EXCEPT ![1].open_count = @ + 1]
    BY <1>4, <1>10 DEF Tty!Starts
  <2>2. Tty!Counted' = Tty!Counted \cup {p}
    BY <1>1, <1>6, <1>7, <2>1 DEF Tty!Counted
  <2>3. Cardinality(Tty!Counted') = port[1].open_count + 1 /\ port[1].open_count \in Nat
    <3>1. Cardinality(Tty!Counted \cup {p}) = Cardinality(Tty!Counted) + 1
      BY <1>7, TtyCountedFinite, FS_AddElement
    <3> QED
      BY <1>3, <2>2, <3>1, TtyCountedFinite
  <2>4. port[1].timer # "none"
    <3>1. CASE port[1].open_count = 0
      BY <1>10, <3>1
    <3>2. CASE port[1].open_count # 0
      BY <1>3, <1>7, <3>2, TtyCountedFinite, TtyCardinality DEF Tty!OnePortInv
    <3> QED
      BY <3>1, <3>2
  <2>5. port[1].open_count # 0 => port[1].timer = "pending"
    BY <1>3, <2>4, TtyCountedFinite, TtyCardinality DEF Tty!OnePortInv
  <2>6. /\ port'[1].open_count = port[1].open_count + 1 /\ port'[1].sem = port[1].sem
        /\ port'[1].timer = "pending" /\ port'[1].freed = port[1].freed
        /\ \A i \in Tty!Ports : i # 1 => port'[i] = port[i]
        /\ port' \in [Tty!Ports -> Tty!PortStates]
    <3>1. CASE port[1].open_count = 0
      BY <1>3, <1>8, <2>1, <3>1 DEF Tty!PortStates, Tty!Started
    <3>2. CASE port[1].open_count # 0
      <4>1. port' = [port EXCEPT ![1].open_count = @ + 1]
        BY <2>1, <3>2
      <4> QED
        BY <1>3, <1>8, <2>3, <2>5, <3>2, <4>1 DEF Tty!PortStates
    <3> QED
      BY <3>1, <3>2
  <2>7. Tty!TypeInv'
    BY <1>1, <2>1, <2>6 DEF Tty!Quiet, Tty!TypeInv, Tty!Labels
  <2>8. \A q \in TtyProcs : tty_pc'[q] \in {"out", "open"}
    BY <1>1, <1>6, <2>1
  <2>9. Tty!Busy' = {}
    BY <2>8 DEF Tty!Busy
  <2>10. Tty!OnePortInv'
    BY <1>3, <1>4, <1>5, <2>2, <2>3, <2>6, <2>8, TtyCardinality DEF Tty!OnePortInv
  <2> QED
    BY <1>2, <1>5, <2>7, <2>9, <2>10 DEF Tty!Quiet
<1> QED
  BY <1>9, <1>10

LEMMA TtyAllocTimerStep ==
  ASSUME Tty!Quiet, NEW p \in TtyProcs, Tty!AllocTimer(p)
  PROVE  Tty!Quiet'
<1> USE DEF Tty!AllocTimer, Tty!Goto
<1>1. tty_pc \in [TtyProcs -> Tty!Labels] /\ mine \in [TtyProcs -> {0, 1}]
       /\ tty_pc[p] = "timer"
  BY DEF Tty!Quiet, Tty!TypeInv
<1>2. used # 0
  BY <1>1 DEF Tty!Quiet, Tty!NoPortInv
<1>3. /\ used = 1 /\ Tty!OnePortInv /\ 1 \in Tty!Ports /\ port[1] \in Tty!PortStates
      /\ port[1].open_count = Cardinality(Tty!Counted)
  BY <1>2, TtyOnePort
<1>4. mine[p] = 1 /\ port[1].timer = "none" /\ driver_data = 1
  BY <1>1, <1>3, TtyCardinality DEF Tty!OnePortInv
<1>5. tty_loaded
  BY <1>1 DEF Tty!Quiet, Tty!Openers
<1>6. \A q \in TtyProcs : q # p => tty_pc[q] = "out"
  BY <1>1, <1>3, <1>4, TtyOthersIdle, TtyCardinality DEF Tty!OnePortInv
<1>7. Tty!Counted = {p}
  BY <1>1, <1>6 DEF Tty!Counted
<1>8. port[1].open_count = 1
  BY <1>3, <1>7, FS_Singleton
<1>9. port \in [Tty!Ports -> Tty!PortStates]
  BY DEF Tty!Quiet, Tty!TypeInv
<1>10. CASE tty_pc' = [tty_pc EXCEPT ![p] = "failed"] /\ port' = [port EXCEPT ![1].sem = TRUE]
  <2>1. /\ port'[1].open_count = 1 /\ port'[1].sem = TRUE
        /\ port'[1].timer = "none" /\ port'[1].freed = port[1].freed
        /\ \A i \in Tty!Ports : i # 1 => port'[i] = port[i]
        /\ port' \in [Tty!Ports -> Tty!PortStates]
    BY <1>3, <1>4, <1>8, <1>9, <1>10 DEF Tty!PortStates
  <2>2. tty_pc'[p] = "failed" /\ \A q \in TtyProcs : q # p => tty_pc'[q] = "out"
    BY <1>1, <1>6, <1>10
  <2>3. Tty!Counted' = Tty!Counted /\ Tty!Busy' = {p}
    BY <1>3, <1>7, <2>2 DEF Tty!Counted, Tty!Busy
  <2>4. Tty!TypeInv'
    BY <1>1, <1>10, <2>1 DEF Tty!Quiet, Tty!TypeInv, Tty!Labels
  <2>5. Tty!OnePortInv'
    BY <1>3, <1>4, <1>5, <1>8, <2>1, <2>2, <2>3, TtyCardinality DEF Tty!OnePortInv
  <2> QED
    BY <1>2, <1>5, <2>3, <2>4, <2>5 DEF Tty!Quiet
<1>11. CASE /\ tty_pc' = [tty_pc EXCEPT ![p] = "open"]
            /\ port' = [port EXCEPT ![1] = [Tty!Started(1) EXCEPT !.sem = TRUE]]
  <2>1. /\ port'[1].open_count = 1 /\ port'[1].sem = TRUE
        /\ port'[1].timer = "pending" /\ port'[1].freed = port[1].freed
        /\ \A i \in Tty!Ports : i # 1 => port'[i] = port[i]
        /\ port' \in [Tty!Ports -> Tty!PortStates]
    BY <1>3, <1>4, <1>8, <1>9, <1>11 DEF Tty!PortStates, Tty!Started
  <2>2. tty_pc'[p] = "open" /\ \A q \in TtyProcs : q # p => tty_pc'[q] = "out"
    BY <1>1, <1>6, <1>11
  <2>3. Tty!Counted' = Tty!Counted /\ Tty!Busy' = {}
    BY <1>3, <1>7, <2>2 DEF Tty!Counted, Tty!Busy
  <2>4. Tty!TypeInv'
    BY <1>1, <1>11, <2>1 DEF Tty!Quiet, Tty!TypeInv, Tty!Labels
  <2>5. Tty!OnePortInv'
    BY <1>3, <1>4, <1>5, <1>7, <1>8, <2>1, <2>2, <2>3, TtyCardinality DEF Tty!OnePortInv
  <2> QED
    BY <1>2, <1>5, <2>3, <2>4, <2>5 DEF Tty!Quiet
<1> QED
  BY <1>4, <1>10, <1>11

LEMMA TtyCloseStep ==
  ASSUME Tty!Quiet, NEW p \in TtyProcs, Tty!Close(p), ~overlapped'
  PROVE  Tty!Quiet'
<1> USE DEF Tty!Close, Tty!Goto
<1>1. tty_pc \in [TtyProcs -> Tty!Labels] /\ mine \in [TtyProcs -> {0, 1}]
       /\ tty_pc[p] \in {"open", "failed"}
  BY DEF Tty!Quiet, Tty!TypeInv
<1>2. \A q \in TtyProcs : q # p => tty_pc[q] \in {"out", "open"}
  BY DEF Tty!Busy
<1>3. tty_loaded
  BY <1>1 DEF Tty!Quiet, Tty!Openers
<1>4. CASE used = 0
  <2>1. Tty!NoPortInv /\ driver_data = Tty!NoPort
    BY <1>4 DEF Tty!Quiet, Tty!NoPortInv
  <2>2. tty_pc' = [tty_pc EXCEPT ![p] = "out"] /\ mine' = [mine EXCEPT ![p] = 0]
    BY <2>1 DEF Tty!NoPort
  <2>3. Tty!TypeInv'
    BY <1>1, <2>2 DEF Tty!Quiet, Tty!TypeInv, Tty!Labels
  <2>4. Tty!NoPortInv'
    BY <1>1, <2>1, <2>2 DEF Tty!NoPortInv
  <2>5. Tty!Busy' = {}
    BY <1>1, <1>2, <2>2 DEF Tty!Busy
  <2> QED
    BY <1>3, <1>4, <2>3, <2>4, <2>5 DEF Tty!Quiet
<1>5. CASE used # 0
  <2>1. Tty!OnePortInv /\ used = 1
    BY <1>5, TtyOnePort
  <2>2. driver_data = 1
    <3>1. CASE tty_pc[p] = "failed"
      BY <2>1, <3>1, TtyCardinality DEF Tty!OnePortInv
    <3>2. CASE tty_pc[p] = "open"
      <4>1. Tty!Busy = {} /\ Tty!Openers # {}
        BY <1>2, <3>2 DEF Tty!Busy, Tty!Openers
      <4> QED
        BY <2>1, <4>1, TtyCardinality DEF Tty!OnePortInv
    <3> QED
      BY <1>1, <3>1, <3>2
  <2>3. tty_pc' = [tty_pc EXCEPT ![p] = "close"] /\ mine' = [mine EXCEPT ![p] = 1]
    BY <2>2 DEF Tty!NoPort
  <2>4. Tty!TypeInv'
    BY <1>1, <2>3 DEF Tty!Quiet, Tty!TypeInv, Tty!Labels
  <2>5. Tty!Counted' = Tty!Counted
    BY <1>1, <1>5, <2>3 DEF Tty!Counted
  <2>6. /\ tty_pc'[p] = "close" /\ mine'[p] = 1
        /\ \A q \in TtyProcs : q # p => tty_pc'[q] = tty_pc[q] /\ tty_pc[q] \in {"out", "open"}
    BY <1>1, <1>2, <2>3
  <2>7. Tty!Busy' = {p}
    BY <2>6 DEF Tty!Busy
  <2>8. \A q \in TtyProcs : tty_pc[q] # "timer"
    BY <1>1, <1>2
  <2>9. Tty!OnePortInv'
    BY <1>3, <2>1, <2>2, <2>5, <2>6, <2>7, <2>8, TtyCardinality DEF Tty!OnePortInv
  <2> QED
    BY <1>3, <1>5, <2>4, <2>7, <2>9 DEF Tty!Quiet
<1> QED
  BY <1>4, <1>5

LEMMA TtyDoCloseStep ==
  ASSUME Tty!Quiet, NEW p \in TtyProcs, Tty!DoClose(p), tty_fault' = "none"
  PROVE  Tty!Quiet'
<1> USE DEF Tty!DoClose, Tty!Goto
<1>1. tty_pc \in [TtyProcs -> Tty!Labels] /\ mine \in [TtyProcs -> {0, 1}]
       /\ tty_pc[p] = "close"
  BY DEF Tty!Quiet, Tty!TypeInv
<1>2. used # 0
  BY <1>1 DEF Tty!Quiet, Tty!NoPortInv
<1>3. /\ used = 1 /\ Tty!OnePortInv /\ 1 \in Tty!Ports /\ port[1] \in Tty!PortStates
      /\ port[1].open_count = Cardinality(Tty!Counted)
  BY <1>2, TtyOnePort
<1>4. mine[p] = 1 /\ driver_data = 1 /\ p \in Tty!Counted
  BY <1>1, <1>3, TtyCardinality DEF Tty!OnePortInv, Tty!Counted
<1>5. tty_loaded
  BY <1>1 DEF Tty!Quiet, Tty!Openers
<1>6. \A q \in TtyProcs : q # p => tty_pc[q] \in {"out", "open"}
  BY <1>1, TtyOthersIdle
<1>7. /\ Cardinality(Tty!Counted) \in Nat \ {0}
      /\ Cardinality(Tty!Counted \ {p}) = Cardinality(Tty!Counted) - 1
  BY <1>4, TtyCountedFinite, FS_RemoveElement
<1>8. port[1].timer = "pending"
  <2>1. ASSUME port[1].timer = "none" PROVE FALSE
    <3>1. Tty!Counted = {p}
      BY <1>1, <1>3, <1>4, <1>6, <2>1, TtyCardinality DEF Tty!OnePortInv, Tty!Counted
    <3>2. port[1].open_count = 1
      BY <1>3, <3>1, FS_Singleton
    <3> QED
      BY <1>4, <2>1, <3>2 DEF Tty!NoTimer
  <2> QED
    BY <1>3, <1>4, <2>1, TtyCardinality DEF Tty!OnePortInv
<1>9. port \in [Tty!Ports -> Tty!PortStates]
  BY DEF Tty!Quiet, Tty!TypeInv
<1>10. tty_pc' = [tty_pc EXCEPT ![p] = "out"]
        /\ port' = [port EXCEPT ![1] = Tty!Closed(port[1])]
  BY <1>4
<1>11. Tty!Counted' = Tty!Counted \ {p}
  BY <1>1, <1>2, <1>6, <1>10 DEF Tty!Counted
<1>12. /\ port'[1].open_count = port[1].open_count - 1 /\ port'[1].sem = port[1].sem
       /\ port'[1].timer = IF port[1].open_count = 1 THEN "off" ELSE "pending"
       /\ port'[1].freed = port[1].freed
       /\ \A i \in Tty!Ports : i # 1 => port'[i] = port[i]
       /\ port' \in [Tty!Ports -> Tty!PortStates]
  <2> DEFINE q == Tty!Closed(port[1])
  <2>1. port[1].open_count \in Nat \ {0}
    BY <1>3, <1>7
  <2>2. q = [port[1] EXCEPT !.open_count = @ - 1,
                            !.timer = IF port[1].open_count = 1 THEN Tty!StopTimer(@) ELSE @]
    BY <2>1 DEF Tty!Closed
  <2>3. /\ q.open_count = port[1].open_count - 1 /\ q.sem = port[1].sem
        /\ q.freed = port[1].freed
    BY <1>3, <2>2 DEF Tty!PortStates
  <2>4. q.timer = IF port[1].open_count = 1 THEN "off" ELSE "pending"
    BY <1>3, <1>8, <2>2 DEF Tty!PortStates, Tty!StopTimer
  <2>5. port[1].open_count - 1 \in Nat
    BY <2>1
  <2>6. q \in Tty!PortStates
    BY <1>3, <1>8, <2>2, <2>5 DEF Tty!PortStates, Tty!StopTimer
  <2>7. port' = [port EXCEPT ![1] = q]
    BY <1>10
  <2> HIDE DEF q
  <2> QED
    BY <1>3, <1>9, <2>3, <2>4, <2>6, <2>7
<1>13. port'[1].open_count = Cardinality(Tty!Counted')
  BY <1>3, <1>7, <1>11, <1>12
<1>14. port'[1].timer = "pending" <=> Tty!Counted' # {}
  BY <1>3, <1>7, <1>11, <1>12, TtyCountedFinite, FS_EmptySet, FS_RemoveElement
<1>15. Tty!TypeInv'
  BY <1>1, <1>10, <1>12 DEF Tty!Quiet, Tty!TypeInv, Tty!Labels
<1>16. \A q \in TtyProcs : tty_pc'[q] \in {"out", "open"}
  BY <1>1, <1>6, <1>10
<1>17. Tty!Busy' = {}
  BY <1>16 DEF Tty!Busy
<1>18. \A q \in TtyProcs : tty_pc[q] # "timer"
  BY <1>1, <1>6
<1>19. port'[1].timer # "none"
  BY <1>12
<1>20. Tty!OnePortInv'
  BY <1>3, <1>4, <1>5, <1>12, <1>13, <1>14, <1>16, <1>18, <1>19, TtyCardinality
  DEF Tty!OnePortInv
<1> QED
  BY <1>2, <1>5, <1>15, <1>17, <1>20 DEF Tty!Quiet

LEMMA TtyTinyInitStep == ASSUME Tty!Quiet, Tty!TinyInit PROVE Tty!Quiet'
<1> USE DEF Tty!TinyInit
<1>1. Tty!TypeInv' /\ Tty!NoPortInv'
  BY DEF Tty!Quiet, Tty!TypeInv, Tty!NoPortInv
<1> QED
  BY <1>1 DEF Tty!Quiet, Tty!Busy

LEMMA TtyTinyExitStep ==
  ASSUME Tty!Quiet, Tty!TinyExit, tty_fault' = "none"
  PROVE  Tty!Quiet'
<1> USE DEF Tty!TinyExit
<1>1. \A p \in TtyProcs : tty_pc[p] = "out"
  BY DEF Tty!Openers
<1>2. Tty!Openers' = {} /\ Tty!Busy' = {} /\ Tty!Counted' = {} /\ Tty!Counted = {}
  BY <1>1 DEF Tty!Openers, Tty!Busy, Tty!Counted
<1>3. CASE used = 0
  <2>1. table = Tty!NoPort /\ Tty!NoPortInv
    BY <1>3 DEF Tty!Quiet, Tty!NoPortInv
  <2>2. Tty!TypeInv' /\ Tty!NoPortInv'
    BY <2>1 DEF Tty!Quiet, Tty!TypeInv, Tty!NoPortInv
  <2> QED
    BY <1>2, <1>3, <2>2 DEF Tty!Quiet
<1>4. CASE used # 0
  <2>1. used = 1 /\ Tty!OnePortInv /\ 1 \in Tty!Ports /\ port[1] \in Tty!PortStates
    BY <1>4, TtyOnePort
  <2>2. table = 1 /\ port[1].timer # "none" /\ port[1].timer # "pending"
    BY <1>2, <2>1, TtyCardinality DEF Tty!OnePortInv, Tty!NoPort
  <2>3. port' = [port EXCEPT ![1].open_count = 0, ![1].freed = TRUE,
         ![1].timer = Tty!StopTimer(@)]
    BY <2>2 DEF Tty!NoPort
  <2>4. port \in [Tty!Ports -> Tty!PortStates]
    BY DEF Tty!Quiet, Tty!TypeInv
  <2>5. /\ port'[1].open_count = 0 /\ port'[1].sem = port[1].sem
        /\ port'[1].timer = "off" /\ port'[1].freed = TRUE
        /\ \A i \in Tty!Ports : i # 1 => port'[i] = port[i]
        /\ port' \in [Tty!Ports -> Tty!PortStates]
    BY <2>1, <2>2, <2>3, <2>4 DEF Tty!PortStates, Tty!StopTimer
  <2>6. Tty!TypeInv'
    BY <2>5 DEF Tty!Quiet, Tty!TypeInv
  <2>7. Cardinality(Tty!Counted') = 0
    BY <1>2, FS_EmptySet
  <2>8. Tty!OnePortInv'
    BY <1>1, <1>2, <2>1, <2>5, <2>7, TtyCardinality DEF Tty!OnePortInv, Tty!NoPort
  <2> QED
    BY <1>2, <1>4, <2>6, <2>8 DEF Tty!Quiet
<1> QED
  BY <1>3, <1>4

LEMMA TtyStutterStep ==
  ASSUME Tty!Quiet, UNCHANGED <<tty_loaded, table, driver_data, port, used, tty_pc, mine>>
  PROVE  Tty!Quiet'
BY TtyCardinality DEF Tty!Quiet, Tty!TypeInv, Tty!NoPortInv, Tty!OnePortInv, Tty!Busy,
   Tty!Openers, Tty!Counted

\* The timer uses a closed tty only when nothing is known of the port.
LEMMA TtyTimerStep ==
  ASSUME Tty!IInv, tty_fault = "none", NEW i \in Tty!Ports, Tty!Timer(i)
  PROVE  Tty!IInv'
<1> USE DEF Tty!Timer
<1>1. CASE overlapped
  BY <1>1 DEF Tty!IInv, Tty!TtyIsOpen
<1>2. CASE ~overlapped
  <2>1. Tty!Quiet
    BY <1>2 DEF Tty!IInv
  <2>2. Tty!Openers # {}
    BY <2>1, TtyTimerCounted
  <2>3. tty_fault' = "none" /\ Tty!Quiet'
    BY <2>1, <2>2, TtyStutterStep
  <2> QED
    BY <2>3 DEF Tty!IInv, Tty!TtyIsOpen
<1> QED
  BY <1>1, <1>2

\* A step of a process, or of the module, in a state that may be quiet.
LEMMA TtyQuietStep ==
  ASSUME Tty!Quiet, ~overlapped', tty_fault' = "none",
         \/ \E p \in TtyProcs :
              Tty!Open(p) \/ Tty!Alloc(p) \/ Tty!Down(p) \/ Tty!AllocTimer(p)
               \/ Tty!Close(p) \/ Tty!DoClose(p)
         \/ Tty!TinyInit \/ Tty!TinyExit
  PROVE  Tty!Quiet'
BY TtyOpenStep, TtyAllocStep, TtyDownStep, TtyAllocTimerStep, TtyCloseStep, TtyDoCloseStep,
   TtyTinyInitStep,
   TtyTinyExitStep

LEMMA TtyRemembers ==
  ASSUME \/ \E p \in TtyProcs :
              Tty!Open(p) \/ Tty!Alloc(p) \/ Tty!Down(p) \/ Tty!AllocTimer(p)
               \/ Tty!Close(p) \/ Tty!DoClose(p)
         \/ Tty!TinyInit \/ Tty!TinyExit
  PROVE  (overlapped => overlapped') /\ (tty_fault' = tty_fault \/ tty_fault' = "no_timer")
<1>1. ASSUME NEW p \in TtyProcs, Tty!Open(p) \/ Tty!Close(p)
      PROVE  (overlapped => overlapped') /\ tty_fault' = tty_fault
  BY <1>1 DEF Tty!Open, Tty!Close
<1>2. ASSUME NEW p \in TtyProcs, Tty!Alloc(p) \/ Tty!Down(p) \/ Tty!AllocTimer(p)
      PROVE  overlapped' = overlapped /\ tty_fault' = tty_fault
  BY <1>2 DEF Tty!Alloc, Tty!Down, Tty!AllocTimer
<1>3. ASSUME NEW p \in TtyProcs, Tty!DoClose(p)
      PROVE  overlapped' = overlapped /\ (tty_fault' = tty_fault \/ tty_fault' = "no_timer")
  BY <1>3 DEF Tty!DoClose
<1>4. ASSUME Tty!TinyInit \/ Tty!TinyExit
      PROVE  overlapped' = overlapped /\ (tty_fault' = tty_fault \/ tty_fault' = "no_timer")
  BY <1>4 DEF Tty!TinyInit, Tty!TinyExit
<1> QED
  BY <1>1, <1>2, <1>3, <1>4

LEMMA TtyNextIInv == ASSUME Tty!IInv, Tty!Next \/ UNCHANGED Tty!vars PROVE Tty!IInv'
<1>1. CASE UNCHANGED Tty!vars
  <2>1. UNCHANGED <<tty_loaded, table, driver_data, port, used, tty_pc, mine, tty_fault,
                   overlapped>>
    BY <1>1 DEF Tty!vars
  <2> QED
    BY <2>1, TtyStutterStep DEF Tty!IInv, Tty!TtyIsOpen
<1>2. ASSUME tty_fault = "none", NEW i \in Tty!Ports, Tty!Timer(i) PROVE Tty!IInv'
  BY <1>2, TtyTimerStep
<1>3. ASSUME tty_fault = "none",
             \/ \E p \in TtyProcs :
                  Tty!Open(p) \/ Tty!Alloc(p) \/ Tty!Down(p) \/ Tty!AllocTimer(p)
                   \/ Tty!Close(p) \/ Tty!DoClose(p)
             \/ Tty!TinyInit \/ Tty!TinyExit
      PROVE  Tty!IInv'
  <2>1. (overlapped => overlapped') /\ tty_fault' \in {"none", "no_timer"}
    BY <1>3, TtyRemembers
  <2>2. ~overlapped' /\ tty_fault' = "none" => Tty!Quiet'
    BY <1>3, <2>1, TtyQuietStep DEF Tty!IInv
  <2> QED
    BY <2>1, <2>2 DEF Tty!IInv, Tty!TtyIsOpen
<1> QED
  BY <1>1, <1>2, <1>3 DEF Tty!Next, Tty!Stop

LEMMA TtyIInvSafe == ASSUME Tty!IInv PROVE Tty!TtySafe
<1>1. Tty!TtyIsOpen
  BY DEF Tty!IInv
<1>2. ASSUME Tty!Quiet, Tty!Busy = {} PROVE Tty!Counted = Tty!Openers
  BY <1>2 DEF Tty!Quiet, Tty!Busy, Tty!Counted, Tty!Openers
<1>3. ASSUME Tty!Quiet, NEW i \in 1..used
      PROVE  used # 0 /\ used = 1 /\ i = 1 /\ Tty!OnePortInv
              /\ port[1].open_count = Cardinality(Tty!Counted)
  <2>1. used \in {0, 1}
    BY <1>3 DEF Tty!Quiet, Tty!TypeInv
  <2>2. used = 1 /\ i = 1
    BY <1>3, <2>1
  <2> QED
    BY <1>3, <2>2, TtyOnePort
<1>4. Tty!TimerWhileOpen
  <2> SUFFICES ASSUME ~overlapped, tty_fault = "none", Tty!Busy = {}, NEW i \in 1..used
               PROVE  /\ port[i].open_count = Cardinality(Tty!Openers)
                      /\ port[i].timer = "pending" <=> Tty!Openers # {}
    BY TtyCardinality DEF Tty!TimerWhileOpen
  <2>1. Tty!Quiet /\ Tty!Counted = Tty!Openers
    BY <1>2 DEF Tty!IInv
  <2>2. i = 1 /\ Tty!OnePortInv /\ port[1].open_count = Cardinality(Tty!Counted)
    BY <1>3, <2>1
  <2>3. \A p \in TtyProcs : tty_pc[p] \in {"out", "open"}
    BY DEF Tty!Busy
  <2> QED
    BY <2>1, <2>2, <2>3, TtyCardinality DEF Tty!OnePortInv, Tty!Openers
<1>5. Tty!ExitFreesPorts
  <2> SUFFICES ASSUME ~tty_loaded, ~overlapped, tty_fault = "none", NEW i \in 1..used
               PROVE  port[i].freed /\ port[i].timer # "pending"
    BY DEF Tty!ExitFreesPorts
  <2>1. Tty!Quiet /\ Tty!Openers = {}
    BY DEF Tty!IInv, Tty!Quiet
  <2>2. i = 1 /\ Tty!OnePortInv
    BY <1>3, <2>1
  <2>3. Tty!Counted = {}
    BY <2>1 DEF Tty!Counted, Tty!Openers
  <2> QED
    BY <2>2, <2>3, TtyCardinality DEF Tty!OnePortInv
<1> QED
  BY <1>1, <1>4, <1>5 DEF Tty!TtySafe

-----------------------------------------------------------------------------
(* short's rings: what is between the tail and the head.                   *)

RingLabels == {"out", "prepare", "prepared", "asleep", "woken", "count", "copy"}

LEMMA RingTypes ==
  ASSUME Ring!TypeInv
  PROVE  /\ Lines \in Nat \ {0} /\ Times \in Nat \ {0} /\ MaxIrqs \in Nat
         /\ head \in 0..(Lines - 1) /\ tail \in 0..(Lines - 1)
         /\ tv_head \in 0..(Times - 1) /\ tv_tail \in 0..(Times - 1)
         /\ wq_count \in Nat
         /\ \A r \in Readers : count0[r] \in 0..Lines /\ ring_pc[r] \in RingLabels
BY RingAssumption DEF Ring!TypeInv, Ring!TypeOK, RingLabels

LEMMA RingInitIInv == ASSUME Ring!Init PROVE Ring!IInv
<1>1. Lines \in Nat \ {0} /\ Times \in Nat \ {0} /\ MaxIrqs \in Nat
  BY RingAssumption
<1>2. Ring!TypeInv
  <2>1. /\ head \in 0..(Lines - 1) /\ tail \in 0..(Lines - 1) /\ tv_head \in 0..(Times - 1)
        /\ tv_tail \in 0..(Times - 1) /\ wq_count \in 0..MaxIrqs /\ 0 \in 0..Lines
    BY <1>1 DEF Ring!Init
  <2>2. count0 \in [Readers -> 0..Lines]
    BY <2>1 DEF Ring!Init
  <2>3. fresh = {} /\ ring_pc \in [Readers -> {"out"}] /\ ring_bh = "idle" /\ spurious = FALSE
    BY DEF Ring!Init
  <2> QED
    BY <2>1, <2>2, <2>3 DEF Ring!TypeInv, Ring!TypeOK
<1>3. Ring!TextInv
  BY DEF Ring!Init, Ring!TextInv
<1>4. Ring!TimesInv
  BY DEF Ring!Init, Ring!TimesInv
<1> QED
  BY <1>2, <1>3, <1>4 DEF Ring!Init, Ring!IInv, Ring!ToldOnce, Ring!NoLostWakeup, Ring!RunToCome

-----------------------------------------------------------------------------
\* A line is put in front of the head, and the reader's count stays good.
LEMMA RingPutLineText ==
  ASSUME Ring!IInv, Ring!PutLine, UNCHANGED <<tail, count0, ring_raced>>,
         \A r \in Readers : ring_pc'[r] = "copy" => ring_pc[r] = "copy"
  PROVE  /\ Ring!TextInv'
         /\ head' \in 0..(Lines - 1) /\ fresh' \subseteq 0..(Lines - 1)
<1>1. /\ Lines \in Nat \ {0} /\ head \in 0..(Lines - 1) /\ tail \in 0..(Lines - 1)
      /\ fresh \subseteq 0..(Lines - 1)
      /\ \A r \in Readers : count0[r] \in 0..Lines
  BY RingTypes DEF Ring!IInv, Ring!TypeInv, Ring!TypeOK
<1>2. /\ head' = IF head + 1 >= Lines THEN 0 ELSE head + 1
      /\ fresh' = fresh \cup {head}
      /\ overrun' = (overrun \/ head' \in fresh \cup {head})
  BY DEF Ring!PutLine, Ring!IncrBp
<1>3. head' \in 0..(Lines - 1) /\ fresh' \subseteq 0..(Lines - 1)
  BY <1>1, <1>2
<1>4. ASSUME ~ring_raced', ~overrun'
      PROVE  /\ \A i \in 0..(Lines - 1) :
                  i \in fresh' <=> head' # tail' /\ Ring!Between(tail', head', i)
             /\ \A r \in Readers : ring_pc'[r] = "copy" =>
                  count0'[r] <= Ring!Readable' /\ \A q \in Readers : ring_pc'[q] = "copy"
                   => q = r
  <2>1. ~ring_raced /\ ~overrun /\ head' \notin fresh /\ head' # head
    BY <1>2, <1>4
  <2>2. \A i \in 0..(Lines - 1) : i \in fresh <=> head # tail /\ Ring!Between(tail, head, i)
    BY <2>1 DEF Ring!IInv, Ring!TextInv
  <2>3. head' # tail
    <3>1. head # tail => tail \in fresh
      BY <1>1, <2>2 DEF Ring!Between
    <3> QED
      BY <2>1, <3>1
  <2>4. ASSUME NEW i \in 0..(Lines - 1)
        PROVE  i \in fresh' <=> head' # tail' /\ Ring!Between(tail', head', i)
    <3>1. i \in fresh' <=> i = head \/ (head # tail /\ Ring!Between(tail, head, i))
      BY <1>2, <2>2
    <3> HIDE <2>2
    <3>2. Ring!Between(tail, head', i) <=> i = head \/ (head # tail
           /\ Ring!Between(tail, head, i))
      BY <1>1, <1>2, <2>1, <2>3 DEF Ring!Between
    <3> QED
      BY <2>3, <3>1, <3>2
  <2>5. Ring!Readable <= Ring!Readable'
    BY <1>1, <1>2, <2>1, <2>3 DEF Ring!Readable
  <2>6. Ring!Readable \in Int /\ Ring!Readable' \in Int
    BY <1>1, <1>3 DEF Ring!Readable
  <2>7. ASSUME NEW r \in Readers, ring_pc'[r] = "copy"
        PROVE  count0'[r] <= Ring!Readable' /\ \A q \in Readers : ring_pc'[q] = "copy" => q = r
    <3>1. /\ ring_pc[r] = "copy" /\ count0[r] <= Ring!Readable
          /\ \A q \in Readers : ring_pc[q] = "copy" => q = r
      BY <2>1, <2>7 DEF Ring!IInv, Ring!TextInv
    <3> QED
      BY <1>1, <2>5, <2>6, <3>1
  <2> QED
    BY <2>4, <2>7
<1>5. Ring!TextInv'
  BY <1>4 DEF Ring!TextInv
<1> QED
  BY <1>3, <1>5

\* What leaves the text and the readers alone leaves what is said of them.
LEMMA RingTextKept ==
  ASSUME Ring!TextInv, UNCHANGED <<head, fresh, tail, count0, ring_pc>>,
         ring_raced => ring_raced', overrun => overrun'
  PROVE  Ring!TextInv'
<1>1. Ring!Readable' = Ring!Readable
  BY DEF Ring!Readable
<1>2. \A i : Ring!Between(tail, head, i)' = Ring!Between(tail, head, i)
  BY DEF Ring!Between
<1> QED
  BY <1>1, <1>2 DEF Ring!TextInv

LEMMA RingWokenLabels ==
  ASSUME Ring!TypeInv, ring_pc' = Ring!Woken
  PROVE  /\ ring_pc' \in [Readers -> RingLabels]
         /\ \A r \in Readers : ring_pc'[r] # "asleep"
         /\ \A r \in Readers : ring_pc'[r] = "copy" => ring_pc[r] = "copy"
BY DEF Ring!TypeInv, Ring!Woken, RingLabels

-----------------------------------------------------------------------------
\* The interrupt of the direct modes.
LEMMA RingInterruptStep ==
  ASSUME Ring!IInv, Ring!PutLine, ring_pc' = Ring!Woken, UNCHANGED <<mode, Ring!times, tail,
          count0, ring_raced, reread>>
  PROVE  Ring!IInv'
<1>1. /\ ring_pc' \in [Readers -> RingLabels] /\ \A r \in Readers : ring_pc'[r] # "asleep"
      /\ \A r \in Readers : ring_pc'[r] = "copy" => ring_pc[r] = "copy"
  BY RingWokenLabels DEF Ring!IInv
<1>2. /\ Ring!TextInv'
      /\ head' \in 0..(Lines - 1) /\ fresh' \subseteq 0..(Lines - 1)
  BY <1>1, RingPutLineText
<1>3. UNCHANGED <<tv_head, tv_tail, untold, wq_count, scheduled, ring_bh, savecount, spurious>>
  BY DEF Ring!times
<1>4. Ring!TypeInv'
  BY <1>1, <1>2, <1>3 DEF Ring!IInv, Ring!TypeInv, Ring!TypeOK, RingLabels
<1>5. overrun => overrun'
  BY DEF Ring!PutLine
<1>6. Ring!TimesInv'
  BY <1>3, <1>5 DEF Ring!IInv, Ring!TimesInv, Ring!Between
<1>7. Ring!NoLostWakeup'
  BY <1>1 DEF Ring!NoLostWakeup
<1> QED
  BY <1>2, <1>3, <1>4, <1>6, <1>7 DEF Ring!IInv, Ring!ToldOnce, Ring!RunToCome

-----------------------------------------------------------------------------
(* The bottom half.                                                        *)

\* One more time in front of the head.
LEMMA RingRecordTimes ==
  ASSUME Ring!IInv, Ring!Record, UNCHANGED <<tv_tail, ring_bh, spurious>>
  PROVE  Ring!TimesInv'
<1>1. Times \in Nat \ {0} /\ tv_head \in 0..(Times - 1) /\ tv_tail \in 0..(Times - 1)
  BY RingTypes DEF Ring!IInv
<1>2. /\ tv_head' = IF tv_head = Times - 1 THEN 0 ELSE tv_head + 1
      /\ untold' = untold \cup {tv_head}
      /\ overrun' = (overrun \/ tv_head \in untold)
      /\ scheduled'
  BY DEF Ring!Record, Ring!IncrTv
<1>3. ASSUME ~overrun', IF ring_bh = "report" THEN ~spurious ELSE tv_head' # tv_tail,
             NEW i \in 0..(Times - 1), Ring!Between(tv_tail, tv_head', i), i # tv_head
      PROVE  i \in untold
  <2>1. ~overrun /\ tv_head \notin untold
    BY <1>2, <1>3
  <2>2. (IF ring_bh = "report" THEN ~spurious ELSE tv_head # tv_tail) =>
          \A j \in 0..(Times - 1) : Ring!Between(tv_tail, tv_head, j) => j \in untold
    BY <2>1 DEF Ring!IInv, Ring!TimesInv
  <2>3. tv_head = tv_tail => Ring!Between(tv_tail, tv_head, tv_head)
    BY <1>1 DEF Ring!Between
  <2>4. tv_head # tv_tail
    <3> SUFFICES ASSUME tv_head = tv_tail
                 PROVE  FALSE
      OBVIOUS
    <3>1. ring_bh # "report"
      BY <1>1, <1>3, <2>1, <2>2, <2>3
    <3>2. tv_head' # tv_tail
      BY <1>3, <3>1
    <3>3. i = tv_head
      BY <1>1, <1>2, <1>3, <3>2 DEF Ring!Between
    <3> QED
      BY <1>3, <3>3
  <2>5. Ring!Between(tv_tail, tv_head, i)
    BY <1>1, <1>2, <1>3, <2>4 DEF Ring!Between
  <2>6. IF ring_bh = "report" THEN ~spurious ELSE tv_head # tv_tail
    BY <1>3, <2>4
  <2> QED
    BY <2>2, <2>5, <2>6
<1> QED
  BY <1>2, <1>3 DEF Ring!TimesInv

LEMMA RingTopHalfStep == ASSUME Ring!IInv, Ring!TopHalf PROVE Ring!IInv'
<1>1. /\ UNCHANGED <<mode, head, fresh, tv_tail, ring_bh, savecount, spurious, tail, ring_pc,
          count0, ring_raced, reread>>
      /\ Ring!Record /\ wq_count < MaxIrqs
  BY DEF Ring!TopHalf, Ring!text, Ring!reading
<1>2. wq_count' = wq_count + 1 /\ scheduled' = TRUE /\ (overrun => overrun')
  BY <1>1 DEF Ring!Record
<1>3. tv_head' \in 0..(Times - 1)
  BY <1>1, RingTypes DEF Ring!IInv, Ring!Record, Ring!IncrTv
<1>4. wq_count' \in 0..MaxIrqs
  BY <1>1, <1>2, RingTypes DEF Ring!IInv
<1>5. Ring!TypeInv'
  BY <1>1, <1>3, <1>4 DEF Ring!IInv, Ring!TypeInv, Ring!TypeOK
<1>6. Ring!TextInv'
  BY <1>1, <1>2, RingTextKept DEF Ring!IInv
<1>7. Ring!TimesInv'
  BY <1>1, RingRecordTimes
<1> QED
  BY <1>1, <1>2, <1>5, <1>6, <1>7 DEF Ring!IInv, Ring!ToldOnce, Ring!NoLostWakeup,
     Ring!RunToCome

LEMMA RingBhSaveStep == ASSUME Ring!IInv, Ring!BhSave PROVE Ring!IInv'
<1>1. /\ UNCHANGED <<mode, head, fresh, tv_head, tv_tail, untold, wq_count, spurious, tail,
          ring_pc, count0, ring_raced, overrun, reread>>
      /\ ring_bh = "idle" /\ ring_bh' = "reset" /\ scheduled' = FALSE
  BY DEF Ring!BhSave, Ring!text, Ring!reading
<1>2. Ring!TypeInv'
  BY <1>1 DEF Ring!IInv, Ring!TypeInv, Ring!TypeOK
<1>3. Ring!TextInv'
  BY <1>1, RingTextKept DEF Ring!IInv
<1>4. Ring!TimesInv'
  BY <1>1 DEF Ring!IInv, Ring!TimesInv, Ring!Between
<1> QED
  BY <1>1, <1>2, <1>3, <1>4 DEF Ring!IInv, Ring!ToldOnce, Ring!NoLostWakeup, Ring!RunToCome

LEMMA RingBhResetStep == ASSUME Ring!IInv, Ring!BhReset PROVE Ring!IInv'
<1>1. /\ UNCHANGED <<mode, tv_head, tv_tail, untold, scheduled, tail, ring_pc, count0,
          ring_raced, reread>>
      /\ ring_bh = "reset" /\ ring_bh' = "report" /\ wq_count' = 0 /\ Ring!PutLine
      /\ spurious' = (tv_tail = tv_head)
  BY DEF Ring!BhReset, Ring!reading
<1>2. /\ Ring!TextInv'
      /\ head' \in 0..(Lines - 1) /\ fresh' \subseteq 0..(Lines - 1)
  BY <1>1, RingPutLineText
<1>3. overrun => overrun'
  BY <1>1 DEF Ring!PutLine
<1>4. wq_count' \in 0..MaxIrqs
  BY <1>1, RingTypes DEF Ring!IInv
<1>5. Ring!TypeInv'
  BY <1>1, <1>2, <1>4 DEF Ring!IInv, Ring!TypeInv, Ring!TypeOK
<1>6. Ring!TimesInv'
  BY <1>1, <1>3 DEF Ring!IInv, Ring!TimesInv, Ring!Between
<1> QED
  BY <1>1, <1>2, <1>5, <1>6 DEF Ring!IInv, Ring!ToldOnce, Ring!NoLostWakeup, Ring!RunToCome

LEMMA RingBhReportStep == ASSUME Ring!IInv, Ring!BhReport PROVE Ring!IInv'
<1>1. /\ UNCHANGED <<mode, tv_head, wq_count, scheduled, savecount, spurious, tail, ring_pc,
          count0, ring_raced>>
      /\ ring_bh = "report" /\ Ring!PutLine
      /\ untold' = untold \ {tv_tail}
      /\ reread' = (reread \/ (tv_tail \notin untold /\ ~spurious /\ ~overrun))
  BY DEF Ring!BhReport, Ring!reading
<1>2. /\ tv_tail' = IF tv_tail = Times - 1 THEN 0 ELSE tv_tail + 1
      /\ ring_bh' = IF tv_tail' = tv_head THEN "wake" ELSE "report"
  BY DEF Ring!BhReport, Ring!IncrTv
<1>3. /\ Ring!TextInv'
      /\ head' \in 0..(Lines - 1) /\ fresh' \subseteq 0..(Lines - 1)
  BY <1>1, RingPutLineText
<1>4. Times \in Nat \ {0} /\ tv_head \in 0..(Times - 1) /\ tv_tail \in 0..(Times - 1)
  BY RingTypes DEF Ring!IInv
<1>5. tv_tail' \in 0..(Times - 1)
  BY <1>2, <1>4
<1>6. Ring!TypeInv'
  BY <1>1, <1>2, <1>3, <1>5 DEF Ring!IInv, Ring!TypeInv, Ring!TypeOK
<1>7. ~overrun /\ ~spurious =>
        \A i \in 0..(Times - 1) : Ring!Between(tv_tail, tv_head, i) => i \in untold
  BY <1>1 DEF Ring!IInv, Ring!TimesInv
<1>8. Ring!Between(tv_tail, tv_head, tv_tail)
  BY <1>4 DEF Ring!Between
<1>9. ~reread'
  BY <1>1, <1>4, <1>7, <1>8 DEF Ring!IInv, Ring!ToldOnce
<1>10. overrun => overrun'
  BY <1>1 DEF Ring!PutLine
<1>11. ASSUME ~overrun', IF ring_bh' = "report" THEN ~spurious' ELSE tv_head' # tv_tail',
              NEW i \in 0..(Times - 1), Ring!Between(tv_tail', tv_head', i)
       PROVE  i \in untold'
  <2>1. ~overrun /\ ~spurious /\ tv_tail' # tv_head
    BY <1>1, <1>2, <1>10, <1>11
  <2>2. Ring!Between(tv_tail, tv_head, i) /\ i # tv_tail
    BY <1>1, <1>2, <1>4, <1>11, <2>1 DEF Ring!Between
  <2> QED
    BY <1>1, <1>7, <2>1, <2>2
<1>12. ring_bh' = "wake" => tv_tail' = tv_head'
  BY <1>1, <1>2
<1>13. ~scheduled' => wq_count' = 0
  BY <1>1 DEF Ring!IInv, Ring!TimesInv
<1>14. Ring!TimesInv'
  BY <1>11, <1>12, <1>13 DEF Ring!TimesInv
<1>15. ring_bh' # "idle"
  BY <1>2
<1> QED
  BY <1>3, <1>6, <1>9, <1>14, <1>15 DEF Ring!IInv, Ring!ToldOnce, Ring!NoLostWakeup,
     Ring!RunToCome

LEMMA RingBhWakeStep == ASSUME Ring!IInv, Ring!BhWake PROVE Ring!IInv'
<1>1. /\ UNCHANGED <<mode, head, fresh, tv_head, tv_tail, untold, wq_count, scheduled,
          savecount, tail, count0, ring_raced, overrun, reread>>
      /\ ring_bh = "wake" /\ ring_bh' = "idle" /\ ring_pc' = Ring!Woken /\ spurious' = FALSE
  BY DEF Ring!BhWake, Ring!text
<1>2. /\ ring_pc' \in [Readers -> RingLabels] /\ \A r \in Readers : ring_pc'[r] # "asleep"
      /\ \A r \in Readers : ring_pc'[r] = "copy" => ring_pc[r] = "copy"
  BY <1>1, RingWokenLabels DEF Ring!IInv
<1>3. Ring!TypeInv'
  BY <1>1, <1>2 DEF Ring!IInv, Ring!TypeInv, Ring!TypeOK, RingLabels
<1>4. Ring!Readable' = Ring!Readable
  BY <1>1 DEF Ring!Readable
<1>5. Ring!TextInv'
  BY <1>1, <1>2, <1>4 DEF Ring!IInv, Ring!TextInv, Ring!Between
<1>6. Ring!TimesInv'
  BY <1>1 DEF Ring!IInv, Ring!TimesInv, Ring!Between
<1>7. Ring!NoLostWakeup'
  BY <1>2 DEF Ring!NoLostWakeup
<1>8. Ring!RunToCome'
  BY <1>1 DEF Ring!IInv, Ring!TimesInv, Ring!RunToCome
<1> QED
  BY <1>1, <1>3, <1>5, <1>6, <1>7, <1>8 DEF Ring!IInv, Ring!ToldOnce

-----------------------------------------------------------------------------
(* The readers.                                                            *)

\* Who sleeps has found the ring empty.
LEMMA RingWaitStep ==
  ASSUME Ring!IInv, NEW r \in Readers, Ring!Wait(r) \/ Ring!Signal(r)
  PROVE  Ring!IInv'
<1>1. UNCHANGED <<mode, head, fresh, tv_head, tv_tail, untold, wq_count, scheduled, ring_bh,
                 savecount, spurious, overrun, tail, count0, ring_raced, reread>>
  BY DEF Ring!Wait, Ring!Signal, Ring!Others, Ring!text, Ring!times
<1>2. ring_pc \in [Readers -> RingLabels]
  BY DEF Ring!IInv, Ring!TypeInv, RingLabels
<1>3. /\ \A q \in Readers \ {r} : ring_pc'[q] = ring_pc[q]
      /\ ring_pc'[r] \in RingLabels \ {"copy"} /\ (ring_pc'[r] = "asleep" => head = tail)
      /\ ring_pc' \in [Readers -> RingLabels]
  <2>1. CASE Ring!Begin(r)
    BY <1>2, <2>1 DEF Ring!Begin, Ring!Goto, RingLabels
  <2>2. CASE Ring!Goto(r, "prepare", "prepared")
    BY <1>2, <2>2 DEF Ring!Goto, RingLabels
  <2>3. CASE Ring!Goto(r, "prepared", IF head = tail THEN "asleep" ELSE "woken")
    BY <1>2, <2>3 DEF Ring!Goto, RingLabels
  <2>4. CASE Ring!Goto(r, "tested", "asleep")
    BY <1>2, <2>4 DEF Ring!Goto, RingLabels
  <2>5. CASE Ring!Goto(r, "woken", IF head = tail THEN "prepare" ELSE "count")
    BY <1>2, <2>5 DEF Ring!Goto, RingLabels
  <2>6. CASE Ring!Signal(r)
    BY <1>2, <2>6 DEF Ring!Signal, Ring!Goto, RingLabels
  <2> QED
    BY <2>1, <2>2, <2>3, <2>4, <2>5, <2>6 DEF Ring!Wait
<1>4. /\ ring_pc' \in [Readers -> RingLabels]
      /\ \A q \in Readers : ring_pc'[q] = "copy" => ring_pc[q] = "copy"
      /\ \A q \in Readers : ring_pc'[q] = "asleep" => ring_pc[q] = "asleep" \/ head = tail
  BY <1>3
<1>5. Ring!TypeInv'
  BY <1>1, <1>4 DEF Ring!IInv, Ring!TypeInv, Ring!TypeOK, RingLabels
<1>6. Ring!Readable' = Ring!Readable
  BY <1>1 DEF Ring!Readable
<1>7. Ring!TextInv'
  BY <1>1, <1>4, <1>6 DEF Ring!IInv, Ring!TextInv, Ring!Between
<1>8. Ring!TimesInv'
  BY <1>1 DEF Ring!IInv, Ring!TimesInv, Ring!Between
<1>9. Ring!NoLostWakeup'
  BY <1>1, <1>4 DEF Ring!IInv, Ring!NoLostWakeup
<1> QED
  BY <1>1, <1>5, <1>7, <1>8, <1>9 DEF Ring!IInv, Ring!ToldOnce, Ring!RunToCome

\* A reader counts no more lines than there are, unless another is with it.
LEMMA RingCountLinesStep ==
  ASSUME Ring!IInv, NEW r \in Readers, Ring!CountLines(r)
  PROVE  Ring!IInv'
<1>1. UNCHANGED <<mode, head, fresh, tv_head, tv_tail, untold, wq_count, scheduled, ring_bh,
                 savecount, spurious, overrun, tail, reread>>
  BY DEF Ring!CountLines, Ring!Others, Ring!text, Ring!times
<1>2. /\ ring_pc[r] = "count" /\ ring_pc' = [ring_pc EXCEPT ![r] = "copy"]
      /\ ring_raced' = (ring_raced \/ \E q \in Readers \ {r} : Ring!PastTheWait(q))
  BY DEF Ring!CountLines, Ring!Goto
<1>3. ring_pc \in [Readers -> RingLabels] /\ count0 \in [Readers -> 0..Lines]
  BY DEF Ring!IInv, Ring!TypeInv, Ring!TypeOK, RingLabels
<1>4. /\ Lines \in Nat \ {0} /\ head \in 0..(Lines - 1) /\ tail \in 0..(Lines - 1)
  BY RingTypes DEF Ring!IInv
<1>5. Ring!Readable \in 0..Lines
  BY <1>4 DEF Ring!Readable
<1>6. PICK n \in 1..Lines :
        count0' = [count0 EXCEPT ![r] = IF Ring!Readable < n THEN Ring!Readable ELSE n]
  BY DEF Ring!CountLines
<1>7. count0' \in [Readers -> 0..Lines] /\ count0'[r] <= Ring!Readable
  BY <1>3, <1>4, <1>5, <1>6
<1>8. ring_pc' \in [Readers -> RingLabels] /\ ring_pc'[r] = "copy"
       /\ \A q \in Readers \ {r} : ring_pc'[q] = ring_pc[q]
  BY <1>2, <1>3 DEF RingLabels
<1>9. Ring!TypeInv'
  BY <1>1, <1>7, <1>8 DEF Ring!IInv, Ring!TypeInv, Ring!TypeOK, RingLabels
<1>10. Ring!Readable' = Ring!Readable
  BY <1>1 DEF Ring!Readable
<1>11. ~ring_raced' => \A q \in Readers : ring_pc'[q] = "copy" => q = r
  BY <1>2, <1>8 DEF Ring!PastTheWait
<1>12. Ring!TextInv'
  BY <1>1, <1>2, <1>7, <1>10, <1>11 DEF Ring!IInv, Ring!TextInv, Ring!Between
<1>13. Ring!TimesInv'
  BY <1>1 DEF Ring!IInv, Ring!TimesInv, Ring!Between
<1>14. Ring!NoLostWakeup'
  BY <1>1, <1>2, <1>8 DEF Ring!IInv, Ring!NoLostWakeup
<1> QED
  BY <1>1, <1>9, <1>12, <1>13, <1>14 DEF Ring!IInv, Ring!ToldOnce, Ring!RunToCome

\* The lines copied, when no two read at a time.
LEMMA RingCopiedLines ==
  ASSUME Ring!IInv, NEW r \in Readers, ring_pc[r] = "copy", ~ring_raced, ~overrun
  PROVE  /\ tail + count0[r] <= Lines
         /\ head < tail \/ tail + count0[r] <= head
         /\ \A i : i \in Ring!Copied(r) <=> i \in tail..(tail + count0[r] - 1)
<1>1. /\ Lines \in Nat \ {0} /\ head \in 0..(Lines - 1) /\ tail \in 0..(Lines - 1)
      /\ count0[r] \in 0..Lines
  BY RingTypes DEF Ring!IInv
<1>2. count0[r] <= Ring!Readable
  BY DEF Ring!IInv, Ring!TextInv
<1>3. tail + count0[r] <= Lines /\ (head < tail \/ tail + count0[r] <= head)
  BY <1>1, <1>2 DEF Ring!Readable
<1>4. \A i \in 0..(count0[r] - 1) : (tail + i) % Lines = tail + i
  <2> SUFFICES ASSUME NEW i \in 0..(count0[r] - 1)
               PROVE  (tail + i) % Lines = tail + i
    OBVIOUS
  <2>1. tail + i \in 0..(Lines - 1)
    BY <1>1, <1>3
  <2>2. \A x \in 0..(Lines - 1) : x % Lines = x
    BY <1>1
  <2> QED
    BY <2>1, <2>2
<1>5. Ring!Copied(r) = {(tail + i) : i \in 0..(count0[r] - 1)}
  BY <1>4 DEF Ring!Copied
<1>6. ASSUME NEW j \in tail..(tail + count0[r] - 1) PROVE j \in Ring!Copied(r)
  <2>1. j - tail \in 0..(count0[r] - 1) /\ j = tail + (j - tail)
    BY <1>1
  <2> QED
    BY <1>5, <2>1
<1>7. ASSUME NEW j \in Ring!Copied(r) PROVE j \in tail..(tail + count0[r] - 1)
  BY <1>1, <1>5, <1>7
<1> QED
  BY <1>3, <1>6, <1>7

\* The lines copied were to be read, and are not any more.
LEMMA RingCopyStep == ASSUME Ring!IInv, NEW r \in Readers, Ring!Copy(r) PROVE Ring!IInv'
<1>1. UNCHANGED <<mode, head, tv_head, tv_tail, untold, wq_count, scheduled, ring_bh,
                 savecount, spurious, overrun, ring_raced>>
  BY DEF Ring!Copy, Ring!times
<1>2. ring_pc[r] = "copy" /\ ring_pc' = [ring_pc EXCEPT ![r] = "out"]
       /\ count0' = [count0 EXCEPT ![r] = 0]
  BY DEF Ring!Copy, Ring!Goto
<1>3. ring_pc \in [Readers -> RingLabels] /\ count0 \in [Readers -> 0..Lines]
  BY DEF Ring!IInv, Ring!TypeInv, Ring!TypeOK, RingLabels
<1>4. /\ Lines \in Nat \ {0} /\ head \in 0..(Lines - 1) /\ tail \in 0..(Lines - 1)
      /\ count0[r] \in 0..Lines /\ fresh \subseteq 0..(Lines - 1)
  BY RingTypes DEF Ring!IInv, Ring!TypeInv, Ring!TypeOK
<1>5. /\ ring_pc' \in [Readers -> RingLabels] /\ count0' \in [Readers -> 0..Lines]
      /\ ring_pc'[r] = "out" /\ \A q \in Readers \ {r} : ring_pc'[q] = ring_pc[q]
  BY <1>2, <1>3, <1>4 DEF RingLabels
<1>6. Ring!TimesInv'
  BY <1>1 DEF Ring!IInv, Ring!TimesInv, Ring!Between
<1>7. Ring!RunToCome'
  BY <1>1 DEF Ring!IInv, Ring!RunToCome
<1>8. ~ring_raced /\ ~overrun => \A q \in Readers : ring_pc'[q] # "copy"
  BY <1>2, <1>5 DEF Ring!IInv, Ring!TextInv
<1>9. CASE UNCHANGED <<tail, fresh, reread>>
  <2>1. Ring!TypeInv'
    BY <1>1, <1>5, <1>9 DEF Ring!IInv, Ring!TypeInv, Ring!TypeOK, RingLabels
  <2>2. Ring!TextInv'
    BY <1>1, <1>8, <1>9 DEF Ring!IInv, Ring!TextInv, Ring!Between
  <2>3. Ring!NoLostWakeup'
    BY <1>1, <1>5, <1>9 DEF Ring!IInv, Ring!NoLostWakeup
  <2> QED
    BY <1>6, <1>7, <1>9, <2>1, <2>2, <2>3 DEF Ring!IInv, Ring!ToldOnce
<1>10. CASE /\ tail' = Ring!IncrBp(tail, count0[r]) /\ fresh' = fresh \ Ring!Copied(r)
            /\ reread' = (reread \/ (Ring!Copied(r) \ fresh # {} /\ ~ring_raced /\ ~overrun))
  <2>1. tail' = IF tail + count0[r] >= Lines THEN 0 ELSE tail + count0[r]
    BY <1>10 DEF Ring!IncrBp
  <2>2. tail' \in 0..(Lines - 1) /\ fresh' \subseteq 0..(Lines - 1)
    <3>1. tail' \in 0..(Lines - 1)
      BY <1>4, <2>1
    <3>2. fresh' \subseteq fresh
      BY <1>10
    <3> QED
      BY <1>4, <3>1, <3>2
  <2>3. Ring!TypeInv'
    BY <1>1, <1>5, <2>2 DEF Ring!IInv, Ring!TypeInv, Ring!TypeOK, RingLabels
  <2>4. ASSUME ~ring_raced, ~overrun
        PROVE  /\ tail + count0[r] <= Lines
               /\ head < tail \/ tail + count0[r] <= head
               /\ \A i : i \in Ring!Copied(r) <=> i \in tail..(tail + count0[r] - 1)
               /\ \A i \in 0..(Lines - 1) : i \in fresh <=> head # tail
                   /\ Ring!Between(tail, head, i)
    BY <1>2, <2>4, RingCopiedLines DEF Ring!IInv, Ring!TextInv
  <2>5. ASSUME ~ring_raced, ~overrun, NEW i \in Ring!Copied(r) PROVE i \in fresh
    <3>1. i \in tail..(tail + count0[r] - 1)
      BY <2>4, <2>5
    <3>2. i \in 0..(Lines - 1) /\ head # tail /\ Ring!Between(tail, head, i)
      BY <1>4, <2>4, <2>5, <3>1 DEF Ring!Between
    <3> QED
      BY <2>4, <2>5, <3>2
  <2>6. ~reread'
    BY <1>10, <2>5 DEF Ring!IInv, Ring!ToldOnce
  <2>7. ASSUME ~ring_raced, ~overrun, NEW i \in 0..(Lines - 1)
        PROVE  i \in fresh' <=> head # tail' /\ Ring!Between(tail', head, i)
    <3>1. i \in fresh' <=> /\ head # tail /\ Ring!Between(tail, head, i)
                           /\ ~(tail <= i /\ i <= tail + count0[r] - 1)
      BY <1>4, <1>10, <2>4, <2>7
    <3>2. tail + count0[r] <= Lines /\ (head < tail \/ tail + count0[r] <= head)
      BY <2>4, <2>7
    <3> HIDE <1>10, <2>4, <2>5
    <3>3. (/\ head # tail /\ Ring!Between(tail, head, i)
           /\ ~(tail <= i /\ i <= tail + count0[r] - 1))
          <=> head # tail' /\ Ring!Between(tail', head, i)
      BY <1>4, <2>1, <3>2 DEF Ring!Between
    <3> QED
      BY <3>1, <3>3
  <2>8. Ring!TextInv'
    BY <1>1, <1>8, <2>7 DEF Ring!TextInv
  <2>9. ASSUME ~ring_raced, ~overrun, head = tail PROVE tail' = tail
    BY <1>4, <2>1, <2>4, <2>9
  <2>10. Ring!NoLostWakeup'
    BY <1>1, <1>5, <2>9 DEF Ring!IInv, Ring!NoLostWakeup
  <2> QED
    BY <1>6, <1>7, <2>3, <2>6, <2>8, <2>10 DEF Ring!IInv, Ring!ToldOnce
<1> QED
  BY <1>9, <1>10 DEF Ring!Copy

LEMMA RingNextIInv == ASSUME Ring!IInv, Ring!Next \/ UNCHANGED Ring!vars PROVE Ring!IInv'
<1>1. ASSUME UNCHANGED <<mode, head, fresh, tail, tv_head, tv_tail, untold, wq_count,
                        scheduled, ring_bh, savecount, spurious, ring_pc, count0, ring_raced,
                        overrun, reread>>
      PROVE  Ring!IInv'
  <2>1. Ring!TextInv'
    BY <1>1, RingTextKept DEF Ring!IInv
  <2>2. Ring!TypeInv' /\ Ring!TimesInv'
    BY <1>1 DEF Ring!IInv, Ring!TypeInv, Ring!TypeOK, Ring!TimesInv, Ring!Between
  <2> QED
    BY <1>1, <2>1, <2>2 DEF Ring!IInv, Ring!ToldOnce, Ring!NoLostWakeup, Ring!RunToCome
<1>2. CASE UNCHANGED Ring!vars
  BY <1>1, <1>2 DEF Ring!vars, Ring!text, Ring!times, Ring!reading
<1>3. CASE Ring!Interrupt
  BY <1>3, RingInterruptStep DEF Ring!Interrupt
<1>4. CASE Ring!ShInterrupt
  <2>1. CASE Ring!PutLine /\ ring_pc' = Ring!Woken
    BY <1>4, <2>1, RingInterruptStep DEF Ring!ShInterrupt
  <2>2. CASE UNCHANGED <<Ring!text, overrun, ring_pc>>
    BY <1>1, <1>4, <2>2 DEF Ring!ShInterrupt, Ring!text, Ring!times
  <2> QED
    BY <1>4, <2>1, <2>2 DEF Ring!ShInterrupt
<1> QED
  BY <1>2, <1>3, <1>4, RingTopHalfStep, RingBhSaveStep, RingBhResetStep, RingBhReportStep,
     RingBhWakeStep, RingWaitStep,
     RingCountLinesStep, RingCopyStep DEF Ring!Next

LEMMA RingIInvSafe == ASSUME Ring!IInv PROVE Ring!RingSafe
BY DEF Ring!IInv, Ring!TypeInv, Ring!RingSafe

-----------------------------------------------------------------------------
(* scullc: the quantum of the cache, and the slots of an item.             *)

\* A position within an item is in one of its qset slots.
LEMMA SlabSlotBound ==
  ASSUME NEW q \in Nat \ {0}, NEW s \in Nat \ {0}, NEW m \in Nat, m < q * s
  PROVE  m \div q + 1 <= s
<1> DEFINE d == m \div q
<1>1. d \in Nat /\ q * d <= m
  OBVIOUS
<1> HIDE DEF d
<1>2. ASSUME d >= s PROVE FALSE
  <2>1. PICK e \in Nat : d = s + e
    BY <1>1, <1>2
  <2>2. q * d = q * s + q * e
    BY <2>1
  <2>3. q * e >= 0 /\ q * s \in Nat /\ q * e \in Nat
    BY <2>1
  <2> QED
    BY <1>1, <2>2, <2>3
<1>3. d + 1 <= s
  BY <1>1, <1>2
<1> QED
  BY <1>3 DEF d

LEMMA SlabSlotOk ==
  ASSUME Slab!TypeInv, NEW pos \in Nat
  PROVE  /\ Slab!Slot(Slab!Geometry, pos) <= slab_dev.qset
         /\ Slab!QPos(Slab!Geometry, pos) \in Nat
<1>1. slab_dev.quantum \in Nat \ {0} /\ slab_dev.qset \in Nat \ {0}
  BY DEF Slab!TypeInv
<1> DEFINE q == slab_dev.quantum
           s == slab_dev.qset
           m == pos % (q * s)
<1> HIDE DEF q, s
<1>2. q \in Nat \ {0} /\ s \in Nat \ {0}
  BY <1>1 DEF q, s
<1>3. q * s \in Nat \ {0}
  BY <1>2
<1>4. m \in Nat /\ m < q * s
  BY <1>3
<1>5. m \div q + 1 <= s
  BY <1>2, <1>4, SlabSlotBound
<1>6. pos % q \in Nat
  BY <1>2
<1> QED
  BY <1>5, <1>6 DEF Slab!Slot, Slab!QPos, Slab!Geometry, q, s

LEMMA SlabTrimKeeps ==
  ASSUME Slab!IInv, Slab!Trim
  PROVE  /\ slab_dev' \in [quantum : Nat \ {0}, qset : Nat \ {0}, size : Nat]
         /\ slab_dev'.quantum = slab_defaults.quantum
         /\ objects' = {}
<1>1. slab_defaults.quantum \in Nat \ {0} /\ slab_defaults.qset \in Nat \ {0}
  BY DEF Slab!IInv, Slab!TypeInv
<1>2. slab_dev' = [quantum |-> slab_defaults.quantum, qset |-> slab_defaults.qset, size |-> 0]
  BY DEF Slab!Trim, Slab!Blank
<1>3. Slab!Freed = objects
  BY DEF Slab!IInv, Slab!TrimReaches, Slab!Freed
<1> QED
  BY <1>1, <1>2, <1>3 DEF Slab!Trim

LEMMA SlabInitIInv == ASSUME Slab!Init PROVE Slab!IInv
<1>1. slab_defaults \in [quantum : Nat \ {0}, qset : Nat \ {0}]
  BY GeometryAssumption DEF Slab!Init, Slab!Geometries
<1>2. slab_dev = [quantum |-> slab_defaults.quantum, qset |-> slab_defaults.qset, size |-> 0]
  BY DEF Slab!Init, Slab!Blank
<1>3. Slab!TypeInv
  BY <1>1, <1>2 DEF Slab!Init, Slab!TypeInv, Slab!NoCache
<1> QED
  BY <1>3 DEF Slab!Init, Slab!IInv, Slab!TrimReaches, Slab!Fits, Slab!ObjectsLargeEnough,
     Slab!NoCacheWhileLoading, Slab!NoCache

\* The steps that load and unload.
LEMMA SlabLoadStep ==
  ASSUME Slab!IInv, slab_broken = "none", Slab!ScullcInit \/ Slab!CreateCache \/ Slab!Cleanup
  PROVE  Slab!IInv'
<1>1. Slab!TypeInv /\ Slab!TrimReaches /\ Slab!Fits
  BY DEF Slab!IInv
<1>2. slab_broken' = "none"
  BY DEF Slab!ScullcInit, Slab!CreateCache, Slab!Cleanup
<1>3. (Slab!ObjectsLargeEnough /\ Slab!NoCacheWhileLoading)'
  BY <1>2 DEF Slab!ObjectsLargeEnough, Slab!NoCacheWhileLoading
<1>4. slab_defaults.quantum \in Nat \ {0} /\ slab_defaults.qset \in Nat \ {0}
  BY <1>1 DEF Slab!TypeInv
<1>5. CASE Slab!ScullcInit
  <2>1. CASE UNCHANGED <<slab_phase, cdev, slab_dev, slab_arrays>>
    BY <1>1, <1>2, <1>3, <1>5, <2>1 DEF Slab!ScullcInit, Slab!IInv, Slab!TypeInv,
       Slab!TrimReaches, Slab!Fits
  <2>2. CASE slab_phase' = "devices" /\ slab_dev' = Slab!Blank(slab_defaults)
    <3>1. slab_dev' = [quantum |-> slab_defaults.quantum, qset |-> slab_defaults.qset,
           size |-> 0]
      BY <2>2 DEF Slab!Blank
    <3>2. UNCHANGED <<cache, objects, slab_defaults, raised>> /\ slab_phase = "unloaded"
      BY <1>5 DEF Slab!ScullcInit
    <3>3. cache = Slab!NoCache /\ objects = {}
      BY <1>1, <3>2 DEF Slab!TrimReaches
    <3>4. Slab!TypeInv'
      BY <1>1, <1>4, <2>2, <3>1, <3>2 DEF Slab!TypeInv
    <3> QED
      BY <1>3, <2>2, <3>1, <3>2, <3>3, <3>4 DEF Slab!IInv, Slab!TrimReaches, Slab!Fits
  <2> QED
    BY <1>5, <2>1, <2>2 DEF Slab!ScullcInit
<1>6. CASE Slab!CreateCache
  <2>1. slab_phase = "devices" /\ UNCHANGED <<slab_defaults, raised>>
    BY <1>6 DEF Slab!CreateCache
  <2>2. cache = Slab!NoCache /\ objects = {}
    BY <1>1, <2>1 DEF Slab!TrimReaches
  <2>3. CASE slab_phase' = "live" /\ cache' = Slab!ObjectSize /\ UNCHANGED <<cdev, Slab!device>>
    <3>1. cache' = slab_defaults.quantum /\ slab_dev' = slab_dev /\ objects' = {}
      BY <2>2, <2>3 DEF Slab!ObjectSize, Slab!device
    <3> QED
      BY <1>1, <1>3, <1>4, <2>1, <2>3, <3>1
      DEF Slab!IInv, Slab!TypeInv, Slab!TrimReaches, Slab!Fits, Slab!NoCache
  <2>4. CASE Slab!NoMemory
    <3>1. slab_phase' = "unloaded" /\ Slab!Trim /\ cache' = cache
      BY <2>4 DEF Slab!NoMemory
    <3> QED
      BY <1>1, <1>3, <2>1, <2>2, <3>1, SlabTrimKeeps
      DEF Slab!IInv, Slab!TypeInv, Slab!TrimReaches, Slab!Fits, Slab!NoCache
  <2> QED
    BY <1>6, <2>3, <2>4 DEF Slab!CreateCache
<1>7. CASE Slab!Cleanup
  <2>1. slab_phase' = "unloaded" /\ Slab!Trim /\ cache' = Slab!NoCache
         /\ slab_defaults' \in Slab!Geometries
    BY <1>7 DEF Slab!Cleanup
  <2>2. slab_defaults' \in [quantum : Nat \ {0}, qset : Nat \ {0}]
    BY <2>1, GeometryAssumption DEF Slab!Geometries
  <2> QED
    BY <1>3, <2>1, <2>2, SlabTrimKeeps DEF Slab!IInv, Slab!TypeInv, Slab!TrimReaches,
       Slab!Fits, Slab!NoCache
<1> QED
  BY <1>5, <1>6, <1>7

\* A step of a call that writes nothing.
LEMMA SlabQuietStep ==
  ASSUME Slab!IInv, slab_broken = "none", UNCHANGED <<slab_phase, cache, slab_defaults,
          slab_dev, objects, raised, slab_broken>>
  PROVE  Slab!IInv'
BY DEF Slab!IInv, Slab!TypeInv, Slab!TrimReaches, Slab!Fits, Slab!ObjectsLargeEnough,
   Slab!NoCacheWhileLoading

LEMMA SlabOpenStep ==
  ASSUME Slab!IInv, slab_broken = "none", NEW p \in Procs, Slab!Open(p)
  PROVE  Slab!IInv'
<1>1. UNCHANGED <<slab_phase, cache, slab_defaults, raised, slab_broken>>
  BY DEF Slab!Open, Slab!load
<1>2. CASE UNCHANGED Slab!device
  BY <1>1, <1>2, SlabQuietStep DEF Slab!device
<1>3. CASE Slab!Trim
  <2>1. slab_broken' = "none"
    BY <1>1
  <2> QED
    BY <1>1, <1>3, <2>1, SlabTrimKeeps
    DEF Slab!IInv, Slab!TypeInv, Slab!TrimReaches, Slab!Fits, Slab!ObjectsLargeEnough,
       Slab!NoCacheWhileLoading
<1> QED
  BY <1>2, <1>3 DEF Slab!Open

LEMMA SlabIoctlStep ==
  ASSUME Slab!IInv, slab_broken = "none", NEW p \in Procs, Slab!Ioctl(p)
  PROVE  Slab!IInv'
<1>1. UNCHANGED <<slab_phase, cache, slab_dev, objects>> /\ slab_broken' = "none"
  BY DEF Slab!Ioctl, Slab!load, Slab!device
<1>2. slab_defaults' \in [quantum : Nat \ {0}, qset : Nat \ {0}]
  <2>1. slab_defaults \in [quantum : Nat \ {0}, qset : Nat \ {0}]
    BY DEF Slab!IInv, Slab!TypeInv
  <2> QED
    BY <2>1, GeometryAssumption, DefaultsPositive DEF Slab!Ioctl
<1>3. Slab!TypeInv' /\ Slab!TrimReaches'
  BY <1>1, <1>2 DEF Slab!IInv, Slab!TypeInv, Slab!TrimReaches
<1>4. Slab!Fits'
  <2> SUFFICES ASSUME ~raised'
               PROVE  Slab!Fits'
    BY DEF Slab!Fits
  <2>1. ~raised /\ ~(slab_defaults'.quantum > cache)
    BY DEF Slab!Ioctl
  <2>2. cache \in Nat /\ slab_defaults'.quantum \in Nat \ {0}
    BY <1>2 DEF Slab!IInv, Slab!TypeInv
  <2>3. cache # Slab!NoCache /\ slab_defaults'.quantum <= cache
    BY <2>1, <2>2 DEF Slab!NoCache
  <2>4. slab_phase' = "live"
    BY <1>1, <2>3 DEF Slab!IInv, Slab!TrimReaches
  <2> QED
    BY <1>1, <2>1, <2>3, <2>4 DEF Slab!IInv, Slab!Fits
<1> QED
  BY <1>1, <1>3, <1>4 DEF Slab!IInv, Slab!ObjectsLargeEnough, Slab!NoCacheWhileLoading

\* What is lost when the memory is corrupted is all that the invariant is about.
LEMMA SlabBreakStep ==
  ASSUME Slab!IInv, NEW how, Slab!Break(how),
         how \in {"memset_beyond_the_object", "copy_beyond_the_object"} => raised,
         how = "no_cache" => slab_phase = "devices"
  PROVE  Slab!IInv'
<1>1. UNCHANGED <<slab_phase, cache, slab_defaults, raised>> /\ objects' = {}
                 /\ slab_broken' = how
  BY DEF Slab!Break, Slab!load
<1>2. slab_dev' = [quantum |-> slab_defaults.quantum, qset |-> slab_defaults.qset, size |-> 0]
  BY DEF Slab!Break, Slab!Blank
<1>3. slab_defaults.quantum \in Nat \ {0} /\ slab_defaults.qset \in Nat \ {0}
  BY DEF Slab!IInv, Slab!TypeInv
<1>4. Slab!TypeInv'
  BY <1>1, <1>2, <1>3 DEF Slab!IInv, Slab!TypeInv
<1> QED
  BY <1>1, <1>2, <1>4
  DEF Slab!IInv, Slab!TrimReaches, Slab!Fits, Slab!ObjectsLargeEnough, Slab!NoCacheWhileLoading

\* A write that goes wrong does so for the reason the properties name.
LEMMA SlabWrongWhy ==
  ASSUME Slab!IInv, slab_broken = "none", slab_phase # "unloaded", NEW pos \in Nat,
         NEW n \in 0..slab_dev.quantum - Slab!QPos(Slab!Geometry, pos)
  PROVE  /\ Slab!Wrong(pos, n) \in {"memset_beyond_the_object", "copy_beyond_the_object"}
             => raised
         /\ Slab!Wrong(pos, n) = "no_cache" => slab_phase = "devices"
<1> DEFINE new == <<Slab!Item(Slab!Geometry, pos), Slab!Slot(Slab!Geometry,
     pos)>> \notin objects
           beyond == Slab!QPos(Slab!Geometry, pos) + n > cache
<1>1. Slab!Wrong(pos, n) = IF new /\ cache = Slab!NoCache THEN "no_cache"
                      ELSE IF new
                       /\ slab_defaults.quantum > cache THEN "memset_beyond_the_object"
                      ELSE IF beyond THEN "copy_beyond_the_object"
                      ELSE "none"
  BY DEF Slab!Wrong
<1>2. ~new => cache # Slab!NoCache
  BY DEF Slab!IInv, Slab!TrimReaches
<1>3. Slab!QPos(Slab!Geometry, pos) \in Nat
  BY SlabSlotOk DEF Slab!IInv
<1>4. cache \in Nat /\ slab_dev.quantum \in Nat /\ slab_defaults.quantum \in Nat /\ n \in Int
  BY DEF Slab!IInv, Slab!TypeInv
<1>5. Slab!QPos(Slab!Geometry, pos) + n <= slab_dev.quantum
  BY <1>3, <1>4
<1>6. cache # Slab!NoCache => slab_phase = "live"
  BY DEF Slab!IInv, Slab!TrimReaches
<1>7. slab_phase = "live" /\ ~raised => slab_dev.quantum <= cache
       /\ slab_defaults.quantum <= cache
  BY DEF Slab!IInv, Slab!Fits
<1>8. cache # Slab!NoCache /\ ~raised => ~beyond /\ ~(slab_defaults.quantum > cache)
  BY <1>3, <1>4, <1>5, <1>6, <1>7
<1> HIDE DEF new, beyond
<1>9. cache = Slab!NoCache => slab_phase = "devices"
  BY DEF Slab!IInv, Slab!TrimReaches, Slab!TypeInv
<1> QED
  BY <1>1, <1>2, <1>8, <1>9

LEMMA SlabWriteStep ==
  ASSUME Slab!IInv, slab_broken = "none", NEW p \in Procs, Slab!Write(p)
  PROVE  Slab!IInv'
<1>1. PICK pos \in 0..SlabMaxPos-1 :
        LET i == Slab!Item(Slab!Geometry, pos)
            list == Slab!Follow(i)
            slots == [list EXCEPT ![i] = IF @ = 0 THEN slab_dev.qset ELSE @]
        IN  \/ /\ slab_arrays' \in {list, slots}
               /\ UNCHANGED <<slab_dev, objects, slab_broken>> /\ Slab!Return(p)
            \/ \E n \in 0..slab_dev.quantum - Slab!QPos(Slab!Geometry, pos) :
                 /\ pos + n <= SlabMaxPos
                 /\ \/ Slab!Wrong(pos, n) # "none" /\ Slab!Break(Slab!Wrong(pos, n))
                    \/ /\ Slab!Wrong(pos, n) = "none" /\ UNCHANGED slab_broken
                       /\ slab_arrays' = slots
                       /\ objects' = objects \cup {<<i, Slab!Slot(Slab!Geometry, pos)>>}
                       /\ slab_dev' = [slab_dev EXCEPT !.size = IF n > 0
                           /\ pos + n > @ THEN pos + n ELSE @]
                       /\ Slab!Return(p)
  BY DEF Slab!Write
<1>2. pos \in Nat /\ slab_phase # "unloaded"
  BY PositionsAssumption DEF Slab!Write
<1>3. Slab!QPos(Slab!Geometry, pos) \in Nat /\ Slab!Slot(Slab!Geometry, pos) <= slab_dev.qset
  BY <1>2, SlabSlotOk DEF Slab!IInv
<1>4. slab_dev.quantum \in Nat /\ slab_dev.size \in Nat
  BY DEF Slab!IInv, Slab!TypeInv
<1>5. CASE UNCHANGED <<slab_dev, objects, slab_broken>> /\ Slab!Return(p)
  BY <1>5, SlabQuietStep DEF Slab!Return, Slab!load
<1>6. ASSUME NEW n \in 0..slab_dev.quantum - Slab!QPos(Slab!Geometry, pos),
                    Slab!Break(Slab!Wrong(pos, n))
      PROVE  Slab!IInv'
  BY <1>2, <1>6, SlabWrongWhy, SlabBreakStep
<1>7. ASSUME NEW n \in 0..slab_dev.quantum - Slab!QPos(Slab!Geometry, pos), Slab!Wrong(pos,
                    n) = "none",
             UNCHANGED slab_broken, Slab!Return(p),
             objects' = objects \cup {<<Slab!Item(Slab!Geometry, pos), Slab!Slot(Slab!Geometry,
              pos)>>},
             slab_dev' = [slab_dev EXCEPT !.size = IF n > 0 /\ pos + n > @ THEN pos + n ELSE @]
      PROVE  Slab!IInv'
  <2>1. UNCHANGED <<slab_phase, cache, slab_defaults, raised>> /\ slab_broken' = "none"
    BY <1>7 DEF Slab!Return, Slab!load
  <2>2. n \in Nat
    BY <1>3, <1>4
  <2>3. /\ slab_dev' \in [quantum : Nat \ {0}, qset : Nat \ {0}, size : Nat]
        /\ slab_dev'.quantum = slab_dev.quantum /\ slab_dev'.qset = slab_dev.qset
    BY <1>2, <1>4, <1>7, <2>2 DEF Slab!IInv, Slab!TypeInv
  <2>4. \A o \in objects' : o[2] <= slab_dev'.qset
    BY <1>3, <1>7, <2>3 DEF Slab!IInv, Slab!TrimReaches
  <2>5. ASSUME cache = Slab!NoCache PROVE FALSE
    <3>1. <<Slab!Item(Slab!Geometry, pos), Slab!Slot(Slab!Geometry, pos)>> \notin objects
      BY <2>5 DEF Slab!IInv, Slab!TrimReaches
    <3> QED
      BY <1>7, <2>5, <3>1 DEF Slab!Wrong
  <2>6. Slab!TypeInv' /\ Slab!TrimReaches'
    BY <2>1, <2>3, <2>4, <2>5 DEF Slab!IInv, Slab!TypeInv, Slab!TrimReaches
  <2> QED
    BY <2>1, <2>3, <2>6 DEF Slab!IInv, Slab!Fits, Slab!ObjectsLargeEnough,
       Slab!NoCacheWhileLoading
<1> QED
  BY <1>1, <1>5, <1>6, <1>7

LEMMA SlabNextIInv == ASSUME Slab!IInv, Slab!Next \/ UNCHANGED Slab!vars PROVE Slab!IInv'
<1>1. CASE UNCHANGED Slab!vars
  BY <1>1 DEF Slab!vars, Slab!load, Slab!device, Slab!IInv, Slab!TypeInv, Slab!TrimReaches,
     Slab!Fits, Slab!ObjectsLargeEnough,
          Slab!NoCacheWhileLoading
<1>2. ASSUME slab_broken = "none", Slab!ScullcInit \/ Slab!CreateCache
              \/ Slab!Cleanup PROVE Slab!IInv'
  BY <1>2, SlabLoadStep
<1>3. ASSUME slab_broken = "none", NEW p \in Procs,
             \/ Slab!Open(p) \/ Slab!Release(p) \/ Slab!Ioctl(p) \/ Slab!Begin(p)
                 \/ Slab!Interrupted(p)
             \/ Slab!Read(p) \/ Slab!Write(p) \/ Slab!DeferredOp(p) \/ Slab!Corrupt(p)
      PROVE  Slab!IInv'
  <2>1. CASE Slab!Release(p) \/ Slab!Begin(p) \/ Slab!DeferredOp(p)
    BY <1>3, <2>1, SlabQuietStep DEF Slab!Release, Slab!Begin, Slab!DeferredOp, Slab!load,
       Slab!device
  <2>2. CASE Slab!Interrupted(p)
    BY <1>3, <2>2, SlabQuietStep DEF Slab!Interrupted, Slab!Return, Slab!load, Slab!device
  <2>3. CASE Slab!Read(p)
    BY <1>3, <2>3, SlabQuietStep DEF Slab!Read, Slab!Return, Slab!load, Slab!device
  <2>4. CASE Slab!Corrupt(p)
    BY <2>4, SlabBreakStep DEF Slab!Corrupt
  <2> QED
    BY <1>3, <2>1, <2>2, <2>3, <2>4, SlabOpenStep, SlabIoctlStep, SlabWriteStep
<1> QED
  BY <1>1, <1>2, <1>3 DEF Slab!Next, Slab!Stop

LEMMA SlabIInvSafe == ASSUME Slab!IInv PROVE Slab!SlabSafe
BY DEF Slab!IInv, Slab!TrimReaches, Slab!SlabSafe, Slab!CacheIsEmpty

-----------------------------------------------------------------------------
(* scullp: the first item's order, and the pages that are mapped.          *)

LEMMA PageCardinality == \A S : Page!Cardinality(S) = Cardinality(S)
BY DEF Page!Cardinality, Cardinality

PageItemType == [order : Nat, slots : SUBSET Nat]
PageMapped == {p \in Procs : maps[p] # Page!NoMap}

LEMMA PageQuanta2 ==
  ASSUME NEW g, g.order \in Nat PROVE Page!Quantum(g) \in Nat \ {0}
BY DEF Page!Quantum, Page!Power2

LEMMA PagePlaces ==
  ASSUME NEW g \in [order : Nat, qset : Nat \ {0}], NEW pos \in Nat
  PROVE  Page!Item(g, pos) \in Nat \ {0} /\ Page!Slot(g, pos) \in Nat
<1>1. Page!Quantum(g) \in Nat \ {0} /\ g.qset \in Nat \ {0}
  BY PageQuanta2
<1> DEFINE k == Page!Quantum(g) * g.qset
           m == pos % k
<1>2. k \in Nat \ {0}
  BY <1>1
<1> HIDE DEF k
<1>3. pos \div k \in Nat /\ m \in Nat
  BY <1>2
<1> HIDE DEF m
<1>4. m \div Page!Quantum(g) \in Nat
  BY <1>1, <1>3
<1> QED
  BY <1>3, <1>4 DEF Page!Item, Page!Slot, k, m

\* scullp_follow lengthens the list, and leaves what it has.
LEMMA PageFollows ==
  ASSUME Page!TypeInv, NEW n \in Nat
  PROVE  /\ Page!Follow(n) \in Seq(PageItemType) /\ Len(Page!Follow(n)) \in Nat
         /\ n <= Len(Page!Follow(n)) /\ Len(items) <= Len(Page!Follow(n))
         /\ \A i \in 1..Len(items) : Page!Follow(n)[i] = items[i]
<1>1. items \in Seq(PageItemType)
  BY DEF Page!TypeInv, PageItemType
<1>2. Len(items) \in Nat /\ \A i \in 1..Len(items) : items[i] \in PageItemType
  BY <1>1
<1> DEFINE len == IF n > Len(items) THEN n ELSE Len(items)
<1>3. len \in Nat /\ n <= len /\ Len(items) <= len
  BY <1>2
<1>4. Page!Follow(n) = [i \in 1..len |-> IF i <= Len(items) THEN items[i] ELSE [order |-> 0,
       slots |-> {}]]
  BY DEF Page!Follow
<1> HIDE DEF len
<1>5. [order |-> 0, slots |-> {}] \in PageItemType
  BY DEF PageItemType
<1>6. \A i \in 1..len : (IF i <= Len(items) THEN items[i] ELSE [order |-> 0,
       slots |-> {}]) \in PageItemType
  BY <1>2, <1>3, <1>5
<1>7. Page!Follow(n) \in Seq(PageItemType) /\ Len(Page!Follow(n)) = len
  BY <1>3, <1>4, <1>6
<1>8. ASSUME NEW i \in 1..Len(items) PROVE Page!Follow(n)[i] = items[i]
  BY <1>2, <1>3, <1>4
<1> QED
  BY <1>3, <1>7, <1>8

LEMMA PageCounting ==
  /\ IsFiniteSet(PageMapped) /\ Cardinality(PageMapped) \in Nat
  /\ PageMapped # {} => Cardinality(PageMapped) > 0
<1>1. IsFiniteSet(PageMapped)
  BY ProcsAssumption, FS_Subset DEF PageMapped
<1> QED
  BY <1>1, FS_CardinalityType, FS_EmptySet

LEMMA PageResetIInv ==
  ASSUME Page!Reset, page_broken' # "overrun_in_the_first_item"
  PROVE  Page!IInv'
<1>1. /\ items' = <<[order |-> PageDefault.order, slots |-> {}]>> /\ geometry' = PageDefault
      /\ size' = 0 /\ page_defaults' = PageDefault /\ vmas' = 0
          /\ maps' = [p \in Procs |-> Page!NoMap]
  BY DEF Page!Reset, Page!First
<1>2. PageDefault.order \in Nat
  BY DefaultsPositive
<1>3. items' \in Seq(PageItemType) /\ Len(items') = 1 /\ items'[1].order = geometry'.order
  BY <1>1, <1>2 DEF PageItemType
<1>4. \A p \in Procs : maps'[p] = Page!NoMap
  BY <1>1
<1>5. Page!TypeInv'
  BY <1>1, <1>3, DefaultsPositive DEF Page!TypeInv, PageItemType
<1>6. Page!OrdersInv'
  BY <1>3, <1>4 DEF Page!OrdersInv
<1>7. PageMapped' = {} /\ Cardinality({}) = 0
  BY <1>4, FS_EmptySet DEF PageMapped
<1>8. Page!VmasCounted'
  BY <1>1, <1>7, PageCardinality DEF Page!VmasCounted, PageMapped
<1>9. Page!MappedPagesLive'
  BY <1>4 DEF Page!MappedPagesLive
<1> QED
  BY <1>5, <1>6, <1>8, <1>9 DEF Page!IInv, Page!PagesSafe, Page!OverrunsPastFirstItem

LEMMA PageInitIInv == ASSUME Page!Init PROVE Page!IInv
<1>1. /\ items = <<[order |-> PageDefault.order, slots |-> {}]>> /\ geometry = PageDefault
      /\ size = 0 /\ page_defaults = PageDefault /\ vmas = 0
          /\ maps = [p \in Procs |-> Page!NoMap]
      /\ page_broken = "none"
  BY DEF Page!Init, Page!First
<1>2. PageDefault.order \in Nat
  BY DefaultsPositive
<1>3. items \in Seq(PageItemType) /\ Len(items) = 1 /\ items[1].order = geometry.order
  BY <1>1, <1>2 DEF PageItemType
<1>4. \A p \in Procs : maps[p] = Page!NoMap
  BY <1>1
<1>5. Page!TypeInv
  BY <1>1, <1>3, DefaultsPositive DEF Page!TypeInv, PageItemType
<1>6. Page!OrdersInv
  BY <1>3, <1>4 DEF Page!OrdersInv
<1>7. PageMapped = {} /\ Cardinality({}) = 0
  BY <1>4, FS_EmptySet DEF PageMapped
<1>8. Page!VmasCounted
  BY <1>1, <1>7, PageCardinality DEF Page!VmasCounted, PageMapped
<1>9. Page!MappedPagesLive
  BY <1>4 DEF Page!MappedPagesLive
<1> QED
  BY <1>1, <1>5, <1>6, <1>8, <1>9 DEF Page!IInv, Page!PagesSafe, Page!OverrunsPastFirstItem

\* A step that leaves the mappings alone, and keeps or lengthens the items.
LEMMA PageItemsKept ==
  ASSUME Page!IInv, UNCHANGED <<geometry, page_defaults, vmas, maps, page_broken>>,
          size' \in Nat,
         items' \in Seq(PageItemType), Len(items) <= Len(items'),
         \A i \in 1..Len(items) :
           items'[i].order = items[i].order /\ items[i].slots \subseteq items'[i].slots
  PROVE  Page!IInv'
<1>1. Len(items) \in Nat /\ Len(items') \in Nat /\ Len(items) > 0
  BY DEF Page!IInv, Page!TypeInv, Page!OrdersInv
<1>2. Page!TypeInv'
  BY DEF Page!IInv, Page!TypeInv, PageItemType
<1>3. Page!OrdersInv'
  BY <1>1 DEF Page!IInv, Page!OrdersInv
<1>4. Page!VmasCounted' /\ Page!OverrunsPastFirstItem'
  BY PageCardinality DEF Page!IInv, Page!PagesSafe, Page!VmasCounted, Page!OverrunsPastFirstItem
<1>5. Page!MappedPagesLive'
  <2> SUFFICES ASSUME NEW p \in Procs, maps[p] # Page!NoMap
               PROVE  /\ vmas > 0 /\ (maps[p] # {} => geometry.order = 0)
                      /\ \A m \in maps[p] : m[1] <= Len(items') /\ m[2] \in items'[m[1]].slots
    BY DEF Page!MappedPagesLive
  <2>1. /\ vmas > 0 /\ (maps[p] # {} => geometry.order = 0)
        /\ \A m \in maps[p] : m[1] <= Len(items) /\ m[2] \in items[m[1]].slots
    BY DEF Page!IInv, Page!PagesSafe, Page!MappedPagesLive
  <2>2. \A m \in maps[p] : m[1] \in 1..Len(items)
    <3>1. maps[p] \subseteq (Nat \ {0}) \X Nat
      BY DEF Page!IInv, Page!OrdersInv
    <3> QED
      BY <1>1, <2>1, <3>1
  <2> QED
    BY <1>1, <2>1, <2>2
<1> QED
  BY <1>2, <1>3, <1>4, <1>5 DEF Page!IInv, Page!PagesSafe
-----------------------------------------------------------------------------
(* The operations of a file.                                               *)

LEMMA PageOpenStep ==
  ASSUME Page!IInv, page_broken = "none", NEW p \in Procs, Page!Open(p)
  PROVE  Page!IInv'
<1>1. UNCHANGED <<page_defaults, vmas, maps, page_broken>>
  BY DEF Page!Open
<1>2. CASE UNCHANGED Page!data
  BY <1>1, <1>2, PageCardinality DEF Page!data, Page!IInv, Page!TypeInv, Page!OrdersInv,
     Page!PagesSafe, Page!MappedPagesLive, Page!VmasCounted,
     Page!OverrunsPastFirstItem
<1>3. CASE ~Page!Busy /\ items' = Page!First(page_defaults) /\ geometry' = page_defaults
            /\ size' = 0
  <2>1. items' = <<[order |-> page_defaults.order, slots |-> {}]>>
    BY <1>3 DEF Page!First
  <2>2. page_defaults.order \in Nat
    BY DEF Page!IInv, Page!TypeInv
  <2>3. items' \in Seq(PageItemType) /\ Len(items') = 1 /\ items'[1].order = geometry'.order
    BY <1>3, <2>1, <2>2 DEF PageItemType
  <2>4. \A q \in Procs : maps[q] = Page!NoMap
    BY <1>3 DEF Page!Busy, Page!IInv, Page!PagesSafe, Page!MappedPagesLive
  <2>5. Page!TypeInv'
    BY <1>1, <1>3, <2>3 DEF Page!IInv, Page!TypeInv, PageItemType
  <2>6. Page!OrdersInv'
    BY <1>1, <2>3, <2>4 DEF Page!OrdersInv
  <2>7. Page!MappedPagesLive'
    BY <1>1, <2>4 DEF Page!MappedPagesLive
  <2> QED
    BY <1>1, <2>5, <2>6, <2>7, PageCardinality DEF Page!IInv, Page!PagesSafe, Page!VmasCounted,
       Page!OverrunsPastFirstItem
<1> QED
  BY <1>2, <1>3 DEF Page!Open, Page!Trim

LEMMA PageIoctlStep ==
  ASSUME Page!IInv, page_broken = "none", NEW p \in Procs, Page!Ioctl(p)
  PROVE  Page!IInv'
<1>1. UNCHANGED <<items, geometry, size, vmas, maps, page_broken>>
  BY DEF Page!Ioctl, Page!data
<1>2. page_defaults' \in [order : Nat, qset : Nat \ {0}]
  <2>1. page_defaults \in [order : Nat, qset : Nat \ {0}]
    BY DEF Page!IInv, Page!TypeInv
  <2> QED
    BY <2>1, OrderAssumption, DefaultsPositive DEF Page!Ioctl
<1>3. Page!TypeInv'
  BY <1>1, <1>2 DEF Page!IInv, Page!TypeInv
<1> QED
  BY <1>1, <1>3, PageCardinality DEF Page!IInv, Page!OrdersInv, Page!PagesSafe,
     Page!MappedPagesLive, Page!VmasCounted, Page!OverrunsPastFirstItem

LEMMA PageReadStep ==
  ASSUME Page!IInv, page_broken = "none", NEW p \in Procs, Page!Read(p)
  PROVE  Page!IInv'
<1>1. UNCHANGED <<geometry, page_defaults, vmas, maps, page_broken, size>>
  BY DEF Page!Read, Page!Return
<1>2. items \in Seq(PageItemType) /\ Len(items) \in Nat /\ size \in Nat
  BY DEF Page!IInv, Page!TypeInv, PageItemType
<1>3. CASE items' = items
  <2>1. items' \in Seq(PageItemType) /\ Len(items) <= Len(items')
    BY <1>2, <1>3
  <2>2. \A i \in 1..Len(items) :
          items'[i].order = items[i].order /\ items[i].slots \subseteq items'[i].slots
    BY <1>3
  <2> QED
    BY <1>1, <1>2, <2>1, <2>2, PageItemsKept
<1>4. ASSUME NEW pos \in 0..size, items' = Page!Follow(Page!Item(geometry,
                      pos)) PROVE Page!IInv'
  <2>1. Page!Item(geometry, pos) \in Nat
    <3>1. pos \in Nat /\ geometry \in [order : Nat, qset : Nat \ {0}]
      BY <1>2 DEF Page!IInv, Page!TypeInv
    <3> QED
      BY <3>1, PagePlaces
  <2>2. /\ items' \in Seq(PageItemType) /\ Len(items) <= Len(items')
        /\ \A i \in 1..Len(items) : items'[i] = items[i]
    BY <1>4, <2>1, PageFollows DEF Page!IInv
  <2> QED
    BY <1>1, <1>2, <2>2, PageItemsKept
<1> QED
  BY <1>3, <1>4 DEF Page!Read

LEMMA PageWriteStep ==
  ASSUME Page!IInv, page_broken = "none", NEW p \in Procs, Page!Write(p)
  PROVE  Page!IInv'
<1>1. PICK pos \in 0..SlabMaxPos-1 :
        LET i == Page!Item(geometry, pos)
            s == Page!Slot(geometry, pos)
            list == Page!Follow(i)
        IN  \/ items' = list /\ UNCHANGED size /\ Page!Return(p)
            \/ \E n \in 0..Page!Quantum(geometry) - Page!QPos(geometry, pos) :
                 /\ pos + n <= SlabMaxPos
                 /\ Page!QPos(geometry, pos) + n <= Page!Power2(Page!BlockOrder(list[i]))
                 /\ items' = [list EXCEPT ![i].slots = @ \cup {s}]
                 /\ size' = IF n > 0 /\ pos + n > size THEN pos + n ELSE size
                 /\ Page!Return(p)
  BY DEF Page!Write
<1>2. Page!Return(p) => UNCHANGED <<geometry, page_defaults, vmas, maps, page_broken>>
  BY DEF Page!Return
<1>3. items \in Seq(PageItemType) /\ Len(items) \in Nat /\ size \in Nat
  BY DEF Page!IInv, Page!TypeInv, PageItemType
<1>4. pos \in Nat
  BY PositionsAssumption
<1> DEFINE i == Page!Item(geometry, pos)
           s == Page!Slot(geometry, pos)
           list == Page!Follow(i)
<1>5. i \in Nat \ {0} /\ s \in Nat
  BY <1>4, PagePlaces DEF Page!IInv, Page!TypeInv
<1> HIDE DEF i, s
<1>6. /\ list \in Seq(PageItemType) /\ Len(list) \in Nat /\ i <= Len(list)
          /\ Len(items) <= Len(list)
      /\ \A j \in 1..Len(items) : list[j] = items[j]
  BY <1>5, PageFollows DEF Page!IInv
<1> HIDE DEF list
<1>7. CASE items' = list /\ UNCHANGED size /\ Page!Return(p)
  BY <1>2, <1>3, <1>6, <1>7, PageItemsKept
<1>8. ASSUME NEW n \in 0..Page!Quantum(geometry) - Page!QPos(geometry, pos),
             items' = [list EXCEPT ![i].slots = @ \cup {s}],
             size' = IF n > 0 /\ pos + n > size THEN pos + n ELSE size,
             Page!Return(p)
      PROVE  Page!IInv'
  <2>1. i \in 1..Len(list) /\ list[i] \in PageItemType
    BY <1>5, <1>6
  <2> DEFINE e == [list[i] EXCEPT !.slots = @ \cup {s}]
  <2>2. e \in PageItemType /\ e.order = list[i].order /\ list[i].slots \subseteq e.slots
    BY <1>5, <2>1 DEF PageItemType
  <2>3. items' = [list EXCEPT ![i] = e]
    BY <1>8
  <2> HIDE DEF e
  <2>4. /\ items' \in Seq(PageItemType) /\ Len(items') = Len(list)
        /\ \A j \in 1..Len(list) : items'[j] = IF j = i THEN e ELSE list[j]
    BY <1>6, <2>1, <2>2, <2>3, ExceptSeq
  <2>5. \A j \in 1..Len(items) : j \in 1..Len(list)
    BY <1>3, <1>6
  <2>6. \A j \in 1..Len(items) :
          items'[j].order = items[j].order /\ items[j].slots \subseteq items'[j].slots
    BY <1>6, <2>2, <2>4, <2>5
  <2>7. Len(items) <= Len(items')
    BY <1>6, <2>4
  <2>8. size' \in Nat
    <3>1. Page!Quantum(geometry) \in Nat \ {0}
      BY PageQuanta2 DEF Page!IInv, Page!TypeInv
    <3>2. Page!QPos(geometry, pos) \in Nat
      BY <1>4, <3>1 DEF Page!QPos
    <3>3. n \in Nat
      BY <3>1, <3>2
    <3> QED
      BY <1>3, <1>4, <1>8, <3>3
  <2> QED
    BY <1>2, <1>8, <2>4, <2>6, <2>7, <2>8, PageItemsKept
<1> QED
  BY <1>1, <1>7, <1>8 DEF i, s, list

\* The block of the first item has the device's order.
LEMMA PageBreakStep ==
  ASSUME Page!IInv, page_broken = "none", NEW p \in Procs, Page!Corrupt(p) \/ Page!Overrun(p)
  PROVE  Page!IInv'
<1>1. CASE Page!Corrupt(p)
  BY <1>1, PageResetIInv DEF Page!Corrupt, Page!Break
<1>2. CASE Page!Overrun(p)
  <2>1. PICK pos \in 0..SlabMaxPos-1 :
          LET i == Page!Item(geometry, pos)
          IN  /\ Page!Quantum(geometry) > Page!Power2(Page!BlockOrder(Page!Follow(i)[i]))
              /\ Page!Break(IF i = 1 THEN "overrun_in_the_first_item" ELSE "overrun")
    BY <1>2 DEF Page!Overrun
  <2>2. Page!Item(geometry, pos) # 1
    <3> SUFFICES ASSUME Page!Item(geometry, pos) = 1
                 PROVE  FALSE
      OBVIOUS
    <3>1. 1 \in 1..Len(items)
      BY DEF Page!IInv, Page!TypeInv, Page!OrdersInv
    <3>2. Page!Follow(1)[1] = items[1] /\ items[1].order = geometry.order
      BY <3>1, PageFollows DEF Page!IInv, Page!OrdersInv
    <3>3. Page!Quantum(geometry) > Page!Quantum(geometry)
      BY <2>1, <3>2 DEF Page!BlockOrder, Page!Quantum
    <3>4. Page!Quantum(geometry) \in Nat \ {0}
      BY PageQuanta2 DEF Page!IInv, Page!TypeInv
    <3> QED
      BY <3>3, <3>4
  <2>3. Page!Break("overrun")
    BY <2>1, <2>2
  <2> QED
    BY <2>3, PageResetIInv DEF Page!Break
<1> QED
  BY <1>1, <1>2

-----------------------------------------------------------------------------
(* The mappings.                                                           *)

LEMMA PageMapSteps ==
  ASSUME Page!IInv, page_broken = "none", NEW p \in Procs,
         Page!Mmap(p) \/ Page!VmaClose(p) \/ Page!Nopage(p)
          \/ \E q \in Procs : Page!VmaOpen(p, q)
  PROVE  Page!IInv'
<1>1. UNCHANGED <<items, geometry, size, page_defaults, page_broken>>
  BY DEF Page!Mmap, Page!VmaClose, Page!Nopage, Page!VmaOpen, Page!data
<1>2. /\ DOMAIN maps = Procs /\ Len(items) \in Nat /\ vmas = Cardinality(PageMapped)
      /\ geometry.qset \in Nat \ {0} /\ size \in Nat
  BY PageCardinality DEF Page!IInv, Page!TypeInv, Page!PagesSafe, Page!VmasCounted, PageMapped
<1>3. \A q \in Procs : maps[q] # Page!NoMap =>
        /\ geometry.order = 0 /\ maps[q] \subseteq (Nat \ {0}) \X Nat
        /\ \A m \in maps[q] : m[1] <= Len(items) /\ m[2] \in items[m[1]].slots
  BY DEF Page!IInv, Page!OrdersInv, Page!PagesSafe, Page!MappedPagesLive
<1>4. ASSUME NEW q \in Procs, NEW new, maps' = [maps EXCEPT ![q] = new],
             vmas' = Cardinality(PageMapped'),
             new # Page!NoMap => /\ geometry.order = 0 /\ new \subseteq (Nat \ {0}) \X Nat
                            /\ \A m \in new : m[1] <= Len(items) /\ m[2] \in items[m[1]].slots
      PROVE  Page!IInv'
  <2>1. \A r \in Procs : maps'[r] # Page!NoMap =>
          /\ geometry.order = 0 /\ maps'[r] \subseteq (Nat \ {0}) \X Nat
          /\ \A m \in maps'[r] : m[1] <= Len(items) /\ m[2] \in items[m[1]].slots
    BY <1>2, <1>3, <1>4
  <2>2. Page!TypeInv'
    BY <1>1, <1>4 DEF Page!IInv, Page!TypeInv
  <2>3. Page!OrdersInv'
    BY <1>1, <2>1 DEF Page!IInv, Page!OrdersInv
  <2>4. Page!VmasCounted' /\ Page!OverrunsPastFirstItem'
    BY <1>1, <1>4, PageCardinality DEF Page!IInv, Page!PagesSafe, Page!VmasCounted, PageMapped,
       Page!OverrunsPastFirstItem
  <2>5. \A r \in Procs : maps'[r] # Page!NoMap => vmas' > 0
    <3>1. PageMapped' \subseteq Procs /\ IsFiniteSet(PageMapped')
      BY ProcsAssumption, FS_Subset DEF PageMapped
    <3>2. Cardinality(PageMapped') \in Nat /\ (Cardinality(PageMapped') = 0 => PageMapped' = {})
      BY <3>1, FS_CardinalityType, FS_EmptySet
    <3> QED
      BY <1>4, <3>2 DEF PageMapped
  <2>6. Page!MappedPagesLive'
    BY <1>1, <2>1, <2>5 DEF Page!MappedPagesLive
  <2> QED
    BY <2>2, <2>3, <2>4, <2>6 DEF Page!IInv, Page!PagesSafe
<1>5. {} # Page!NoMap
  BY DEF Page!NoMap
<1>6. ASSUME NEW q \in Procs, NEW new, maps[q] = Page!NoMap, new # Page!NoMap, Page!VmaOpened,
             maps' = [maps EXCEPT ![q] = new]
      PROVE  vmas' = Cardinality(PageMapped')
  <2>1. PageMapped' = PageMapped \cup {q} /\ q \notin PageMapped
    BY <1>2, <1>6 DEF PageMapped
  <2> QED
    BY <1>2, <1>6, <2>1, PageCounting, FS_AddElement DEF Page!VmaOpened
<1>7. CASE Page!Mmap(p)
  BY <1>4, <1>5, <1>6, <1>7 DEF Page!Mmap
<1>8. ASSUME NEW q \in Procs, Page!VmaOpen(p, q) PROVE Page!IInv'
  BY <1>3, <1>4, <1>6, <1>8 DEF Page!VmaOpen
<1>9. CASE Page!VmaClose(p)
  <2>1. PageMapped' = PageMapped \ {p} /\ p \in PageMapped
         /\ maps' = [maps EXCEPT ![p] = Page!NoMap]
    BY <1>2, <1>9 DEF PageMapped, Page!VmaClose
  <2>2. vmas' = Cardinality(PageMapped')
    BY <1>2, <1>9, <2>1, PageCounting, FS_RemoveElement DEF Page!VmaClose, Page!VmaClosed
  <2> QED
    BY <1>4, <2>1, <2>2
<1>10. CASE Page!Nopage(p)
  <2>1. PICK offset \in 0..size-1 :
          LET i == offset \div geometry.qset + 1
              s == (offset % geometry.qset) + 1
          IN  /\ i <= Len(items) /\ s \in items[i].slots
              /\ maps' = [maps EXCEPT ![p] = @ \cup {<<i, s>>}]
    BY <1>10 DEF Page!Nopage
  <2> DEFINE i == offset \div geometry.qset + 1
             s == (offset % geometry.qset) + 1
  <2>2. i \in Nat \ {0} /\ s \in Nat
    BY <1>2
  <2>3. /\ i <= Len(items) /\ s \in items[i].slots
        /\ maps' = [maps EXCEPT ![p] = maps[p] \cup {<<i, s>>}]
    BY <2>1
  <2> HIDE DEF i, s
  <2>4. maps[p] # Page!NoMap /\ UNCHANGED vmas
    BY <1>10 DEF Page!Nopage
  <2> DEFINE new == maps[p] \cup {<<i, s>>}
  <2>5. /\ geometry.order = 0 /\ new \subseteq (Nat \ {0}) \X Nat
        /\ \A m \in new : m[1] <= Len(items) /\ m[2] \in items[m[1]].slots
    BY <1>3, <2>2, <2>3, <2>4
  <2>6. new # Page!NoMap
    <3>1. <<0, 0>> \notin (Nat \ {0}) \X Nat /\ <<0, 0>> \in Page!NoMap
      BY DEF Page!NoMap
    <3> HIDE DEF new
    <3> QED
      BY <2>5, <3>1
  <2>7. PageMapped' = PageMapped
    BY <1>2, <2>3, <2>4, <2>6 DEF PageMapped
  <2> HIDE DEF new
  <2>8. maps' = [maps EXCEPT ![p] = new]
    BY <2>3 DEF new
  <2>9. vmas' = Cardinality(PageMapped')
    BY <1>2, <2>4, <2>7
  <2> QED
    BY <1>4, <2>5, <2>8, <2>9
<1> QED
  BY <1>7, <1>8, <1>9, <1>10

LEMMA PageQuietStep ==
  ASSUME Page!IInv, UNCHANGED <<items, geometry, size, page_defaults, vmas, maps, page_broken>>
  PROVE  Page!IInv'
BY PageCardinality DEF Page!IInv, Page!TypeInv, Page!OrdersInv, Page!PagesSafe,
   Page!MappedPagesLive, Page!VmasCounted, Page!OverrunsPastFirstItem

LEMMA PageNextIInv == ASSUME Page!IInv, Page!Next \/ UNCHANGED Page!vars PROVE Page!IInv'
<1>1. CASE UNCHANGED Page!vars
  BY <1>1, PageQuietStep DEF Page!vars, Page!data
<1>2. ASSUME page_broken = "none", Page!Reload PROVE Page!IInv'
  BY <1>2, PageResetIInv DEF Page!Reload
<1>3. ASSUME page_broken = "none", NEW p \in Procs,
             \/ Page!Open(p) \/ Page!Release(p) \/ Page!Ioctl(p)
             \/ Page!Begin(p, "reading") \/ Page!Begin(p, "writing") \/ Page!Interrupted(p)
             \/ Page!Corrupt(p) \/ Page!Read(p) \/ Page!Write(p) \/ Page!Overrun(p)
                 \/ Page!DeferredOp(p)
             \/ Page!Mmap(p) \/ Page!VmaClose(p) \/ Page!Nopage(p)
             \/ \E q \in Procs : Page!VmaOpen(p, q)
      PROVE  Page!IInv'
  <2>1. CASE Page!Release(p) \/ Page!Begin(p, "reading") \/ Page!Begin(p, "writing")
              \/ Page!Interrupted(p) \/ Page!DeferredOp(p)
    BY <2>1, PageQuietStep DEF Page!Release, Page!Begin, Page!Interrupted, Page!DeferredOp,
       Page!data
  <2> QED
    BY <1>3, <2>1, PageOpenStep, PageIoctlStep, PageReadStep, PageWriteStep, PageBreakStep,
       PageMapSteps
<1> QED
  BY <1>1, <1>2, <1>3 DEF Page!Next, Page!Stop

LEMMA PageIInvSafe == ASSUME Page!IInv PROVE Page!PagesSafe
BY DEF Page!IInv

-----------------------------------------------------------------------------
(* scull's memory device: where a position is.                             *)

LEMMA MemDivMod ==
  ASSUME NEW a \in Nat, NEW b \in Nat \ {0}
  PROVE  /\ a \div b \in Nat /\ a % b \in 0..b-1
         /\ a = b * (a \div b) + (a % b)
OBVIOUS

LEMMA MemMultiples ==
  ASSUME NEW b \in Nat \ {0}, NEW k \in Int, NEW l \in Int, k < l
  PROVE  b * k + b <= b * l
<1>1. l - k \in Nat \ {0}
  OBVIOUS
<1> DEFINE d == l - k
<1>2. b * d >= b
  <2> HIDE DEF d
  <2> QED  BY <1>1 DEF d
<1>3. b * l = b * k + b * d
  OBVIOUS
<1> QED
  BY <1>2, <1>3

LEMMA MemDivUnique ==
  ASSUME NEW b \in Nat \ {0}, NEW k \in Nat, NEW r \in 0..b-1
  PROVE  (b * k + r) \div b = k /\ (b * k + r) % b = r
<1> DEFINE a == b * k + r
           l == a \div b
           m == a % b
<1>0. a \in Nat
  OBVIOUS
<1>1. l \in Nat /\ m \in 0..b-1 /\ a = b * l + m
  <2> HIDE DEF a
  <2> QED  BY <1>0, MemDivMod
<1>2. b * k + r = b * l + m
  BY <1>1
<1> HIDE DEF a, l, m
<1>3. ~(k < l)
  BY <1>1, <1>2, MemMultiples
<1>4. ~(l < k)
  BY <1>1, <1>2, MemMultiples
<1>5. k = l
  BY <1>1, <1>3, <1>4
<1>6. r = m
  BY <1>1, <1>2, <1>5
<1> QED
  BY <1>5, <1>6 DEF a, l, m

\* Item, pointer and byte determine the position, and are in their ranges.
LEMMA MemPlaces ==
  ASSUME NEW q \in Nat \ {0}, NEW s \in Nat \ {0}, NEW pos \in Nat
  PROVE  /\ pos \div (q * s) = (pos \div q) \div s
         /\ (pos % (q * s)) \div q = (pos \div q) % s
<1> DEFINE k == pos \div q
           r == pos % q
           A == k \div s
           B == k % s
<1>1. k \in Nat /\ r \in 0..q-1 /\ pos = q * k + r
  BY MemDivMod
<1>2. A \in Nat /\ B \in 0..s-1 /\ k = s * A + B
  <2> HIDE DEF k
  <2> QED  BY <1>1, MemDivMod
<1> HIDE DEF k, r, A, B
<1>3. B \in Nat /\ r \in Nat /\ B + 1 <= s
  BY <1>1, <1>2
<1>4. q * B + q <= q * s
  BY <1>2, <1>3, MemMultiples
<1> DEFINE rest == q * B + r
<1>5. rest \in Nat
  BY <1>3
<1>6. rest <= q * s - 1
  BY <1>1, <1>3, <1>4
<1>7. q * s \in Nat \ {0}
  OBVIOUS
<1>8. pos = (q * s) * A + rest
  BY <1>1, <1>2, <1>3
<1>9. rest \div q = B
  BY <1>1, <1>3, MemDivUnique
<1> HIDE DEF rest
<1> DEFINE w == q * s
<1> HIDE DEF w
<1>10. w \in Nat \ {0} /\ rest \in 0..w-1 /\ pos = w * A + rest
  BY <1>5, <1>6, <1>7, <1>8 DEF w
<1>11. pos \div w = A /\ pos % w = rest
  BY <1>2, <1>10, MemDivUnique
<1> QED
  BY <1>9, <1>11 DEF w, A, B, k

MemShapes == [quantum : Nat \ {0}, qset : Nat \ {0}]

LEMMA MemLocated ==
  ASSUME NEW g \in MemShapes, NEW pos \in Nat
  PROVE  /\ Mem!Item(g, pos) = (pos \div g.quantum) \div g.qset + 1
         /\ Mem!Slot(g, pos) = ((pos \div g.quantum) % g.qset) + 1
         /\ Mem!Item(g, pos) \in Nat \ {0} /\ Mem!Slot(g, pos) \in 1..g.qset
         /\ Mem!Offset(g, pos) \in 1..g.quantum
         /\ Mem!LeftInQuantum(g, pos) = g.quantum - Mem!Offset(g, pos) + 1
<1>1. g.quantum \in Nat \ {0} /\ g.qset \in Nat \ {0}
  BY DEF MemShapes
<1>2. Mem!Item(g, pos) = (pos \div g.quantum) \div g.qset + 1
  BY <1>1, MemPlaces DEF Mem!Item
<1>3. Mem!Slot(g, pos) = ((pos \div g.quantum) % g.qset) + 1
  BY <1>1, MemPlaces DEF Mem!Slot
<1> DEFINE k == pos \div g.quantum
           r == pos % g.quantum
<1>4. k \in Nat /\ r \in 0..g.quantum-1
  BY <1>1, MemDivMod
<1>5. Mem!Offset(g, pos) = r + 1 /\ Mem!LeftInQuantum(g, pos) = g.quantum - r
  BY DEF Mem!Offset, Mem!LeftInQuantum
<1>6. Mem!Item(g, pos) = k \div g.qset + 1 /\ Mem!Slot(g, pos) = (k % g.qset) + 1
  BY <1>2, <1>3
<1> HIDE DEF k, r
<1>7. k \div g.qset \in Nat /\ k % g.qset \in 0..g.qset-1
  BY <1>1, <1>4, MemDivMod
<1>8. Mem!Item(g, pos) \in Nat \ {0} /\ Mem!Slot(g, pos) \in 1..g.qset
  BY <1>1, <1>6, <1>7
<1>9. Mem!Offset(g, pos) \in 1..g.quantum
       /\ Mem!LeftInQuantum(g, pos) = g.quantum - Mem!Offset(g, pos) + 1
  BY <1>1, <1>4, <1>5
<1> QED
  BY <1>2, <1>3, <1>8, <1>9

\* The n positions from pos, when they fit in its quantum, are the bytes of
\* that quantum from its offset.
LEMMA MemNeighbours ==
  ASSUME NEW g \in MemShapes, NEW pos \in Nat, NEW n \in 0..Mem!LeftInQuantum(g, pos),
                NEW p \in Nat
  PROVE  /\ p \in pos..pos+n-1 <=>
              /\ Mem!Item(g, p) = Mem!Item(g, pos) /\ Mem!Slot(g, p) = Mem!Slot(g, pos)
              /\ Mem!Offset(g, p) \in Mem!Offset(g, pos)..Mem!Offset(g, pos)+n-1
         /\ Mem!Item(g, p) = Mem!Item(g, pos) /\ Mem!Slot(g, p) = Mem!Slot(g, pos) =>
              Mem!Offset(g, p) - Mem!Offset(g, pos) = p - pos
<1>1. g.quantum \in Nat \ {0} /\ g.qset \in Nat \ {0}
  BY DEF MemShapes
<1> DEFINE q == g.quantum
           k == pos \div q
           r == pos % q
           l == p \div q
           t == p % q
<1>2. k \in Nat /\ r \in 0..q-1 /\ pos = q * k + r
  BY <1>1, MemDivMod
<1>3. l \in Nat /\ t \in 0..q-1 /\ p = q * l + t
  BY <1>1, MemDivMod
<1>4. Mem!Offset(g, pos) = r + 1 /\ Mem!Offset(g, p) = t + 1
       /\ Mem!LeftInQuantum(g, pos) = q - r
  BY DEF Mem!Offset, Mem!LeftInQuantum
<1>5. /\ Mem!Item(g, pos) = k \div g.qset + 1 /\ Mem!Slot(g, pos) = (k % g.qset) + 1
      /\ Mem!Item(g, p) = l \div g.qset + 1 /\ Mem!Slot(g, p) = (l % g.qset) + 1
  BY MemLocated
<1>6. k = l =>
        Mem!Item(g, p) = Mem!Item(g, pos) /\ Mem!Slot(g, p) = Mem!Slot(g, pos)
  BY <1>5
<1> HIDE DEF k, r, l, t
<1>7. ASSUME Mem!Item(g, p) = Mem!Item(g, pos), Mem!Slot(g, p) = Mem!Slot(g, pos) PROVE k = l
  <2>1. k = g.qset * (k \div g.qset) + (k % g.qset)
    BY <1>1, <1>2, MemDivMod
  <2>2. l = g.qset * (l \div g.qset) + (l % g.qset)
    BY <1>1, <1>3, MemDivMod
  <2>3. /\ k \div g.qset \in Nat /\ k % g.qset \in Nat
        /\ l \div g.qset \in Nat /\ l % g.qset \in Nat
    <3>1. k \div g.qset \in Nat /\ k % g.qset \in 0..g.qset-1
      BY <1>1, <1>2, MemDivMod
    <3>2. l \div g.qset \in Nat /\ l % g.qset \in 0..g.qset-1
      BY <1>1, <1>3, MemDivMod
    <3> QED
      BY <1>1, <3>1, <3>2
  <2>4. k \div g.qset = l \div g.qset /\ k % g.qset = l % g.qset
    BY <1>5, <1>7, <2>3
  <2> QED
    BY <2>1, <2>2, <2>4
<1>8. ASSUME k = l PROVE p - pos = t - r
  BY <1>1, <1>2, <1>3, <1>8
<1>9. ASSUME p \in pos..pos+n-1 PROVE k = l
  <2>1. p - pos \in 0..n-1 /\ n \in 0..q-r
    BY <1>4, <1>9
  <2> DEFINE u == r + (p - pos)
  <2>2. u \in 0..q-1
    BY <1>1, <1>2, <2>1
  <2>3. p = q * k + u
    BY <1>1, <1>2
  <2> HIDE DEF u
  <2>4. p \div q = k
    BY <1>1, <1>2, <2>2, <2>3, MemDivUnique
  <2> QED
    BY <2>4 DEF l
<1>10. ASSUME k = l PROVE t + 1 \in r+1..r+1+n-1 <=> p \in pos..pos+n-1
  BY <1>2, <1>3, <1>4, <1>8, <1>10
<1>11. ASSUME k = l PROVE Mem!Offset(g, p) - Mem!Offset(g, pos) = p - pos
  BY <1>2, <1>3, <1>4, <1>8, <1>11
<1> QED
  BY <1>4, <1>6, <1>7, <1>9, <1>10, <1>11

-----------------------------------------------------------------------------
(* scull's memory device: what the list of list holds.                    *)

LEMMA MemNotEmpty ==
  ASSUME NEW n \in Nat \ {0}, NEW S, NEW f \in [1..n -> S]
  PROVE  f # <<>>
<1>1. DOMAIN f # {}
  OBVIOUS
<1>2. DOMAIN <<>> = {}
  OBVIOUS
<1> QED
  BY <1>1, <1>2

LEMMA MemParts ==
  ASSUME NEW g \in MemShapes, NEW list \in Seq(Mem!Arrays(g)),
         NEW i \in 1..Len(list), list[i] # <<>>, NEW s \in 1..g.qset
  PROVE  /\ list[i] \in [1..g.qset -> Mem!Quantums(g)]
         /\ list[i][s] \in Mem!Quantums(g)
         /\ list[i][s] # <<>> => list[i][s] \in [1..g.quantum -> Bytes \cup {Junk}]
<1>1. list[i] \in Mem!Arrays(g)
  BY ElementOfSeq
<1>2. list[i] \in [1..g.qset -> Mem!Quantums(g)]
  BY <1>1 DEF Mem!Arrays
<1>3. list[i][s] \in Mem!Quantums(g)
  BY <1>2
<1> QED
  BY <1>2, <1>3 DEF Mem!Quantums

\* The bytes of a position depend on its item only.
LEMMA MemSameItem ==
  ASSUME NEW g, NEW p, NEW old, NEW new,
         Mem!Item(g, p) > Len(new) <=> Mem!Item(g, p) > Len(old),
         ~(Mem!Item(g, p) > Len(old)) => new[Mem!Item(g, p)] = old[Mem!Item(g, p)]
  PROVE  Mem!ByteAt(new, g, p) = Mem!ByteAt(old, g, p)
<1>1. CASE Mem!Item(g, p) > Len(old)
  BY <1>1 DEF Mem!ByteAt
<1>2. CASE ~(Mem!Item(g, p) > Len(old))
  BY <1>2 DEF Mem!ByteAt
<1> QED
  BY <1>1, <1>2

\* scull_follow lengthens the list, and leaves its bytes.
LEMMA MemFollows ==
  ASSUME NEW g \in MemShapes, NEW list \in Seq(Mem!Arrays(g)), NEW n \in Nat
  PROVE  /\ Mem!Follow(list, n) \in Seq(Mem!Arrays(g)) /\ n <= Len(Mem!Follow(list, n))
         /\ \A p \in Nat : Mem!ByteAt(Mem!Follow(list, n), g, p) = Mem!ByteAt(list, g, p)
<1> DEFINE len == IF n > Len(list) THEN n ELSE Len(list)
           new == Mem!Follow(list, n)
<1>1. Len(list) \in Nat /\ list \in [1..Len(list) -> Mem!Arrays(g)]
  BY LenProperties
<1>2. len \in Nat /\ n <= len /\ Len(list) <= len
  BY <1>1
<1>3. new = [i \in 1..len |-> IF i <= Len(list) THEN list[i] ELSE <<>>]
  BY DEF Mem!Follow
<1> HIDE DEF len, new
<1>4. <<>> \in Mem!Arrays(g)
  BY DEF Mem!Arrays
<1>5. \A i \in 1..len : (IF i <= Len(list) THEN list[i] ELSE <<>>) \in Mem!Arrays(g)
  BY <1>1, <1>4
<1>6. new \in Seq(Mem!Arrays(g)) /\ Len(new) = len
  BY <1>2, <1>3, <1>5
<1>7. ASSUME NEW p \in Nat PROVE Mem!ByteAt(new, g, p) = Mem!ByteAt(list, g, p)
  <2> DEFINE i == Mem!Item(g, p)
  <2>1. i \in Nat \ {0}
    BY MemLocated
  <2> HIDE DEF i
  <2>2. CASE i <= Len(list)
    <3>1. new[i] = list[i] /\ ~(i > Len(list)) /\ ~(i > Len(new))
      BY <1>1, <1>2, <1>3, <1>6, <2>1, <2>2
    <3> QED
      BY <3>1, MemSameItem DEF i
  <2>3. CASE i > Len(list) /\ i <= len
    <3>1. new[i] = <<>>
      BY <1>1, <1>2, <1>3, <2>1, <2>3
    <3> QED
      BY <2>3, <3>1 DEF Mem!ByteAt, i
  <2>4. CASE i > Len(list) /\ i > len
    BY <1>6, <2>4 DEF Mem!ByteAt, i
  <2> QED
    BY <1>1, <1>2, <2>1, <2>2, <2>3, <2>4
<1> QED
  BY <1>2, <1>6, <1>7 DEF new

\* A new array, whose pointers are NULL, leaves the bytes.
LEMMA MemArrayed ==
  ASSUME NEW g \in MemShapes, NEW list \in Seq(Mem!Arrays(g)), NEW i \in 1..Len(list)
  PROVE  /\ Mem!WithArray(list, i, g) \in Seq(Mem!Arrays(g))
         /\ Len(Mem!WithArray(list, i, g)) = Len(list)
         /\ Mem!WithArray(list, i, g)[i] # <<>>
         /\ \A p \in Nat : Mem!ByteAt(Mem!WithArray(list, i, g), g, p) = Mem!ByteAt(list, g, p)
<1> DEFINE array == [s \in 1..g.qset |-> <<>>]
           new == Mem!WithArray(list, i, g)
<1>1. CASE list[i] # <<>>
  BY <1>1 DEF Mem!WithArray
<1>2. CASE list[i] = <<>>
  <2>1. new = [list EXCEPT ![i] = array]
    BY <1>2 DEF Mem!WithArray
  <2>2. array \in [1..g.qset -> Mem!Quantums(g)]
    BY DEF Mem!Quantums
  <2>3. array \in Mem!Arrays(g) /\ array # <<>>
    BY <2>2, MemNotEmpty DEF Mem!Arrays, MemShapes
  <2>4. \A s \in 1..g.qset : array[s] = <<>>
    OBVIOUS
  <2> HIDE DEF array, new
  <2>5. /\ new \in Seq(Mem!Arrays(g)) /\ Len(new) = Len(list)
        /\ \A j \in 1..Len(list) : new[j] = IF j = i THEN array ELSE list[j]
    BY <2>1, <2>3, ExceptSeq
  <2>6. ASSUME NEW p \in Nat PROVE Mem!ByteAt(new, g, p) = Mem!ByteAt(list, g, p)
    <3>1. Mem!Item(g, p) \in Nat \ {0} /\ Mem!Slot(g, p) \in 1..g.qset
      BY MemLocated
    <3>2. CASE Mem!Item(g, p) = i
      BY <1>2, <2>4, <2>5, <3>1, <3>2 DEF Mem!ByteAt
    <3>3. CASE Mem!Item(g, p) # i
      BY <2>5, <3>1, <3>3, MemSameItem
    <3> QED
      BY <3>2, <3>3
  <2>7. new[i] # <<>>
    BY <2>3, <2>5
  <2> QED
    BY <2>5, <2>6, <2>7 DEF new
<1> QED
  BY <1>1, <1>2

\* A new content for one quantum changes the bytes of that quantum.
MemByte(quantum, g, p) == quantum[Mem!Offset(g, p)]
MemReplacement(list, i, s, v) == [list EXCEPT ![i][s] = v]

LEMMA MemReplaced ==
  ASSUME NEW g \in MemShapes, NEW list \in Seq(Mem!Arrays(g)), NEW i \in 1..Len(list),
         list[i] # <<>>, NEW s \in 1..g.qset,
         NEW v \in [1..g.quantum -> Bytes \cup {Junk}]
  PROVE  /\ MemReplacement(list, i, s, v) \in Seq(Mem!Arrays(g))
         /\ Len(MemReplacement(list, i, s, v)) = Len(list)
         /\ MemReplacement(list, i, s, v)[i] # <<>>
         /\ MemReplacement(list, i, s, v)[i][s] # <<>>
         /\ \A p \in Nat : Mem!Item(g, p) = i /\ Mem!Slot(g, p) = s =>
              Mem!ByteAt(MemReplacement(list, i, s, v), g, p) = MemByte(v, g, p)
         /\ \A p \in Nat : ~(Mem!Item(g, p) = i /\ Mem!Slot(g, p) = s) =>
              Mem!ByteAt(MemReplacement(list, i, s, v), g, p) = Mem!ByteAt(list, g, p)
<1> DEFINE array == [list[i] EXCEPT ![s] = v]
           new == MemReplacement(list, i, s, v)
<1>1. new = [list EXCEPT ![i] = array]
  BY DEF MemReplacement
<1>2. list[i] \in [1..g.qset -> Mem!Quantums(g)]
  BY MemParts
<1>3. v \in Mem!Quantums(g) /\ v # <<>>
  BY MemNotEmpty DEF Mem!Quantums, MemShapes
<1>4. /\ array \in [1..g.qset -> Mem!Quantums(g)]
      /\ \A t \in 1..g.qset : array[t] = IF t = s THEN v ELSE list[i][t]
  BY <1>2, <1>3
<1> HIDE DEF array, new
<1>5. array \in Mem!Arrays(g) /\ array # <<>>
  BY <1>4, MemNotEmpty DEF Mem!Arrays, MemShapes
<1>6. /\ new \in Seq(Mem!Arrays(g)) /\ Len(new) = Len(list)
      /\ \A j \in 1..Len(list) : new[j] = IF j = i THEN array ELSE list[j]
  BY <1>1, <1>5, ExceptSeq
<1>7. new[i] = array
  BY <1>6
<1>8. ASSUME NEW p \in Nat
      PROVE  Mem!ByteAt(new, g, p) =
               IF Mem!Item(g, p) = i /\ Mem!Slot(g, p) = s THEN MemByte(v, g, p)
               ELSE Mem!ByteAt(list, g, p)
  <2>1. Mem!Item(g, p) \in Nat \ {0} /\ Mem!Slot(g, p) \in 1..g.qset
    BY MemLocated
  <2>2. CASE Mem!Item(g, p) = i /\ Mem!Slot(g, p) = s
    <3>1. array[Mem!Slot(g, p)] = v
      BY <1>4, <2>1, <2>2
    <3>2. ~(Mem!Item(g, p) > Len(new)) /\ new[Mem!Item(g, p)] = array
      BY <1>6, <1>7, <2>2
    <3> QED
      BY <1>3, <1>5, <2>2, <3>1, <3>2 DEF Mem!ByteAt, MemByte
  <2>3. CASE Mem!Item(g, p) = i /\ Mem!Slot(g, p) # s
    <3>1. array[Mem!Slot(g, p)] = list[i][Mem!Slot(g, p)]
      BY <1>4, <2>1, <2>3
    <3>2. ~(Mem!Item(g, p) > Len(new)) /\ new[Mem!Item(g, p)] = array
           /\ ~(Mem!Item(g, p) > Len(list))
      BY <1>6, <1>7, <2>3
    <3> QED
      BY <1>5, <2>3, <3>1, <3>2 DEF Mem!ByteAt
  <2>4. CASE Mem!Item(g, p) # i
    <3>1. Len(list) \in Nat
      BY LenProperties
    <3>2. ~(Mem!Item(g, p) > Len(list)) => new[Mem!Item(g, p)] = list[Mem!Item(g, p)]
      BY <1>6, <2>1, <2>4, <3>1
    <3>3. Mem!ByteAt(new, g, p) = Mem!ByteAt(list, g, p)
      BY <1>6, <3>2, MemSameItem
    <3> QED
      BY <2>4, <3>3
  <2> QED
    BY <2>2, <2>3, <2>4
<1>9. new[i][s] # <<>>
  BY <1>3, <1>4, <1>7
<1> QED
  BY <1>5, <1>6, <1>7, <1>8, <1>9 DEF new

\* A new quantum is Junk, and leaves the bytes.
LEMMA MemQuantumed ==
  ASSUME NEW g \in MemShapes, NEW list \in Seq(Mem!Arrays(g)), NEW i \in 1..Len(list),
         list[i] # <<>>, NEW s \in 1..g.qset
  PROVE  /\ Mem!WithQuantum(list, i, s, g) \in Seq(Mem!Arrays(g))
         /\ Len(Mem!WithQuantum(list, i, s, g)) = Len(list)
         /\ Mem!WithQuantum(list, i, s, g)[i] # <<>>
         /\ Mem!WithQuantum(list, i, s, g)[i][s] # <<>>
         /\ \A p \in Nat : Mem!ByteAt(Mem!WithQuantum(list, i, s, g), g, p) = Mem!ByteAt(list,
             g, p)
<1> DEFINE v == [o \in 1..g.quantum |-> Junk]
           new == Mem!WithQuantum(list, i, s, g)
<1>1. CASE list[i][s] # <<>>
  BY <1>1 DEF Mem!WithQuantum
<1>2. CASE list[i][s] = <<>>
  <2>1. new = MemReplacement(list, i, s, v)
    BY <1>2 DEF Mem!WithQuantum, MemReplacement
  <2>2. v \in [1..g.quantum -> Bytes \cup {Junk}]
    OBVIOUS
  <2>3. \A o \in 1..g.quantum : v[o] = Junk
    OBVIOUS
  <2> HIDE DEF v, new
  <2>4. /\ new \in Seq(Mem!Arrays(g)) /\ Len(new) = Len(list)
        /\ new[i] # <<>> /\ new[i][s] # <<>>
    BY <2>1, <2>2, MemReplaced
  <2>5. ASSUME NEW p \in Nat PROVE Mem!ByteAt(new, g, p) = Mem!ByteAt(list, g, p)
    <3>1. CASE Mem!Item(g, p) = i /\ Mem!Slot(g, p) = s
      <4>1. Mem!ByteAt(list, g, p) = Junk
        BY <1>2, <3>1 DEF Mem!ByteAt
      <4>2. Mem!Offset(g, p) \in 1..g.quantum
        BY MemLocated
      <4>3. Mem!ByteAt(new, g, p) = MemByte(v, g, p)
        BY <2>1, <2>2, <3>1, MemReplaced
      <4> QED
        BY <2>3, <4>1, <4>2, <4>3 DEF MemByte
    <3>2. CASE ~(Mem!Item(g, p) = i /\ Mem!Slot(g, p) = s)
      BY <2>1, <2>2, <3>2, MemReplaced
    <3> QED
      BY <3>1, <3>2
  <2> QED
    BY <2>4, <2>5 DEF new
<1> QED
  BY <1>1, <1>2

\* What a write allocates: the quantum at pos is there, and the bytes are as
\* they were, even when the memory runs out before.
LEMMA MemAllocates ==
  ASSUME NEW g \in MemShapes, NEW list \in Seq(Mem!Arrays(g)), NEW pos \in Nat
  PROVE  /\ Mem!Allocated(list, g, pos) \in Seq(Mem!Arrays(g))
         /\ Mem!Item(g, pos) \in 1..Len(Mem!Allocated(list, g, pos))
         /\ Mem!Allocated(list, g, pos)[Mem!Item(g, pos)] # <<>>
         /\ Mem!Allocated(list, g, pos)[Mem!Item(g, pos)][Mem!Slot(g, pos)] # <<>>
         /\ \A p \in Nat : Mem!ByteAt(Mem!Allocated(list, g, pos), g, p) = Mem!ByteAt(list, g,
             p)
         /\ \A left \in Mem!PartlyAllocated(list, g, pos) :
              /\ left \in Seq(Mem!Arrays(g))
              /\ \A p \in Nat : Mem!ByteAt(left, g, p) = Mem!ByteAt(list, g, p)
<1> DEFINE i == Mem!Item(g, pos)
           s == Mem!Slot(g, pos)
           one == Mem!Follow(list, i)
           two == Mem!WithArray(one, i, g)
           three == Mem!WithQuantum(two, i, s, g)
<1>1. i \in Nat \ {0} /\ s \in 1..g.qset
  BY MemLocated
<1>2. Len(list) \in Nat
  BY LenProperties
<1>3. three = Mem!Allocated(list, g, pos)
  BY DEF Mem!Allocated
<1>4. ASSUME NEW left \in Mem!PartlyAllocated(list, g, pos)
      PROVE  left = two \/ \E n \in Len(list)..i : left = Mem!Follow(list, n)
  BY <1>4 DEF Mem!PartlyAllocated
<1> HIDE DEF i, s
<1>5. /\ one \in Seq(Mem!Arrays(g)) /\ i \in 1..Len(one)
      /\ \A p \in Nat : Mem!ByteAt(one, g, p) = Mem!ByteAt(list, g, p)
  BY <1>1, MemFollows, LenProperties
<1> HIDE DEF one
<1>6. /\ two \in Seq(Mem!Arrays(g)) /\ Len(two) = Len(one) /\ two[i] # <<>>
      /\ \A p \in Nat : Mem!ByteAt(two, g, p) = Mem!ByteAt(one, g, p)
  BY <1>5, MemArrayed
<1> HIDE DEF two
<1>7. /\ three \in Seq(Mem!Arrays(g)) /\ Len(three) = Len(two)
      /\ three[i] # <<>> /\ three[i][s] # <<>>
      /\ \A p \in Nat : Mem!ByteAt(three, g, p) = Mem!ByteAt(two, g, p)
  BY <1>1, <1>5, <1>6, MemQuantumed
<1> HIDE DEF three
<1>8. ASSUME NEW left \in Mem!PartlyAllocated(list, g, pos)
      PROVE  /\ left \in Seq(Mem!Arrays(g))
             /\ \A p \in Nat : Mem!ByteAt(left, g, p) = Mem!ByteAt(list, g, p)
  <2>1. CASE left = two
    BY <1>5, <1>6, <2>1
  <2>2. ASSUME NEW n \in Len(list)..i, left = Mem!Follow(list, n)
        PROVE  /\ left \in Seq(Mem!Arrays(g))
               /\ \A p \in Nat : Mem!ByteAt(left, g, p) = Mem!ByteAt(list, g, p)
    <3>1. n \in Nat
      BY <1>1, <1>2
    <3> QED
      BY <2>2, <3>1, MemFollows
  <2> QED
    BY <1>4, <2>1, <2>2
<1> QED
  BY <1>3, <1>5, <1>6, <1>7, <1>8 DEF i, s

\* A write stores its bytes at the positions from pos, and leaves the others.
MemNth(bytes, k) == bytes[k]

LEMMA MemStores ==
  ASSUME NEW g \in MemShapes, NEW list \in Seq(Mem!Arrays(g)), NEW pos \in Nat,
         Mem!Item(g, pos) \in 1..Len(list), list[Mem!Item(g, pos)] # <<>>,
         list[Mem!Item(g, pos)][Mem!Slot(g, pos)] # <<>>,
         NEW n \in 1..Mem!LeftInQuantum(g, pos), NEW bytes \in [1..n -> Bytes \cup {Junk}]
  PROVE  /\ Mem!Store(list, g, pos, bytes) \in Seq(Mem!Arrays(g))
         /\ \A p \in Nat : p \in pos..pos+n-1 =>
              Mem!ByteAt(Mem!Store(list, g, pos, bytes), g, p) = MemNth(bytes, p - pos + 1)
         /\ \A p \in Nat : ~(p \in pos..pos+n-1) =>
              Mem!ByteAt(Mem!Store(list, g, pos, bytes), g, p) = Mem!ByteAt(list, g, p)
<1> DEFINE i == Mem!Item(g, pos)
           s == Mem!Slot(g, pos)
           o == Mem!Offset(g, pos)
           quantum == list[i][s]
           v == [x \in 1..g.quantum |->
                   IF x \in o..o+n-1 THEN bytes[x - o + 1] ELSE quantum[x]]
           new == Mem!Store(list, g, pos, bytes)
<1>1. /\ i \in Nat \ {0} /\ s \in 1..g.qset /\ o \in 1..g.quantum
      /\ g.quantum \in Nat \ {0} /\ Mem!LeftInQuantum(g, pos) = g.quantum - o + 1
  BY MemLocated DEF MemShapes
<1>2. n \in Nat \ {0} /\ o + n - 1 <= g.quantum /\ n \in 0..Mem!LeftInQuantum(g, pos)
  BY <1>1
<1>3. Len(bytes) = n
  BY <1>2
<1>4. new = MemReplacement(list, i, s, v)
  BY <1>3 DEF Mem!Store, MemReplacement
<1>5. quantum \in [1..g.quantum -> Bytes \cup {Junk}]
  BY <1>1, MemParts
<1>6. v \in [1..g.quantum -> Bytes \cup {Junk}]
  <2> HIDE DEF quantum, o
  <2>1. ASSUME NEW x \in 1..g.quantum
        PROVE  (IF x \in o..o+n-1 THEN bytes[x - o + 1] ELSE quantum[x])
                 \in Bytes \cup {Junk}
    <3>1. CASE x \in o..o+n-1
      <4>1. x - o + 1 \in 1..n
        BY <1>1, <1>2, <3>1
      <4> QED
        BY <3>1, <4>1
    <3>2. CASE ~(x \in o..o+n-1)
      BY <1>5, <3>2
    <3> QED
      BY <3>1, <3>2
  <2> QED
    BY <2>1
<1>7. list[i] # <<>> /\ i \in 1..Len(list)
  OBVIOUS
<1>8. ASSUME NEW x \in 1..g.quantum
      PROVE  v[x] = IF x \in o..o+n-1 THEN bytes[x - o + 1] ELSE quantum[x]
  OBVIOUS
<1> HIDE DEF v, new
<1>9. /\ new \in Seq(Mem!Arrays(g))
      /\ \A p \in Nat : Mem!Item(g, p) = i /\ Mem!Slot(g, p) = s
          => Mem!ByteAt(new, g, p) = MemByte(v, g, p)
      /\ \A p \in Nat : ~(Mem!Item(g, p) = i /\ Mem!Slot(g, p) = s) =>
           Mem!ByteAt(new, g, p) = Mem!ByteAt(list, g, p)
  BY <1>1, <1>4, <1>6, <1>7, MemReplaced
<1>10. ASSUME NEW p \in Nat, p \in pos..pos+n-1
       PROVE  Mem!ByteAt(new, g, p) = MemNth(bytes, p - pos + 1)
  <2>1. /\ Mem!Item(g, p) = i /\ Mem!Slot(g, p) = s
        /\ Mem!Offset(g, p) \in o..o+n-1 /\ Mem!Offset(g, p) - o = p - pos
    BY <1>2, <1>10, MemNeighbours
  <2>2. Mem!Offset(g, p) \in 1..g.quantum
    BY MemLocated
  <2> HIDE DEF o, i, s, quantum
  <2>3. v[Mem!Offset(g, p)] = bytes[Mem!Offset(g, p) - o + 1]
    BY <1>8, <2>1, <2>2
  <2>4. Mem!Offset(g, p) - o + 1 = p - pos + 1
    BY <1>1, <2>1, <2>2
  <2>5. Mem!ByteAt(new, g, p) = v[Mem!Offset(g, p)]
    BY <1>9, <2>1 DEF MemByte
  <2> QED
    BY <2>3, <2>4, <2>5 DEF MemNth
<1>11. ASSUME NEW p \in Nat, ~(p \in pos..pos+n-1)
       PROVE  Mem!ByteAt(new, g, p) = Mem!ByteAt(list, g, p)
  <2>1. CASE Mem!Item(g, p) = i /\ Mem!Slot(g, p) = s
    <3>1. ~(Mem!Offset(g, p) \in o..o+n-1)
      BY <1>2, <1>11, <2>1, MemNeighbours
    <3>2. Mem!Offset(g, p) \in 1..g.quantum
      BY MemLocated
    <3>3. Mem!ByteAt(list, g, p) = quantum[Mem!Offset(g, p)]
      <4>1. ~(Mem!Item(g, p) > Len(list))
        BY <1>1, <1>7, <2>1, LenProperties
      <4> QED
        BY <2>1, <4>1 DEF Mem!ByteAt
    <3> HIDE DEF o, i, s, quantum
    <3>4. v[Mem!Offset(g, p)] = quantum[Mem!Offset(g, p)]
      BY <1>8, <3>1, <3>2
    <3>5. Mem!ByteAt(new, g, p) = v[Mem!Offset(g, p)]
      BY <1>9, <2>1 DEF MemByte
    <3> QED
      BY <3>3, <3>4, <3>5
  <2>2. CASE ~(Mem!Item(g, p) = i /\ Mem!Slot(g, p) = s)
    BY <1>9, <2>2
  <2> QED
    BY <2>1, <2>2
<1> QED
  BY <1>9, <1>10, <1>11 DEF new

-----------------------------------------------------------------------------
(* scull's memory device: the device as a file.                            *)

MemLaid(d) ==
  /\ d \in Mem!Devices(Mem!Geometry(d))
  /\ \A pos \in d.size..MaxPos-1 : Mem!ByteAt(d.data, Mem!Geometry(d), pos) = Junk

MemWithData(d, list, end) == [d EXCEPT !.data = list, !.size = end]

LEMMA MemShaped ==
  ASSUME NEW d, MemLaid(d)
  PROVE  /\ Mem!Geometry(d) \in MemShapes /\ d.data \in Seq(Mem!Arrays(Mem!Geometry(d)))
         /\ d.size \in 0..MaxPos /\ d.quantum \in Quanta /\ d.qset \in Qsets
         /\ Mem!Geometry(d) \in Mem!Geometries /\ Mem!WellLaid(d)
<1>1. d \in Mem!Devices(Mem!Geometry(d))
  BY DEF MemLaid
<1>2. /\ d.data \in Seq(Mem!Arrays(Mem!Geometry(d))) /\ d.size \in 0..MaxPos
      /\ d.quantum \in Quanta /\ d.qset \in Qsets
  BY <1>1 DEF Mem!Devices
<1>3. d.quantum \in Nat \ {0} /\ d.qset \in Nat \ {0}
  BY <1>2, GeometryAssumption
<1>4. Mem!Geometry(d) \in MemShapes /\ Mem!Geometry(d).quantum = d.quantum
       /\ Mem!Geometry(d).qset = d.qset
  BY <1>3 DEF Mem!Geometry, MemShapes
<1>5. Mem!Geometry(d) \in Mem!Geometries
  BY <1>2 DEF Mem!Geometry, Mem!Geometries
<1>6. ASSUME NEW i \in 1..Len(d.data), d.data[i] # <<>>
      PROVE  /\ Len(d.data[i]) = d.qset
             /\ \A s \in 1..d.qset : Len(d.data[i][s]) \in {0, d.quantum}
  <2> DEFINE g == Mem!Geometry(d)
             list == d.data
  <2>1. /\ g \in MemShapes /\ list \in Seq(Mem!Arrays(g)) /\ i \in 1..Len(list)
        /\ list[i] # <<>> /\ g.qset = d.qset /\ g.quantum = d.quantum
    BY <1>2, <1>4, <1>6
  <2> HIDE DEF g, list
  <2>2. ASSUME NEW s \in 1..d.qset PROVE Len(list[i][s]) \in {0, d.quantum}
    <3>1. /\ list[i][s] \in Mem!Quantums(g)
          /\ list[i][s] # <<>> => list[i][s] \in [1..g.quantum -> Bytes \cup {Junk}]
      BY <2>1, MemParts
    <3>2. CASE list[i][s] = <<>>
      BY <3>2
    <3>3. CASE list[i][s] # <<>>
      BY <1>3, <2>1, <3>1, <3>3
    <3> QED
      BY <3>2, <3>3
  <2>3. list[i] \in [1..g.qset -> Mem!Quantums(g)]
    <3>1. list[i] \in Mem!Arrays(g)
      BY <2>1, ElementOfSeq
    <3> QED
      BY <2>1, <3>1 DEF Mem!Arrays
  <2>4. Len(list[i]) = d.qset
    BY <1>3, <2>1, <2>3
  <2> QED
    BY <2>2, <2>4 DEF list
<1>7. Mem!WellLaid(d)
  BY <1>6 DEF Mem!WellLaid
<1> QED
  BY <1>2, <1>4, <1>5, <1>7

LEMMA MemNewData ==
  ASSUME NEW d, MemLaid(d), NEW list \in Seq(Mem!Arrays(Mem!Geometry(d))), NEW end \in 0..MaxPos
  PROVE  /\ Mem!Geometry(MemWithData(d, list, end)) = Mem!Geometry(d)
         /\ MemWithData(d, list, end).data = list
         /\ MemWithData(d, list, end).size = end
         /\ MemWithData(d, list, end) \in Mem!Devices(Mem!Geometry(d))
<1>1. d \in Mem!Devices(Mem!Geometry(d))
  BY DEF MemLaid
<1> DEFINE g == Mem!Geometry(d)
<1> HIDE DEF g
<1>2. d \in [data : Seq(Mem!Arrays(g)), quantum : Quanta, qset : Qsets, size : 0..MaxPos]
  BY <1>1 DEF Mem!Devices, g
<1>3. list \in Seq(Mem!Arrays(g))
  BY DEF g
<1>4. MemWithData(d, list, end)
        \in [data : Seq(Mem!Arrays(g)), quantum : Quanta, qset : Qsets, size : 0..MaxPos]
  BY <1>2, <1>3 DEF MemWithData
<1>5. /\ MemWithData(d, list, end).data = list
      /\ MemWithData(d, list, end).size = end
      /\ MemWithData(d, list, end).quantum = d.quantum
      /\ MemWithData(d, list, end).qset = d.qset
  BY <1>2 DEF MemWithData
<1>6. Mem!Geometry(MemWithData(d, list, end)) = Mem!Geometry(d)
  BY <1>5 DEF Mem!Geometry
<1> QED
  BY <1>4, <1>5, <1>6 DEF Mem!Devices, g

LEMMA MemEmptyLaid ==
  ASSUME NEW g \in Mem!Geometries
  PROVE  MemLaid(Mem!Empty(g)) /\ Mem!AsFile(Mem!Empty(g)) = <<>>
<1> DEFINE d == Mem!Empty(g)
<1>1. /\ d = [data |-> <<>>, quantum |-> g.quantum, qset |-> g.qset, size |-> 0]
      /\ d.data = <<>> /\ d.size = 0 /\ d.quantum = g.quantum /\ d.qset = g.qset
  BY DEF Mem!Empty
<1>2. g.quantum \in Quanta /\ g.qset \in Qsets
  BY DEF Mem!Geometries
<1>3. d \in Mem!Devices(Mem!Geometry(d))
  <2>1. <<>> \in Seq(Mem!Arrays(Mem!Geometry(d)))
    BY EmptySeq
  <2>2. 0 \in 0..MaxPos
    BY PositionsAssumption
  <2> QED
    BY <1>1, <1>2, <2>1, <2>2 DEF Mem!Devices
<1>4. ASSUME NEW pos \in 0..MaxPos-1 PROVE Mem!ByteAt(<<>>, Mem!Geometry(d), pos) = Junk
  <2>1. Mem!Geometry(d) \in MemShapes
    BY <1>1, <1>2, GeometryAssumption DEF Mem!Geometry, MemShapes
  <2>2. pos \in Nat
    BY PositionsAssumption
  <2>3. Mem!Item(Mem!Geometry(d), pos) > Len(<<>>)
    <3>1. Mem!Item(Mem!Geometry(d), pos) \in Nat \ {0}
      BY <2>1, <2>2, MemLocated
    <3> QED
      BY <3>1
  <2> QED
    BY <2>3 DEF Mem!ByteAt
<1>5. Mem!AsFile(d) = <<>>
  BY <1>1 DEF Mem!AsFile
<1> HIDE DEF d
<1>6. MemLaid(d)
  BY <1>1, <1>3, <1>4 DEF MemLaid
<1> QED
  BY <1>5, <1>6 DEF d

\* Memory that is allocated, and holds Junk, is not seen in the file.
LEMMA MemSameBytes ==
  ASSUME NEW d, MemLaid(d), NEW list \in Seq(Mem!Arrays(Mem!Geometry(d))),
         \A p \in Nat : Mem!ByteAt(list, Mem!Geometry(d), p) = Mem!ByteAt(d.data,
          Mem!Geometry(d), p)
  PROVE  MemLaid([d EXCEPT !.data = list])
          /\ Mem!AsFile([d EXCEPT !.data = list]) = Mem!AsFile(d)
<1> DEFINE e == MemWithData(d, list, d.size)
<1>1. d.size \in 0..MaxPos /\ d \in Mem!Devices(Mem!Geometry(d))
  BY MemShaped DEF MemLaid
<1>2. [d EXCEPT !.data = list] = e
  BY <1>1 DEF Mem!Devices, MemWithData
<1>3. /\ Mem!Geometry(e) = Mem!Geometry(d) /\ e.data = list /\ e.size = d.size
      /\ e \in Mem!Devices(Mem!Geometry(d))
  BY <1>1, MemNewData
<1> HIDE DEF e
<1>4. ASSUME NEW p \in d.size..MaxPos-1 PROVE Mem!ByteAt(list, Mem!Geometry(d), p) = Junk
  <2>1. p \in Nat
    BY <1>1, PositionsAssumption
  <2> QED
    BY <2>1 DEF MemLaid
<1>5. MemLaid(e)
  BY <1>3, <1>4 DEF MemLaid
<1>6. ASSUME NEW i \in 1..d.size
      PROVE  Mem!ByteAt(list, Mem!Geometry(d), i - 1) = Mem!ByteAt(d.data, Mem!Geometry(d),
              i - 1)
  <2>1. i - 1 \in Nat
    BY <1>1, PositionsAssumption
  <2> QED
    BY <2>1
<1>7. Mem!AsFile(e) = Mem!AsFile(d)
  BY <1>3, <1>6 DEF Mem!AsFile
<1> QED
  BY <1>2, <1>5, <1>7

LEMMA MemCounted ==
  ASSUME MemLaid(mem_dev), NEW pos \in Mem!Positions, NEW n \in 1..Mem!Count(pos)
  PROVE  /\ pos \in 0..MaxPos /\ n \in 1..Mem!LeftInQuantum(Mem!Geometry(mem_dev), pos)
         /\ n \in Nat \ {0} /\ pos + n \in 0..MaxPos /\ n <= mem_dev.quantum
<1>1. pos \in Nat /\ pos \in 0..MaxPos-1
  BY PositionsAssumption DEF Mem!Positions
<1>2. Mem!Geometry(mem_dev) \in MemShapes /\ Mem!Geometry(mem_dev).quantum = mem_dev.quantum
       /\ mem_dev.quantum \in Nat
  BY MemShaped, GeometryAssumption DEF Mem!Geometry
<1> DEFINE left == Mem!LeftInQuantum(Mem!Geometry(mem_dev), pos)
<1>3. left \in 1..mem_dev.quantum
  <2>1. /\ Mem!Offset(Mem!Geometry(mem_dev), pos) \in 1..Mem!Geometry(mem_dev).quantum
        /\ left = Mem!Geometry(mem_dev).quantum - Mem!Offset(Mem!Geometry(mem_dev), pos) + 1
    BY <1>1, <1>2, MemLocated
  <2> HIDE DEF left
  <2> QED
    BY <1>2, <2>1
<1>4. Mem!Count(pos) = IF left < MaxPos - pos THEN left ELSE MaxPos - pos
  BY DEF Mem!Count, Mem!Current
<1> HIDE DEF left
<1>5. n \in Nat \ {0} /\ n <= left /\ n <= MaxPos - pos
  BY <1>1, <1>3, <1>4, PositionsAssumption
<1>6. n \in 1..left
  BY <1>3, <1>5
<1>7. pos + n \in 0..MaxPos /\ pos \in 0..MaxPos /\ n <= mem_dev.quantum
  BY <1>1, <1>2, <1>3, <1>5, PositionsAssumption
<1> QED
  BY <1>5, <1>6, <1>7 DEF left

\* What is at each position after the bytes are stored in what is allocated.
LEMMA MemStoresAllocated ==
  ASSUME NEW g \in MemShapes, NEW list \in Seq(Mem!Arrays(g)), NEW pos \in Nat,
         NEW n \in 1..Mem!LeftInQuantum(g, pos), NEW bytes \in [1..n -> Bytes \cup {Junk}]
  PROVE  /\ Mem!Store(Mem!Allocated(list, g, pos), g, pos, bytes) \in Seq(Mem!Arrays(g))
         /\ \A p \in Nat : p \in pos..pos+n-1 =>
              Mem!ByteAt(Mem!Store(Mem!Allocated(list, g, pos), g, pos, bytes), g, p)
                = MemNth(bytes, p - pos + 1)
         /\ \A p \in Nat : ~(p \in pos..pos+n-1) =>
              Mem!ByteAt(Mem!Store(Mem!Allocated(list, g, pos), g, pos, bytes), g, p)
                = Mem!ByteAt(list, g, p)
<1> DEFINE all == Mem!Allocated(list, g, pos)
<1>1. /\ all \in Seq(Mem!Arrays(g)) /\ Mem!Item(g, pos) \in 1..Len(all)
      /\ all[Mem!Item(g, pos)] # <<>> /\ all[Mem!Item(g, pos)][Mem!Slot(g, pos)] # <<>>
      /\ \A p \in Nat : Mem!ByteAt(all, g, p) = Mem!ByteAt(list, g, p)
  BY MemAllocates
<1> HIDE DEF all
<1>2. /\ Mem!Store(all, g, pos, bytes) \in Seq(Mem!Arrays(g))
      /\ \A p \in Nat : p \in pos..pos+n-1 =>
           Mem!ByteAt(Mem!Store(all, g, pos, bytes), g, p) = MemNth(bytes, p - pos + 1)
      /\ \A p \in Nat : ~(p \in pos..pos+n-1) =>
           Mem!ByteAt(Mem!Store(all, g, pos, bytes), g, p) = Mem!ByteAt(all, g, p)
  BY <1>1, MemStores
<1> QED
  BY <1>1, <1>2 DEF all

\* A write puts its bytes in the file, and Junk between the old end and them.
MemWithBytes(file, pos, n, bytes) ==
  [i \in 1..(IF pos + n > Len(file) THEN pos + n ELSE Len(file)) |->
     IF i \in pos+1..pos+n THEN bytes[i - pos]
     ELSE IF i <= Len(file) THEN file[i] ELSE Junk]

LEMMA MemPuts ==
  ASSUME MemLaid(mem_dev), NEW pos \in Mem!Positions, NEW n \in 1..Mem!Count(pos),
         NEW bytes \in [1..n -> Bytes], NEW e,
         e = Mem!Written(mem_dev, pos, bytes,
                     Mem!Store(Mem!Allocated(mem_dev.data, Mem!Geometry(mem_dev), pos),
                      Mem!Geometry(mem_dev), pos, bytes))
  PROVE  /\ MemLaid(e)
         /\ Mem!AsFile(e) = MemWithBytes(Mem!AsFile(mem_dev), pos, n, bytes)
<1> DEFINE g == Mem!Geometry(mem_dev)
           file == Mem!AsFile(mem_dev)
           new == Mem!Store(Mem!Allocated(mem_dev.data, g, pos), g, pos, bytes)
           end == IF mem_dev.size < pos + n THEN pos + n ELSE mem_dev.size
<1>1. /\ pos \in 0..MaxPos /\ n \in 1..Mem!LeftInQuantum(g, pos)
      /\ n \in Nat \ {0} /\ pos + n \in 0..MaxPos
  BY MemCounted
<1>2. g \in MemShapes /\ mem_dev.data \in Seq(Mem!Arrays(g)) /\ mem_dev.size \in 0..MaxPos
  BY MemShaped
<1>3. pos \in Nat /\ mem_dev.size \in Nat /\ end \in 0..MaxPos /\ end \in Nat
  BY <1>1, <1>2, PositionsAssumption
<1>4. bytes \in [1..n -> Bytes \cup {Junk}] /\ Len(bytes) = n
  BY <1>1
<1> HIDE DEF g, new
<1>5. /\ new \in Seq(Mem!Arrays(g))
      /\ \A p \in Nat : p \in pos..pos+n-1 => Mem!ByteAt(new, g, p) = MemNth(bytes, p - pos + 1)
      /\ \A p \in Nat : ~(p \in pos..pos+n-1)
          => Mem!ByteAt(new, g, p) = Mem!ByteAt(mem_dev.data, g, p)
  BY <1>1, <1>2, <1>3, <1>4, MemStoresAllocated DEF new
<1>6. e = MemWithData(mem_dev, new, end)
  <2>1. e = Mem!Written(mem_dev, pos, bytes, new)
    BY DEF new, g
  <2> QED
    BY <1>4, <2>1 DEF Mem!Written, MemWithData
<1>7. Mem!Geometry(e) = g /\ e.data = new /\ e.size = end /\ e \in Mem!Devices(Mem!Geometry(e))
  BY <1>3, <1>5, <1>6, MemNewData DEF g
<1>8. ASSUME NEW p \in Nat, p >= mem_dev.size, p < MaxPos PROVE Mem!ByteAt(mem_dev.data, g,
                    p) = Junk
  <2>1. p \in mem_dev.size..MaxPos-1
    BY <1>3, <1>8, PositionsAssumption
  <2> QED
    BY <2>1 DEF MemLaid, g
<1>9. ASSUME NEW p \in end..MaxPos-1 PROVE Mem!ByteAt(new, g, p) = Junk
  <2>1. p \in Nat /\ p >= mem_dev.size /\ p < MaxPos /\ ~(p \in pos..pos+n-1)
    BY <1>1, <1>3, PositionsAssumption
  <2> QED
    BY <1>5, <1>8, <2>1
<1>10. MemLaid(e)
  BY <1>7, <1>9 DEF MemLaid
<1>11. Len(file) = mem_dev.size
        /\ \A i \in 1..mem_dev.size : file[i] = Mem!ByteAt(mem_dev.data, g, i - 1)
  BY <1>3 DEF Mem!AsFile, g
<1>12. Mem!AsFile(e) = [i \in 1..end |-> Mem!ByteAt(new, g, i - 1)]
  BY <1>7 DEF Mem!AsFile
<1> HIDE DEF file
<1>13. ASSUME NEW i \in 1..end
       PROVE  Mem!ByteAt(new, g, i - 1) =
                IF i \in pos+1..pos+n THEN bytes[i - pos]
                ELSE IF i <= Len(file) THEN file[i] ELSE Junk
  <2>1. i - 1 \in Nat /\ i <= MaxPos /\ i \in Nat
    BY <1>3, PositionsAssumption
  <2>2. CASE i \in pos+1..pos+n
    <3>1. i - 1 \in pos..pos+n-1 /\ (i - 1) - pos + 1 = i - pos
      BY <1>1, <1>3, <2>1, <2>2
    <3>2. Mem!ByteAt(new, g, i - 1) = MemNth(bytes, i - pos)
      BY <1>5, <2>1, <3>1
    <3> QED
      BY <2>2, <3>2 DEF MemNth
  <2>3. CASE ~(i \in pos+1..pos+n) /\ i <= mem_dev.size
    <3>1. ~(i - 1 \in pos..pos+n-1) /\ i \in 1..mem_dev.size
      BY <1>1, <1>3, <2>1, <2>3
    <3> QED
      BY <1>5, <1>11, <2>1, <2>3, <3>1
  <2>4. CASE ~(i \in pos+1..pos+n) /\ ~(i <= mem_dev.size)
    <3>1. ~(i - 1 \in pos..pos+n-1) /\ i - 1 >= mem_dev.size /\ i - 1 < MaxPos
      BY <1>1, <1>3, <2>1, <2>4, PositionsAssumption
    <3>2. Mem!ByteAt(new, g, i - 1) = Junk
      BY <1>5, <1>8, <2>1, <3>1
    <3> QED
      BY <1>11, <2>4, <3>2
  <2> QED
    BY <2>2, <2>3, <2>4
<1>14. end = IF pos + n > Len(file) THEN pos + n ELSE Len(file)
  BY <1>1, <1>3, <1>11
<1> HIDE DEF end
<1> QED
  BY <1>10, <1>12, <1>13, <1>14 DEF file, MemWithBytes

\* One that fails spoils no more than it was to write.
LEMMA MemSpoils ==
  ASSUME MemLaid(mem_dev), NEW pos \in Mem!Positions, NEW n \in 1..Mem!Count(pos), NEW e,
         e = [mem_dev EXCEPT !.data =
                Mem!Store(Mem!Allocated(mem_dev.data, Mem!Geometry(mem_dev), pos),
                 Mem!Geometry(mem_dev), pos,
                      [x \in 1..n |-> Junk])]
  PROVE  /\ MemLaid(e)
         /\ Mem!AsFile(e) =
              [i \in 1..Len(Mem!AsFile(mem_dev)) |->
                 IF i \in pos+1..pos+n THEN Junk ELSE Mem!AsFile(mem_dev)[i]]
<1> DEFINE g == Mem!Geometry(mem_dev)
           file == Mem!AsFile(mem_dev)
           bytes == [x \in 1..n |-> Junk]
           new == Mem!Store(Mem!Allocated(mem_dev.data, g, pos), g, pos, bytes)
<1>1. /\ pos \in 0..MaxPos /\ n \in 1..Mem!LeftInQuantum(g, pos)
      /\ n \in Nat \ {0} /\ pos + n \in 0..MaxPos
  BY MemCounted
<1>2. g \in MemShapes /\ mem_dev.data \in Seq(Mem!Arrays(g)) /\ mem_dev.size \in 0..MaxPos
  BY MemShaped
<1>3. pos \in Nat /\ mem_dev.size \in Nat
  BY <1>1, <1>2, PositionsAssumption
<1>4. bytes \in [1..n -> Bytes \cup {Junk}] /\ \A x \in 1..n : bytes[x] = Junk
  OBVIOUS
<1> HIDE DEF g, bytes, new
<1>5. /\ new \in Seq(Mem!Arrays(g))
      /\ \A p \in Nat : p \in pos..pos+n-1 => Mem!ByteAt(new, g, p) = MemNth(bytes, p - pos + 1)
      /\ \A p \in Nat : ~(p \in pos..pos+n-1)
          => Mem!ByteAt(new, g, p) = Mem!ByteAt(mem_dev.data, g, p)
  BY <1>1, <1>2, <1>3, <1>4, MemStoresAllocated DEF new
<1>6. ASSUME NEW p \in Nat, p \in pos..pos+n-1 PROVE Mem!ByteAt(new, g, p) = Junk
  <2>1. p - pos + 1 \in 1..n
    BY <1>1, <1>3, <1>6
  <2> QED
    BY <1>4, <1>5, <1>6, <2>1 DEF MemNth
<1>7. e = MemWithData(mem_dev, new, mem_dev.size)
  <2>1. e = [mem_dev EXCEPT !.data = new]
    BY DEF new, g, bytes
  <2>2. mem_dev \in Mem!Devices(Mem!Geometry(mem_dev))
    BY DEF MemLaid
  <2> QED
    BY <2>1, <2>2 DEF Mem!Devices, MemWithData
<1>8. Mem!Geometry(e) = g /\ e.data = new /\ e.size = mem_dev.size
       /\ e \in Mem!Devices(Mem!Geometry(e))
  <2>1. mem_dev.size \in 0..MaxPos
    BY <1>2
  <2>2. new \in Seq(Mem!Arrays(Mem!Geometry(mem_dev)))
    BY <1>5 DEF g
  <2>3. /\ Mem!Geometry(e) = Mem!Geometry(mem_dev) /\ e.data = new /\ e.size = mem_dev.size
        /\ e \in Mem!Devices(Mem!Geometry(mem_dev))
    <3> DEFINE f == MemWithData(mem_dev, new, mem_dev.size)
    <3>1. /\ Mem!Geometry(f) = Mem!Geometry(mem_dev) /\ f.data = new /\ f.size = mem_dev.size
          /\ f \in Mem!Devices(Mem!Geometry(mem_dev))
      BY <2>1, <2>2, MemNewData
    <3> QED
      BY <1>7, <3>1
  <2> QED
    BY <2>3 DEF g
<1>9. ASSUME NEW p \in mem_dev.size..MaxPos-1 PROVE Mem!ByteAt(new, g, p) = Junk
  <2>1. p \in Nat
    BY <1>3, PositionsAssumption
  <2>2. Mem!ByteAt(mem_dev.data, g, p) = Junk
    BY DEF MemLaid, g
  <2> QED
    BY <1>5, <1>6, <2>1, <2>2
<1>10. MemLaid(e)
  BY <1>8, <1>9 DEF MemLaid
<1>11. Len(file) = mem_dev.size
        /\ \A i \in 1..mem_dev.size : file[i] = Mem!ByteAt(mem_dev.data, g, i - 1)
  BY <1>3 DEF Mem!AsFile, g
<1>12. Mem!AsFile(e) = [i \in 1..mem_dev.size |-> Mem!ByteAt(new, g, i - 1)]
  BY <1>8 DEF Mem!AsFile
<1> HIDE DEF file
<1>13. ASSUME NEW i \in 1..mem_dev.size
       PROVE  Mem!ByteAt(new, g, i - 1) = IF i \in pos+1..pos+n THEN Junk ELSE file[i]
  <2>1. i - 1 \in Nat /\ i \in Nat
    BY <1>3
  <2>2. i \in pos+1..pos+n <=> i - 1 \in pos..pos+n-1
    BY <1>1, <1>3, <2>1
  <2> QED
    BY <1>5, <1>6, <1>11, <2>1, <2>2
<1> QED
  BY <1>10, <1>11, <1>12, <1>13 DEF file

-----------------------------------------------------------------------------
(* scull's memory device: its steps.                                       *)

MemMost == CHOOSE q \in Quanta : \A r \in Quanta : r <= q

LEMMA MemMostIs == MemMost \in Quanta /\ \A r \in Quanta : r <= MemMost
BY QuantaAssumption DEF MemMost

LEMMA MemIInvLaid == Mem!IInv <=> Mem!TypeOK /\ MemLaid(mem_dev) /\ Mem!CallInv
BY DEF Mem!IInv, Mem!DevInv, Mem!HoleInv, MemLaid

MemFileStep == MemLaid(mem_dev') /\ (Mem!File!Next
 \/ Mem!AsFile(mem_dev') = Mem!AsFile(mem_dev))

LEMMA MemTrimTruncates == ASSUME Mem!IInv, Mem!Trim PROVE MemFileStep
<1>1. mem_defaults \in Mem!Geometries
  BY DEF Mem!IInv, Mem!TypeOK
<1>2. MemLaid(mem_dev') /\ Mem!AsFile(mem_dev') = <<>>
  BY <1>1, MemEmptyLaid DEF Mem!Trim
<1>3. Mem!File!Next
  BY <1>2 DEF Mem!File!Next, Mem!File!Truncate, Mem!AsFile
<1> QED
  BY <1>2, <1>3 DEF MemFileStep

LEMMA MemReadStutters == ASSUME Mem!IInv, NEW p \in Procs, Mem!Read(p) PROVE MemFileStep
<1>1. MemLaid(mem_dev) /\ call[p].pos \in Nat
  BY MemIInvLaid, PositionsAssumption DEF Mem!TypeOK
<1>2. CASE UNCHANGED mem_dev
  BY <1>1, <1>2 DEF MemFileStep
<1>3. ASSUME NEW n \in 0..Mem!Item(Mem!Current, call[p].pos),
                    mem_dev' = [mem_dev EXCEPT !.data = Mem!Follow(@, n)]
      PROVE  MemFileStep
  <2> DEFINE new == Mem!Follow(mem_dev.data, n)
  <2>1. Mem!Geometry(mem_dev) \in MemShapes
         /\ mem_dev.data \in Seq(Mem!Arrays(Mem!Geometry(mem_dev)))
    BY <1>1, MemShaped
  <2>2. Mem!Item(Mem!Current, call[p].pos) \in Nat
    BY <1>1, <2>1, MemLocated DEF Mem!Current
  <2>3. n \in Nat
    BY <2>2
  <2>4. /\ new \in Seq(Mem!Arrays(Mem!Geometry(mem_dev)))
        /\ \A x \in Nat : Mem!ByteAt(new, Mem!Geometry(mem_dev), x) = Mem!ByteAt(mem_dev.data,
            Mem!Geometry(mem_dev), x)
    BY <2>1, <2>3, MemFollows
  <2>5. mem_dev' = [mem_dev EXCEPT !.data = new]
    BY <1>3
  <2> HIDE DEF new
  <2> QED
    BY <1>1, <2>4, <2>5, MemSameBytes DEF MemFileStep
<1> QED
  BY <1>2, <1>3 DEF Mem!Read

LEMMA MemWritePuts == ASSUME Mem!IInv, NEW p \in Procs, Mem!Write(p) PROVE MemFileStep
<1> DEFINE pos == call[p].pos
<1>1. MemLaid(mem_dev)
  BY MemIInvLaid
<1>2. PICK n \in 1..Mem!Count(pos) : \E bytes \in [1..n -> Bytes] :
        mem_dev' = Mem!Written(mem_dev, pos, bytes,
                       Mem!Store(Mem!Allocated(mem_dev.data, Mem!Geometry(mem_dev), pos),
                        Mem!Geometry(mem_dev), pos, bytes))
  BY DEF Mem!Write, Mem!Current
<1>3. PICK bytes \in [1..n -> Bytes] :
        mem_dev' = Mem!Written(mem_dev, pos, bytes,
                       Mem!Store(Mem!Allocated(mem_dev.data, Mem!Geometry(mem_dev), pos),
                        Mem!Geometry(mem_dev), pos, bytes))
  BY <1>2
<1>4. pos \in Mem!Positions
  BY DEF Mem!IInv, Mem!CallInv, Mem!Write
<1> HIDE DEF pos
<1>5. /\ MemLaid(mem_dev')
      /\ Mem!AsFile(mem_dev') = MemWithBytes(Mem!AsFile(mem_dev), pos, n, bytes)
  BY <1>1, <1>3, <1>4, MemPuts
<1>6. pos \in 0..MaxPos /\ n \in Nat \ {0} /\ n <= mem_dev.quantum
  BY <1>1, <1>4, MemCounted
<1>7. n \in 1..MemMost
  BY <1>1, <1>6, MemShaped, MemMostIs, GeometryAssumption
<1>8. Mem!AsFile(mem_dev') = Mem!AsFile(mem_dev)'
  BY DEF Mem!AsFile
<1>9. Mem!File!Put
  <2>1. \E data \in [1..n -> Bytes] :
          Mem!AsFile(mem_dev)' =
            [i \in 1..(IF pos + n > Len(Mem!AsFile(mem_dev)) THEN pos + n ELSE Len(Mem!AsFile(mem_dev))) |->
               IF i \in pos+1..pos+n THEN data[i - pos]
               ELSE IF i <= Len(Mem!AsFile(mem_dev)) THEN Mem!AsFile(mem_dev)[i] ELSE Junk]
    <3> WITNESS bytes \in [1..n -> Bytes]
    <3> QED
      BY <1>5, <1>8 DEF MemWithBytes
  <2> QED
    BY <1>6, <1>7, <2>1 DEF Mem!File!Put, MemMost
<1> QED
  BY <1>5, <1>9 DEF MemFileStep, Mem!File!Next

LEMMA MemWriteFailsSpoils ==
  ASSUME Mem!IInv, NEW p \in Procs, Mem!WriteFails(p)
  PROVE  MemFileStep
<1> DEFINE pos == call[p].pos
<1>1. MemLaid(mem_dev)
  BY MemIInvLaid
<1>2. pos \in Mem!Positions
  BY DEF Mem!IInv, Mem!CallInv, Mem!WriteFails
<1>3. \/ \E left \in Mem!PartlyAllocated(mem_dev.data, Mem!Geometry(mem_dev), pos) :
           mem_dev' = [mem_dev EXCEPT !.data = left]
      \/ \E n \in 1..Mem!Count(pos) :
           mem_dev' = [mem_dev EXCEPT !.data =
                     Mem!Store(Mem!Allocated(mem_dev.data, Mem!Geometry(mem_dev), pos),
                      Mem!Geometry(mem_dev), pos,
                           [x \in 1..n |-> Junk])]
  BY DEF Mem!WriteFails, Mem!Current
<1> HIDE DEF pos
<1>4. ASSUME NEW left \in Mem!PartlyAllocated(mem_dev.data, Mem!Geometry(mem_dev), pos),
             mem_dev' = [mem_dev EXCEPT !.data = left]
      PROVE  MemFileStep
  <2>1. Mem!Geometry(mem_dev) \in MemShapes
         /\ mem_dev.data \in Seq(Mem!Arrays(Mem!Geometry(mem_dev)))
    BY <1>1, MemShaped
  <2>2. pos \in Nat
    BY <1>2, PositionsAssumption DEF Mem!Positions
  <2>3. /\ left \in Seq(Mem!Arrays(Mem!Geometry(mem_dev)))
        /\ \A x \in Nat : Mem!ByteAt(left, Mem!Geometry(mem_dev), x) = Mem!ByteAt(mem_dev.data,
            Mem!Geometry(mem_dev), x)
    BY <2>1, <2>2, MemAllocates
  <2> QED
    BY <1>1, <1>4, <2>3, MemSameBytes DEF MemFileStep
<1>5. ASSUME NEW n \in 1..Mem!Count(pos),
             mem_dev' = [mem_dev EXCEPT !.data =
                       Mem!Store(Mem!Allocated(mem_dev.data, Mem!Geometry(mem_dev), pos),
                        Mem!Geometry(mem_dev), pos,
                             [x \in 1..n |-> Junk])]
      PROVE  MemFileStep
  <2>1. /\ MemLaid(mem_dev')
        /\ Mem!AsFile(mem_dev') =
             [i \in 1..Len(Mem!AsFile(mem_dev)) |->
                IF i \in pos+1..pos+n THEN Junk ELSE Mem!AsFile(mem_dev)[i]]
    BY <1>1, <1>2, <1>5, MemSpoils
  <2>2. pos \in 0..MaxPos /\ n \in Nat \ {0} /\ n <= mem_dev.quantum
    BY <1>1, <1>2, MemCounted
  <2>3. n \in 0..MemMost
    BY <1>1, <2>2, MemShaped, MemMostIs, GeometryAssumption
  <2>4. Mem!AsFile(mem_dev') = Mem!AsFile(mem_dev)'
    BY DEF Mem!AsFile
  <2>5. Mem!File!Spoil
    BY <2>1, <2>2, <2>3, <2>4 DEF Mem!File!Spoil, MemMost
  <2> QED
    BY <2>1, <2>5 DEF MemFileStep, Mem!File!Next
<1> QED
  BY <1>3, <1>4, <1>5

LEMMA MemNextFile == ASSUME Mem!IInv, Mem!Next \/ UNCHANGED Mem!vars PROVE MemFileStep
<1>1. MemLaid(mem_dev)
  BY MemIInvLaid
<1>2. CASE UNCHANGED mem_dev
  BY <1>1, <1>2 DEF MemFileStep
<1>3. ASSUME NEW p \in Procs, Mem!Open(p) PROVE MemFileStep
  BY <1>2, <1>3, MemTrimTruncates DEF Mem!Open
<1>4. ASSUME NEW p \in Procs,
             Mem!Close(p) \/ Mem!Ioctl(p) \/ Mem!BeginRead(p) \/ Mem!BeginWrite(p)
              \/ Mem!Interrupted(p) \/ Mem!Mix(p)
      PROVE  UNCHANGED mem_dev
  BY <1>4 DEF Mem!Close, Mem!Ioctl, Mem!BeginRead, Mem!BeginWrite, Mem!Begin, Mem!Interrupted,
     Mem!Mix
<1>5. Mem!Stop \/ UNCHANGED Mem!vars => UNCHANGED mem_dev
  BY DEF Mem!Stop, Mem!vars
<1> QED
  BY <1>2, <1>3, <1>4, <1>5, MemReadStutters, MemWritePuts, MemWriteFailsSpoils DEF Mem!Next

LEMMA MemInitIInv == Mem!Init => Mem!IInv /\ Mem!AsFile(mem_dev) = <<>>
<1> SUFFICES ASSUME Mem!Init PROVE Mem!IInv /\ Mem!AsFile(mem_dev) = <<>>
  OBVIOUS
<1>1. MemDefault \in Mem!Geometries
  BY MemDefaultAssumption DEF Mem!Geometries
<1>2. MemLaid(mem_dev) /\ Mem!AsFile(mem_dev) = <<>>
  BY <1>1, MemEmptyLaid DEF Mem!Init
<1>3. Mem!Geometry(mem_dev) \in Mem!Geometries /\ mem_dev.size \in 0..MaxPos
       /\ Mem!WellLaid(mem_dev)
  BY <1>2, MemShaped
<1>4. Mem!NoCall \in [pos : 0..MaxPos, geometry : Mem!Geometries]
  BY <1>1, PositionsAssumption DEF Mem!NoCall
<1>5. Mem!TypeOK
  BY <1>1, <1>3, <1>4 DEF Mem!Init, Mem!TypeOK
<1>6. Mem!CallInv
  BY DEF Mem!Init, Mem!CallInv
<1> QED
  BY <1>2, <1>5, <1>6, MemIInvLaid

LEMMA MemNextIInv == ASSUME Mem!IInv, Mem!Next \/ UNCHANGED Mem!vars PROVE Mem!IInv'
<1>1. MemLaid(mem_dev')
  BY MemNextFile DEF MemFileStep
<1>2. Mem!Geometry(mem_dev') \in Mem!Geometries /\ mem_dev'.size \in 0..MaxPos
       /\ Mem!WellLaid(mem_dev')
  BY <1>1, MemShaped
<1>3. Mem!TypeOK /\ Mem!CallInv
  BY DEF Mem!IInv
<1> DEFINE labels == {"closed", "open", "reading", "writing"}
           calls == [pos : 0..MaxPos, geometry : Mem!Geometries]
<1>4. MemDefault \in Mem!Geometries /\ Mem!NoCall \in calls
  BY MemDefaultAssumption, PositionsAssumption DEF Mem!NoCall, Mem!Geometries
<1>5. Mem!Geometry(mem_dev) \in Mem!Geometries /\ mem_defaults \in Mem!Geometries
       /\ mixed \in BOOLEAN
      /\ mem_pc \in [Procs -> labels] /\ call \in [Procs -> calls]
  BY <1>3 DEF Mem!TypeOK
<1>6. mem_defaults' \in Mem!Geometries
  <2>1. ASSUME NEW p \in Procs, Mem!Ioctl(p) PROVE mem_defaults' \in Mem!Geometries
    BY <1>4, <1>5, <2>1 DEF Mem!Ioctl, Mem!Geometries
  <2>2. ASSUME NEW p \in Procs,
               \/ Mem!Open(p) \/ Mem!Close(p) \/ Mem!BeginRead(p) \/ Mem!BeginWrite(p)
                   \/ Mem!Interrupted(p)
               \/ Mem!Mix(p) \/ Mem!Read(p) \/ Mem!Write(p) \/ Mem!WriteFails(p)
        PROVE  UNCHANGED mem_defaults
    BY <2>2 DEF Mem!Open, Mem!Close, Mem!BeginRead, Mem!BeginWrite, Mem!Begin, Mem!Interrupted,
       Mem!Mix, Mem!Read, Mem!Write,
                Mem!WriteFails
  <2>3. Mem!Stop \/ UNCHANGED Mem!vars => UNCHANGED mem_defaults
    BY DEF Mem!Stop, Mem!vars
  <2> QED
    BY <1>5, <2>1, <2>2, <2>3 DEF Mem!Next
<1>7. mixed' \in BOOLEAN
  <2>1. ASSUME NEW p \in Procs,
               \/ Mem!Open(p) \/ Mem!Close(p) \/ Mem!Ioctl(p) \/ Mem!BeginRead(p)
                   \/ Mem!BeginWrite(p)
               \/ Mem!Interrupted(p) \/ Mem!Mix(p) \/ Mem!Read(p) \/ Mem!Write(p)
                   \/ Mem!WriteFails(p)
        PROVE  mixed' = TRUE \/ mixed' = mixed
    BY <2>1 DEF Mem!Open, Mem!Close, Mem!Ioctl, Mem!BeginRead, Mem!BeginWrite, Mem!Begin,
       Mem!Interrupted, Mem!Mix, Mem!Read,
                Mem!Write, Mem!WriteFails
  <2>2. Mem!Stop \/ UNCHANGED Mem!vars => mixed' = mixed
    BY DEF Mem!Stop, Mem!vars
  <2> QED
    BY <1>5, <2>1, <2>2 DEF Mem!Next
<1> DEFINE Kept(p) ==
             /\ mem_pc' \in [Procs -> labels] /\ call' \in [Procs -> calls]
             /\ \A r \in Procs \ {p} : mem_pc'[r] = mem_pc[r] /\ call'[r] = call[r]
             /\ mem_pc'[p] \in {"reading", "writing"} => call'[p].pos \in Mem!Positions
<1>8. ASSUME NEW p \in Procs, Mem!GoTo(p, "open") \/ Mem!GoTo(p, "closed"), UNCHANGED call
      PROVE  Kept(p)
  BY <1>5, <1>8 DEF Mem!GoTo
<1>9. ASSUME NEW p \in Procs, Mem!Return(p) PROVE Kept(p)
  BY <1>4, <1>5, <1>9 DEF Mem!Return, Mem!GoTo
<1>10. ASSUME NEW p \in Procs, UNCHANGED <<mem_pc, call>> PROVE Kept(p)
  BY <1>3, <1>5, <1>10 DEF Mem!CallInv
<1>11. ASSUME NEW p \in Procs, NEW label \in {"reading", "writing"}, Mem!Begin(p, label)
       PROVE  Kept(p)
  <2>1. PICK pos \in Mem!Positions :
          call' = [call EXCEPT ![p] = [pos |-> pos, geometry |-> Mem!Current]]
    BY <1>11 DEF Mem!Begin
  <2>2. [pos |-> pos, geometry |-> Mem!Current] \in calls
    BY <1>5, PositionsAssumption DEF Mem!Positions, Mem!Current
  <2>3. mem_pc' = [mem_pc EXCEPT ![p] = label]
    BY <1>11 DEF Mem!Begin, Mem!GoTo
  <2> QED
    BY <1>5, <2>1, <2>2, <2>3
<1>12. ASSUME NEW p \in Procs,
              \/ Mem!Open(p) \/ Mem!Close(p) \/ Mem!Ioctl(p) \/ Mem!BeginRead(p)
                  \/ Mem!BeginWrite(p)
              \/ Mem!Interrupted(p) \/ Mem!Mix(p) \/ Mem!Read(p) \/ Mem!Write(p)
                  \/ Mem!WriteFails(p)
       PROVE  Kept(p)
  <2> HIDE DEF Kept
  <2>1. CASE Mem!Open(p)
    BY <1>8, <2>1 DEF Mem!Open
  <2>2. CASE Mem!Close(p)
    BY <1>8, <2>2 DEF Mem!Close
  <2>3. CASE Mem!Ioctl(p) \/ Mem!Mix(p)
    BY <1>10, <2>3 DEF Mem!Ioctl, Mem!Mix
  <2>4. CASE Mem!BeginRead(p) \/ Mem!BeginWrite(p)
    BY <1>11, <2>4 DEF Mem!BeginRead, Mem!BeginWrite
  <2>5. CASE Mem!Interrupted(p) \/ Mem!Read(p) \/ Mem!Write(p) \/ Mem!WriteFails(p)
    BY <1>9, <2>5 DEF Mem!Interrupted, Mem!Read, Mem!Write, Mem!WriteFails
  <2> QED
    BY <1>12, <2>1, <2>2, <2>3, <2>4, <2>5
<1>13. Mem!Stop \/ UNCHANGED Mem!vars => UNCHANGED <<mem_pc, call>>
  BY DEF Mem!Stop, Mem!vars
<1>14. ASSUME NEW p \in Procs, Kept(p)
       PROVE  Mem!CallInv' /\ mem_pc' \in [Procs -> labels] /\ call' \in [Procs -> calls]
  BY <1>3, <1>14 DEF Mem!CallInv
<1>15. Mem!CallInv' /\ mem_pc' \in [Procs -> labels] /\ call' \in [Procs -> calls]
  <2>1. CASE UNCHANGED <<mem_pc, call>>
    BY <1>3, <1>5, <2>1 DEF Mem!CallInv
  <2> HIDE DEF Kept
  <2> QED
    BY <1>12, <1>13, <1>14, <2>1 DEF Mem!Next
<1>16. Mem!TypeOK'
  BY <1>2, <1>6, <1>7, <1>15 DEF Mem!TypeOK, Mem!Geometry, Mem!WellLaid
<1>17. Mem!DevInv' /\ Mem!HoleInv'
  BY <1>1 DEF MemLaid, Mem!DevInv, Mem!HoleInv, Mem!Geometry
<1> QED
  BY <1>15, <1>16, <1>17 DEF Mem!IInv

-----------------------------------------------------------------------------
(* A step of the program is a step of the driver that is loaded.           *)

LEMMA LoadAlone == ASSUME [Next]_vars PROVE Load!Next \/ UNCHANGED Load!vars
BY DEF Next, vars, loadVars, Load!vars

LEMMA ShortAlone == ASSUME [Next]_vars PROVE Short!Next \/ UNCHANGED Short!vars
BY DEF Next, vars, shortVars, Short!vars, Short!params, Short!resources, Short!probing,
       Short!running

LEMMA UsbAlone == ASSUME [Next]_vars PROVE Usb!Next \/ UNCHANGED Usb!vars
BY DEF Next, vars, usbVars, Usb!vars

LEMMA DiskAlone == ASSUME [Next]_vars PROVE Disk!Next \/ UNCHANGED Disk!vars
BY DEF Next, vars, sbullVars, Disk!vars, Disk!module, Disk!media, Disk!io

LEMMA TtyAlone == ASSUME [Next]_vars PROVE Tty!Next \/ UNCHANGED Tty!vars
BY DEF Next, vars, ttyVars, Tty!vars

LEMMA RingAlone == ASSUME [Next]_vars PROVE Ring!Next \/ UNCHANGED Ring!vars
BY DEF Next, vars, ringVars, Ring!vars, Ring!text, Ring!times, Ring!reading

LEMMA SlabAlone == ASSUME [Next]_vars PROVE Slab!Next \/ UNCHANGED Slab!vars
BY DEF Next, vars, slabVars, Slab!vars, Slab!device, Slab!load

LEMMA PageAlone == ASSUME [Next]_vars PROVE Page!Next \/ UNCHANGED Page!vars
BY DEF Next, vars, pageVars, Page!vars, Page!data

LEMMA MemAlone == ASSUME [Next]_vars PROVE Mem!Next \/ UNCHANGED Mem!vars
BY DEF Next, vars, memVars, Mem!vars

LEMMA VgaAlone == ASSUME [Next]_vars PROVE [Vga!Next]_(Vga!vars)
BY DEF Next, vars, vgaVars, Vga!vars

-----------------------------------------------------------------------------
(* The theorems.                                                           *)

(* Whether scull's load succeeds, fails in one of its three parts, or is   *)
(* undone, no number, array, /proc entry or initialised cdev is left after *)
(* it, and main.c and pipe.c delete only cdevs they have set up.  Of those *)
(* of access.c, which access.c:396 deletes in any case, nothing is said:   *)
(* it may delete one that was never set up, or put one a second time.      *)
THEOREM LoadSafeHolds == Spec => []LoadSafe
<1>1. Init => Load!IInv
  BY LoadInitIInv DEF Init
<1>2. Load!IInv /\ [Next]_vars => Load!IInv'
  BY LoadAlone, LoadNextIInv
<1>3. Load!IInv => LoadSafe
  BY LoadIInvSafe DEF LoadSafe
<1> QED
  BY <1>1, <1>2, <1>3, PTL DEF Spec

(* The line short's own probe finds is the only one that has interrupted,  *)
(* and the unload gives back the handler that was installed.               *)
THEOREM ShortSafeHolds == Spec => []ShortSafe
<1>1. Init => Short!IInv
  BY ShortInitIInv DEF Init
<1>2. Short!IInv /\ [Next]_vars => Short!IInv'
  BY ShortAlone, ShortNextIInv
<1>3. Short!IInv => ShortSafe
  BY ShortIInvSafe DEF ShortSafe
<1> QED
  BY <1>1, <1>2, <1>3, PTL DEF Spec

(* For any number of files, struct usb_skel is freed by the last one that  *)
(* refers to it, and nobody reaches it later; who reads alone gets its own *)
(* data.                                                                   *)
THEOREM UsbSafeHolds == Spec => []UsbSafe
<1>1. Init => Usb!IInv
  BY UsbInitIInv DEF Init
<1>2. Usb!IInv /\ [Next]_vars => Usb!IInv'
  BY UsbAlone, UsbNextIInv
<1>3. Usb!IInv => UsbSafe
  BY UsbIInvSafe DEF UsbSafe
<1> QED
  BY <1>1, <1>2, <1>3, PTL DEF Spec

(* For any number of users and sectors, sbull's timer finds nobody using   *)
(* the disk, its queued requests are not mixed, and the unload leaves no   *)
(* timer, disk or data.                                                    *)
THEOREM DiskSafeHolds == Spec => []DiskSafe
<1>1. Init => Disk!IInv
  BY DiskInitIInv DEF Init
<1>2. Disk!IInv /\ [Next]_vars => Disk!IInv'
  BY DiskAlone, DiskNextIInv
<1>3. Disk!IInv => DiskSafe
  BY DiskIInvSafe DEF DiskSafe
<1> QED
  BY <1>1, <1>2, <1>3, PTL DEF Spec

(* For any number of processes, tiny_tty's timer is pending just while the *)
(* port is open, as long as no two opens, or an open and a close, overlap. *)
THEOREM TtySafeHolds == Spec => []TtySafe
<1>1. Init => Tty!IInv
  BY TtyInitIInv DEF Init
<1>2. Tty!IInv /\ [Next]_vars => Tty!IInv'
  BY TtyAlone, TtyNextIInv
<1>3. Tty!IInv => TtySafe
  BY TtyIInvSafe DEF TtySafe
<1> QED
  BY <1>1, <1>2, <1>3, PTL DEF Spec

(* For any number of readers and any size of short's rings, a line is read *)
(* once, a time is reported once, no reader sleeps on lines that have      *)
(* come, and every interrupt counted is followed by a bottom half.         *)
THEOREM RingSafeHolds == Spec => []RingSafe
<1>1. Init => Ring!IInv
  BY RingInitIInv DEF Init
<1>2. Ring!IInv /\ [Next]_vars => Ring!IInv'
  BY RingAlone, RingNextIInv
<1>3. Ring!IInv => RingSafe
  BY RingIInvSafe DEF RingSafe
<1> QED
  BY <1>1, <1>2, <1>3, PTL DEF Spec

(* For any processes, quanta and numbers of slots, scullc's cache is empty *)
(* when it is destroyed, and its objects are overrun only after ioctl has  *)
(* raised the quantum.                                                     *)
THEOREM SlabSafeHolds == Spec => []SlabSafe
<1>1. Init => Slab!IInv
  BY SlabInitIInv DEF Init
<1>2. Slab!IInv /\ [Next]_vars => Slab!IInv'
  BY SlabAlone, SlabNextIInv
<1>3. Slab!IInv => SlabSafe
  BY SlabIInvSafe DEF SlabSafe
<1> QED
  BY <1>1, <1>2, <1>3, PTL DEF Spec

(* For any number of processes, orders and numbers of slots, a page that   *)
(* is mapped is not freed, the mappings are counted, and no write runs     *)
(* over the end of a block of the first item.                              *)
THEOREM PagesSafeHolds == Spec => []PagesSafe
<1>1. Init => Page!IInv
  BY PageInitIInv DEF Init
<1>2. Page!IInv /\ [Next]_vars => Page!IInv'
  BY PageAlone, PageNextIInv
<1>3. Page!IInv => PagesSafe
  BY PageIInvSafe DEF PagesSafe
<1> QED
  BY <1>1, <1>2, <1>3, PTL DEF Spec

(* For any processes, bytes, quanta and numbers of slots, a scull device is *)
(* a file: a write changes the bytes it is for and no other, what is        *)
(* allocated on the way is not seen, and the memory keeps the layout of the *)
(* device's geometry.                                                       *)
THEOREM MemIsFile == Spec => ImplementsFile
<1>1. Init => Mem!IInv /\ Mem!AsFile(mem_dev) = <<>>
  BY MemInitIInv DEF Init
<1>2. Init => Mem!File!Init
  BY <1>1 DEF Mem!File!Init
<1>3. Mem!IInv /\ [Next]_vars => Mem!IInv'
  BY MemAlone, MemNextIInv
<1>4. Mem!IInv /\ [Next]_vars => [loaded = "mem" => Mem!File!Next]_(Mem!AsFile(mem_dev))
  <2> SUFFICES ASSUME Mem!IInv, [Next]_vars
               PROVE  Mem!File!Next \/ Mem!AsFile(mem_dev)' = Mem!AsFile(mem_dev)
    OBVIOUS
  <2>1. Mem!File!Next \/ Mem!AsFile(mem_dev') = Mem!AsFile(mem_dev)
    BY MemAlone, MemNextFile DEF MemFileStep
  <2>2. Mem!AsFile(mem_dev') = Mem!AsFile(mem_dev)'
    BY DEF Mem!AsFile
  <2> QED
    BY <2>1, <2>2
<1>5. Mem!IInv => Mem!TypeOK
  BY DEF Mem!IInv
<1> QED
  BY <1>1, <1>2, <1>3, <1>4, <1>5, PTL DEF Spec, ImplementsFile

VgaP == INSTANCE VgaOutProofs WITH
  pc <- vga_pc, region <- vga_region, raced <- vga_raced, fault <- vga_fault

\* VgaOutProofs speaks of the same driver.
LEMMA SameDriver ==
  /\ Vga!Init => VgaP!Init
  /\ [Vga!Next]_(Vga!vars) => [VgaP!Next]_(VgaP!vars)
  /\ VgaP!VgaSafe => Vga!VgaSafe
<1>1. Vga!Init => VgaP!Init
  BY DEF Vga!Init, VgaP!Init
<1>2. Vga!Next => VgaP!Next
  BY DEF Vga!Next, VgaP!Next, Vga!Insmod, VgaP!Insmod, Vga!Alloc, VgaP!Alloc, Vga!CheckRegion,
       VgaP!CheckRegion, Vga!RequestRegion, VgaP!RequestRegion, Vga!RequestIrq,
       VgaP!RequestIrq, Vga!CdevAdd, VgaP!CdevAdd, Vga!PlatformRegister,
       VgaP!PlatformRegister, Vga!Rmmod, VgaP!Rmmod, Vga!TeardownReset, VgaP!TeardownReset,
       Vga!CdevDel, VgaP!CdevDel, Vga!Unmap, VgaP!Unmap, Vga!FreeDevice, VgaP!FreeDevice,
       Vga!Exit, VgaP!Exit, Vga!Open, VgaP!Open, Vga!Release, VgaP!Release, Vga!Other,
       VgaP!Other, Vga!Stop, VgaP!Stop, Vga!Goto, VgaP!Goto, Vga!Take, VgaP!Take,
       Vga!GiveBack, VgaP!GiveBack, Vga!Reset, VgaP!Reset, Vga!ProbeFails, VgaP!ProbeFails,
       Vga!Checked, VgaP!Checked, Vga!NoIrq, VgaP!NoIrq, Vga!HasDevice, VgaP!HasDevice,
       Vga!InUse, VgaP!InUse, Vga!vars, VgaP!vars
<1>3. UNCHANGED Vga!vars => UNCHANGED VgaP!vars
  BY DEF Vga!vars, VgaP!vars
<1>4. VgaP!VgaSafe => Vga!VgaSafe
  BY DEF Vga!VgaSafe, VgaP!VgaSafe, Vga!EnabledHandled, VgaP!EnabledHandled,
         Vga!FilesKeepDevice, VgaP!FilesKeepDevice, Vga!TheirRegionOnlyInRace,
         VgaP!TheirRegionOnlyInRace
<1> QED
  BY <1>1, <1>2, <1>3, <1>4

(* What VgaOutProofs shows of the VGA driver holds of it here.             *)
THEOREM VgaSafeKept == Spec => []VgaSafe
<1>1. Init => VgaP!IInv
  BY SameDriver, VgaP!InitIInv DEF Init
<1>2. VgaP!IInv /\ [Next]_vars => VgaP!IInv'
  BY SameDriver, VgaAlone, VgaP!NextIInv
<1>3. VgaP!IInv => VgaSafe
  BY SameDriver, VgaP!SafeIInv DEF VgaSafe
<1> QED
  BY <1>1, <1>2, <1>3, PTL DEF Spec
===============================================================================
