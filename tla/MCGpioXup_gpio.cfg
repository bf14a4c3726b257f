SPECIFICATION FairSpec
CONSTANTS
  Files = {f1, f2, f3}
  irq_present = TRUE
  is_out = TRUE
INVARIANTS IInv NoStaleAccess QuietAfterReset NoLeak
PROPERTY ArmedSleeperWakes
\* A fault stops the kernel, and the device may be left alone for ever.
CHECK_DEADLOCK FALSE
