SPECIFICATION Spec
CONSTANTS
  Files = {f1}
  irq_present = TRUE
  is_out = FALSE
SYMMETRY Symmetry
INVARIANT SleepersArmed
\* A fault stops the kernel, and the device may be left alone for ever.
CHECK_DEADLOCK FALSE
