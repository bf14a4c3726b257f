-------------------------------- MODULE TinyTty --------------------------------
(***************************************************************************)
(* One port of the tiny tty (tty/tiny_tty.c): it is allocated at its first *)
(* open, and while it is open a timer sends a character to the tty.        *)
(*                                                                         *)
(* The tty layer calls open and close under the big kernel lock, which is  *)
(* given up where they sleep: in kmalloc and in down.  It calls close for  *)
(* an open that has failed, too.                                           *)
(***************************************************************************)
EXTENDS Integers, FiniteSets

CONSTANTS
  Procs,
  MaxPorts,  \* bound: ports allocated for the minor
  MaxOpens   \* bound: opens that a port counts, when another begins

NoPort == 0
Ports == 1..MaxPorts

VARIABLES
  loaded,
  table,        \* tiny_table of the minor
  driver_data,  \* of the tty_struct that all the opens share
  port,         \* of each port that was allocated, the fields below
  used,         \* how many were
  pc, mine,     \* of each process; the port its open has found
  fault,        \* a null pointer or a closed tty was used
  overlapped    \* an open has gone on beside another open or a close

vars == <<loaded, table, driver_data, port, used, pc, mine, fault, overlapped>>

\* timer: "none", "off", or "pending".
NewPort == [open_count |-> 0, sem |-> TRUE, timer |-> "none", freed |-> FALSE]

Init ==
  /\ loaded = FALSE /\ table = NoPort /\ driver_data = NoPort
  /\ port = [i \in Ports |-> NewPort] /\ used = 0
  /\ pc = [p \in Procs |-> "out"] /\ mine = [p \in Procs |-> NoPort]
  /\ fault = "none" /\ overlapped = FALSE

Goto(p, from, to) == pc[p] = from /\ pc' = [pc EXCEPT ![p] = to]
Openers == {p \in Procs : pc[p] # "out"}
Busy == {p \in Procs : pc[p] \notin {"out", "open"}}

-----------------------------------------------------------------------------
(* Opening.                                                                *)

Open(p) ==
  /\ loaded /\ \A i \in Ports : port[i].open_count < MaxOpens
  /\ driver_data' = NoPort
  /\ Goto(p, "out", IF table = NoPort THEN "alloc" ELSE "down")
  /\ mine' = [mine EXCEPT ![p] = table]
  /\ overlapped' = (overlapped \/ Busy # {})
  /\ UNCHANGED <<loaded, table, port, used, fault>>

Alloc(p) ==
  /\ \/ Goto(p, "alloc", "failed") /\ UNCHANGED <<table, used, mine>>
     \/ /\ used < MaxPorts /\ used' = used + 1
        /\ table' = used' /\ mine' = [mine EXCEPT ![p] = used']
        /\ Goto(p, "alloc", "down")
  /\ UNCHANGED <<loaded, driver_data, port, fault, overlapped>>

\* Mutation of Starts: every open starts the timer.
StartsAlways(p) == TRUE
Starts(p) == port[mine[p]].open_count = 0

\* add_timer.
Started(i) == [port[i] EXCEPT !.open_count = 1, !.timer = "pending"]

Down(p) ==
  /\ pc[p] = "down" /\ port[mine[p]].sem
  /\ driver_data' = mine[p]
  /\ IF Starts(p) /\ port[mine[p]].timer = "none"
     THEN /\ Goto(p, "down", "timer")
          /\ port' = [port EXCEPT ![mine[p]].open_count = 1, ![mine[p]].sem = FALSE]
     ELSE /\ Goto(p, "down", "open")
          /\ port' = IF Starts(p) THEN [port EXCEPT ![mine[p]] = Started(mine[p])]
                     ELSE [port EXCEPT ![mine[p]].open_count = @ + 1]
  /\ UNCHANGED <<loaded, table, used, mine, fault, overlapped>>

\* The timer is allocated, with the semaphore held.
AllocTimer(p) ==
  /\ \/ /\ Goto(p, "timer", "failed")
        /\ port' = [port EXCEPT ![mine[p]].sem = TRUE]
     \/ /\ Goto(p, "timer", "open")
        /\ port' = [port EXCEPT ![mine[p]] = [Started(mine[p]) EXCEPT !.sem = TRUE]]
  /\ UNCHANGED <<loaded, table, driver_data, used, mine, fault, overlapped>>

-----------------------------------------------------------------------------
(* Closing.                                                                *)

Close(p) ==
  /\ \E from \in {"open", "failed"} : Goto(p, from, IF driver_data = NoPort THEN "out" ELSE "close")
  /\ mine' = [mine EXCEPT ![p] = driver_data]
  /\ overlapped' = (overlapped \/ Busy \ {p} # {})
  /\ UNCHANGED <<loaded, table, driver_data, port, used, fault>>

\* Mutation of StopTimer: the timer that is pending runs once more.
StopTimerLate(t) == t
StopTimer(t) == IF t = "pending" THEN "off" ELSE t

Closed(q) ==
  IF q.open_count = 0 THEN q
  ELSE [q EXCEPT !.open_count = @ - 1,
                 !.timer = IF q.open_count = 1 THEN StopTimer(@) ELSE @]

\* del_timer of the timer that could not be allocated.
NoTimer(q) == q.open_count = 1 /\ q.timer = "none"

DoClose(p) ==
  /\ Goto(p, "close", "out")
  /\ port[mine[p]].sem
  /\ port' = [port EXCEPT ![mine[p]] = Closed(@)]
  /\ fault' = IF NoTimer(port[mine[p]]) THEN "no_timer" ELSE fault
  /\ UNCHANGED <<loaded, table, driver_data, used, mine, overlapped>>

\* tiny_timer sends to the tty of the last open, and starts itself again.
Timer(i) ==
  /\ port[i].timer = "pending" /\ ~port[i].freed
  /\ fault' = IF Openers = {} THEN "closed_tty" ELSE fault
  /\ UNCHANGED <<loaded, table, driver_data, port, used, pc, mine, overlapped>>

-----------------------------------------------------------------------------
(* The module.                                                             *)

TinyInit ==
  /\ ~loaded /\ used = 0 /\ loaded' = TRUE
  /\ UNCHANGED <<table, driver_data, port, used, pc, mine, fault, overlapped>>

\* Closes the port as often as it is open, then frees it with its timer.
TinyExit ==
  /\ loaded /\ Openers = {} /\ loaded' = FALSE
  /\ table' = NoPort /\ driver_data' = NoPort
  /\ IF table = NoPort THEN UNCHANGED <<port, fault>>
     ELSE /\ port' = [port EXCEPT ![table].open_count = 0, ![table].freed = TRUE,
                                  ![table].timer = StopTimer(@)]
          /\ fault' = IF port[table].timer = "none" THEN "no_timer" ELSE fault
  /\ UNCHANGED <<used, pc, mine, overlapped>>

Stop == (fault # "none" \/ (~loaded /\ used > 0)) /\ UNCHANGED vars

Next ==
  \/ /\ fault = "none"
     /\ \/ \E p \in Procs :
             Open(p) \/ Alloc(p) \/ Down(p) \/ AllocTimer(p) \/ Close(p) \/ DoClose(p)
        \/ \E i \in Ports : Timer(i)
        \/ TinyInit \/ TinyExit
  \/ Stop

Spec == Init /\ [][Next]_vars

-----------------------------------------------------------------------------
(* Properties.                                                             *)

(* One after the other, opens and closes keep the count of the port, and   *)
(* its timer is pending just while the port is open, whatever fails.  An   *)
(* open beside a close may lose the close, which finds no driver_data.     *)
TimerWhileOpen ==
  ~overlapped /\ fault = "none" /\ Busy = {} =>
    \A i \in 1..used :
      /\ port[i].open_count = Cardinality(Openers)
      /\ port[i].timer = "pending" <=> Openers # {}

(* The timer uses a tty that is closed only when two opens, or an open and *)
(* a close, have overlapped.                                               *)
TtyIsOpen == fault = "closed_tty" => overlapped

(* Unless two first opens have each allocated a port, the unload frees all *)
(* there are and stops their timers.                                       *)
ExitFreesPorts ==
  ~loaded /\ ~overlapped /\ fault = "none" => \A i \in 1..used : port[i].freed /\ port[i].timer # "pending"

(* The port and its timer, through opens, closes and the unload.           *)
TtySafe == TimerWhileOpen /\ TtyIsOpen /\ ExitFreesPorts

-----------------------------------------------------------------------------
(* The inductive invariant, which says something as long as nothing has    *)
(* overlapped and no null pointer was used: one process at a time is busy, *)
(* and there is one port at most.                                          *)

Counted == {p \in Procs : pc[p] \in {"open", "timer", "close"} \/ (pc[p] = "failed" /\ used # 0)}
Labels == {"out", "alloc", "down", "timer", "open", "failed", "close"}
PortStates ==
  [open_count : Nat, sem : BOOLEAN, timer : {"none", "off", "pending"}, freed : BOOLEAN]

TypeInv ==
  /\ loaded \in BOOLEAN
  /\ port \in [Ports -> PortStates] /\ used \in {0, 1} /\ used <= MaxPorts
  /\ pc \in [Procs -> Labels] /\ mine \in [Procs -> {0, 1}]

NoPortInv ==
  /\ table = NoPort /\ driver_data = NoPort
  /\ \A i \in Ports : port[i] = NewPort
  /\ \A p \in Procs : pc[p] \in {"out", "alloc", "failed"}

OnePortInv ==
  /\ \A i \in Ports : i # 1 => port[i] = NewPort
  /\ \A p \in Procs : /\ pc[p] # "alloc"
                      /\ pc[p] \in {"down", "timer", "close"} => mine[p] = 1
                      /\ pc[p] \in {"timer", "failed", "close"} => driver_data = 1
  /\ Busy = {} /\ Openers # {} => driver_data = 1
  /\ driver_data \in {0, 1}
  /\ loaded => table = 1 /\ ~port[1].freed
  /\ ~loaded => port[1].freed
  /\ port[1].open_count = Cardinality(Counted)
  /\ port[1].sem <=> \A p \in Procs : pc[p] # "timer"
  /\ IF port[1].timer = "none" THEN \A p \in Procs : pc[p] # "open"
     ELSE /\ \A p \in Procs : pc[p] \notin {"timer", "failed"}
          /\ port[1].timer = "pending" <=> Counted # {}

Quiet ==
  /\ TypeInv
  /\ \A p, q \in Busy : p = q
  /\ ~loaded => Openers = {}
  /\ IF used = 0 THEN NoPortInv ELSE OnePortInv

IInv == TtyIsOpen /\ (~overlapped /\ fault = "none" => Quiet)
=============================================================================
