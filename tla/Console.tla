------------------------------ MODULE Console ------------------------------
(***************************************************************************)
(* Command consoles: cl_commander, cl_console and its sub-consoles, and    *)
(* the main loop cl_app::run with cl_sim::start and cl_sim::stop.          *)
(*                                                                         *)
(* A console is the number of its input descriptor.  The commander keeps   *)
(* the descriptors to wait for in read_set, which set_fd_set computes from *)
(* the flags of the consoles; proc_input serves the lowest ready one.      *)
(* `run' freezes the console it was given on, until cl_sim::stop.  What a  *)
(* command does to the simulated machine is left out.                      *)
(***************************************************************************)
EXTENDS Integers, FiniteSets

CONSTANTS
  Terminals,  \* consoles on a terminal, there from the beginning
  Sockets,    \* consoles accepted on the listening socket
  Scripts,    \* sub-consoles of `exec', reading a file
  Lines,      \* bound: lines a user types on a terminal or socket
  FileLines   \* lines of a script file

ASSUME ConsoleAssumption ==
  /\ Terminals \subseteq Nat /\ Sockets \subseteq Nat /\ Scripts \subseteq Nat
  /\ Terminals \cap Sockets = {}
  /\ (Terminals \cup Sockets) \cap Scripts = {}
  /\ Lines \in Nat /\ FileLines \in Nat

Consoles    == Terminals \cup Sockets \cup Scripts
Interactive == Terminals \cup Sockets     \* CONS_INTERACTIVE
None        == -1                         \* null pointer

VARIABLES
  cons,            \* the consoles of the commander
  gone,            \* deleted consoles
  frozen,          \* consoles with CONS_FROZEN
  inactive,        \* consoles with CONS_INACTIVE
  parent,          \* console -> the console whose `exec' made it
  frozen_console,
  read_set,
  go,              \* SIM_GO
  killed,          \* cl_app::going is 0
  lines,           \* console -> lines on its descriptor and in its buffer
  typed,           \* lines typed so far
  eof              \* consoles whose input has ended

\* Lines that select sees, and lines that stdio has read ahead.
Input == [fd : Nat, buf : Nat]

flags == <<frozen, inactive, parent>>
input == <<lines, typed, eof>>
vars  == <<cons, gone, flags, frozen_console, read_set, go, killed, input>>

TypeOK ==
  /\ cons \subseteq Consoles /\ gone \subseteq Consoles
  /\ frozen \subseteq Consoles /\ inactive \subseteq Consoles
  /\ parent \in [Consoles -> Consoles \cup {None}]
  /\ frozen_console \in Consoles \cup {None}
  /\ read_set \subseteq cons
  /\ go \in BOOLEAN /\ killed \in BOOLEAN
  /\ lines \in [Consoles -> Input] /\ typed \in 0 .. Lines
  /\ eof \subseteq Consoles

Init ==
  /\ cons = Terminals /\ gone = {}
  /\ frozen = {} /\ inactive = {} /\ parent = [c \in Consoles |-> None]
  /\ frozen_console = None /\ read_set = Terminals
  /\ go = FALSE /\ killed = FALSE
  /\ lines = [c \in Consoles |->
                [fd |-> IF c \in Scripts THEN FileLines ELSE 0, buf |-> 0]]
  /\ typed = 0 /\ eof = Scripts
-----------------------------------------------------------------------------
\* Seeded fault: a frozen console is never waited for.
Fault_FdSet(cs, fr, ina) == {c \in cs : c \notin ina /\ c \notin fr}

\* cl_commander::set_fd_set, for the given consoles and flags.
FdSet(cs, fr, ina) ==
  {c \in cs : c \notin ina /\ (c \in fr => c \in Interactive)}

\* select: a line, or the end of the input.
Readable(c) == lines[c].fd > 0 \/ c \in eof
Ready       == {c \in read_set : Readable(c)}

\* The console proc_input serves: the first ready descriptor.
Served == {c \in Ready : \A d \in Ready : c <= d}

\* frozen_console points to freed memory: what the program does from here
\* on is undefined, and the model ends.
Dangling == frozen_console \in gone

Alive == ~killed /\ ~Dangling

HasLine(ln, c) == ln[c].fd + ln[c].buf > 0

\* read_line: fgets takes what the descriptor has, a terminal gives a line.
Taken(ln, c) ==
  [ln EXCEPT ![c] =
     IF ln[c].buf > 0    THEN [fd |-> ln[c].fd, buf |-> ln[c].buf - 1]
     ELSE IF c \in Sockets THEN [fd |-> 0, buf |-> ln[c].fd - 1]
     ELSE [fd |-> ln[c].fd - 1, buf |-> 0]]
-----------------------------------------------------------------------------
(* cl_sim::start                                                           *)
start(c) ==
  /\ go' = TRUE /\ frozen_console' = c
  /\ frozen' = frozen \cup {c}
  /\ read_set' = FdSet(cons, frozen', inactive)

\* Seeded fault: the descriptors are not set again.
Fault_stop(also) ==
  /\ go' = FALSE /\ frozen_console' = None
  /\ frozen' = frozen \ {frozen_console, also}
  /\ UNCHANGED read_set

(* cl_sim::stop; the console `also' loses its flag right after it.         *)
stop(also) ==
  /\ go' = FALSE /\ frozen_console' = None
  /\ frozen' = frozen \ {frozen_console, also}
  /\ read_set' = FdSet(cons, frozen \ {frozen_console}, inactive)

\* With resUSER, stop reads and drops a line of the frozen console.
Dropped(ln) ==
  IF /\ frozen_console # None /\ frozen_console \notin inactive
     /\ ln[frozen_console].fd > 0 \/ frozen_console \in eof
     /\ HasLine(ln, frozen_console)
  THEN Taken(ln, frozen_console) ELSE ln

\* Seeded fault: a sub-console does not activate its parent.
Fault_delete(c) ==
  /\ cons' = cons \ {c} /\ gone' = gone \cup {c}
  /\ frozen' = frozen \ {c}
  /\ read_set' = FdSet(cons', frozen', inactive)
  /\ UNCHANGED <<inactive, parent, frozen_console, go>>

(* del_console and the destructors: a sub-console activates its parent.    *)
delete(c) ==
  /\ cons' = cons \ {c} /\ gone' = gone \cup {c}
  /\ frozen' = frozen \ {c} /\ inactive' = inactive \ {parent[c]}
  /\ read_set' = FdSet(cons', frozen', inactive')
  /\ UNCHANGED <<parent, frozen_console, go>>

\* proc_input returns whether there is no console left; the listening one
\* is not counted here.
Ends == cons' = {} /\ Sockets = {}
-----------------------------------------------------------------------------
(* cl_app::run calls proc_input when a descriptor is ready: console c.     *)
Serve(c) == Alive /\ c \in Served /\ UNCHANGED <<typed, eof>>

EndOfInput(c) ==
  /\ Serve(c) /\ ~HasLine(lines, c)
  /\ delete(c) /\ killed' = Ends
  /\ UNCHANGED lines

\* Any line on a frozen console stops the simulation.
Unfreeze(c) ==
  /\ Serve(c) /\ HasLine(lines, c) /\ c \in frozen
  /\ stop(c) /\ lines' = Dropped(Taken(lines, c))
  /\ UNCHANGED <<cons, gone, inactive, parent, killed>>

Command(c) == Serve(c) /\ HasLine(lines, c) /\ c \notin frozen

Run(c) ==
  /\ Command(c) /\ start(c) /\ lines' = Taken(lines, c)
  /\ UNCHANGED <<cons, gone, inactive, parent, killed>>

Stop(c) ==
  /\ Command(c) /\ stop(None) /\ lines' = Dropped(Taken(lines, c))
  /\ UNCHANGED <<cons, gone, inactive, parent, killed>>

\* clone_for_exec, add_console and cl_sub_console::init.
Exec(c, s) ==
  /\ Command(c) /\ s \notin cons \cup gone
  /\ cons' = cons \cup {s} /\ parent' = [parent EXCEPT ![s] = c]
  /\ inactive' = inactive \cup {c}
  /\ read_set' = FdSet(cons', frozen, inactive')
  /\ lines' = Taken(lines, c)
  /\ UNCHANGED <<gone, frozen, frozen_console, go, killed>>

\* `quit' and `kill'.
Quit(c) ==
  /\ Command(c) /\ delete(c) /\ killed' \in {Ends, TRUE}
  /\ lines' = Taken(lines, c)

Other(c) ==
  /\ Command(c) /\ lines' = Taken(lines, c)
  /\ UNCHANGED <<cons, gone, flags, frozen_console, read_set, go, killed>>

ProcInput(c) ==
  \/ EndOfInput(c) \/ Unfreeze(c) \/ Run(c) \/ Stop(c) \/ Quit(c) \/ Other(c)
  \/ \E s \in Scripts : Exec(c, s)

\* cl_app::run executes an instruction when no input is ready; a breakpoint,
\* an error or an event stops the simulation.
StepStops ==
  /\ Alive /\ go /\ Ready = {}
  /\ stop(None)
  /\ UNCHANGED <<cons, gone, inactive, parent, killed, input>>
-----------------------------------------------------------------------------
(* Users.                                                                  *)
Type(c) ==
  /\ Alive /\ c \in cons \cap Interactive /\ c \notin eof /\ typed < Lines
  /\ lines' = [lines EXCEPT ![c].fd = @ + 1] /\ typed' = typed + 1
  /\ UNCHANGED <<cons, gone, flags, frozen_console, read_set, go, killed, eof>>

Close(c) ==
  /\ Alive /\ c \in cons \cap Interactive /\ c \notin eof
  /\ eof' = eof \cup {c}
  /\ UNCHANGED <<cons, gone, flags, frozen_console, read_set, go, killed,
                 lines, typed>>

\* cl_listen_console::proc_input
Connect(c) ==
  /\ Alive /\ c \notin cons \cup gone
  /\ cons' = cons \cup {c}
  /\ read_set' = FdSet(cons', frozen, inactive)
  /\ UNCHANGED <<gone, flags, frozen_console, go, killed, input>>

Ended == ~Alive /\ UNCHANGED vars

Next ==
  \/ \E c \in Consoles : ProcInput(c) \/ Type(c) \/ Close(c)
  \/ \E c \in Sockets : Connect(c)
  \/ StepStops \/ Ended

Spec == Init /\ [][Next]_vars

(* cl_app::run looks for input before every instruction.                   *)
FairSpec == Spec /\ WF_vars(\E c \in Consoles : ProcInput(c))
-----------------------------------------------------------------------------
(* The descriptors waited for are those the flags call for, although the   *)
(* set is computed before the last flag is cleared (proc_input, stop,      *)
(* set_fd_set): no console is deaf, none is read while it must not be, and *)
(* no line is read that was not typed (TypeOK).                            *)
ReadSetFresh == TypeOK /\ read_set = FdSet(cons, frozen, inactive)

(* A console is out of use exactly as long as a sub-console of its `exec'  *)
(* is there, however scripts, runs and disconnections interleave           *)
(* (cl_sub_console).                                                       *)
ParentsWait ==
  \A c \in Consoles : c \in inactive <=> \E s \in cons : parent[s] = c

(* ENTER on a console that waits for a run stops the simulation, also when *)
(* other consoles are busy (proc_input, stop).                             *)
EnterStops ==
  (go /\ \E c \in cons \cap frozen \cap Interactive : lines[c].fd > 0)
    ~> (~go \/ ~Alive)
-----------------------------------------------------------------------------
(* What the documentation says and the code does not do.                   *)

(* doc/cmd_exec.html: a console is frozen while the execution is running.  *)
UnfrozenWhenStopped == ~go => frozen = {}
=============================================================================
