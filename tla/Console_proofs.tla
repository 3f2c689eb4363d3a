--------------------------- MODULE Console_proofs ---------------------------
(***************************************************************************)
(* For every set of terminals, network consoles and scripts and every      *)
(* number of lines: the commander waits for exactly the descriptors its    *)
(* consoles' flags call for, and a console is out of use exactly while a   *)
(* sub-console of its `exec' is there.                                     *)
(***************************************************************************)
EXTENDS Console, TLAPS

(* A console waits for one script at a time, and only a script has a       *)
(* parent.  ParentsWait is not inductive without it: the end of one of two *)
(* scripts would wake the console up for the other.                        *)
OneChild ==
  /\ \A s, t \in cons : parent[s] = parent[t] /\ parent[s] # None => s = t
  /\ \A s \in Consoles : parent[s] # None => s \in Scripts

ConsoleInv == ReadSetFresh /\ ParentsWait /\ OneChild
-----------------------------------------------------------------------------
(* The null pointer is no console.                                         *)
LEMMA NoneIsNone == None \notin Consoles
  BY ConsoleAssumption DEF None, Consoles

(* read_line takes a line that is there: the counts stay natural numbers   *)
(* (read_line, fgets).                                                     *)
LEMMA TakenType ==
  ASSUME NEW ln \in [Consoles -> Input], NEW c \in Consoles, HasLine(ln, c)
  PROVE  Taken(ln, c) \in [Consoles -> Input]
  <1> ln[c].fd \in Nat /\ ln[c].buf \in Nat
    BY DEF Input
  <1>1. ln[c].buf > 0 \/ ln[c].fd > 0
    BY DEF HasLine
  <1> DEFINE n == IF ln[c].buf > 0 THEN [fd |-> ln[c].fd, buf |-> ln[c].buf - 1]
                  ELSE IF c \in Sockets THEN [fd |-> 0, buf |-> ln[c].fd - 1]
                  ELSE [fd |-> ln[c].fd - 1, buf |-> 0]
  <1>2. n \in Input
    BY <1>1 DEF Input
  <1>3. Taken(ln, c) = [ln EXCEPT ![c] = n]
    BY DEF Taken
  <1> HIDE DEF n
  <1> QED BY <1>2, <1>3

(* The line that cl_sim::stop drops is there as well.                      *)
LEMMA DroppedType ==
  ASSUME TypeOK, NEW ln \in [Consoles -> Input]
  PROVE  Dropped(ln) \in [Consoles -> Input]
  <1>1. CASE frozen_console = None
    BY <1>1 DEF Dropped
  <1>2. CASE frozen_console # None
    <2>1. frozen_console \in Consoles
      BY <1>2 DEF TypeOK
    <2> QED BY <2>1, TakenType DEF Dropped
  <1> QED BY <1>1, <1>2

(* The console that is served is waited for, and so is neither out of use  *)
(* nor a frozen script (cl_commander::proc_input).                         *)
LEMMA ServedIsFresh ==
  ASSUME ConsoleInv, NEW c \in Consoles, Serve(c)
  PROVE  /\ c \in cons /\ c \in read_set /\ c \notin inactive
         /\ c \in frozen => c \in Interactive
  BY DEF ConsoleInv, ReadSetFresh, Serve, Served, Ready, FdSet

(* cl_sim::stop computes the set before the console that was served loses  *)
(* its flag.  That is right for a console that is waited for although it   *)
(* is frozen, and for no console.                                          *)
LEMMA StopKeepsFresh ==
  ASSUME ReadSetFresh, NEW c, stop(c), UNCHANGED <<cons, gone, inactive>>,
         c \in frozen => c \in Interactive
  PROVE  /\ read_set' = FdSet(cons', frozen', inactive') /\ read_set' \subseteq cons'
         /\ go' \in BOOLEAN /\ frozen_console' \in Consoles \cup {None}
         /\ frozen' \subseteq Consoles
  BY DEF ReadSetFresh, TypeOK, stop, FdSet

(* The end of a console, for whatever reason, leaves both in step: its     *)
(* parent is awake again, and no other console was waiting for it          *)
(* (del_console, ~cl_sub_console).                                         *)
LEMMA DeleteKeeps ==
  ASSUME ConsoleInv, NEW c \in Consoles, c \in cons, c \notin inactive, delete(c),
         killed' \in BOOLEAN, lines' \in [Consoles -> Input],
         UNCHANGED <<typed, eof>>
  PROVE  ConsoleInv'
  <1> USE DEF ConsoleInv
  <1>1. ReadSetFresh'
    BY DEF ReadSetFresh, TypeOK, delete, FdSet
  <1>2. OneChild'
    BY DEF OneChild, delete
  <1>3. ParentsWait'
    <2> SUFFICES ASSUME NEW d \in Consoles
                 PROVE  d \in inactive' <=> \E s \in cons' : parent'[s] = d
      BY DEF ParentsWait
    <2> USE NoneIsNone
    <2>1. d # None
      OBVIOUS
    <2>2. d \in inactive <=> \E s \in cons : parent[s] = d
      BY DEF ParentsWait
    <2>3. cons' = cons \ {c} /\ parent' = parent /\ inactive' = inactive \ {parent[c]}
      BY DEF delete
    <2>4. CASE parent[c] = d
      BY <2>1, <2>2, <2>3, <2>4 DEF OneChild
    <2>5. CASE parent[c] # d
      BY <2>1, <2>2, <2>3, <2>5
    <2> QED BY <2>4, <2>5
  <1> QED BY <1>1, <1>2, <1>3

(* Steps that touch neither the consoles nor who waits for whom.           *)
LEMMA SameFamily ==
  ASSUME ConsoleInv, UNCHANGED <<cons, inactive, parent>>
  PROVE  ParentsWait' /\ OneChild'
  BY DEF ConsoleInv, ParentsWait, OneChild
-----------------------------------------------------------------------------
(* One lemma per kind of step.                                             *)

(* A command, the end of the input, or ENTER on a frozen console           *)
(* (cl_console::proc_input).                                               *)
LEMMA ProcInputKeeps ==
  ASSUME ConsoleInv, NEW c \in Consoles, ProcInput(c)
  PROVE  ConsoleInv'
  <1> DEFINE L == [Consoles -> Input]
  <1>t. TypeOK
    BY DEF ConsoleInv, ReadSetFresh
  <1>a. Serve(c)
    BY DEF ProcInput, EndOfInput, Unfreeze, Run, Stop, Quit, Other, Exec, Command
  <1>b. /\ c \in cons /\ c \notin inactive
        /\ c \in frozen => c \in Interactive
        /\ typed' = typed /\ eof' = eof
    BY <1>a, ServedIsFresh DEF Serve
  <1>c. HasLine(lines, c) => Taken(lines, c) \in L /\ Dropped(Taken(lines, c)) \in L
    BY <1>t, TakenType, DroppedType DEF TypeOK
  <1>d. Ends \in BOOLEAN
    BY DEF Ends
  <1>1. CASE EndOfInput(c)
    <2>1. killed' \in BOOLEAN
      BY <1>1, <1>d DEF EndOfInput
    <2>2. lines' \in L
      BY <1>1, <1>t DEF EndOfInput, TypeOK
    <2> QED BY <1>1, <1>b, <2>1, <2>2, DeleteKeeps DEF EndOfInput
  <1>2. CASE Unfreeze(c)
    <2>1. lines' \in L
      BY <1>2, <1>c DEF Unfreeze
    <2>2. killed' = killed
      BY <1>2 DEF Unfreeze
    <2>3. ReadSetFresh'
      BY <1>2, <1>t, <1>b, <2>1, <2>2, StopKeepsFresh
         DEF Unfreeze, ConsoleInv, ReadSetFresh, TypeOK
    <2> QED BY <1>2, <2>3, SameFamily DEF Unfreeze, ConsoleInv
  <1>3. CASE Run(c)
    <2>1. lines' \in L
      BY <1>3, <1>c DEF Run, Command
    <2>2. ReadSetFresh'
      BY <1>3, <1>t, <1>b, <2>1 DEF Run, start, ReadSetFresh, TypeOK, FdSet
    <2> QED BY <1>3, <2>2, SameFamily DEF Run, ConsoleInv
  <1>4. CASE Stop(c)
    <2>1. lines' \in L
      BY <1>4, <1>c DEF Stop, Command
    <2>2. killed' = killed
      BY <1>4 DEF Stop
    <2>3. None \notin frozen
      BY <1>t, NoneIsNone DEF TypeOK
    <2>4. ReadSetFresh'
      BY <1>4, <1>t, <1>b, <2>1, <2>2, <2>3, StopKeepsFresh
         DEF Stop, ConsoleInv, ReadSetFresh, TypeOK
    <2> QED BY <1>4, <2>4, SameFamily DEF Stop, ConsoleInv
  <1>5. CASE Quit(c)
    <2>1. killed' \in BOOLEAN
      BY <1>5, <1>d DEF Quit
    <2>2. lines' \in L
      BY <1>5, <1>c DEF Quit, Command
    <2> QED BY <1>5, <1>b, <2>1, <2>2, DeleteKeeps DEF Quit
  <1>6. CASE Other(c)
    <2>1. lines' \in L
      BY <1>6, <1>c DEF Other, Command
    <2>2. ReadSetFresh'
      BY <1>6, <1>t, <1>b, <2>1
         DEF Other, flags, ConsoleInv, ReadSetFresh, TypeOK
    <2> QED BY <1>6, <2>2, SameFamily DEF Other, flags, ConsoleInv
  <1>7. CASE \E s \in Scripts : Exec(c, s)
    <2> PICK s \in Scripts : Exec(c, s)
      BY <1>7
    <2>1. lines' \in L
      BY <1>c DEF Exec, Command
    <2>2. /\ s \notin cons /\ s \in Consoles
          /\ cons' = cons \cup {s} /\ parent' = [parent EXCEPT ![s] = c]
          /\ inactive' = inactive \cup {c}
          /\ read_set' = FdSet(cons', frozen, inactive')
          /\ UNCHANGED <<gone, frozen, frozen_console, go, killed>>
      BY DEF Exec, Consoles
    <2>p. parent \in [Consoles -> Consoles \cup {None}] /\ cons \subseteq Consoles
      BY <1>t DEF TypeOK
    <2>3. ReadSetFresh'
      <3>1. parent' \in [Consoles -> Consoles \cup {None}]
        BY <2>2, <2>p
      <3> QED BY <1>t, <1>b, <2>1, <2>2, <3>1 DEF ReadSetFresh, TypeOK, FdSet
    <2>4. \A t \in cons : parent[t] # c
      BY <1>b DEF ConsoleInv, ParentsWait
    <2>5. OneChild'
      BY <2>2, <2>p, <2>4 DEF ConsoleInv, OneChild
    <2>6. ParentsWait'
      BY <2>2, <2>p DEF ConsoleInv, ParentsWait
    <2> QED BY <2>3, <2>5, <2>6 DEF ConsoleInv
  <1> QED BY <1>1, <1>2, <1>3, <1>4, <1>5, <1>6, <1>7 DEF ProcInput

(* A network console joins: nobody waits for it and it waits for nobody    *)
(* (cl_listen_console::proc_input).                                        *)
LEMMA ConnectKeeps ==
  ASSUME ConsoleInv, NEW c \in Sockets, Connect(c)
  PROVE  ConsoleInv'
  <1>1. c \in Consoles /\ c \notin Scripts
    BY ConsoleAssumption DEF Consoles
  <1>2. /\ cons' = cons \cup {c} /\ parent' = parent /\ inactive' = inactive
        /\ cons \subseteq Consoles
    BY DEF Connect, flags, ConsoleInv, ReadSetFresh, TypeOK
  <1>3. parent[c] = None
    BY <1>1 DEF ConsoleInv, OneChild
  <1>4. ReadSetFresh'
    BY <1>1 DEF Connect, flags, input, ConsoleInv, ReadSetFresh, TypeOK, FdSet
  <1>5. OneChild'
    BY <1>1, <1>2, <1>3 DEF ConsoleInv, OneChild
  <1>6. ParentsWait'
    BY <1>1, <1>2, <1>3, NoneIsNone DEF ConsoleInv, ParentsWait
  <1> QED BY <1>4, <1>5, <1>6 DEF ConsoleInv

(* A user types or hangs up.                                               *)
LEMMA UserKeeps ==
  ASSUME ConsoleInv, NEW c \in Consoles, Type(c) \/ Close(c)
  PROVE  ConsoleInv'
  <1>1. /\ cons' = cons /\ gone' = gone /\ frozen' = frozen /\ inactive' = inactive
        /\ parent' = parent /\ frozen_console' = frozen_console
        /\ read_set' = read_set /\ go' = go /\ killed' = killed
    BY DEF Type, Close, flags
  <1>2. lines' \in [Consoles -> Input] /\ typed' \in 0 .. Lines /\ eof' \subseteq Consoles
    BY ConsoleAssumption DEF Type, Close, ConsoleInv, ReadSetFresh, TypeOK, Input
  <1>3. ReadSetFresh'
    BY <1>1, <1>2 DEF ConsoleInv, ReadSetFresh, TypeOK
  <1> QED BY <1>1, <1>3, SameFamily DEF ConsoleInv

(* Every step of the commander and of the users.                           *)
LEMMA ConsoleStep == ConsoleInv /\ [Next]_vars => ConsoleInv'
  <1> SUFFICES ASSUME ConsoleInv, [Next]_vars PROVE ConsoleInv'
    OBVIOUS
  <1>1. ASSUME NEW c \in Consoles, ProcInput(c) \/ Type(c) \/ Close(c)
        PROVE  ConsoleInv'
    BY <1>1, ProcInputKeeps, UserKeeps
  <1>2. ASSUME NEW c \in Sockets, Connect(c) PROVE ConsoleInv'
    BY <1>2, ConnectKeeps
  <1>3. CASE StepStops
    <2>1. /\ stop(None) /\ UNCHANGED <<cons, gone, inactive, parent, killed>>
          /\ UNCHANGED <<lines, typed, eof>>
      BY <1>3 DEF StepStops, input
    <2>2. None \notin frozen
      BY NoneIsNone DEF ConsoleInv, ReadSetFresh, TypeOK
    <2>3. ReadSetFresh'
      BY <2>1, <2>2, StopKeepsFresh DEF ConsoleInv, ReadSetFresh, TypeOK
    <2> QED BY <2>1, <2>3, SameFamily DEF ConsoleInv
  <1>4. CASE UNCHANGED vars
    <2>1. ReadSetFresh'
      BY <1>4 DEF vars, flags, input, ConsoleInv, ReadSetFresh, TypeOK
    <2> QED BY <1>4, <2>1, SameFamily DEF vars, flags, ConsoleInv
  <1> QED BY <1>1, <1>2, <1>3, <1>4 DEF Next, Ended

(* The terminals are waited for from the beginning.                        *)
LEMMA ConsoleInitially == Init => ConsoleInv
  <1> SUFFICES ASSUME Init PROVE ConsoleInv
    OBVIOUS
  <1> USE ConsoleAssumption
  <1>1. lines \in [Consoles -> Input]
    BY DEF Init, Input
  <1>2. TypeOK
    <2>1. parent \in [Consoles -> Consoles \cup {None}] /\ typed \in 0 .. Lines
      BY DEF Init
    <2>2. cons \subseteq Consoles /\ eof \subseteq Consoles
      BY DEF Init, Consoles
    <2> QED BY <1>1, <2>1, <2>2 DEF Init, TypeOK
  <1>3. read_set = FdSet(cons, frozen, inactive)
    BY DEF Init, FdSet
  <1>4. ParentsWait /\ OneChild
    BY NoneIsNone DEF Init, ParentsWait, OneChild, Consoles
  <1> QED BY <1>2, <1>3, <1>4 DEF ConsoleInv, ReadSetFresh

(* The invariant holds always.                                             *)
LEMMA ConsoleInvariant == Spec => []ConsoleInv
  BY ConsoleInitially, ConsoleStep, PTL DEF Spec
-----------------------------------------------------------------------------
(* At every moment the commander waits for exactly the descriptors that    *)
(* the flags of its consoles call for, although cl_sim::stop computes the  *)
(* set before proc_input clears the last flag; and no line is read that    *)
(* was not typed.                                                          *)
THEOREM ReadSetFreshHolds == Spec => []ReadSetFresh
  <1>1. ConsoleInv => ReadSetFresh
    BY DEF ConsoleInv
  <1> QED BY <1>1, ConsoleInvariant, PTL

(* A console is out of use exactly as long as a sub-console of its `exec'  *)
(* exists, however many consoles run, execute scripts and hang up.         *)
THEOREM ParentsWaitHolds == Spec => []ParentsWait
  <1>1. ConsoleInv => ParentsWait
    BY DEF ConsoleInv
  <1> QED BY <1>1, ConsoleInvariant, PTL
=============================================================================
