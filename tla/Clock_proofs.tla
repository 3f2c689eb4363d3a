---------------------------- MODULE Clock_proofs ----------------------------
(***************************************************************************)
(* The clock and the user counters are sound for any number of slots, any  *)
(* names, any clock per cycle and any width of a counter.                  *)
(***************************************************************************)
EXTENDS Clock, TLAPS, FiniteSetTheorems

\* A slot holds one counter at most, a name belongs to one counter at most.
\* Cardinalities follow from these in the end.
OnePerSlot == \A s \in Slot : \A t, u \in counters[s] : t = u

OnePerName ==
  \A r, s \in Slot : \A t \in counters[r], u \in counters[s] :
    t.name = u.name /\ t.name # Nameless => r = s

Types ==
  /\ counters \in [Slot -> SUBSET Ticker]
  /\ ticks \in Nat /\ inst_ticks \in Nat /\ level \in 0 .. MaxLevels
  /\ polling \in BOOLEAN /\ crashed \in BOOLEAN
  /\ wdt \in -1 .. WdtReset /\ armed \in BOOLEAN
  /\ hw \in [Side -> Nat] /\ accepted \in Nat /\ slip \in [Side -> -Longest .. 1]

\* The inductive invariant.
ClockInv == Types /\ OnePerSlot /\ OnePerName /\ counters[0] = {} /\ HwLag

-----------------------------------------------------------------------------
(* A set without two different elements has one at most.                   *)
LEMMA AtMostOne ==
  ASSUME NEW S, \A x, y \in S : x = y
  PROVE  Cardinality(S) <= 1
<1>1. CASE S = {}
  BY <1>1, FS_EmptySet
<1>2. CASE S # {}
  <2>1. PICK x \in S : TRUE
    BY <1>2
  <2>2. S = {x}
    BY <2>1
  <2> QED
    BY <2>2, FS_Singleton
<1> QED
  BY <1>1, <1>2

\* A step that gives every counter a counter of the same name keeps what is
\* said of the collection.
Renewed(f) ==
  /\ \A t \in Ticker : f[t] \in Ticker /\ f[t].name = t.name
  /\ DOMAIN f = Ticker
  /\ counters' = [s \in Slot |-> {f[t] : t \in counters[s]}]

(* Slot 0 stays free, and slots and names stay single.                     *)
LEMMA RenewedKeeps ==
  ASSUME ClockInv, NEW f, Renewed(f)
  PROVE  /\ counters' \in [Slot -> SUBSET Ticker]
         /\ OnePerSlot' /\ OnePerName' /\ counters'[0] = {}
<1> USE DEF ClockInv, Types
<1>0. 0 \in Slot
  BY ClockAssumption DEF Slot
<1>1. counters' \in [Slot -> SUBSET Ticker]
  BY DEF Renewed
<1>2. \A s \in Slot : counters'[s] = {f[t] : t \in counters[s]}
  BY DEF Renewed
<1>3. OnePerSlot'
  BY <1>2 DEF OnePerSlot
<1>4. OnePerName'
  <2> SUFFICES ASSUME NEW r \in Slot, NEW s \in Slot,
                      NEW t \in counters'[r], NEW u \in counters'[s],
                      t.name = u.name, t.name # Nameless
               PROVE  r = s
    BY DEF OnePerName
  <2>1. PICK t0 \in counters[r] : t = f[t0]
    BY <1>2
  <2>2. PICK u0 \in counters[s] : u = f[u0]
    BY <1>2
  <2>3. t0 \in Ticker /\ u0 \in Ticker
    OBVIOUS
  <2>4. t.name = t0.name /\ u.name = u0.name
    BY <2>1, <2>2, <2>3 DEF Renewed
  <2> QED
    BY <2>4 DEF OnePerName
<1>5. counters'[0] = {}
  BY <1>0, <1>2
<1> QED
  BY <1>1, <1>3, <1>4, <1>5

\* cl_ticker::tick keeps the type: the width is never exceeded.
LEMMA TickedType ==
  ASSUME NEW t \in Ticker, NEW n \in Nat
  PROVE  [t EXCEPT !.ticks = Ticked(t, n)] \in Ticker
<1>1. t.dir * n * Cpc \in Int
  BY ClockAssumption DEF Ticker
<1>2. (t.ticks + t.dir * n * Cpc) % Width \in 0 .. Width - 1
  BY <1>1, ClockAssumption DEF Ticker
<1>3. Ticked(t, n) \in 0 .. Width - 1
  BY <1>2 DEF Ticked, Ticker
<1> QED
  BY <1>3 DEF Ticker

(* Every counter keeps its slot and name when it is ticked.                *)
LEMMA CountersKeep ==
  ASSUME ClockInv, NEW n \in Nat, NEW lv \in Nat, counters' = TickedCounters(n, lv)
  PROVE  /\ counters' \in [Slot -> SUBSET Ticker]
         /\ OnePerSlot' /\ OnePerName' /\ counters'[0] = {}
<1> DEFINE f == [t \in Ticker |-> IF Counts(t, lv) THEN [t EXCEPT !.ticks = Ticked(t, n)] ELSE t]
<1>1. \A t \in Ticker : f[t] \in Ticker /\ f[t].name = t.name
  <2> SUFFICES ASSUME NEW t \in Ticker PROVE f[t] \in Ticker /\ f[t].name = t.name
    OBVIOUS
  <2>1. [t EXCEPT !.ticks = Ticked(t, n)] \in Ticker
    BY TickedType
  <2>2. [t EXCEPT !.ticks = Ticked(t, n)].name = t.name
    BY DEF Ticker
  <2> QED
    BY <2>1, <2>2
<1>2. Renewed(f)
  BY <1>1 DEF Renewed, TickedCounters, ClockInv, Types
<1> QED
  BY <1>2, RenewedKeeps

(* The clock goes on by the cycles of the instruction (tick).              *)
LEMMA TickKeeps ==
  ASSUME ClockInv, NEW n \in Nat, NEW lv \in Nat, tick(n, lv)
  PROVE  /\ counters' \in [Slot -> SUBSET Ticker]
         /\ OnePerSlot' /\ OnePerName' /\ counters'[0] = {}
         /\ ticks' \in Nat
         /\ \A side \in Side : ticks' = Cpc * (hw[side] + n + accepted + slip[side])
<1>1. /\ counters' \in [Slot -> SUBSET Ticker]
      /\ OnePerSlot' /\ OnePerName' /\ counters'[0] = {}
  BY CountersKeep DEF tick
<1>2. ticks' = ticks + n * Cpc /\ ticks' \in Nat
  BY ClockAssumption DEF tick, ClockInv, Types
<1>3. ASSUME NEW side \in Side
      PROVE  ticks' = Cpc * (hw[side] + n + accepted + slip[side])
  <2>1. /\ hw[side] \in Nat /\ slip[side] \in Int /\ accepted \in Nat
        /\ ticks = Cpc * (hw[side] + accepted + slip[side])
    BY <1>3 DEF ClockInv, Types, HwLag, Longest
  <2> QED
    BY <1>2, <2>1, ClockAssumption
<1> QED
  BY <1>1, <1>2, <1>3

(* The watchdog that lets a tick pass stays within its limit.              *)
LEMMA WdtKeeps ==
  ASSUME NEW count \in -1 .. WdtReset, NEW n \in Nat, WdtTick(count, n)
  PROVE  wdt' \in -1 .. WdtReset
BY ClockAssumption DEF WdtTick, Overdue

LEMMA StartedType ==
  ASSUME ClockInv, NEW w
  PROVE  Started(w) \in -1 .. WdtReset
BY ClockAssumption DEF Started, ClockInv, Types

-----------------------------------------------------------------------------
\* A command that changes one slot, not slot 0, keeps what is said of the
\* collection, when the new contents are one counter at most and no other slot
\* has its name.
LEMMA PutKeeps ==
  ASSUME ClockInv, NEW s \in Slot \ {0}, NEW T \in SUBSET Ticker, Command, Put(s, T),
         \A t, u \in T : t = u,
         \A r \in Slot \ {s} : \A t \in counters[r], u \in T :
           t.name = u.name => t.name = Nameless
  PROVE  ClockInv'
<1> USE DEF ClockInv, Types
<1>0. 0 \in Slot
  BY ClockAssumption DEF Slot
<1>1. counters' = [counters EXCEPT ![s] = T] /\ crashed' = crashed
  BY DEF Put
<1>2. Types'
  BY <1>1 DEF Command, hist
<1>3. OnePerSlot'
  BY <1>1 DEF OnePerSlot
<1>4. OnePerName'
  <2> SUFFICES ASSUME NEW q \in Slot, NEW r \in Slot,
                      NEW t \in counters'[q], NEW u \in counters'[r],
                      t.name = u.name, t.name # Nameless
               PROVE  q = r
    BY DEF OnePerName
  <2>1. CASE q = s /\ r # s
    BY <2>1, <1>1
  <2>2. CASE q # s /\ r = s
    BY <2>2, <1>1
  <2>3. CASE q # s /\ r # s
    BY <2>3, <1>1 DEF OnePerName
  <2> QED
    BY <2>1, <2>2, <2>3
<1>5. counters'[0] = {}
  BY <1>0, <1>1
<1>6. HwLag'
  BY DEF Command, hist, HwLag
<1> QED
  BY <1>2, <1>3, <1>4, <1>5, <1>6

(* A new counter is a ticker of the name it was given.                     *)
LEMMA NewType ==
  ASSUME NEW name \in Names \cup {Nameless}, NEW dir \in Int, NEW in_isr \in BOOLEAN
  PROVE  New(name, dir, in_isr) \in Ticker /\ New(name, dir, in_isr).name = name
BY ClockAssumption DEF New, Ticker

\* The time an instruction takes reaches the hardware as well.
LEMMA InstKeeps ==
  ASSUME ClockInv, NEW n \in Nat, NEW w \in Writes, Inst(n, w),
         level' \in 0 .. MaxLevels, polling' \in BOOLEAN
  PROVE  ClockInv'
<1>1. level \in Nat
  BY ClockAssumption DEF ClockInv, Types
<1>2. /\ counters' \in [Slot -> SUBSET Ticker]
      /\ OnePerSlot' /\ OnePerName' /\ counters'[0] = {}
      /\ ticks' \in Nat
      /\ \A side \in Side : ticks' = Cpc * (hw[side] + n + accepted + slip[side])
  BY <1>1, TickKeeps DEF Inst
<1>3. /\ hw' = Everywhere(n) /\ accepted' = accepted /\ slip' = slip
      /\ inst_ticks' = n /\ crashed' = crashed /\ armed' \in BOOLEAN
  BY DEF Inst, ClockInv, Types
<1>4. wdt' \in -1 .. WdtReset
  BY StartedType, WdtKeeps DEF Inst
<1>5. hw' \in [Side -> Nat] /\ \A side \in Side : hw'[side] = hw[side] + n
  BY <1>3 DEF Everywhere, ClockInv, Types
<1>6. Types'
  BY <1>2, <1>3, <1>4, <1>5 DEF ClockInv, Types
<1>7. HwLag'
  BY <1>2, <1>3, <1>5 DEF HwLag, ClockInv
<1> QED
  BY <1>2, <1>6, <1>7 DEF ClockInv

(* A cycle of the idle mode ticks clock and hardware alike (do_inst).      *)
LEMMA IdleCycleKeeps ==
  ASSUME ClockInv, IdleCycle
  PROVE  ClockInv'
<1>1. level \in Nat
  BY ClockAssumption DEF ClockInv, Types
<1>2. /\ counters' \in [Slot -> SUBSET Ticker]
      /\ OnePerSlot' /\ OnePerName' /\ counters'[0] = {}
      /\ ticks' \in Nat
      /\ \A side \in Side : ticks' = Cpc * (hw[side] + 1 + accepted + slip[side])
  BY <1>1, TickKeeps DEF IdleCycle
<1>3. /\ hw' = Everywhere(1) /\ accepted' = accepted /\ slip' = slip /\ level' = level
      /\ inst_ticks' \in Nat /\ crashed' = crashed /\ armed' = armed /\ polling' \in BOOLEAN
  BY DEF IdleCycle
<1>4. wdt' \in -1 .. WdtReset
  BY WdtKeeps DEF IdleCycle, ClockInv, Types
<1>5. hw' \in [Side -> Nat] /\ \A side \in Side : hw'[side] = hw[side] + 1
  BY <1>3 DEF Everywhere, ClockInv, Types
<1>6. Types'
  BY <1>2, <1>3, <1>4, <1>5 DEF ClockInv, Types
<1>7. HwLag'
  BY <1>2, <1>3, <1>5 DEF HwLag, ClockInv
<1> QED
  BY <1>2, <1>6, <1>7 DEF ClockInv

(* An accepted interrupt ticks the clock and not the hardware (accept_it). *)
LEMMA AcceptKeeps ==
  ASSUME ClockInv, Accept
  PROVE  ClockInv'
<1>1. level + 1 \in 0 .. MaxLevels /\ level + 1 \in Nat
  BY ClockAssumption DEF ClockInv, Types, Accept
<1>2. /\ counters' \in [Slot -> SUBSET Ticker]
      /\ OnePerSlot' /\ OnePerName' /\ counters'[0] = {}
      /\ ticks' \in Nat
      /\ \A side \in Side : ticks' = Cpc * (hw[side] + 1 + accepted + slip[side])
  BY <1>1, TickKeeps DEF Accept
<1>3. /\ hw' = hw /\ slip' = slip /\ wdt' = wdt /\ armed' = armed /\ crashed' = crashed
      /\ accepted' = accepted + 1 /\ inst_ticks' \in Nat /\ polling' \in BOOLEAN
      /\ level' \in 0 .. MaxLevels
  <2>1. polling' \in BOOLEAN
    BY DEF Accept
  <2> QED
    BY <1>1, <2>1 DEF Accept, ClockInv, Types
<1>4. Types'
  BY <1>2, <1>3 DEF ClockInv, Types
<1>5. \A side \in Side : hw[side] \in Nat /\ slip[side] \in Int /\ accepted \in Nat
  BY DEF ClockInv, Types, Longest
<1>6. \A side \in Side : ticks' = Cpc * (hw'[side] + accepted' + slip'[side])
  <2> SUFFICES ASSUME NEW side \in Side
               PROVE  ticks' = Cpc * (hw[side] + (accepted + 1) + slip[side])
    BY <1>3
  <2>1. hw[side] + 1 + accepted + slip[side] = hw[side] + (accepted + 1) + slip[side]
    BY <1>5
  <2> QED
    BY <1>2, <2>1
<1>7. HwLag'
  BY <1>3, <1>6 DEF HwLag, ClockInv
<1> QED
  BY <1>2, <1>4, <1>7 DEF ClockInv

\* A reset puts clock and elements where they start from; what parts them is
\* what the watchdog has left of the turn it came in.
LEMMA ResetKeeps ==
  ASSUME ClockInv, ResetMachine, NEW n \in 0 .. Longest, NEW i \in {0, 1},
         n = 0 \/ i = 0, ticks' = Cpc * i, inst_ticks' \in Nat, crashed' = crashed,
         hw' = [side \in Side |-> IF side = "behind" THEN n + i ELSE 0],
         slip' = [side \in Side |-> IF side = "behind" THEN 0 - n ELSE i],
         counters' \in [Slot -> SUBSET Ticker],
         OnePerSlot', OnePerName', counters'[0] = {}
  PROVE  ClockInv'
<1>1. /\ hw' \in [Side -> Nat] /\ slip' \in [Side -> -Longest .. 1]
      /\ ticks' \in Nat
  BY ClockAssumption DEF Longest
<1>2. Types'
  <2>1. polling' \in BOOLEAN /\ armed' \in BOOLEAN /\ crashed' \in BOOLEAN
    BY DEF ResetMachine, ClockInv, Types
  <2>2. level' \in 0 .. MaxLevels /\ accepted' \in Nat /\ wdt' \in -1 .. WdtReset
    BY ClockAssumption DEF ResetMachine
  <2> QED
    BY <1>1, <2>1, <2>2 DEF Types
<1>3. \A side \in Side : hw'[side] + accepted' + slip'[side] = i
  BY DEF ResetMachine, Longest
<1>4. "front" \in Side /\ "behind" \in Side
  BY DEF Side
<1>5. HwLag'
  BY <1>3, <1>4 DEF HwLag, Longest
<1> QED
  BY <1>2, <1>5 DEF ClockInv

(* The reset command: nothing parts clock and elements.                    *)
LEMMA CommandResetKeeps ==
  ASSUME ClockInv, Reset
  PROVE  ClockInv'
<1>1. /\ ResetMachine /\ ticks' = Cpc * 0 /\ counters' = counters
      /\ inst_ticks' \in Nat /\ crashed' = crashed
  BY ClockAssumption DEF Reset, ClockInv, Types
<1>2. /\ hw' = [side \in Side |-> IF side = "behind" THEN 0 + 0 ELSE 0]
      /\ slip' = [side \in Side |-> IF side = "behind" THEN 0 - 0 ELSE 0]
  BY DEF Reset
<1>3. /\ counters' \in [Slot -> SUBSET Ticker]
      /\ OnePerSlot' /\ OnePerName' /\ counters'[0] = {}
  BY <1>1 DEF ClockInv, Types, OnePerSlot, OnePerName
<1>4. 0 \in 0 .. Longest /\ 0 \in {0, 1}
  BY DEF Longest
<1> QED
  BY <1>1, <1>2, <1>3, <1>4, ResetKeeps

(* The watchdog resets inside post_inst of an instruction.                 *)
LEMMA WatchdogResetKeeps ==
  ASSUME ClockInv, WatchdogReset
  PROVE  ClockInv'
<1>1. PICK n \in 1 .. Longest :
        /\ ticks' = 0 /\ counters' = TickedCounters(n, level) /\ inst_ticks' = n
        /\ hw' = [front |-> 0, behind |-> n] /\ slip' = [front |-> 0, behind |-> -n]
  BY DEF WatchdogReset
<1>2. level \in Nat /\ n \in Nat
  BY ClockAssumption DEF ClockInv, Types, Longest
<1>3. /\ counters' \in [Slot -> SUBSET Ticker]
      /\ OnePerSlot' /\ OnePerName' /\ counters'[0] = {}
  BY <1>1, <1>2, CountersKeep
<1>4. /\ hw' = [side \in Side |-> IF side = "behind" THEN n + 0 ELSE 0]
      /\ slip' = [side \in Side |-> IF side = "behind" THEN 0 - n ELSE 0]
  BY <1>1, <1>2 DEF Side
<1>5. ResetMachine /\ ticks' = Cpc * 0 /\ inst_ticks' \in Nat /\ crashed' = crashed
  BY <1>1, <1>2, ClockAssumption DEF WatchdogReset
<1>6. n \in 0 .. Longest /\ 0 \in {0, 1}
  BY DEF Longest
<1> QED
  BY <1>3, <1>4, <1>5, <1>6, ResetKeeps

(* It does so in idle mode, and the clock is ticked after it.              *)
LEMMA WatchdogIdleKeeps ==
  ASSUME ClockInv, WatchdogIdle
  PROVE  ClockInv'
<1>1. /\ counters' \in [Slot -> SUBSET Ticker]
      /\ OnePerSlot' /\ OnePerName' /\ counters'[0] = {}
  BY CountersKeep DEF WatchdogIdle
<1>2. /\ hw' = [side \in Side |-> IF side = "behind" THEN 0 + 1 ELSE 0]
      /\ slip' = [side \in Side |-> IF side = "behind" THEN 0 - 0 ELSE 1]
  BY DEF WatchdogIdle, Side
<1>3. ResetMachine /\ ticks' = Cpc * 1 /\ inst_ticks' \in Nat /\ crashed' = crashed
  BY ClockAssumption DEF WatchdogIdle
<1>4. 0 \in 0 .. Longest /\ 1 \in {0, 1}
  BY DEF Longest
<1> QED
  BY <1>1, <1>2, <1>3, <1>4, ResetKeeps

\* One step per action: instructions, idle cycles, acceptance and reset change
\* the time, commands change one slot.
LEMMA ClockStep ==
  ASSUME ClockInv, [Next]_vars
  PROVE  ClockInv'
<1>1. CASE Plain
  <2>1. PICK n \in 1 .. Longest, w \in Writes :
          Inst(n, w) /\ polling' = TRUE /\ UNCHANGED level
    BY <1>1 DEF Plain
  <2>2. n \in Nat /\ level' \in 0 .. MaxLevels
    BY <2>1 DEF Longest, ClockInv, Types
  <2> QED
    BY <2>1, <2>2, InstKeeps
<1>2. CASE Reti
  <2>1. level' \in 0 .. MaxLevels
    BY <1>2, ClockAssumption DEF Reti, ClockInv, Types
  <2>2. polling' \in BOOLEAN /\ "nothing" \in Writes
    BY <1>2 DEF Reti, Writes
  <2> QED
    BY <1>2, <2>1, <2>2, InstKeeps DEF Reti
<1>3. CASE IdleCycle
  BY <1>3, IdleCycleKeeps
<1>4. CASE Accept
  BY <1>4, AcceptKeeps
<1>5. CASE Reset \/ WatchdogReset \/ WatchdogIdle
  BY <1>5, CommandResetKeeps, WatchdogResetKeeps, WatchdogIdleKeeps
<1>6. ASSUME NEW nr \in 1 .. Slots, AddNr(nr)
      PROVE  ClockInv'
  <2>1. nr \in Slot \ {0} /\ nr \in Int /\ counters[nr] = {} /\ Command
    BY <1>6, ClockAssumption DEF AddNr, Slot
  <2>2. PICK d \in Int, b \in BOOLEAN : Put(nr, {New(Nameless, d, b)})
    <3>1. \A u : (u # 0) \in BOOLEAN
      OBVIOUS
    <3>2. 1 \in Int
      OBVIOUS
    <3> QED
      BY <1>6, <2>1, <3>1, <3>2, Zenon DEF AddNr
  <2>3. New(Nameless, d, b) \in Ticker /\ New(Nameless, d, b).name = Nameless
    BY NewType
  <2> QED
    BY <2>1, <2>2, <2>3, PutKeeps
<1>7. ASSUME NEW name \in Names, AddName(name)
      PROVE  ClockInv'
  <2>1. PICK s \in FirstFree :
          \/ Put(s, {New(name, 1, FALSE)})
          \/ \E d \in Unset, u \in Unset : Put(s, {New(name, d, u # 0)})
    BY <1>7 DEF AddName
  <2>2. PICK d \in Int, b \in BOOLEAN : Put(s, {New(name, d, b)})
    <3>1. \A u : (u # 0) \in BOOLEAN
      OBVIOUS
    <3>2. 1 \in Int /\ Unset \subseteq Int
      BY ClockAssumption
    <3> QED
      BY <2>1, <3>1, <3>2, Zenon
  <2>3. New(name, d, b) \in Ticker /\ New(name, d, b).name = name
    BY NewType
  <2>4. \A r \in Slot : \A t \in counters[r] : t.name # name
    BY <1>7 DEF AddName, Named
  <2> QED
    BY <1>7, <2>2, <2>3, <2>4, PutKeeps DEF AddName, FirstFree
<1>8. CASE Delete
  <2>1. PICK s \in Slot \ {0} : Put(s, {}) /\ Command
    BY <1>8 DEF Delete, Selected
  <2> QED
    BY <2>1, PutKeeps
<1>9. CASE RunStop
  <2>1. PICK s \in Slot \ {0}, b \in BOOLEAN :
          Put(s, {[t EXCEPT !.run = b] : t \in counters[s]}) /\ Command
    BY <1>9 DEF RunStop, Selected
  <2> DEFINE T == {[t EXCEPT !.run = b] : t \in counters[s]}
  <2>2. \A t \in counters[s] :
          [t EXCEPT !.run = b] \in Ticker /\ [t EXCEPT !.run = b].name = t.name
    BY DEF ClockInv, Types, Ticker
  <2>3. T \in SUBSET Ticker /\ \A t, u \in T : t = u
    BY <2>2 DEF ClockInv, OnePerSlot
  <2>4. \A r \in Slot \ {s} : \A t \in counters[r], u \in T :
          t.name = u.name => t.name = Nameless
    <3> SUFFICES ASSUME NEW r \in Slot \ {s}, NEW t \in counters[r], NEW v \in counters[s],
                        t.name = [v EXCEPT !.run = b].name, t.name # Nameless
                 PROVE  FALSE
      OBVIOUS
    <3> QED
      BY <2>2 DEF ClockInv, OnePerName
  <2> QED
    BY <2>1, <2>3, <2>4, PutKeeps
<1>10. CASE Value \/ Halted \/ UNCHANGED vars
  BY <1>10 DEF Value, Command, Halted, vars, hist, ClockInv, Types, OnePerSlot, OnePerName, HwLag
<1> QED
  BY <1>1, <1>2, <1>3, <1>4, <1>5, <1>6, <1>7, <1>8, <1>9, <1>10 DEF Next

(* The invariant holds before the first instruction.                       *)
LEMMA ClockInitially == Init => ClockInv
<1> SUFFICES ASSUME Init PROVE ClockInv
  OBVIOUS
<1>1. 0 \in Slot /\ 0 \in 0 .. MaxLevels /\ -1 \in -1 .. WdtReset /\ 0 = Cpc * (0 + 0 + 0)
  BY ClockAssumption DEF Slot
<1>2. Types
  <2>1. slip \in [Side -> -Longest .. 1] /\ hw \in [Side -> Nat]
    BY DEF Init, Longest
  <2>2. polling \in BOOLEAN /\ crashed \in BOOLEAN /\ armed \in BOOLEAN
    BY DEF Init
  <2> QED
    BY <1>1, <2>1, <2>2 DEF Init, Types
<1>3. "front" \in Side /\ "behind" \in Side
  BY DEF Side
<1>4. HwLag
  BY <1>1, <1>3 DEF Init, HwLag, Longest
<1> QED
  BY <1>1, <1>2, <1>4 DEF Init, ClockInv, OnePerSlot, OnePerName

(* It holds always.                                                        *)
LEMMA ClockInvariant == Spec => []ClockInv
<1>1. ClockInv /\ [Next]_vars => ClockInv'
  BY ClockStep
<1> QED
  BY <1>1, ClockInitially, PTL DEF Spec

\* The slots of the user counters are sound: slot 0 stays free, which
\* del_counter(nr) relies on, and a name selects one counter.
THEOREM SlotsSoundHolds == Spec => []SlotsSound
<1>1. ClockInv => SlotsSound
  <2> SUFFICES ASSUME ClockInv PROVE SlotsSound
    OBVIOUS
  <2>1. \A s \in Slot : Cardinality(counters[s]) <= 1
    BY AtMostOne DEF ClockInv, OnePerSlot
  <2>2. ASSUME NEW name \in Names
        PROVE  Cardinality(Named(name)) <= 1
    <3>1. \A r, s \in Named(name) : r = s
      BY ClockAssumption DEF Named, ClockInv, OnePerName
    <3> QED
      BY <3>1, AtMostOne
  <2> QED
    BY <2>1, <2>2 DEF SlotsSound, TypeOK, ClockInv, Types
<1> QED
  BY <1>1, ClockInvariant, PTL

\* The hardware lags behind the clock by the cycles of interrupt acceptance and
\* by what a watchdog's reset inside post_inst has left, and by nothing else.
THEOREM HwLagHolds == Spec => []HwLag
<1>1. ClockInv => HwLag
  BY DEF ClockInv
<1> QED
  BY <1>1, ClockInvariant, PTL
=============================================================================
