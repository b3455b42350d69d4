--------------------------- MODULE BringUp_proof ---------------------------
(***************************************************************************)
(* Proofs about module BringUp, for any processors, firmware tables and    *)
(* order of interrupts, and for any device, frames and order of failures.  *)
(*                                                                         *)
(* The processors' part rests on tables of what a processor has when it    *)
(* stands at a step of kmain or of ap_entry; the disk's part on what       *)
(* block::init has established at each of its steps.                       *)
(***************************************************************************)
EXTENDS BringUp, FiniteSetTheorems, WellFoundedInduction, TLAPS

\* A leaf that names no prover is one for first-order reasoning.
USE Zenon

Facilities == {"gs", "gdt", "idt", "vectors", "apic", "syscall", "timer", "irq", "idle thread"}
Tables == {"gs", "gdt", "idt"}
Wired == Tables \cup {"vectors", "apic"}
Live == Wired \cup {"idle thread", "irq"}

\* What the processor itself has when it stands at a step.
BspHas == [serial |-> {}, name |-> {}, gs |-> {}, gdt |-> {"gs"}, idt |-> {"gs", "gdt"},
           publish |-> Tables, frames |-> Tables, heap |-> Tables, root |-> Tables,
           sched |-> Tables, greet |-> Tables \cup {"idle thread"},
           yield1 |-> Tables \cup {"idle thread"}, vectors |-> Tables \cup {"idle thread"},
           map_lapic |-> Tables \cup {"idle thread", "vectors"},
           apic |-> Tables \cup {"idle thread", "vectors"},
           syscall |-> Wired \cup {"idle thread"}, timer |-> Wired \cup {"idle thread"},
           sti |-> Wired \cup {"idle thread"}, online |-> Live, preempt |-> Live, init |-> Live,
           yield2 |-> Live, start |-> Live, wait |-> Live, idle |-> Live]
ApHas == [alloc |-> {}, name |-> {}, gs |-> {}, gdt |-> {"gs"}, idt |-> {"gs", "gdt"},
          publish |-> Tables, apic |-> Tables, vectors |-> Tables \cup {"apic"},
          syscall |-> Wired, sched |-> Wired, timer |-> Wired \cup {"idle thread"},
          sti |-> Wired \cup {"idle thread"}, online |-> Live, count |-> Live, idle |-> Live]

\* What the machine has when kmain stands at a step.
Memory == {"frames", "heap", "root"}
BspShared == [serial |-> {}, name |-> {}, gs |-> {}, gdt |-> {}, idt |-> {}, publish |-> {},
              frames |-> {}, heap |-> {"frames"}, root |-> {"frames", "heap"}, sched |-> Memory,
              greet |-> Memory, yield1 |-> Memory, vectors |-> Memory, map_lapic |-> Memory,
              apic |-> Memory \cup {"lapic mapped"}, syscall |-> Memory \cup {"lapic mapped"},
              timer |-> Memory \cup {"lapic mapped"}, sti |-> Memory \cup {"lapic mapped"},
              online |-> Memory \cup {"lapic mapped"}, preempt |-> Memory \cup {"lapic mapped"},
              init |-> Memory \cup {"lapic mapped"}, yield2 |-> Memory \cup {"lapic mapped"},
              start |-> Memory \cup {"lapic mapped"}, wait |-> Memory \cup {"lapic mapped"},
              idle |-> Memory \cup {"lapic mapped"}]
ApShared == {"heap", "lapic mapped"}

\* What a step adds.
Grants(s) == IF s \in {"gs", "gdt", "idt", "vectors", "apic"} THEN {s}
             ELSE IF s = "sched" THEN {"idle thread"} ELSE IF s = "sti" THEN {"irq"} ELSE {}
SharedGrants(s) == IF s \in Memory THEN {s} ELSE IF s = "map_lapic" THEN {"lapic mapped"} ELSE {}

BspSpots == DOMAIN AfterBsp
ApSpots == DOMAIN AfterAp

\* What each step of kmain and of ap_entry reaches through.
LEMMA UsesOf ==
    /\ Uses("gdt") = {"gs"} /\ Uses("online") = {"gs"} /\ Uses("idt") = {"gs", "gdt"}
    /\ Uses("vectors") = {"gs", "idt"} /\ Uses("heap") = {"frames"} /\ Uses("alloc") = {"heap"}
    /\ Uses("map_lapic") = {"frames"} /\ Uses("apic") = {"lapic mapped"}
    /\ Uses("syscall") = {"gdt"} /\ Uses("timer") = {"apic"} /\ Uses("sched") = {"gs", "heap"}
    /\ Uses("greet") = {"gs", "heap", "frames", "idle thread"}
    /\ Uses("init") = {"gs", "heap", "frames", "root", "idle thread"}
    /\ Uses("start") = {"heap", "lapic mapped"}
    /\ Uses("yield1") = {"gs", "idle thread"} /\ Uses("yield2") = {"gs", "idle thread"}
    /\ Uses("idle") = {"gs", "idle thread"}
    /\ Uses("serial") = {} /\ Uses("name") = {} /\ Uses("gs") = {} /\ Uses("publish") = {}
    /\ Uses("frames") = {} /\ Uses("root") = {} /\ Uses("sti") = {} /\ Uses("preempt") = {}
    /\ Uses("wait") = {} /\ Uses("count") = {}
BY DEF Uses

\* The steps of kmain, one after another: what a step adds is what the next one has, and
\* what a step reaches through is there.
LEMMA BspOrder ==
    ASSUME NEW s \in BspSpots
    PROVE  /\ AfterBsp[s] \in BspSpots
           /\ BspHas[AfterBsp[s]] \subseteq BspHas[s] \cup Grants(s)
           /\ BspShared[AfterBsp[s]] \subseteq BspShared[s] \cup SharedGrants(s)
           /\ Uses(s) \subseteq BspHas[s] \cup BspShared[s]
<1>1. s \in {"serial", "name", "gs", "gdt", "idt", "publish", "frames", "heap", "root",
             "sched", "greet", "yield1", "vectors", "map_lapic", "apic", "syscall",
             "timer", "sti", "online", "preempt", "init", "yield2", "start", "wait",
             "idle"}
  BY SMT DEF BspSpots, AfterBsp
<1> USE UsesOf DEF AfterBsp, BspSpots, BspHas, BspShared, Grants, SharedGrants, Live, Wired, Tables, Memory
<1>2. CASE s = "serial"
  BY <1>2, ZenonT(60)
<1>3. CASE s = "name"
  BY <1>3, ZenonT(60)
<1>4. CASE s = "gs"
  BY <1>4, ZenonT(60)
<1>5. CASE s = "gdt"
  BY <1>5, ZenonT(60)
<1>6. CASE s = "idt"
  BY <1>6, ZenonT(60)
<1>7. CASE s = "publish"
  BY <1>7, ZenonT(60)
<1>8. CASE s = "frames"
  BY <1>8, ZenonT(60)
<1>9. CASE s = "heap"
  BY <1>9, ZenonT(60)
<1>10. CASE s = "root"
  BY <1>10, ZenonT(60)
<1>11. CASE s = "sched"
  BY <1>11, ZenonT(60)
<1>12. CASE s = "greet"
  BY <1>12, ZenonT(60)
<1>13. CASE s = "yield1"
  BY <1>13, ZenonT(60)
<1>14. CASE s = "vectors"
  BY <1>14, ZenonT(60)
<1>15. CASE s = "map_lapic"
  BY <1>15, ZenonT(60)
<1>16. CASE s = "apic"
  BY <1>16, ZenonT(60)
<1>17. CASE s = "syscall"
  BY <1>17, ZenonT(60)
<1>18. CASE s = "timer"
  BY <1>18, ZenonT(60)
<1>19. CASE s = "sti"
  BY <1>19, ZenonT(60)
<1>20. CASE s = "online"
  BY <1>20, ZenonT(60)
<1>21. CASE s = "preempt"
  BY <1>21, ZenonT(60)
<1>22. CASE s = "init"
  BY <1>22, ZenonT(60)
<1>23. CASE s = "yield2"
  BY <1>23, ZenonT(60)
<1>24. CASE s = "start"
  BY <1>24, ZenonT(60)
<1>25. CASE s = "wait"
  BY <1>25
<1>26. CASE s = "idle"
  BY <1>26, ZenonT(60)
<1> QED
  BY <1>1, <1>2, <1>3, <1>4, <1>5, <1>6, <1>7, <1>8, <1>9, <1>10, <1>11, <1>12, <1>13, <1>14,
     <1>15, <1>16, <1>17, <1>18, <1>19, <1>20, <1>21, <1>22, <1>23, <1>24, <1>25, <1>26,
     ZenonT(60)

\* The steps of ap_entry, one after another.
LEMMA ApOrder ==
    ASSUME NEW s \in ApSpots
    PROVE  /\ AfterAp[s] \in ApSpots
           /\ ApHas[AfterAp[s]] \subseteq ApHas[s] \cup Grants(s)
           /\ Uses(s) \subseteq ApHas[s] \cup ApShared
<1>1. s \in {"alloc", "name", "gs", "gdt", "idt", "publish", "apic", "vectors", "syscall",
             "sched", "timer", "sti", "online", "count", "idle"}
  BY SMT DEF ApSpots, AfterAp
<1> USE UsesOf DEF AfterAp, ApSpots, ApHas, ApShared, Grants, Live, Wired, Tables
<1>2. CASE s = "alloc"
  BY <1>2
<1>3. CASE s = "name"
  BY <1>3
<1>4. CASE s = "gs"
  BY <1>4
<1>5. CASE s = "gdt"
  BY <1>5
<1>6. CASE s = "idt"
  BY <1>6
<1>7. CASE s = "publish"
  BY <1>7
<1>8. CASE s = "apic"
  BY <1>8
<1>9. CASE s = "vectors"
  BY <1>9
<1>10. CASE s = "syscall"
  BY <1>10
<1>11. CASE s = "sched"
  BY <1>11
<1>12. CASE s = "timer"
  BY <1>12
<1>13. CASE s = "sti"
  BY <1>13
<1>14. CASE s = "online"
  BY <1>14
<1>15. CASE s = "count"
  BY <1>15
<1>16. CASE s = "idle"
  BY <1>16
<1> QED
  BY <1>1, <1>2, <1>3, <1>4, <1>5, <1>6, <1>7, <1>8, <1>9, <1>10, <1>11, <1>12, <1>13, <1>14,
     <1>15, <1>16, Zenon

---------------------------------------------------------------------------
(* The processors *)

\* Steps of a processor that has not written its name, and steps after it is in the mask.
Unnamed == {"pen", "serial", "alloc", "name"}
BspPast == {"preempt", "init", "yield2", "start", "wait", "idle"}
ApPast == {"count", "idle"}
Past(c) == IF c = Bsp THEN BspPast ELSE ApPast

SpotInv ==
    /\ at \in [CPUs -> BspSpots \cup ApSpots \cup {"pen"}]
    /\ at[Bsp] \in BspSpots
    /\ \A c \in Aps : at[c] \in ApSpots \cup {"pen"}
    /\ at[Bsp] \notin {"wait", "idle"} => \A c \in Aps : at[c] = "pen"
HadInv ==
    /\ have \in [CPUs -> SUBSET Facilities]
    /\ BspHas[at[Bsp]] \subseteq have[Bsp]
    /\ \A c \in Aps : at[c] # "pen" => ApHas[at[c]] \subseteq have[c]
SharedInv ==
    /\ BspShared[at[Bsp]] \subseteq shared
    /\ \A c \in Aps : at[c] # "pen" => ApShared \subseteq shared
IrqInv == \A c \in CPUs : "irq" \in have[c] => Wired \subseteq have[c]
NamedInv ==
    /\ DOMAIN apic_to_cpu = Ids
    /\ \A c \in CPUs : at[c] \notin Unnamed =>
         firmware.apic[c] \in Ids /\ apic_to_cpu[firmware.apic[c]] = cpu_id(c)
BlocksInv ==
    /\ blocks \in [Ids -> CPUs \cup {None}]
    /\ \A i \in Ids : blocks[i] # None => Tables \subseteq have[blocks[i]]
IdleInv == \A c \in CPUs : cpu_id(c) \in idle_installed => "idle thread" \in have[c]
MaskInv ==
    \A c \in CPUs : /\ cpu_id(c) \in online_mask => "irq" \in have[c] /\ at[c] \notin Unnamed
                    /\ at[c] \in Past(c) => cpu_id(c) \in online_mask
CountInv == ONLINE = Cardinality({c \in Aps : at[c] = "idle"})
ReportInv == report = "all" => \A c \in CPUs : cpu_id(c) \in online_mask
MissingInv == missing = {}

ComingUp ==
    /\ SpotInv /\ HadInv /\ SharedInv /\ IrqInv /\ NamedInv /\ BlocksInv
    /\ IdleInv /\ MaskInv /\ CountInv /\ ReportInv /\ MissingInv

\* The inductive invariant of the processors' part.
BootInv == firmware \in Firmwares /\ (DistinctIds => ComingUp)

\* A processor takes its next step: it gains what the step grants, and nothing goes.
Advance(c) ==
    /\ at' = [at EXCEPT ![c] = After(c)]
    /\ missing' = missing \cup Missing(c, at[c], Uses(at[c]))
    /\ firmware' = firmware
    /\ have' \in [CPUs -> SUBSET Facilities]
    /\ \A d \in CPUs : have[d] \subseteq have'[d]
    /\ \A d \in CPUs \ {c} : have'[d] = have[d]
    /\ Grants(at[c]) \subseteq have'[c]
    /\ "irq" \in have'[c] => "irq" \in have[c] \/ at[c] = "sti"
    /\ shared \subseteq shared'
    /\ c = Bsp => SharedGrants(at[c]) \subseteq shared'

\* The processor is in kmain or in ap_entry, and not about to start the others.
Runs(c) == c \in CPUs /\ at[c] # "start" /\ at[c] # "pen"

\* Where the order of kmain leads.
LEMMA BspSpotsFrom ==
    ASSUME NEW s \in BspSpots
    PROVE  /\ s # "pen" /\ AfterBsp[s] # "pen"
           /\ s # "start" => (AfterBsp[s] \in {"wait", "idle"} <=> s \in {"wait", "idle"})
           /\ s # "name" => (AfterBsp[s] \notin Unnamed => s \notin Unnamed)
           /\ s \notin Unnamed => AfterBsp[s] \notin Unnamed
           /\ s # "online" => (AfterBsp[s] \in BspPast => s \in BspPast)
           /\ s \in BspPast => AfterBsp[s] \in BspPast
BY SMT DEF BspSpots, AfterBsp, Unnamed, BspPast

\* Where the order of ap_entry leads.
LEMMA ApSpotsFrom ==
    ASSUME NEW s \in ApSpots
    PROVE  /\ s # "pen" /\ AfterAp[s] # "pen"
           /\ s # "name" => (AfterAp[s] \notin Unnamed => s \notin Unnamed)
           /\ s \notin Unnamed => AfterAp[s] \notin Unnamed
           /\ s # "online" => (AfterAp[s] \in ApPast => s \in ApPast)
           /\ s # "count" => (AfterAp[s] = "idle" <=> s = "idle")
           /\ AfterAp["count"] = "idle"
BY SMT DEF ApSpots, AfterAp, Unnamed, ApPast

\* Where a step leads its own processor; the others stay.
LEMMA AdvanceSpot ==
    ASSUME NEW c, Runs(c), SpotInv, at' = [at EXCEPT ![c] = After(c)]
    PROVE  /\ at'[c] = After(c) /\ \A d \in CPUs \ {c} : at'[d] = at[d]
           /\ c = Bsp => at[c] \in BspSpots /\ at'[c] = AfterBsp[at[c]]
           /\ c # Bsp => c \in Aps /\ at[c] \in ApSpots /\ at'[c] = AfterAp[at[c]]
<1>1. at'[c] = After(c) /\ \A d \in CPUs \ {c} : at'[d] = at[d]
  BY DEF SpotInv, Runs
<1>2. c = Bsp => at[c] \in BspSpots /\ After(c) = AfterBsp[at[c]]
  BY DEF SpotInv, After
<1>3. c # Bsp => c \in Aps /\ at[c] \in ApSpots /\ After(c) = AfterAp[at[c]]
  BY DEF SpotInv, After, Aps, Runs
<1> QED
  BY <1>1, <1>2, <1>3

\* A step leaves every processor at a step of its own order, and the application
\* processors in their pen until start_all.
LEMMA SpotKept ==
    ASSUME NEW c, Runs(c), SpotInv, at' = [at EXCEPT ![c] = After(c)]
    PROVE  SpotInv'
<1>1. PICK t : t = After(c)
  OBVIOUS
<1>2. /\ at'[c] = t /\ \A d \in CPUs \ {c} : at'[d] = at[d]
      /\ c = Bsp => at[c] \in BspSpots /\ t = AfterBsp[at[c]]
      /\ c # Bsp => c \in Aps /\ at[c] \in ApSpots /\ t = AfterAp[at[c]]
  BY <1>1, AdvanceSpot
<1>3. /\ c = Bsp => t \in BspSpots /\ (t \in {"wait", "idle"} <=> at[c] \in {"wait", "idle"})
      /\ c # Bsp => t \in ApSpots /\ at[c] # "pen"
  BY <1>2, BspOrder, ApOrder, BspSpotsFrom, ApSpotsFrom DEF Runs
<1>4. at' \in [CPUs -> BspSpots \cup ApSpots \cup {"pen"}]
  <2>1. t \in BspSpots \cup ApSpots \cup {"pen"}
    BY <1>3
  <2> QED
    BY <2>1, <1>1 DEF SpotInv
<1>5. at'[Bsp] \in BspSpots
  BY <1>2, <1>3, BootAssumption DEF SpotInv
<1>6. \A d \in Aps : at'[d] \in ApSpots \cup {"pen"}
  BY <1>2, <1>3 DEF SpotInv, Aps
<1>7. at'[Bsp] \notin {"wait", "idle"} => \A d \in Aps : at'[d] = "pen"
  <2>1. CASE c = Bsp
    BY <2>1, <1>2, <1>3 DEF SpotInv, Aps
  <2>2. CASE c # Bsp
    BY <2>2, <1>2, <1>3, BootAssumption DEF SpotInv, Aps
  <2> QED
    BY <2>1, <2>2
<1> QED
  BY <1>4, <1>5, <1>6, <1>7 DEF SpotInv

\* What a step reaches through is there.
LEMMA StepIsReady ==
    ASSUME NEW c, Runs(c) \/ c = Bsp, SpotInv, HadInv, SharedInv
    PROVE  Missing(c, at[c], Uses(at[c])) = {}
<1>1. Uses(at[c]) \subseteq have[c] \cup shared
  <2>1. CASE c = Bsp
    <3>1. Uses(at[c]) \subseteq BspHas[at[c]] \cup BspShared[at[c]]
      BY <2>1, BspOrder DEF SpotInv
    <3> QED
      BY <2>1, <3>1 DEF HadInv, SharedInv
  <2>2. CASE c # Bsp
    <3>1. c \in Aps /\ at[c] # "pen" /\ at[c] \in ApSpots
      BY <2>2 DEF SpotInv, Runs, Aps
    <3>2. Uses(at[c]) \subseteq ApHas[at[c]] \cup ApShared
      BY <3>1, ApOrder
    <3> QED
      BY <3>1, <3>2 DEF HadInv, SharedInv
  <2> QED
    BY <2>1, <2>2
<1> QED
  BY <1>1 DEF Missing

\* A step grants what the next one has.
LEMMA HadKept ==
    ASSUME NEW c, Runs(c), SpotInv, HadInv, SharedInv, IrqInv, MissingInv, Advance(c)
    PROVE  HadInv' /\ SharedInv' /\ IrqInv' /\ MissingInv'
<1>1. /\ at'[c] = After(c) /\ \A d \in CPUs \ {c} : at'[d] = at[d]
      /\ c = Bsp => at[c] \in BspSpots /\ at'[c] = AfterBsp[at[c]]
      /\ c # Bsp => c \in Aps /\ at[c] \in ApSpots /\ at'[c] = AfterAp[at[c]]
  BY AdvanceSpot DEF Advance
<1>2. /\ \A d \in CPUs : have[d] \subseteq have'[d]
      /\ \A d \in CPUs \ {c} : have'[d] = have[d]
      /\ Grants(at[c]) \subseteq have'[c] /\ shared \subseteq shared'
      /\ c = Bsp => SharedGrants(at[c]) \subseteq shared'
      /\ "irq" \in have'[c] => "irq" \in have[c] \/ at[c] = "sti"
      /\ have' \in [CPUs -> SUBSET Facilities]
  BY DEF Advance
<1>3. BspHas[at'[Bsp]] \subseteq have'[Bsp] /\ BspShared[at'[Bsp]] \subseteq shared'
  <2>1. CASE c = Bsp
    <3>1. /\ BspHas[AfterBsp[at[c]]] \subseteq BspHas[at[c]] \cup Grants(at[c])
          /\ BspShared[AfterBsp[at[c]]] \subseteq BspShared[at[c]] \cup SharedGrants(at[c])
      BY <2>1, <1>1, BspOrder
    <3>2. BspHas[at[c]] \subseteq have'[c]
      BY <2>1, <1>2, BootAssumption DEF HadInv
    <3> QED
      BY <2>1, <1>1, <1>2, <3>1, <3>2 DEF SharedInv
  <2>2. CASE c # Bsp
    <3>1. at'[Bsp] = at[Bsp] /\ have'[Bsp] = have[Bsp]
      BY <2>2, <1>1, <1>2, BootAssumption
    <3> QED
      BY <3>1, <1>2 DEF HadInv, SharedInv
  <2> QED
    BY <2>1, <2>2
<1>4. ASSUME NEW d \in Aps, at'[d] # "pen"
      PROVE  ApHas[at'[d]] \subseteq have'[d] /\ ApShared \subseteq shared'
  <2>1. CASE d = c
    <3>1. c # Bsp /\ at[c] # "pen"
      BY <2>1, <1>4 DEF Aps, Runs
    <3>2. ApHas[AfterAp[at[c]]] \subseteq ApHas[at[c]] \cup Grants(at[c])
      BY <3>1, <1>1, ApOrder
    <3>3. ApHas[at[c]] \subseteq have[c] /\ ApShared \subseteq shared
      BY <3>1, <1>1 DEF HadInv, SharedInv
    <3>4. have[c] \subseteq have'[c]
      BY <1>2 DEF Runs
    <3> QED
      BY <2>1, <3>1, <3>2, <3>3, <3>4, <1>1, <1>2
  <2>2. CASE d # c
    <3>1. at'[d] = at[d] /\ have'[d] = have[d]
      BY <2>2, <1>1, <1>2 DEF Aps
    <3> QED
      BY <3>1, <1>2, <1>4 DEF HadInv, SharedInv
  <2> QED
    BY <2>1, <2>2
<1>5. IrqInv'
  <2>1. SUFFICES ASSUME NEW d \in CPUs, "irq" \in have'[d] PROVE Wired \subseteq have'[d]
    BY DEF IrqInv
  <2>2. CASE "irq" \in have[d]
    BY <2>2, <1>2 DEF IrqInv
  <2>3. CASE "irq" \notin have[d]
    <3>1. d = c /\ at[c] = "sti"
      BY <2>1, <2>3, <1>2
    <3>2. Wired \subseteq BspHas["sti"] /\ Wired \subseteq ApHas["sti"]
      BY DEF BspHas, ApHas
    <3>3. Wired \subseteq have[c]
      BY <3>1, <3>2, <1>1 DEF HadInv, Runs
    <3> QED
      BY <3>1, <3>3, <1>2
  <2> QED
    BY <2>2, <2>3
<1>6. MissingInv'
  <2>1. Missing(c, at[c], Uses(at[c])) = {}
    BY StepIsReady
  <2>2. missing' = missing \cup Missing(c, at[c], Uses(at[c]))
    BY DEF Advance
  <2> QED
    BY <2>1, <2>2 DEF MissingInv
<1>7. HadInv'
  BY <1>2, <1>3, <1>4 DEF HadInv
<1>8. SharedInv'
  BY <1>3, <1>4 DEF SharedInv
<1> QED
  BY <1>5, <1>6, <1>7, <1>8

\* A processor's id is what firmware says, for good.
LEMMA IdKept ==
    ASSUME firmware' = firmware
    PROVE  (\A c : cpu_id(c)' = cpu_id(c)) /\ (DistinctIds' <=> DistinctIds)
<1>1. \A c : cpu_id(c)' = cpu_id(c)
  BY DEF cpu_id
<1> QED
  BY <1>1 DEF DistinctIds

\* Each processor's own place moves with its own step only.
LEMMA OthersStay ==
    ASSUME NEW c, NEW d \in CPUs, Runs(c), SpotInv, Advance(c)
    PROVE  /\ d # c => at'[d] = at[d]
           /\ c = Bsp => at[c] \in BspSpots /\ at'[c] = AfterBsp[at[c]]
           /\ c # Bsp => at[c] \in ApSpots /\ at'[c] = AfterAp[at[c]]
<1>1. at' = [at EXCEPT ![c] = After(c)]
  BY DEF Advance
<1>2. /\ \A e \in CPUs \ {c} : at'[e] = at[e]
      /\ c = Bsp => at[c] \in BspSpots /\ at'[c] = AfterBsp[at[c]]
      /\ c # Bsp => at[c] \in ApSpots /\ at'[c] = AfterAp[at[c]]
  BY <1>1, AdvanceSpot
<1> QED
  BY <1>2

\* Only percpu's finish_install writes names, and it does so on the step it is named for.
LEMMA NamedKept ==
    ASSUME NEW c, Runs(c), SpotInv, NamedInv, Advance(c), at[c] # "name", apic_to_cpu' = apic_to_cpu
    PROVE  NamedInv'
<1>1. ASSUME NEW d \in CPUs, at'[d] \notin Unnamed
      PROVE  at[d] \notin Unnamed
  <2>1. /\ d # c => at'[d] = at[d]
        /\ c = Bsp => at[c] \in BspSpots /\ at'[c] = AfterBsp[at[c]]
        /\ c # Bsp => at[c] \in ApSpots /\ at'[c] = AfterAp[at[c]]
    BY OthersStay
  <2> QED
    BY <1>1, <2>1, BspSpotsFrom, ApSpotsFrom, ZenonT(60)
<1>2. firmware' = firmware
  BY DEF Advance
<1> QED
  BY <1>1, <1>2, IdKept DEF NamedInv

\* A block keeps the tables it was published with.
LEMMA BlocksKept ==
    ASSUME BlocksInv, \A d \in CPUs : have[d] \subseteq have'[d], blocks' = blocks
    PROVE  BlocksInv'
BY DEF BlocksInv

\* sched::init's flags stay true of the threads adopted.
LEMMA IdleKept ==
    ASSUME IdleInv, \A d \in CPUs : have[d] \subseteq have'[d], firmware' = firmware,
           idle_installed' = idle_installed
    PROVE  IdleInv'
BY IdKept DEF IdleInv

\* Only mark_online leads past the mask.
LEMMA MaskKept ==
    ASSUME NEW c, Runs(c), SpotInv, MaskInv, Advance(c), at[c] # "online", online_mask' = online_mask
    PROVE  MaskInv'
<1>1. ASSUME NEW d \in CPUs
      PROVE  /\ at[d] \notin Unnamed => at'[d] \notin Unnamed
             /\ at'[d] \in Past(d) => at[d] \in Past(d)
  <2>1. /\ d # c => at'[d] = at[d]
        /\ c = Bsp => at[c] \in BspSpots /\ at'[c] = AfterBsp[at[c]]
        /\ c # Bsp => at[c] \in ApSpots /\ at'[c] = AfterAp[at[c]]
    BY OthersStay
  <2>2. CASE d # c
    BY <2>1, <2>2
  <2>3. CASE d = c /\ c = Bsp
    BY <2>1, <2>3, BspSpotsFrom DEF Past
  <2>4. CASE d = c /\ c # Bsp
    BY <2>1, <2>4, ApSpotsFrom DEF Past
  <2> QED
    BY <2>2, <2>3, <2>4
<1>2. firmware' = firmware /\ \A d \in CPUs : have[d] \subseteq have'[d]
  BY DEF Advance
<1>3. SUFFICES ASSUME NEW d \in CPUs
               PROVE  /\ cpu_id(d)' \in online_mask' => "irq" \in have'[d] /\ at'[d] \notin Unnamed
                      /\ at'[d] \in Past(d) => cpu_id(d)' \in online_mask'
  BY DEF MaskInv, Past
<1>4. cpu_id(d)' = cpu_id(d)
  BY <1>2, IdKept
<1> QED
  BY <1>1, <1>2, <1>4 DEF MaskInv

\* Only the step after mark_online is counted.
LEMMA CountKept ==
    ASSUME NEW c, Runs(c), SpotInv, CountInv, Advance(c), c = Bsp \/ at[c] # "count", ONLINE' = ONLINE
    PROVE  CountInv'
<1>1. ASSUME NEW d \in Aps
      PROVE  at'[d] = "idle" <=> at[d] = "idle"
  <2>1. /\ d # c => at'[d] = at[d]
        /\ c # Bsp => at[c] \in ApSpots /\ at'[c] = AfterAp[at[c]]
    BY OthersStay DEF Aps
  <2> QED
    BY <2>1, ApSpotsFrom DEF Aps
<1>2. {d \in Aps : at'[d] = "idle"} = {d \in Aps : at[d] = "idle"}
  BY <1>1
<1> QED
  BY <1>2 DEF CountInv

\* A report that everyone is online stays true.
LEMMA ReportKept ==
    ASSUME ReportInv, firmware' = firmware, report' = report, online_mask \subseteq online_mask'
    PROVE  ReportInv'
BY IdKept DEF ReportInv

\* A step that leaves percpu's and the scheduler's tables alone.
LEMMA PlainStep ==
    ASSUME NEW c, Runs(c), ComingUp, Advance(c), at[c] \notin {"name", "online"},
           c = Bsp \/ at[c] # "count", KeepTables, report' = report \/ ReportInv'
    PROVE  ComingUp'
<1>1. /\ SpotInv /\ HadInv /\ SharedInv /\ IrqInv /\ NamedInv /\ BlocksInv
      /\ IdleInv /\ MaskInv /\ CountInv /\ ReportInv /\ MissingInv
  BY DEF ComingUp
<1>2. /\ firmware' = firmware /\ \A d \in CPUs : have[d] \subseteq have'[d]
      /\ at' = [at EXCEPT ![c] = After(c)]
  BY DEF Advance
<1>3. /\ apic_to_cpu' = apic_to_cpu /\ blocks' = blocks /\ online_mask' = online_mask
      /\ idle_installed' = idle_installed /\ ONLINE' = ONLINE
  BY DEF KeepTables
<1>4. at[c] # "name" /\ at[c] # "online" /\ online_mask \subseteq online_mask'
  BY <1>3
<1>5. SpotInv'
  BY <1>1, <1>2, SpotKept
<1>6. HadInv' /\ SharedInv' /\ IrqInv' /\ MissingInv'
  BY <1>1, HadKept
<1>7. NamedInv'
  BY <1>1, <1>3, <1>4, NamedKept
<1>8. BlocksInv'
  BY <1>1, <1>2, <1>3, BlocksKept
<1>9. IdleInv'
  BY <1>1, <1>2, <1>3, IdleKept
<1>10. MaskInv'
  BY <1>1, <1>3, <1>4, MaskKept
<1>11. CountInv'
  BY <1>1, <1>3, CountKept
<1>12. ReportInv'
  BY <1>1, <1>2, <1>4, ReportKept
<1> QED
  BY <1>5, <1>6, <1>7, <1>8, <1>9, <1>10, <1>11, <1>12, ZenonT(60) DEF ComingUp

\* A step that only provides a facility.
LEMMA ProvideStep ==
    ASSUME NEW c \in CPUs, NEW s, NEW local, NEW global, ComingUp, Provide(c, s, local, global),
           s \notin {"start", "pen", "name", "online", "count"},
           local \subseteq Facilities, Grants(s) \subseteq local, SharedGrants(s) \subseteq global,
           "irq" \in local => s = "sti"
    PROVE  ComingUp' /\ firmware' = firmware
<1>1. /\ at[c] = s /\ have' = [have EXCEPT ![c] = have[c] \cup local] /\ shared' = shared \cup global
      /\ at' = [at EXCEPT ![c] = After(c)] /\ firmware' = firmware
      /\ missing' = missing \cup Missing(c, at[c], Uses(at[c])) /\ KeepTables /\ report' = report
  BY DEF Provide, Stands, Proceed, KeepWait
<1>2. Runs(c) /\ at[c] \notin {"name", "online"} /\ at[c] # "count"
  BY <1>1 DEF Runs
<1>3. have \in [CPUs -> SUBSET Facilities]
  BY DEF ComingUp, HadInv
<1>4. have'[c] = have[c] \cup local /\ \A d \in CPUs \ {c} : have'[d] = have[d]
  BY <1>1, <1>3
<1>5. have' \in [CPUs -> SUBSET Facilities]
  <2>1. have[c] \cup local \in SUBSET Facilities
    BY <1>3
  <2> QED
    BY <2>1, <1>1, <1>3
<1>6. \A d \in CPUs : have[d] \subseteq have'[d]
  BY <1>4
<1>7. /\ Grants(at[c]) \subseteq have'[c] /\ shared \subseteq shared'
      /\ SharedGrants(at[c]) \subseteq shared'
      /\ "irq" \in have'[c] => "irq" \in have[c] \/ at[c] = "sti"
  BY <1>1, <1>4
<1>8. Advance(c)
  BY <1>1, <1>4, <1>5, <1>6, <1>7 DEF Advance
<1> QED
  BY <1>1, <1>2, <1>8, PlainStep

\* A step that provides nothing.
LEMMA QuietStep ==
    ASSUME NEW c \in CPUs, ComingUp, Proceed(c), UNCHANGED <<have, shared>>,
           Grants(at[c]) = {}, SharedGrants(at[c]) = {}
    PROVE  Advance(c) /\ firmware' = firmware
<1>1. /\ have' = have /\ shared' = shared
      /\ at' = [at EXCEPT ![c] = After(c)] /\ firmware' = firmware
      /\ missing' = missing \cup Missing(c, at[c], Uses(at[c]))
  BY DEF Proceed
<1>2. have' \in [CPUs -> SUBSET Facilities]
  BY <1>1 DEF ComingUp, HadInv
<1> QED
  BY <1>1, <1>2 DEF Advance

\* Nothing of this part changes.
LEMMA Unmoved ==
    ASSUME ComingUp, UNCHANGED <<firmware, at, have, shared, apic_to_cpu, blocks, online_mask,
                                 idle_installed, ONLINE, report, missing>>
    PROVE  ComingUp'
<1>1. /\ firmware' = firmware /\ at' = at /\ have' = have /\ shared' = shared
      /\ apic_to_cpu' = apic_to_cpu /\ blocks' = blocks /\ online_mask' = online_mask
      /\ idle_installed' = idle_installed /\ ONLINE' = ONLINE /\ report' = report /\ missing' = missing
  OBVIOUS
<1>2. \A c : cpu_id(c)' = cpu_id(c)
  BY <1>1, IdKept
<1>3. SpotInv' /\ HadInv' /\ SharedInv' /\ IrqInv'
  BY <1>1 DEF ComingUp, SpotInv, HadInv, SharedInv, IrqInv
<1>4. NamedInv' /\ BlocksInv' /\ IdleInv'
  BY <1>1, <1>2 DEF ComingUp, NamedInv, BlocksInv, IdleInv
<1>5. MaskInv' /\ CountInv' /\ ReportInv' /\ MissingInv'
  BY <1>1, <1>2 DEF ComingUp, MaskInv, Past, CountInv, ReportInv, MissingInv
<1> QED
  BY <1>3, <1>4, <1>5 DEF ComingUp

\* The part of the invariant no table is in.
LEMMA MovesOn ==
    ASSUME NEW c, Runs(c), ComingUp, Advance(c)
    PROVE  SpotInv' /\ HadInv' /\ SharedInv' /\ IrqInv' /\ MissingInv'
<1>1. SpotInv /\ HadInv /\ SharedInv /\ IrqInv /\ MissingInv
  BY DEF ComingUp
<1>2. at' = [at EXCEPT ![c] = After(c)]
  BY DEF Advance
<1>3. SpotInv'
  BY <1>1, <1>2, SpotKept
<1>4. HadInv' /\ SharedInv' /\ IrqInv' /\ MissingInv'
  BY <1>1, HadKept
<1> QED
  BY <1>3, <1>4

\* finish_install's first write: the id under the APIC id.
LEMMA NameStep ==
    ASSUME NEW c \in CPUs, firmware \in Firmwares, ComingUp, Name(c)
    PROVE  ComingUp' /\ firmware' = firmware
<1>0. at[c] = "name"
  BY DEF Name, Stands
<1>1. CASE Panic
  BY <1>1, Unmoved DEF Panic
<1>2. CASE ~Panic
  <2>1. /\ ~(firmware.apic[c] >= MAX_CPUS)
        /\ apic_to_cpu' = [apic_to_cpu EXCEPT ![firmware.apic[c]] = cpu_id(c)]
        /\ Proceed(c) /\ report' = report /\ UNCHANGED <<have, shared>>
        /\ blocks' = blocks /\ online_mask' = online_mask
        /\ idle_installed' = idle_installed /\ ONLINE' = ONLINE
    BY <1>2 DEF Name, KeepWait
  <2>2. Grants("name") = {} /\ SharedGrants("name") = {}
    BY DEF Grants, SharedGrants, Memory
  <2>3. Advance(c) /\ firmware' = firmware
    BY <1>0, <2>1, <2>2, QuietStep
  <2>4. Runs(c) /\ at[c] # "online" /\ at[c] # "count" /\ online_mask \subseteq online_mask'
    BY <1>0, <2>1 DEF Runs
  <2>5. SpotInv' /\ HadInv' /\ SharedInv' /\ IrqInv' /\ MissingInv'
    BY <2>3, <2>4, MovesOn
  <2>6. /\ SpotInv /\ NamedInv /\ BlocksInv /\ IdleInv /\ MaskInv /\ CountInv /\ ReportInv
    BY DEF ComingUp
  <2>7. \A d \in CPUs : have[d] \subseteq have'[d]
    BY <2>3 DEF Advance
  <2>8. BlocksInv' /\ IdleInv'
    BY <2>1, <2>3, <2>6, <2>7, BlocksKept, IdleKept
  <2>9. MaskInv'
    BY <2>1, <2>3, <2>4, <2>6, MaskKept
  <2>10. CountInv'
    BY <2>1, <2>3, <2>4, <2>6, CountKept
  <2>11. ReportInv'
    BY <2>1, <2>3, <2>4, <2>6, ReportKept
  <2>12. /\ firmware.apic \in [CPUs -> Nat] /\ MAX_CPUS \in Nat
         /\ \A d, e \in CPUs : firmware.apic[d] = firmware.apic[e] => d = e
    BY BootAssumption
  <2>13. PICK a : a = firmware.apic[c] /\ a \in Nat
    BY <2>12
  <2>14. a \in Ids
    BY <2>1, <2>12, <2>13, SMT DEF Ids
  <2>15. DOMAIN apic_to_cpu = Ids
    BY <2>6 DEF NamedInv
  <2>16. DOMAIN apic_to_cpu' = Ids
    BY <2>1, <2>15
  <2>17. apic_to_cpu'[a] = cpu_id(c) /\ \A b \in Ids \ {a} : apic_to_cpu'[b] = apic_to_cpu[b]
    BY <2>1, <2>13, <2>14, <2>15
  <2>18. ASSUME NEW d \in CPUs, at'[d] \notin Unnamed
         PROVE  firmware'.apic[d] \in Ids /\ apic_to_cpu'[firmware'.apic[d]] = cpu_id(d)'
    <3>1. cpu_id(d)' = cpu_id(d)
      BY <2>3, IdKept
    <3>2. CASE d = c
      BY <3>1, <3>2, <2>3, <2>13, <2>14, <2>17
    <3>3. CASE d # c
      <4>1. at'[d] = at[d]
        BY <3>3, <2>3, <2>4, <2>6, OthersStay
      <4>2. firmware.apic[d] \in Ids /\ apic_to_cpu[firmware.apic[d]] = cpu_id(d)
        BY <4>1, <2>18, <2>6 DEF NamedInv
      <4>3. firmware.apic[d] # a
        BY <3>3, <2>12, <2>13
      <4> QED
        BY <4>2, <4>3, <3>1, <2>3, <2>17
    <3> QED
      BY <3>2, <3>3
  <2>19. NamedInv'
    BY <2>16, <2>18 DEF NamedInv, Ids
  <2> QED
    BY <2>3, <2>5, <2>8, <2>9, <2>10, <2>11, <2>19 DEF ComingUp
<1> QED
  BY <1>1, <1>2

\* finish_install's last write: the block, its tables loaded.
LEMMA PublishStep ==
    ASSUME NEW c \in CPUs, ComingUp, Publish(c)
    PROVE  ComingUp' /\ firmware' = firmware
<1>0. at[c] = "publish"
  BY DEF Publish, Stands
<1>1. CASE Panic
  BY <1>1, Unmoved DEF Panic
<1>2. CASE ~Panic
  <2>1. /\ blocks' = [blocks EXCEPT ![cpu_id(c)] = c]
        /\ Proceed(c) /\ report' = report /\ UNCHANGED <<have, shared>>
        /\ apic_to_cpu' = apic_to_cpu /\ online_mask' = online_mask
        /\ idle_installed' = idle_installed /\ ONLINE' = ONLINE
    BY <1>2 DEF Publish, KeepWait
  <2>2. Grants("publish") = {} /\ SharedGrants("publish") = {}
    BY DEF Grants, SharedGrants, Memory
  <2>3. Advance(c) /\ firmware' = firmware
    BY <1>0, <2>1, <2>2, QuietStep
  <2>4. /\ Runs(c) /\ at[c] # "online" /\ at[c] # "count" /\ at[c] # "name"
        /\ online_mask \subseteq online_mask'
    BY <1>0, <2>1 DEF Runs
  <2>5. SpotInv' /\ HadInv' /\ SharedInv' /\ IrqInv' /\ MissingInv'
    BY <2>3, <2>4, MovesOn
  <2>6. /\ SpotInv /\ HadInv /\ NamedInv /\ BlocksInv /\ IdleInv /\ MaskInv /\ CountInv /\ ReportInv
    BY DEF ComingUp
  <2>7. \A d \in CPUs : have[d] \subseteq have'[d]
    BY <2>3 DEF Advance
  <2>8. IdleInv'
    BY <2>1, <2>3, <2>6, <2>7, IdleKept
  <2>9. MaskInv'
    BY <2>1, <2>3, <2>4, <2>6, MaskKept
  <2>10. CountInv'
    BY <2>1, <2>3, <2>4, <2>6, CountKept
  <2>11. ReportInv'
    BY <2>1, <2>3, <2>4, <2>6, ReportKept
  <2>12. NamedInv'
    BY <2>1, <2>3, <2>4, <2>6, NamedKept
  <2>13. Tables \subseteq have[c]
    <3>1. BspHas["publish"] = Tables /\ ApHas["publish"] = Tables
      BY DEF BspHas, ApHas
    <3> QED
      BY <3>1, <1>0, <2>6 DEF HadInv, Aps
  <2>14. /\ blocks' \in [Ids -> CPUs \cup {None}]
         /\ \A i \in Ids : blocks'[i] = c \/ blocks'[i] = blocks[i]
    BY <2>1, <2>6 DEF BlocksInv
  <2>15. BlocksInv'
    BY <2>1, <2>6, <2>13, <2>14 DEF BlocksInv
  <2> QED
    BY <2>3, <2>5, <2>8, <2>9, <2>10, <2>11, <2>12, <2>15 DEF ComingUp
<1> QED
  BY <1>1, <1>2

\* sched::init on this processor: its idle thread is there, adopted now or, for an id
\* already marked, before.
LEMMA AdoptStep ==
    ASSUME NEW c \in CPUs, ComingUp, DistinctIds, AdoptIdle(c)
    PROVE  ComingUp' /\ firmware' = firmware
<1>1. /\ at[c] = "sched" /\ report' = report /\ shared' = shared
      /\ have' = [have EXCEPT ![c] = IF cpu_id(c) \in idle_installed THEN have[c]
                                     ELSE have[c] \cup {"idle thread"}]
      /\ idle_installed' = idle_installed \cup {cpu_id(c)}
      /\ at' = [at EXCEPT ![c] = After(c)] /\ firmware' = firmware
      /\ missing' = missing \cup Missing(c, at[c], Uses(at[c]))
      /\ apic_to_cpu' = apic_to_cpu /\ online_mask' = online_mask
      /\ blocks' = blocks /\ ONLINE' = ONLINE
  BY DEF AdoptIdle, Stands, KeepWait, Proceed
<1>2. /\ SpotInv /\ HadInv /\ NamedInv /\ BlocksInv /\ IdleInv /\ MaskInv /\ CountInv /\ ReportInv
      /\ have \in [CPUs -> SUBSET Facilities]
  BY DEF ComingUp, HadInv
<1>3. PICK h : /\ h = IF cpu_id(c) \in idle_installed THEN have[c] ELSE have[c] \cup {"idle thread"}
  OBVIOUS
<1>4. /\ have[c] \subseteq h /\ h \subseteq have[c] \cup {"idle thread"} /\ "idle thread" \in h
  BY <1>2, <1>3 DEF IdleInv
<1>5. h \in SUBSET Facilities
  BY <1>2, <1>4 DEF Facilities
<1>6. /\ have' \in [CPUs -> SUBSET Facilities]
      /\ have'[c] = h /\ \A d \in CPUs \ {c} : have'[d] = have[d]
  BY <1>1, <1>2, <1>3, <1>5
<1>7. \A d \in CPUs : have[d] \subseteq have'[d]
  <2>1. SUFFICES ASSUME NEW d \in CPUs
                 PROVE  have[d] \subseteq have'[d]
    OBVIOUS
  <2>2. CASE d = c
    BY <1>4, <1>6, <2>2
  <2>3. CASE d # c
    BY <1>6, <2>3
  <2> QED
    BY <2>2, <2>3
<1>8. Grants("sched") = {"idle thread"} /\ SharedGrants("sched") = {}
  BY DEF Grants, SharedGrants, Memory
<1>9. Grants(at[c]) \subseteq have'[c] /\ SharedGrants(at[c]) \subseteq shared'
  BY <1>1, <1>4, <1>6, <1>8
<1>10. "irq" \in have'[c] => "irq" \in have[c]
  <2>1. \A f \in h : f \in have[c] \/ f = "idle thread"
    BY <1>4
  <2>2. "irq" # "idle thread"
    OBVIOUS
  <2> QED
    BY <2>1, <2>2, <1>6
<1>11. Advance(c)
  BY <1>1, <1>6, <1>7, <1>9, <1>10 DEF Advance
<1>12. /\ Runs(c) /\ at[c] # "online" /\ at[c] # "count" /\ at[c] # "name"
       /\ online_mask \subseteq online_mask'
  BY <1>1 DEF Runs
<1>13. SpotInv' /\ HadInv' /\ SharedInv' /\ IrqInv' /\ MissingInv'
  BY <1>11, <1>12, MovesOn
<1>14. NamedInv' /\ MaskInv'
  BY <1>1, <1>2, <1>11, <1>12, NamedKept, MaskKept
<1>15. BlocksInv' /\ CountInv' /\ ReportInv'
  BY <1>1, <1>2, <1>7, <1>11, <1>12, BlocksKept, CountKept, ReportKept
<1>16. IdleInv'
  <2>1. SUFFICES ASSUME NEW d \in CPUs, cpu_id(d)' \in idle_installed'
                 PROVE  "idle thread" \in have'[d]
    BY DEF IdleInv
  <2>2. cpu_id(d)' = cpu_id(d)
    BY <1>1, IdKept
  <2>3. CASE d = c
    BY <2>3, <1>4, <1>6
  <2>4. CASE d # c
    BY <2>1, <2>2, <2>4, <1>1, <1>2, <1>7 DEF IdleInv, DistinctIds
  <2> QED
    BY <2>3, <2>4
<1> QED
  BY <1>1, <1>13, <1>14, <1>15, <1>16 DEF ComingUp

\* percpu::mark_online, on a processor that takes interrupts.
LEMMA MarkStep ==
    ASSUME NEW c \in CPUs, ComingUp, DistinctIds, MarkOnline(c)
    PROVE  ComingUp' /\ firmware' = firmware
<1>1. /\ at[c] = "online" /\ report' = report /\ UNCHANGED <<have, shared>> /\ Proceed(c)
      /\ online_mask' = online_mask \cup {cpu_id(c)}
      /\ apic_to_cpu' = apic_to_cpu /\ idle_installed' = idle_installed
      /\ blocks' = blocks /\ ONLINE' = ONLINE
  BY DEF MarkOnline, Stands, KeepWait
<1>2. /\ SpotInv /\ HadInv /\ NamedInv /\ BlocksInv /\ IdleInv /\ MaskInv /\ CountInv /\ ReportInv
  BY DEF ComingUp
<1>3. Grants("online") = {} /\ SharedGrants("online") = {}
  BY DEF Grants, SharedGrants, Memory
<1>4. Advance(c) /\ firmware' = firmware
  BY <1>1, <1>3, QuietStep
<1>5. /\ Runs(c) /\ at[c] # "count" /\ at[c] # "name" /\ online_mask \subseteq online_mask'
  BY <1>1 DEF Runs
<1>6. SpotInv' /\ HadInv' /\ SharedInv' /\ IrqInv' /\ MissingInv'
  BY <1>4, <1>5, MovesOn
<1>7. have' = have /\ \A d \in CPUs : have[d] \subseteq have'[d]
  BY <1>1
<1>8. NamedInv' /\ BlocksInv' /\ IdleInv'
  BY <1>1, <1>2, <1>4, <1>5, <1>7, NamedKept, BlocksKept, IdleKept
<1>9. CountInv' /\ ReportInv'
  BY <1>1, <1>2, <1>4, <1>5, CountKept, ReportKept
<1>10. "irq" \in have[c] /\ at'[c] \notin Unnamed
  <2>1. "irq" \in BspHas["online"] /\ "irq" \in ApHas["online"]
    BY DEF BspHas, ApHas, Live
  <2>2. "irq" \in have[c]
    BY <2>1, <1>1, <1>2 DEF HadInv, Aps
  <2>3. AfterBsp["online"] = "preempt" /\ AfterAp["online"] = "count"
    BY DEF AfterBsp, AfterAp
  <2>4. at'[c] \in {"preempt", "count"}
    BY <2>3, <1>1, <1>2, <1>4, <1>5, OthersStay
  <2> QED
    BY <2>2, <2>4 DEF Unnamed
<1>11. MaskInv'
  <2>1. SUFFICES ASSUME NEW d \in CPUs
                 PROVE  /\ cpu_id(d)' \in online_mask' => "irq" \in have'[d] /\ at'[d] \notin Unnamed
                        /\ at'[d] \in Past(d) => cpu_id(d)' \in online_mask'
    BY DEF MaskInv, Past
  <2>2. cpu_id(d)' = cpu_id(d)
    BY <1>4, IdKept
  <2>3. CASE d = c
    BY <2>2, <2>3, <1>1, <1>7, <1>10
  <2>4. CASE d # c
    <3>1. at'[d] = at[d]
      BY <2>4, <1>2, <1>4, <1>5, OthersStay
    <3>2. cpu_id(d) \in online_mask' <=> cpu_id(d) \in online_mask
      BY <2>4, <1>1 DEF DistinctIds
    <3> QED
      BY <3>1, <3>2, <2>2, <1>2, <1>7 DEF MaskInv
  <2> QED
    BY <2>3, <2>4
<1> QED
  BY <1>4, <1>6, <1>8, <1>9, <1>11 DEF ComingUp

\* The count an application processor adds itself to, once.
LEMMA CountStep ==
    ASSUME NEW c \in Aps, ComingUp, Count(c)
    PROVE  ComingUp' /\ firmware' = firmware
<1>0. c \in CPUs /\ c # Bsp
  BY DEF Aps
<1>1. /\ at[c] = "count" /\ report' = report /\ UNCHANGED <<have, shared>> /\ Proceed(c)
      /\ ONLINE' = ONLINE + 1
      /\ apic_to_cpu' = apic_to_cpu /\ idle_installed' = idle_installed
      /\ blocks' = blocks /\ online_mask' = online_mask
  BY DEF Count, Stands, KeepWait
<1>2. /\ SpotInv /\ HadInv /\ NamedInv /\ BlocksInv /\ IdleInv /\ MaskInv /\ CountInv /\ ReportInv
  BY DEF ComingUp
<1>3. Grants("count") = {} /\ SharedGrants("count") = {}
  BY DEF Grants, SharedGrants, Memory
<1>4. Advance(c) /\ firmware' = firmware
  BY <1>0, <1>1, <1>3, QuietStep
<1>5. /\ Runs(c) /\ at[c] # "online" /\ at[c] # "name" /\ online_mask \subseteq online_mask'
  BY <1>0, <1>1 DEF Runs
<1>6. SpotInv' /\ HadInv' /\ SharedInv' /\ IrqInv' /\ MissingInv'
  BY <1>4, <1>5, MovesOn
<1>7. \A d \in CPUs : have[d] \subseteq have'[d]
  BY <1>1
<1>8. NamedInv' /\ BlocksInv' /\ IdleInv'
  BY <1>1, <1>2, <1>4, <1>5, <1>7, NamedKept, BlocksKept, IdleKept
<1>9. MaskInv' /\ ReportInv'
  BY <1>1, <1>2, <1>4, <1>5, MaskKept, ReportKept
<1>10. CountInv'
  <2>1. PICK I : I = {d \in Aps : at[d] = "idle"}
    OBVIOUS
  <2>2. IsFiniteSet(I)
    <3>1. I \subseteq CPUs
      BY <2>1 DEF Aps
    <3> QED
      BY <3>1, BootAssumption, FS_Subset
  <2>3. at'[c] = "idle" /\ \A d \in CPUs \ {c} : at'[d] = at[d]
    <3>1. at[c] \in ApSpots /\ at'[c] = AfterAp[at[c]] /\ \A d \in CPUs \ {c} : at'[d] = at[d]
      BY <1>0, <1>2, <1>4, <1>5, OthersStay
    <3> QED
      BY <3>1, <1>1, ApSpotsFrom
  <2>4. {d \in Aps : at'[d] = "idle"} = I \cup {c}
    BY <2>1, <2>3, <1>0 DEF Aps
  <2>5. c \notin I
    BY <2>1, <1>1
  <2>6. Cardinality(I \cup {c}) = Cardinality(I) + 1
    BY <2>2, <2>5, FS_AddElement
  <2> QED
    BY <2>1, <2>4, <2>6, <1>1, <1>2 DEF CountInv
<1> QED
  BY <1>4, <1>6, <1>8, <1>9, <1>10 DEF ComingUp

\* smp::start_all: the others leave their pen with nothing of their own, on a machine
\* whose heap and APIC page are there.
LEMMA StartStep ==
    ASSUME ComingUp, StartAll
    PROVE  ComingUp' /\ firmware' = firmware
<1>1. /\ at[Bsp] = "start" /\ report' = report /\ have' = have /\ shared' = shared
      /\ at' = [c \in CPUs |-> IF c = Bsp THEN After(Bsp)
                               ELSE IF firmware.answered /\ c \in firmware.starts THEN "alloc" ELSE at[c]]
      /\ missing' = missing \cup Missing(Bsp, "start", Uses("start"))
      /\ firmware' = firmware
      /\ apic_to_cpu' = apic_to_cpu /\ idle_installed' = idle_installed
      /\ blocks' = blocks /\ online_mask' = online_mask /\ ONLINE' = ONLINE
  BY DEF StartAll, Stands, KeepWait, KeepTables
<1>2. /\ SpotInv /\ HadInv /\ SharedInv /\ IrqInv /\ NamedInv /\ BlocksInv
      /\ IdleInv /\ MaskInv /\ CountInv /\ ReportInv /\ MissingInv
  BY DEF ComingUp
<1>3. \A c \in Aps : at[c] = "pen"
  BY <1>1, <1>2 DEF SpotInv
<1>4. After(Bsp) = "wait"
  <2>1. AfterBsp["start"] = "wait"
    BY SMT DEF AfterBsp
  <2> QED
    BY <2>1, <1>1 DEF After
<1>5. at'[Bsp] = "wait" /\ \A c \in Aps : at'[c] \in {"alloc", "pen"}
  BY <1>1, <1>3, <1>4, BootAssumption DEF Aps
<1>6. "wait" \in BspSpots /\ "alloc" \in ApSpots
  BY SMT DEF BspSpots, AfterBsp, ApSpots, AfterAp
<1>7. SpotInv'
  <2>1. \A c \in CPUs : at'[c] \in BspSpots \cup ApSpots \cup {"pen"}
    BY <1>5, <1>6 DEF Aps
  <2>2. at' \in [CPUs -> BspSpots \cup ApSpots \cup {"pen"}]
    <3>1. at' = [c \in CPUs |-> at'[c]]
      BY <1>1
    <3> QED
      BY <2>1, <3>1
  <2> QED
    BY <2>2, <1>5, <1>6 DEF SpotInv
<1>8. HadInv'
  <2>1. BspHas["wait"] = BspHas["start"] /\ ApHas["alloc"] = {}
    BY DEF BspHas, ApHas
  <2> QED
    BY <2>1, <1>1, <1>2, <1>5 DEF HadInv
<1>9. SharedInv'
  <2>1. BspShared["wait"] = BspShared["start"] /\ ApShared \subseteq BspShared["start"]
    BY DEF BspShared, ApShared, Memory
  <2> QED
    BY <2>1, <1>1, <1>2, <1>5 DEF SharedInv
<1>10. MissingInv'
  <2>1. Missing(Bsp, at[Bsp], Uses(at[Bsp])) = {}
    BY <1>2, StepIsReady
  <2> QED
    BY <2>1, <1>1, <1>2 DEF MissingInv
<1>11. \A c : cpu_id(c)' = cpu_id(c)
  BY <1>1, IdKept
<1>12. \A c \in CPUs : /\ at'[c] \notin Unnamed <=> at[c] \notin Unnamed
                       /\ at'[c] \in Past(c) <=> at[c] \in Past(c)
  <2>1. ASSUME NEW c \in CPUs, c = Bsp
        PROVE  at[c] \notin Unnamed /\ at'[c] \notin Unnamed /\ at[c] \in Past(c) /\ at'[c] \in Past(c)
    <3>1. {"start", "wait"} \subseteq BspPast /\ "start" \notin Unnamed /\ "wait" \notin Unnamed
      BY SMT DEF BspPast, Unnamed
    <3> QED
      BY <2>1, <3>1, <1>1, <1>5 DEF Past
  <2>2. ASSUME NEW c \in CPUs, c # Bsp
        PROVE  at[c] \in Unnamed /\ at'[c] \in Unnamed /\ at[c] \notin Past(c) /\ at'[c] \notin Past(c)
    <3>1. "pen" \in Unnamed /\ "alloc" \in Unnamed /\ "pen" \notin ApPast /\ "alloc" \notin ApPast
      BY SMT DEF ApPast, Unnamed
    <3> QED
      BY <2>2, <3>1, <1>3, <1>5 DEF Past, Aps
  <2> QED
    BY <2>1, <2>2
<1>13. NamedInv'
  BY <1>1, <1>2, <1>11, <1>12 DEF NamedInv
<1>14. MaskInv'
  BY <1>1, <1>2, <1>11, <1>12 DEF MaskInv, Past
<1>15. CountInv'
  <2>1. "alloc" # "idle" /\ "pen" # "idle"
    OBVIOUS
  <2>2. \A c \in Aps : at'[c] # "idle" /\ at[c] # "idle"
    BY <2>1, <1>3, <1>5
  <2>3. {c \in Aps : at'[c] = "idle"} = {c \in Aps : at[c] = "idle"}
    BY <2>2
  <2> QED
    BY <2>3, <1>1, <1>2 DEF CountInv
<1>16. IrqInv' /\ BlocksInv' /\ IdleInv' /\ ReportInv'
  BY <1>1, <1>2, <1>11 DEF IrqInv, BlocksInv, IdleInv, ReportInv
<1> QED
  BY <1>1, <1>7, <1>8, <1>9, <1>10, <1>13, <1>14, <1>15, <1>16 DEF ComingUp

\* Every application processor has counted itself, so every one is in the mask.
LEMMA EveryoneCounted ==
    ASSUME ComingUp, at[Bsp] = "wait", all_online
    PROVE  \A c \in CPUs : cpu_id(c) \in online_mask
<1>1. PICK I : I = {c \in Aps : at[c] = "idle"}
  OBVIOUS
<1>2. IsFiniteSet(Aps) /\ Cardinality(Aps) = Cardinality(CPUs) - 1
  BY BootAssumption, FS_RemoveElement DEF Aps
<1>3. IsFiniteSet(I) /\ I \subseteq Aps /\ Cardinality(I) <= Cardinality(Aps)
  <2>1. I \subseteq Aps
    BY <1>1
  <2> QED
    BY <2>1, <1>2, FS_Subset
<1>4. Cardinality(I) \in Nat /\ Cardinality(Aps) \in Nat /\ Cardinality(CPUs) \in Nat
  BY <1>2, <1>3, BootAssumption, FS_CardinalityType
<1>5. Cardinality(I) >= Cardinality(CPUs) - 1
  <2>1. cpu_count > 0 /\ Cardinality(I) >= cpu_count - 1
    BY <1>1 DEF all_online, ComingUp, CountInv
  <2>2. CASE cpu_count = Cardinality(CPUs)
    BY <2>1, <2>2
  <2>3. CASE cpu_count = 0
    <3>1. ~(0 > 0)
      BY SMT
    <3> QED
      BY <2>1, <2>3, <3>1
  <2> QED
    BY <2>2, <2>3 DEF cpu_count
<1>6. Cardinality(I) = Cardinality(Aps)
  BY <1>2, <1>3, <1>4, <1>5, SMTT(40)
<1>7. I = Aps
  BY <1>2, <1>3, <1>6, FS_Subset
<1>8. \A c \in CPUs : at[c] \in Past(c)
  <2>1. "wait" \in BspPast /\ "idle" \in ApPast
    BY DEF BspPast, ApPast
  <2> QED
    BY <2>1, <1>1, <1>7 DEF Past, Aps
<1> QED
  BY <1>8 DEF ComingUp, MaskInv

\* smp::wait_for_all reports everyone only when everyone is in the mask.
LEMMA WaitStep ==
    ASSUME ComingUp, WaitForAll
    PROVE  ComingUp' /\ firmware' = firmware
<1>1. /\ at[Bsp] = "wait" /\ KeepTables /\ UNCHANGED <<have, shared>> /\ Bsp \in CPUs
  BY BootAssumption DEF WaitForAll, Stands
<1>2. CASE all_online \/ left = 0
  <2>1. report' = (IF all_online THEN "all" ELSE "timed out") /\ Proceed(Bsp)
    BY <1>2 DEF WaitForAll
  <2>2. Grants("wait") = {} /\ SharedGrants("wait") = {}
    BY DEF Grants, SharedGrants, Memory
  <2>3. Advance(Bsp) /\ firmware' = firmware
    BY <1>1, <2>1, <2>2, QuietStep
  <2>4. ReportInv'
    <3>1. online_mask' = online_mask /\ \A c : cpu_id(c)' = cpu_id(c)
      BY <1>1, <2>3, IdKept DEF KeepTables
    <3>2. CASE all_online
      BY <3>1, <3>2, <1>1, EveryoneCounted DEF ReportInv
    <3>3. CASE ~all_online
      <4>1. report' # "all"
        BY <3>3, <2>1
      <4> QED
        BY <4>1 DEF ReportInv
    <3> QED
      BY <3>2, <3>3
  <2>5. Runs(Bsp) /\ at[Bsp] \notin {"name", "online"}
    BY <1>1 DEF Runs
  <2> QED
    BY <1>1, <2>3, <2>4, <2>5, PlainStep
<1>3. CASE ~(all_online \/ left = 0)
  BY <1>3, Unmoved DEF WaitForAll, KeepTables
<1> QED
  BY <1>2, <1>3

\* The steps kmain and ap_entry share.
LEMMA SharedSteps ==
    ASSUME NEW c \in CPUs, firmware \in Firmwares, DistinctIds, ComingUp, StepOf(c)
    PROVE  ComingUp' /\ firmware' = firmware
<1>1. CASE Name(c)
  BY <1>1, NameStep
<1>2. CASE PointGs(c)
  <2>1. /\ {"gs"} \subseteq Facilities /\ Grants("gs") \subseteq {"gs"} /\ SharedGrants("gs") \subseteq {}
        /\ "irq" \notin {"gs"} /\ "gs" \notin {"start", "pen", "name", "online", "count"}
    BY DEF Facilities, Grants, SharedGrants, Memory
  <2> QED
    BY <1>2, <2>1, ProvideStep DEF PointGs
<1>3. CASE LoadGdt(c)
  <2>1. /\ {"gdt"} \subseteq Facilities /\ Grants("gdt") \subseteq {"gdt"} /\ SharedGrants("gdt") \subseteq {}
        /\ "irq" \notin {"gdt"} /\ "gdt" \notin {"start", "pen", "name", "online", "count"}
    BY DEF Facilities, Grants, SharedGrants, Memory
  <2> QED
    BY <1>3, <2>1, ProvideStep DEF LoadGdt
<1>4. CASE LoadIdt(c)
  <2>1. /\ {"idt"} \subseteq Facilities /\ Grants("idt") \subseteq {"idt"} /\ SharedGrants("idt") \subseteq {}
        /\ "irq" \notin {"idt"} /\ "idt" \notin {"start", "pen", "name", "online", "count"}
    BY DEF Facilities, Grants, SharedGrants, Memory
  <2> QED
    BY <1>4, <2>1, ProvideStep DEF LoadIdt
<1>5. CASE Publish(c)
  BY <1>5, PublishStep
<1>6. CASE InstallLocalVectors(c)
  <2>1. /\ {"vectors"} \subseteq Facilities /\ Grants("vectors") \subseteq {"vectors"}
        /\ SharedGrants("vectors") \subseteq {}
        /\ "irq" \notin {"vectors"} /\ "vectors" \notin {"start", "pen", "name", "online", "count"}
    BY DEF Facilities, Grants, SharedGrants, Memory
  <2> QED
    BY <1>6, <2>1, ProvideStep DEF InstallLocalVectors
<1>7. CASE EnableApic(c)
  <2>1. /\ {"apic"} \subseteq Facilities /\ Grants("apic") \subseteq {"apic"} /\ SharedGrants("apic") \subseteq {}
        /\ "irq" \notin {"apic"} /\ "apic" \notin {"start", "pen", "name", "online", "count"}
    BY DEF Facilities, Grants, SharedGrants, Memory
  <2> QED
    BY <1>7, <2>1, ProvideStep DEF EnableApic
<1>8. CASE InitSyscall(c)
  <2>1. /\ {"syscall"} \subseteq Facilities /\ Grants("syscall") \subseteq {"syscall"}
        /\ SharedGrants("syscall") \subseteq {}
        /\ "irq" \notin {"syscall"} /\ "syscall" \notin {"start", "pen", "name", "online", "count"}
    BY DEF Facilities, Grants, SharedGrants, Memory
  <2> QED
    BY <1>8, <2>1, ProvideStep DEF InitSyscall
<1>9. CASE AdoptIdle(c)
  BY <1>9, AdoptStep
<1>10. CASE StartTimer(c)
  <2>1. /\ {"timer"} \subseteq Facilities /\ Grants("timer") \subseteq {"timer"}
        /\ SharedGrants("timer") \subseteq {}
        /\ "irq" \notin {"timer"} /\ "timer" \notin {"start", "pen", "name", "online", "count"}
    BY DEF Facilities, Grants, SharedGrants, Memory
  <2> QED
    BY <1>10, <2>1, ProvideStep DEF StartTimer
<1>11. CASE EnableInterrupts(c)
  <2>1. /\ {"irq"} \subseteq Facilities /\ Grants("sti") \subseteq {"irq"} /\ SharedGrants("sti") \subseteq {}
        /\ "sti" \notin {"start", "pen", "name", "online", "count"}
    BY DEF Facilities, Grants, SharedGrants, Memory
  <2> QED
    BY <1>11, <2>1, ProvideStep DEF EnableInterrupts
<1>12. CASE MarkOnline(c)
  BY <1>12, MarkStep
<1>13. CASE IdleLoop(c)
  <2>1. /\ at[c] = "idle" /\ Proceed(c) /\ KeepTables /\ UNCHANGED <<have, shared>> /\ report' = report
    BY <1>13 DEF IdleLoop, Stands, KeepWait
  <2>2. Grants("idle") = {} /\ SharedGrants("idle") = {}
    BY DEF Grants, SharedGrants, Memory
  <2>3. Advance(c) /\ firmware' = firmware
    BY <2>1, <2>2, QuietStep
  <2>4. Runs(c) /\ at[c] \notin {"name", "online"} /\ at[c] # "count"
    BY <2>1 DEF Runs
  <2> QED
    BY <2>1, <2>3, <2>4, PlainStep
<1> QED
  BY <1>1, <1>2, <1>3, <1>4, <1>5, <1>6, <1>7, <1>8, <1>9, <1>10, <1>11, <1>12, <1>13 DEF StepOf

\* The steps of kmain that ap_entry does not take.
LEMMA KmainSteps ==
    ASSUME firmware \in Firmwares, DistinctIds, ComingUp, BspSteps
    PROVE  ComingUp' /\ firmware' = firmware
<1>0. Bsp \in CPUs /\ "irq" \notin {} /\ {} \subseteq Facilities
  BY BootAssumption
<1>1. CASE StepOf(Bsp)
  BY <1>0, <1>1, SharedSteps
<1>2. CASE InitSerial
  <2>1. /\ Grants("serial") \subseteq {} /\ SharedGrants("serial") \subseteq {"console"}
        /\ "serial" \notin {"start", "pen", "name", "online", "count"}
    BY DEF Grants, SharedGrants, Memory
  <2> QED
    BY <1>0, <1>2, <2>1, ProvideStep DEF InitSerial
<1>3. CASE InitFrames
  <2>1. /\ Grants("frames") \subseteq {} /\ SharedGrants("frames") \subseteq {"frames"}
        /\ "frames" \notin {"start", "pen", "name", "online", "count"}
    BY DEF Grants, SharedGrants, Memory
  <2>2. Provide(Bsp, "frames", {}, {"frames"})
    BY <1>3 DEF InitFrames
  <2> QED
    BY <1>0, <2>1, <2>2, ProvideStep, SMT
<1>4. CASE InitHeap
  <2>1. /\ Grants("heap") \subseteq {} /\ SharedGrants("heap") \subseteq {"heap"}
        /\ "heap" \notin {"start", "pen", "name", "online", "count"}
    BY DEF Grants, SharedGrants, Memory
  <2>2. Provide(Bsp, "heap", {}, {"heap"})
    BY <1>4 DEF InitHeap
  <2> QED
    BY <1>0, <2>1, <2>2, ProvideStep, SMT
<1>5. CASE RecordKernelRoot
  <2>1. /\ Grants("root") \subseteq {} /\ SharedGrants("root") \subseteq {"root"}
        /\ "root" \notin {"start", "pen", "name", "online", "count"}
    BY DEF Grants, SharedGrants, Memory
  <2>2. Provide(Bsp, "root", {}, {"root"})
    BY <1>5 DEF RecordKernelRoot
  <2> QED
    BY <1>0, <2>1, <2>2, ProvideStep, SMT
<1>6. CASE MapLapic
  <2>1. /\ Grants("map_lapic") \subseteq {} /\ SharedGrants("map_lapic") \subseteq {"lapic mapped"}
        /\ "map_lapic" \notin {"start", "pen", "name", "online", "count"}
    BY DEF Grants, SharedGrants, Memory
  <2> QED
    BY <1>0, <1>6, <2>1, ProvideStep DEF MapLapic
<1>7. CASE EnablePreemption
  <2>1. /\ Grants("preempt") \subseteq {} /\ SharedGrants("preempt") \subseteq {"preemption"}
        /\ "preempt" \notin {"start", "pen", "name", "online", "count"}
    BY DEF Grants, SharedGrants, Memory
  <2> QED
    BY <1>0, <1>7, <2>1, ProvideStep DEF EnablePreemption
<1>8. ASSUME Spawn \/ Yield
      PROVE  ComingUp' /\ firmware' = firmware
  <2>1. /\ at[Bsp] \in {"greet", "init", "yield1", "yield2"} /\ Proceed(Bsp) /\ KeepTables
        /\ UNCHANGED <<have, shared>> /\ report' = report
    <3>1. CASE Spawn
      <4>1. /\ \E s \in {"greet", "init"} : Stands(Bsp, s)
            /\ Proceed(Bsp) /\ KeepTables /\ KeepWait /\ have' = have /\ shared' = shared
        BY <3>1 DEF Spawn
      <4> QED
        BY <4>1 DEF Stands, KeepWait
    <3>2. CASE Yield
      BY <3>2 DEF Yield, Stands, KeepWait
    <3> QED
      BY <1>8, <3>1, <3>2
  <2>2. Grants(at[Bsp]) = {} /\ SharedGrants(at[Bsp]) = {}
    BY <2>1 DEF Grants, SharedGrants, Memory
  <2>3. Advance(Bsp) /\ firmware' = firmware
    BY <1>0, <2>1, <2>2, QuietStep
  <2>4. Runs(Bsp) /\ at[Bsp] \notin {"name", "online"}
    BY <1>0, <2>1 DEF Runs
  <2> QED
    BY <2>1, <2>3, <2>4, PlainStep
<1>9. CASE StartAll
  BY <1>9, StartStep
<1>10. CASE WaitForAll
  BY <1>10, WaitStep
<1> QED
  BY <1>1, <1>2, <1>3, <1>4, <1>5, <1>6, <1>7, <1>8, <1>9, <1>10 DEF BspSteps

\* Interrupts find what their handlers reach through; threads change none of it.
LEMMA InterruptSteps ==
    ASSUME NEW c \in CPUs, ComingUp,
           Tick(c) \/ TakeIpi(c) \/ ThreadActs(c) \/ ThreadSleeps(c) \/ ThreadEnds(c)
    PROVE  ComingUp' /\ firmware' = firmware
<1>1. ASSUME NEW v, NEW uses, uses \subseteq Wired, Interruptible(c), Handled(c, v, uses)
      PROVE  missing' = missing
  <2>1. Wired \subseteq have[c]
    BY <1>1 DEF ComingUp, IrqInv, Interruptible
  <2>2. Missing(c, v, uses) = {}
    BY <1>1, <2>1 DEF Missing
  <2> QED
    BY <1>1, <2>2 DEF Handled
<1>2. CASE Tick(c)
  <2>1. {"gs", "vectors", "apic"} \subseteq Wired
    BY DEF Wired, Tables
  <2>2. missing' = missing
    BY <1>1, <1>2, <2>1 DEF Tick
  <2> QED
    BY <1>2, <2>2, Unmoved DEF Tick, KeepTables, KeepWait
<1>3. CASE TakeIpi(c)
  <2>1. PICK v : Handled(c, v, IF v = "shootdown" THEN {"gs", "idt", "apic"} ELSE {"vectors", "apic"})
    BY <1>3 DEF TakeIpi
  <2>2. {"gs", "idt", "apic"} \subseteq Wired /\ {"vectors", "apic"} \subseteq Wired
    BY DEF Wired, Tables
  <2>3. missing' = missing
    BY <1>1, <1>3, <2>1, <2>2 DEF TakeIpi
  <2> QED
    BY <1>3, <2>3, Unmoved DEF TakeIpi, KeepTables, KeepWait
<1>4. CASE ThreadActs(c) \/ ThreadSleeps(c) \/ ThreadEnds(c)
  BY <1>4, Unmoved DEF ThreadActs, ThreadSleeps, ThreadEnds, KeepTables, KeepWait, KeepThread
<1> QED
  BY <1>2, <1>3, <1>4

\* No step of the bring-up touches what firmware reported.
LEMMA FirmwareStays ==
    ASSUME NEW c, BspSteps \/ StepOf(c) \/ AllocBlock(c) \/ Count(c)
    PROVE  firmware' = firmware
<1>1. ASSUME NEW d, StepOf(d)
      PROVE  firmware' = firmware
  BY <1>1 DEF StepOf, Name, PointGs, LoadGdt, LoadIdt, Publish, InstallLocalVectors,
     EnableApic, InitSyscall, AdoptIdle, StartTimer, EnableInterrupts, MarkOnline, IdleLoop,
     Provide, Proceed, Panic
<1>2. CASE BspSteps
  BY <1>1, <1>2 DEF BspSteps, InitSerial, InitFrames, InitHeap, RecordKernelRoot, Spawn, Yield,
     MapLapic, EnablePreemption, StartAll, WaitForAll, Provide, Proceed
<1>3. CASE AllocBlock(c) \/ Count(c)
  BY <1>3 DEF AllocBlock, Count, Provide, Proceed
<1> QED
  BY <1>1, <1>2, <1>3

\* Every step of the machine keeps the processors' invariant; the disk's leave it alone.
LEMMA BootStep ==
    ASSUME BootInv, [Next]_vars
    PROVE  BootInv'
<1>1. ASSUME DistinctIds, ComingUp, firmware \in Firmwares, NextBoot
      PROVE  ComingUp' /\ firmware' = firmware
  <2>1. CASE BspSteps
    BY <1>1, <2>1, KmainSteps
  <2>2. ASSUME NEW c \in Aps, ApSteps(c)
        PROVE  ComingUp' /\ firmware' = firmware
    <3>0. c \in CPUs
      BY <2>2 DEF Aps
    <3>1. CASE StepOf(c)
      BY <1>1, <3>0, <3>1, SharedSteps
    <3>2. CASE AllocBlock(c)
      <4>1. /\ Grants("alloc") \subseteq {} /\ SharedGrants("alloc") \subseteq {}
            /\ "alloc" \notin {"start", "pen", "name", "online", "count"} /\ "irq" \notin {}
        BY DEF Grants, SharedGrants, Memory
      <4> QED
        BY <1>1, <3>0, <3>2, <4>1, ProvideStep DEF AllocBlock
    <3>3. CASE Count(c)
      BY <1>1, <3>3, CountStep
    <3> QED
      BY <2>2, <3>1, <3>2, <3>3 DEF ApSteps
  <2>3. ASSUME NEW c \in CPUs,
               Tick(c) \/ TakeIpi(c) \/ ThreadActs(c) \/ ThreadSleeps(c) \/ ThreadEnds(c)
        PROVE  ComingUp' /\ firmware' = firmware
    BY <1>1, <2>3, InterruptSteps
  <2> QED
    BY <1>1, <2>1, <2>2, <2>3 DEF NextBoot
<1>2. CASE UNCHANGED bootVars
  <2>1. UNCHANGED <<firmware, at, have, shared, apic_to_cpu, blocks, online_mask,
                    idle_installed, ONLINE, report, missing>>
    BY <1>2 DEF bootVars
  <2>2. firmware' = firmware
    BY <2>1
  <2> QED
    BY <2>1, <2>2, Unmoved, IdKept DEF BootInv
<1>3. CASE NextBoot
  <2>1. firmware' = firmware
    <3>1. CASE BspSteps
      BY <3>1, FirmwareStays
    <3>2. ASSUME NEW c, StepOf(c) \/ AllocBlock(c) \/ Count(c)
          PROVE  firmware' = firmware
      BY <3>2, FirmwareStays
    <3>3. ASSUME NEW c, Tick(c) \/ TakeIpi(c) \/ ThreadActs(c) \/ ThreadSleeps(c) \/ ThreadEnds(c)
          PROVE  firmware' = firmware
      BY <3>3 DEF Tick, TakeIpi, ThreadActs, ThreadSleeps, ThreadEnds, KeepThread
    <3> QED
      BY <1>3, <3>1, <3>2, <3>3 DEF NextBoot, ApSteps
  <2> QED
    BY <2>1, <1>1, <1>3, IdKept DEF BootInv
<1> QED
  BY <1>2, <1>3 DEF Next, vars

\* The machine starts with nothing anywhere.
LEMMA BootStart ==
    ASSUME Init
    PROVE  BootInv
<1>1. PICK f \in Firmwares : InitBoot(f)
  BY DEF Init
<1>2. /\ firmware = f
      /\ at = [c \in CPUs |-> IF c = Bsp THEN "serial" ELSE "pen"]
      /\ have = [c \in CPUs |-> {}] /\ shared = {}
      /\ apic_to_cpu = [a \in Ids |-> None] /\ blocks = [i \in Ids |-> None]
      /\ online_mask = {} /\ idle_installed = {} /\ ONLINE = 0 /\ report = "none" /\ missing = {}
  BY <1>1 DEF InitBoot
<1>3. at[Bsp] = "serial" /\ \A c \in Aps : at[c] = "pen"
  BY <1>2, BootAssumption DEF Aps
<1>4. "serial" \in BspSpots
  BY SMT DEF BspSpots, AfterBsp
<1>5. SpotInv
  <2>1. \A c \in CPUs : (IF c = Bsp THEN "serial" ELSE "pen") \in BspSpots \cup ApSpots \cup {"pen"}
    BY <1>4
  <2>2. at \in [CPUs -> BspSpots \cup ApSpots \cup {"pen"}]
    BY <2>1, <1>2
  <2> QED
    BY <2>2, <1>3, <1>4 DEF SpotInv
<1>6. HadInv /\ SharedInv
  <2>1. BspHas["serial"] = {} /\ BspShared["serial"] = {}
    BY DEF BspHas, BspShared
  <2>2. have \in [CPUs -> SUBSET Facilities]
    BY <1>2
  <2> QED
    BY <2>1, <2>2, <1>3 DEF HadInv, SharedInv
<1>7. IrqInv /\ BlocksInv /\ IdleInv
  BY <1>2 DEF IrqInv, BlocksInv, IdleInv
<1>8. \A c \in CPUs : at[c] \in Unnamed /\ at[c] \notin Past(c)
  <2>1. /\ "serial" \in Unnamed /\ "pen" \in Unnamed
        /\ "serial" \notin BspPast /\ "pen" \notin ApPast
    BY SMT DEF Unnamed, BspPast, ApPast
  <2> QED
    BY <2>1, <1>3 DEF Past, Aps
<1>9. NamedInv /\ MaskInv /\ ReportInv
  BY <1>2, <1>8 DEF NamedInv, MaskInv, ReportInv
<1>10. CountInv
  <2>1. {c \in Aps : at[c] = "idle"} = {}
    BY <1>3
  <2> QED
    BY <2>1, <1>2, FS_EmptySet DEF CountInv
<1> QED
  BY <1>1, <1>2, <1>5, <1>6, <1>7, <1>9, <1>10 DEF BootInv, ComingUp, MissingInv

\* No step and no interrupt handler of the bring-up reaches through a facility that is not
\* there, however the processors interleave and whatever firmware reports.
THEOREM UsesReady == Spec => []UsesAreReady
<1>1. Init => BootInv
  BY BootStart, SMT
<1>2. BootInv /\ [Next]_vars => BootInv'
  BY BootStep, SMT
<1>3. BootInv => UsesAreReady
  BY DEF BootInv, UsesAreReady, ComingUp, MissingInv, BlocksInv, Tables
<1> QED
  BY <1>1, <1>2, <1>3, PTL DEF Spec

\* A processor in the online mask can acknowledge a shootdown, and when wait_for_all
\* reports every processor online every one is in the mask.
THEOREM OnlineAcknowledge == Spec => []OnlineCanAcknowledge
<1>1. Init => BootInv
  BY BootStart, SMT
<1>2. BootInv /\ [Next]_vars => BootInv'
  BY BootStep, SMT
<1>3. BootInv => OnlineCanAcknowledge
  <2>1. SUFFICES ASSUME ComingUp
                 PROVE  /\ \A c \in CPUs : cpu_id(c) \in online_mask => CanAcknowledge(c)
                        /\ report = "all" => \A c \in CPUs : cpu_id(c) \in online_mask
    BY DEF BootInv, OnlineCanAcknowledge
  <2>2. ASSUME NEW c \in CPUs, cpu_id(c) \in online_mask
        PROVE  CanAcknowledge(c)
    <3>1. "irq" \in have[c] /\ at[c] \notin Unnamed
      BY <2>1, <2>2 DEF ComingUp, MaskInv
    <3>2. Wired \subseteq have[c]
      BY <2>1, <3>1 DEF ComingUp, IrqInv
    <3>3. {"gs", "idt", "apic", "irq"} \subseteq have[c]
      BY <3>1, <3>2 DEF Wired, Tables
    <3> QED
      BY <2>1, <3>1, <3>3 DEF ComingUp, NamedInv, CanAcknowledge
  <2> QED
    BY <2>1, <2>2 DEF ComingUp, ReportInv
<1> QED
  BY <1>1, <1>2, <1>3, PTL DEF Spec

---------------------------------------------------------------------------
(* The disk *)

\* Stretches of block::init: with three frames held, with the device driven past its reset,
\* with its features accepted, with its queue still off, and with its queue on.
Full == {"configure", "msix", "msixsized", "msixon", "enable", "finish", "commit"}
Featured == Full \cup {"take"}
Driven == Featured \cup {"negotiate", "readback"}
On == {"finish", "commit"}
Rung == {"msixon", "enable", "finish", "commit"}
Bound == {"enable", "finish", "commit"}
Ringed == {"msix", "msixsized", "msixon", "enable"}

DevShape(d) ==
    /\ d = [decode |-> d.decode, master |-> d.master, sizing |-> d.sizing, status |-> d.status,
            queue |-> d.queue, latched |-> d.latched, msix |-> d.msix]
    /\ d.queue = [ring |-> d.queue.ring, vector |-> d.queue.vector, enabled |-> d.queue.enabled]
    /\ d.msix = [entry |-> d.msix.entry, enabled |-> d.msix.enabled]

\* Who holds which frame, at each step.
MemInv ==
    /\ owner \in [Frames -> {"free", "guard", "driver", "other"}]
    /\ guard \in Seq(Frames) /\ DEVICE \in Seq(Frames)
    /\ step \notin Featured => guard = <<>>
    /\ step \in Full => Len(guard) = 3 /\ Freed \subseteq zeroed
    /\ Len(guard) <= 3
    /\ Owned("guard") = Freed /\ Owned("driver") = {DEVICE[i] : i \in DOMAIN DEVICE}

\* What the device may read, at each step.
LatchInv ==
    /\ step \in On => dev.latched = [ring |-> guard[1], vector |-> 0, enabled |-> TRUE]
    /\ step \in Driven \ On => ~dev.latched.enabled
    /\ step \notin On /\ DEVICE = <<>> /\ dev.latched.enabled => dev.latched.ring \in lateFail
    /\ dev.status = {} => ~dev.latched.enabled

\* What the driver has told the device, at each step.
StatusInv ==
    /\ step \in Driven => {"ACKNOWLEDGE", "DRIVER"} \subseteq dev.status /\ "resetting" \notin dev.status
    /\ step \in Featured => "FEATURES_OK" \in dev.status
    /\ step = "commit" => "DRIVER_OK" \in dev.status

\* What the device's registers hold, at each step.
WireInv ==
    /\ DevShape(dev)
    /\ step \in Ringed => dev.queue.ring = guard[1]
    /\ step = "enable" => dev.queue.vector = 0
    /\ step \in Rung => dev.msix.entry = COMPLETION_VECTOR
    /\ step \in Bound => dev.msix.enabled = TRUE
    /\ step \notin {"idle", "find"} => dev.decode = TRUE /\ dev.master = TRUE
    /\ step \notin {"sized", "msixsized"} => dev.sizing = FALSE

\* A device that init brought up stays up.
LiveInv ==
    DEVICE # <<>> =>
        /\ step = "idle" /\ Len(DEVICE) = 3 /\ {DEVICE[i] : i \in DOMAIN DEVICE} \subseteq zeroed
        /\ dev.latched = [ring |-> DEVICE[1], vector |-> 0, enabled |-> TRUE]
        /\ dev.msix = [entry |-> COMPLETION_VECTOR, enabled |-> TRUE]
        /\ {"ACKNOWLEDGE", "DRIVER", "FEATURES_OK", "DRIVER_OK"} \subseteq dev.status
        /\ "resetting" \notin dev.status
        /\ dev.decode = TRUE /\ dev.master = TRUE

\* Which device it is, and what the last call said of it.
CallInv ==
    /\ inits \in Nat
    /\ inits # 0 => device \in Devices
    /\ step # "idle" => inits # 0
    /\ step = "walk" => device.id = "modern"
    /\ result = "Capabilities" => ~ListEnds

\* The inductive invariant of the disk's part.
DiskInv == MemInv /\ LatchInv /\ StatusInv /\ WireInv /\ LiveInv /\ CallInv

\* The device's list is its own, for good.
LEMMA ListKept ==
    ASSUME device' = device
    PROVE  ListEnds' <=> ListEnds
BY DEF ListEnds

\* A step of init to another: frames stay where they are.
LEMMA MemMove ==
    ASSUME MemInv, NEW s, GoTo(s), KeepMemory, s \in Full => step \in Full,
           step \in Featured => s \in Featured
    PROVE  MemInv'
<1>1. /\ step' = s /\ guard' = guard /\ owner' = owner /\ zeroed' = zeroed /\ DEVICE' = DEVICE
  BY DEF GoTo, KeepMemory
<1>2. Freed' = Freed /\ Owned("guard")' = Owned("guard") /\ Owned("driver")' = Owned("driver")
  BY <1>1 DEF Freed, Owned
<1>3. step' \in Full => Len(guard') = 3 /\ Freed' \subseteq zeroed'
  BY <1>1, <1>2 DEF MemInv
<1>4. step' \notin Featured => guard' = <<>>
  BY <1>1 DEF MemInv
<1> QED
  BY <1>1, <1>2, <1>3, <1>4 DEF MemInv

\* A step of init to another, the queue as it was.
LEMMA LatchMove ==
    ASSUME LatchInv, NEW s, GoTo(s), guard' = guard, dev'.latched = dev.latched,
           dev'.status = {} => dev.status = {}, s \in On <=> step \in On, s \in Driven => step \in Driven
    PROVE  LatchInv'
<1>1. /\ step' = s /\ DEVICE' = DEVICE /\ lateFail' = lateFail
  BY DEF GoTo
<1> QED
  BY <1>1 DEF LatchInv

\* A step of init to another, the status bits as they were or more.
LEMMA StatusMove ==
    ASSUME StatusInv, NEW s, GoTo(s), dev.status \subseteq dev'.status,
           "resetting" \in dev'.status => "resetting" \in dev.status,
           s \in Driven => step \in Driven, s \in Featured => step \in Featured,
           s = "commit" => "DRIVER_OK" \in dev'.status
    PROVE  StatusInv'
<1>1. step' = s
  BY DEF GoTo
<1> QED
  BY <1>1 DEF StatusInv

\* While init runs there is no driver state, and no verdict.
LEMMA CallMove ==
    ASSUME MemInv, LiveInv, CallInv, NEW s, GoTo(s), step # "idle", s = "walk" => device.id = "modern"
    PROVE  LiveInv' /\ CallInv'
<1>1. /\ step' = s /\ DEVICE' = DEVICE /\ device' = device /\ inits' = inits /\ result' = result
  BY DEF GoTo
<1>2. DEVICE = <<>>
  BY DEF LiveInv
<1>3. LiveInv'
  BY <1>1, <1>2 DEF LiveInv
<1>4. ListEnds' <=> ListEnds
  BY <1>1, ListKept
<1> QED
  BY <1>1, <1>3, <1>4 DEF CallInv

\* An early return: FrameGuard::drop gives back every frame init took, and the device's
\* queue is off, or on with a ring this call or an earlier one gave back.
LEMMA FailKeeps ==
    ASSUME DiskInv, NEW r, Return(r), Release, step # "idle",
           (lateFail' = lateFail /\ step \notin On) \/ dev.latched.ring \in lateFail',
           DevShape(dev'), dev'.latched = dev.latched, dev'.status = dev.status, dev'.sizing = FALSE,
           r = "Capabilities" => ~ListEnds
    PROVE  DiskInv'
<1>1. /\ step' = "idle" /\ result' = r /\ device' = device /\ zeroed' = zeroed
      /\ DEVICE' = DEVICE /\ inits' = inits /\ guard' = <<>>
      /\ owner' = [f \in Frames |-> IF f \in Freed THEN "free" ELSE owner[f]]
  BY DEF Return, Release
<1>2. MemInv /\ LatchInv /\ StatusInv /\ WireInv /\ LiveInv /\ CallInv
  BY DEF DiskInv
<1>3. DEVICE = <<>>
  BY <1>2 DEF LiveInv
<1>4. /\ "idle" \notin Driven /\ "idle" \notin Featured /\ "idle" \notin Full /\ "idle" \notin On
      /\ "idle" \notin Ringed /\ "idle" \notin Rung /\ "idle" \notin Bound
  BY SMT DEF Driven, Featured, Full, On, Ringed, Rung, Bound
<1>5. MemInv'
  <2>1. owner \in [Frames -> {"free", "guard", "driver", "other"}] /\ Owned("guard") = Freed
    BY <1>2 DEF MemInv
  <2>2. owner' \in [Frames -> {"free", "guard", "driver", "other"}]
    BY <2>1, <1>1
  <2>3. \A f \in Frames : owner'[f] = IF f \in Freed THEN "free" ELSE owner[f]
    BY <1>1
  <2>4. \A f \in Frames : f \in Freed <=> owner[f] = "guard"
    BY <2>1 DEF Owned
  <2>5. \A f \in Frames : owner'[f] # "guard" /\ (owner'[f] = "driver" <=> owner[f] = "driver")
    BY <2>3, <2>4
  <2>6. Owned("guard")' = {} /\ Owned("driver")' = Owned("driver")
    BY <2>5 DEF Owned
  <2>7. Freed' = {} /\ guard' \in Seq(Frames) /\ Len(guard') <= 3
    BY <1>1, SMT DEF Freed
  <2>8. DEVICE' \in Seq(Frames) /\ Owned("driver")' = {DEVICE'[i] : i \in DOMAIN DEVICE'}
    BY <1>1, <1>2, <2>6, ZenonT(60) DEF MemInv
  <2>9. step' \notin Full /\ Owned("guard")' = Freed'
    BY <1>1, <1>4, <2>6, <2>7
  <2> QED
    BY <1>1, <2>2, <2>7, <2>8, <2>9 DEF MemInv
<1>6. LatchInv'
  BY <1>1, <1>2, <1>3, <1>4 DEF LatchInv
<1>7. StatusInv' /\ WireInv'
  BY <1>1, <1>4 DEF StatusInv, WireInv
<1>8. LiveInv'
  BY <1>1, <1>3 DEF LiveInv
<1>9. CallInv'
  <2>1. ListEnds' <=> ListEnds
    BY <1>1, ListKept
  <2> QED
    BY <2>1, <1>1, <1>2 DEF CallInv
<1> QED
  BY <1>5, <1>6, <1>7, <1>8, <1>9 DEF DiskInv

\* An early return that leaves the device's registers alone.
LEMMA FailsKeeps ==
    ASSUME DiskInv, NEW r, FailsWith(r), step \notin On, step # "idle",
           step \notin {"sized", "msixsized"}, r = "Capabilities" => ~ListEnds
    PROVE  DiskInv'
<1>1. Return(r) /\ Release /\ dev' = dev /\ lateFail' = lateFail
  BY DEF FailsWith
<1>2. DevShape(dev) /\ dev.sizing = FALSE
  BY DEF DiskInv, WireInv
<1> QED
  BY <1>1, <1>2, FailKeeps

\* From one step to another in the same stretches of init.
Along(a, s) ==
    /\ a # "idle" /\ s # "commit" /\ s # "walk"
    /\ s \in Full => a \in Full
    /\ a \in Featured <=> s \in Featured
    /\ s \in On <=> a \in On
    /\ s \in Driven => a \in Driven
WireAlong(a, s) ==
    /\ s \in Ringed => a \in Ringed
    /\ s # "enable"
    /\ s \in Rung => a \in Rung
    /\ s \in Bound => a \in Bound
    /\ a \notin {"idle", "find"}

\* The order of init's steps, as far as it stays in the same stretches.
LEMMA InitOrder ==
    /\ Along("walk", "caps") /\ Along("caps", "caps") /\ Along("caps", "sized") /\ Along("sized", "caps")
    /\ Along("reset", "reset") /\ Along("negotiate", "readback") /\ Along("configure", "msix")
    /\ Along("msix", "msixsized") /\ Along("msixsized", "msixon") /\ Along("msixon", "enable")
BY SMT DEF Along, Full, Featured, On, Driven

\* The same for what the registers hold.
LEMMA WireOrder ==
    /\ WireAlong("walk", "caps") /\ WireAlong("caps", "caps") /\ WireAlong("caps", "sized")
    /\ WireAlong("sized", "caps") /\ WireAlong("caps", "reset") /\ WireAlong("reset", "reset")
    /\ WireAlong("reset", "negotiate") /\ WireAlong("negotiate", "readback")
    /\ WireAlong("readback", "take") /\ WireAlong("take", "take") /\ WireAlong("take", "configure")
    /\ WireAlong("msix", "msixsized") /\ WireAlong("enable", "finish") /\ WireAlong("finish", "commit")
BY SMT DEF WireAlong, Ringed, Rung, Bound

\* A step of init to another, the registers as they were.
LEMMA WireMove ==
    ASSUME WireInv, NEW s, step' = s, WireAlong(step, s), DevShape(dev'),
           s \in Ringed => dev'.queue.ring = dev.queue.ring /\ guard' = guard,
           dev'.msix = dev.msix, dev'.decode = dev.decode, dev'.master = dev.master,
           s \notin {"sized", "msixsized"} => dev'.sizing = FALSE
    PROVE  WireInv'
<1>1. /\ step \in Ringed => dev.queue.ring = guard[1]
      /\ step \in Rung => dev.msix.entry = COMPLETION_VECTOR
      /\ step \in Bound => dev.msix.enabled = TRUE
      /\ step \notin {"idle", "find"} => dev.decode = TRUE /\ dev.master = TRUE
  BY DEF WireInv
<1>2. /\ s \in Ringed => step \in Ringed
      /\ s # "enable" /\ (s \in Rung => step \in Rung) /\ (s \in Bound => step \in Bound)
      /\ step \notin {"idle", "find"}
  BY DEF WireAlong
<1> QED
  BY <1>1, <1>2 DEF WireInv

\* A step of init to another, by stretches of init.
LEMMA MoveKeeps ==
    ASSUME DiskInv, NEW s, GoTo(s), KeepMemory, WireInv', Along(step, s),
           dev'.latched = dev.latched, dev.status \subseteq dev'.status,
           "resetting" \in dev'.status => "resetting" \in dev.status
    PROVE  DiskInv'
<1>0. /\ step # "idle" /\ s # "commit" /\ s # "walk"
      /\ (s \in Full => step \in Full) /\ (step \in Featured => s \in Featured)
      /\ (s \in On <=> step \in On) /\ (s \in Driven => step \in Driven)
      /\ (s \in Featured => step \in Featured)
  BY DEF Along
<1>1. MemInv /\ LatchInv /\ StatusInv /\ WireInv /\ LiveInv /\ CallInv
  BY DEF DiskInv
<1>2. guard' = guard /\ (dev'.status = {} => dev.status = {})
  BY DEF KeepMemory
<1>3. MemInv'
  BY <1>0, <1>1, MemMove
<1>4. LatchInv'
  BY <1>0, <1>1, <1>2, LatchMove
<1>5. StatusInv'
  BY <1>0, <1>1, StatusMove
<1>6. LiveInv' /\ CallInv'
  BY <1>0, <1>1, CallMove
<1> QED
  BY <1>3, <1>4, <1>5, <1>6 DEF DiskInv

\* block::init again: with the disk up there is nothing to do.
LEMMA BeginKeeps ==
    ASSUME DiskInv, Begin
    PROVE  DiskInv'
<1>1. /\ step = "idle" /\ inits' = inits + 1 /\ dev' = dev /\ DEVICE' = DEVICE /\ lateFail' = lateFail
      /\ guard' = guard /\ owner' = owner /\ zeroed' = zeroed
      /\ device' \in IF inits = 0 THEN Devices ELSE {device}
      /\ (DEVICE # <<>> /\ step' = "idle" /\ result' = "Ok") \/ (DEVICE = <<>> /\ step' = "find" /\ result' = "none")
  BY DEF Begin, KeepMemory
<1>2. MemInv /\ LatchInv /\ StatusInv /\ WireInv /\ LiveInv /\ CallInv
  BY DEF DiskInv
<1>3. /\ "idle" \notin Driven /\ "idle" \notin Featured /\ "idle" \notin Full /\ "idle" \notin On
      /\ "idle" \notin Ringed /\ "idle" \notin Rung /\ "idle" \notin Bound
      /\ "find" \notin Driven /\ "find" \notin Featured /\ "find" \notin Full /\ "find" \notin On
      /\ "find" \notin Ringed /\ "find" \notin Rung /\ "find" \notin Bound
  BY SMT DEF Driven, Featured, Full, On, Ringed, Rung, Bound
<1>4. /\ step' \notin Driven /\ step' \notin Featured /\ step' \notin Full /\ step' \notin On
      /\ step' \notin Ringed /\ step' \notin Rung /\ step' \notin Bound
      /\ step' \in {"idle", "find"}
  BY <1>1, <1>3
<1>5. MemInv'
  <2>1. Freed' = Freed /\ Owned("guard")' = Owned("guard") /\ Owned("driver")' = Owned("driver")
    BY <1>1 DEF Freed, Owned
  <2>2. guard = <<>>
    BY <1>1, <1>2, <1>3 DEF MemInv
  <2> QED
    BY <1>1, <1>2, <1>4, <2>1, <2>2 DEF MemInv
<1>6. LatchInv'
  BY <1>1, <1>2, <1>3, <1>4 DEF LatchInv
<1>7. StatusInv'
  BY <1>4 DEF StatusInv
<1>8. WireInv'
  <2>1. dev.sizing = FALSE /\ DevShape(dev)
    BY <1>1, <1>2 DEF WireInv
  <2> QED
    BY <1>1, <1>4, <2>1 DEF WireInv
<1>9. LiveInv'
  BY <1>1, <1>2 DEF LiveInv
<1>10. CallInv'
  <2>1. inits' \in Nat /\ inits' # 0
    BY <1>1, <1>2, SMT DEF CallInv
  <2>2. device' \in Devices
    BY <1>1, <1>2 DEF CallInv
  <2>3. result' # "Capabilities" /\ step' # "walk"
    BY <1>1
  <2> QED
    BY <2>1, <2>2, <2>3 DEF CallInv
<1> QED
  BY <1>5, <1>6, <1>7, <1>8, <1>9, <1>10 DEF DiskInv

\* virtio::probe turns on decoding and bus mastering.
LEMMA FindKeeps ==
    ASSUME DiskInv, Find
    PROVE  DiskInv'
<1>0. step = "find"
  BY DEF Find
<1>1. "find" \notin On /\ "find" # "idle" /\ "find" \notin {"sized", "msixsized"}
  BY SMT DEF On
<1>2. CASE device.id # "modern"
  <2>1. PICK r : FailsWith(r) /\ r # "Capabilities"
    <3>1. FailsWith("LegacyOnly") \/ FailsWith("NotFound")
      BY <1>2 DEF Find
    <3>2. "LegacyOnly" # "Capabilities" /\ "NotFound" # "Capabilities"
      OBVIOUS
    <3> QED
      BY <3>1, <3>2
  <2> QED
    BY <1>0, <1>1, <2>1, FailsKeeps
<1>3. CASE device.id = "modern"
  <2>1. dev' = [dev EXCEPT !.decode = TRUE, !.master = TRUE] /\ GoTo("walk") /\ KeepMemory
    BY <1>3 DEF Find
  <2>2. MemInv /\ LatchInv /\ StatusInv /\ WireInv /\ LiveInv /\ CallInv
    BY DEF DiskInv
  <2>3. DevShape(dev) /\ dev.sizing = FALSE
    BY <1>0, <2>2 DEF WireInv
  <2>4. /\ dev'.decode = TRUE /\ dev'.master = TRUE /\ dev'.sizing = dev.sizing /\ dev'.status = dev.status
        /\ dev'.latched = dev.latched /\ DevShape(dev')
    BY <2>1, <2>3 DEF DevShape
  <2>5. /\ "walk" \notin Full /\ "find" \notin Featured /\ "walk" \notin On /\ "walk" \notin Driven
        /\ "walk" \notin Featured /\ "walk" \notin Ringed /\ "walk" \notin Rung /\ "walk" \notin Bound
        /\ "walk" # "enable" /\ "walk" # "commit"
    BY SMT DEF Driven, Featured, Full, On, Ringed, Rung, Bound
  <2>6. step' = "walk" /\ guard' = guard
    BY <2>1 DEF GoTo, KeepMemory
  <2>7. WireInv'
    BY <2>3, <2>4, <2>5, <2>6 DEF WireInv
  <2>8. MemInv'
    BY <1>0, <2>1, <2>2, <2>5, MemMove
  <2>9. LatchInv'
    BY <1>0, <1>1, <2>1, <2>2, <2>4, <2>5, <2>6, LatchMove, ZenonT(60)
  <2>10. StatusInv'
    BY <2>5, <2>6 DEF StatusInv
  <2>11. LiveInv' /\ CallInv'
    BY <1>0, <1>1, <1>3, <2>1, <2>2, CallMove
  <2> QED
    BY <2>7, <2>8, <2>9, <2>10, <2>11 DEF DiskInv
<1> QED
  BY <1>2, <1>3

\* The loop over the vendor capabilities.
LEMMA CapsKeep ==
    ASSUME DiskInv, SkipCap \/ SizeBar
    PROVE  DiskInv'
<1>0. step = "caps" /\ "caps" \notin On /\ "caps" # "idle" /\ "caps" \notin {"sized", "msixsized"}
  BY DEF SkipCap, SizeBar, On
<1>1. WireInv /\ DevShape(dev) /\ dev.sizing = FALSE
  BY <1>0 DEF DiskInv, WireInv
<1>2. CASE SkipCap
  <2>1. GoTo("caps") /\ KeepMemory /\ dev' = dev
    BY <1>2 DEF SkipCap
  <2>2. step' = "caps" /\ guard' = guard
    BY <2>1 DEF GoTo, KeepMemory
  <2>3. WireInv'
    BY <1>0, <1>1, <2>1, <2>2, WireOrder, WireMove
  <2> QED
    BY <1>0, <2>1, <2>3, InitOrder, MoveKeeps
<1>3. CASE SizeBar /\ Flaw(Head(caps)) = "NotMemory"
  <2>1. FailsWith("BadBar") /\ "BadBar" # "Capabilities"
    BY <1>3 DEF SizeBar
  <2> QED
    BY <1>0, <2>1, FailsKeeps
<1>4. CASE SizeBar /\ Flaw(Head(caps)) # "NotMemory"
  <2>1. dev' = [dev EXCEPT !.sizing = TRUE] /\ GoTo("sized") /\ KeepMemory
    BY <1>4 DEF SizeBar
  <2>2. step' = "sized" /\ guard' = guard
    BY <2>1 DEF GoTo, KeepMemory
  <2>3. /\ dev'.decode = dev.decode /\ dev'.master = dev.master /\ dev'.status = dev.status
        /\ dev'.latched = dev.latched /\ dev'.queue = dev.queue /\ dev'.msix = dev.msix /\ DevShape(dev')
    BY <1>1, <2>1 DEF DevShape
  <2>4. WireInv'
    BY <1>0, <1>1, <2>2, <2>3, WireOrder, WireMove
  <2> QED
    BY <1>0, <2>1, <2>3, <2>4, InitOrder, MoveKeeps
<1> QED
  BY <1>2, <1>3, <1>4

\* Mapping one window, or giving up on it with the BAR restored.
LEMMA WindowKeeps ==
    ASSUME DiskInv, MapWindow
    PROVE  DiskInv'
<1>0. /\ step = "sized" /\ "sized" \notin On /\ "sized" # "idle" /\ dev' = [dev EXCEPT !.sizing = FALSE]
  BY DEF MapWindow, On
<1>1. WireInv /\ DevShape(dev)
  BY DEF DiskInv, WireInv
<1>2. /\ dev'.decode = dev.decode /\ dev'.master = dev.master /\ dev'.status = dev.status
      /\ dev'.latched = dev.latched /\ dev'.queue = dev.queue /\ dev'.msix = dev.msix /\ DevShape(dev')
      /\ dev'.sizing = FALSE
  BY <1>0, <1>1 DEF DevShape
<1>3. ASSUME NEW r, r # "Capabilities", Return(r), Release, lateFail' = lateFail
      PROVE  DiskInv'
  BY <1>0, <1>2, <1>3, FailKeeps
<1>4. ASSUME GoTo("caps"), KeepMemory
      PROVE  DiskInv'
  <2>1. step' = "caps" /\ guard' = guard
    BY <1>4 DEF GoTo, KeepMemory
  <2>2. WireInv'
    BY <1>0, <1>1, <1>2, <2>1, WireOrder, WireMove
  <2> QED
    BY <1>0, <1>2, <1>4, <2>2, InitOrder, MoveKeeps
<1>5. "MapFailed" # "Capabilities" /\ "WindowTooLarge" # "Capabilities" /\ "BadBar" # "Capabilities"
  OBVIOUS
<1>6. \/ Return("WindowTooLarge") /\ Release /\ UNCHANGED lateFail
      \/ Return("BadBar") /\ Release /\ UNCHANGED lateFail
      \/ GoTo("caps") /\ KeepMemory
      \/ Return("MapFailed") /\ Release /\ UNCHANGED lateFail
  BY DEF MapWindow
<1> QED
  BY <1>3, <1>4, <1>5, <1>6

\* Asking for the reset.
LEMMA StructuredKeeps ==
    ASSUME DiskInv, Structured
    PROVE  DiskInv'
<1>0. step = "caps" /\ "caps" \notin On /\ "caps" # "idle" /\ "caps" \notin {"sized", "msixsized"}
  BY DEF Structured, On
<1>1. CASE ~(Structures \subseteq windows)
  <2>1. FailsWith("MissingStructure") /\ "MissingStructure" # "Capabilities"
    BY <1>1, ZenonT(60) DEF Structured
  <2> QED
    BY <1>0, <2>1, FailsKeeps
<1>2. CASE Structures \subseteq windows
  <2>1. /\ dev' = [dev EXCEPT !.status = dev.status \cup {"resetting"}] /\ GoTo("reset") /\ KeepMemory
    BY <1>2 DEF Structured
  <2>2. step' = "reset" /\ guard' = guard
    BY <2>1 DEF GoTo, KeepMemory
  <2>3. MemInv /\ LatchInv /\ StatusInv /\ WireInv /\ LiveInv /\ CallInv
    BY DEF DiskInv
  <2>4. DevShape(dev) /\ dev.sizing = FALSE
    BY <1>0, <2>3 DEF WireInv
  <2>5. /\ dev'.decode = dev.decode /\ dev'.master = dev.master /\ dev'.sizing = dev.sizing
        /\ dev'.status = dev.status \cup {"resetting"}
        /\ dev'.latched = dev.latched /\ dev'.queue = dev.queue /\ dev'.msix = dev.msix /\ DevShape(dev')
    BY <2>1, <2>4 DEF DevShape
  <2>6. /\ "reset" \notin Full /\ "caps" \notin Featured /\ "reset" \notin On /\ "reset" \notin Driven
        /\ "reset" \notin Featured /\ "reset" # "commit" /\ "reset" # "walk"
    BY SMT DEF Driven, Featured, Full, On
  <2>7. WireInv'
    BY <1>0, <2>2, <2>3, <2>4, <2>5, WireOrder, WireMove
  <2>8. MemInv'
    BY <1>0, <2>1, <2>3, <2>6, MemMove
  <2>9. dev'.status # {}
    BY <2>5
  <2>10. LatchInv'
    BY <1>0, <2>1, <2>2, <2>3, <2>5, <2>6, <2>9, LatchMove, ZenonT(60)
  <2>11. StatusInv'
    BY <2>2, <2>6 DEF StatusInv
  <2>12. LiveInv' /\ CallInv'
    BY <1>0, <2>1, <2>3, <2>6, CallMove
  <2> QED
    BY <2>7, <2>8, <2>10, <2>11, <2>12 DEF DiskInv
<1> QED
  BY <1>1, <1>2

\* The bounded wait: a device whose status reads zero has let go of every queue.
LEMMA ResetKeeps ==
    ASSUME DiskInv, ResetPoll
    PROVE  DiskInv'
<1>0. /\ step = "reset" /\ "reset" \notin On /\ "reset" # "idle" /\ "reset" \notin {"sized", "msixsized"}
  BY DEF ResetPoll, On
<1>1. WireInv /\ DevShape(dev) /\ dev.sizing = FALSE
  BY <1>0 DEF DiskInv, WireInv
<1>2. CASE dev.status # {} /\ spins + 1 >= RESET_SPIN_LIMIT
  <2>1. FailsWith("ResetTimeout") /\ "ResetTimeout" # "Capabilities"
    BY <1>2 DEF ResetPoll
  <2> QED
    BY <1>0, <2>1, FailsKeeps
<1>3. CASE dev.status # {} /\ ~(spins + 1 >= RESET_SPIN_LIMIT)
  <2>1. GoTo("reset") /\ KeepMemory /\ dev' = dev
    BY <1>3 DEF ResetPoll
  <2>2. step' = "reset" /\ guard' = guard
    BY <2>1 DEF GoTo, KeepMemory
  <2>3. WireInv'
    BY <1>0, <1>1, <2>1, <2>2, WireOrder, WireMove, ZenonT(60)
  <2> QED
    BY <1>0, <2>1, <2>3, InitOrder, MoveKeeps, ZenonT(60)
<1>4. CASE dev.status = {}
  <2>1. /\ dev' = [dev EXCEPT !.status = {"ACKNOWLEDGE", "DRIVER"}] /\ GoTo("negotiate") /\ KeepMemory
    BY <1>4 DEF ResetPoll
  <2>2. /\ step' = "negotiate" /\ guard' = guard /\ DEVICE' = DEVICE /\ lateFail' = lateFail
    BY <2>1 DEF GoTo, KeepMemory
  <2>3. MemInv /\ LatchInv /\ StatusInv /\ WireInv /\ LiveInv /\ CallInv
    BY DEF DiskInv
  <2>5. /\ dev'.decode = dev.decode /\ dev'.master = dev.master /\ dev'.sizing = dev.sizing
        /\ dev'.status = {"ACKNOWLEDGE", "DRIVER"}
        /\ dev'.latched = dev.latched /\ dev'.queue = dev.queue /\ dev'.msix = dev.msix /\ DevShape(dev')
    BY <2>1, <1>1 DEF DevShape
  <2>6. /\ "negotiate" \notin Full /\ "reset" \notin Featured /\ "negotiate" \notin On
        /\ "negotiate" \notin Featured /\ "negotiate" # "commit" /\ "negotiate" # "walk"
    BY SMT DEF Driven, Featured, Full, On
  <2>7. WireInv'
    BY <1>0, <1>1, <2>2, <2>5, WireOrder, WireMove
  <2>8. MemInv'
    BY <1>0, <2>1, <2>3, <2>6, MemMove
  <2>9. ~dev.latched.enabled
    BY <1>4, <2>3 DEF LatchInv
  <2>10. LatchInv'
    BY <2>2, <2>5, <2>6, <2>9 DEF LatchInv
  <2>11. "resetting" \notin dev'.status /\ {"ACKNOWLEDGE", "DRIVER"} \subseteq dev'.status
    BY <2>5
  <2>12. StatusInv'
    BY <2>2, <2>6, <2>11 DEF StatusInv
  <2>13. LiveInv' /\ CallInv'
    BY <1>0, <2>1, <2>3, <2>6, CallMove
  <2> QED
    BY <2>7, <2>8, <2>10, <2>12, <2>13 DEF DiskInv
<1> QED
  BY <1>2, <1>3, <1>4

\* Transport::negotiate: the features are offered.
LEMMA OfferKeeps ==
    ASSUME DiskInv, Offer
    PROVE  DiskInv'
<1>0. /\ step = "negotiate" /\ "negotiate" \notin On /\ "negotiate" # "idle"
      /\ "negotiate" \notin {"sized", "msixsized"} /\ "NoVersion1" # "Capabilities"
  BY DEF Offer, On
<1>1. WireInv /\ DevShape(dev) /\ dev.sizing = FALSE
  BY <1>0 DEF DiskInv, WireInv
<1>2. CASE FailsWith("NoVersion1")
  BY <1>0, <1>2, FailsKeeps
<1>3. CASE ~FailsWith("NoVersion1")
  <2>1. /\ dev' = [dev EXCEPT !.status = dev.status \cup {"FEATURES_OK"}] /\ GoTo("readback") /\ KeepMemory
    BY <1>3 DEF Offer
  <2>2. step' = "readback" /\ guard' = guard
    BY <2>1 DEF GoTo, KeepMemory
  <2>3. /\ dev'.decode = dev.decode /\ dev'.master = dev.master /\ dev'.sizing = dev.sizing
        /\ dev'.status = dev.status \cup {"FEATURES_OK"}
        /\ dev'.latched = dev.latched /\ dev'.queue = dev.queue /\ dev'.msix = dev.msix /\ DevShape(dev')
    BY <2>1, <1>1 DEF DevShape
  <2>4. WireInv'
    BY <1>0, <1>1, <2>2, <2>3, WireOrder, WireMove, ZenonT(60)
  <2>5. "resetting" # "FEATURES_OK"
    OBVIOUS
  <2>6. dev.status \subseteq dev'.status /\ ("resetting" \in dev'.status => "resetting" \in dev.status)
    BY <2>3, <2>5
  <2> QED
    BY <1>0, <2>1, <2>3, <2>4, <2>6, InitOrder, MoveKeeps, ZenonT(60)
<1> QED
  BY <1>2, <1>3

\* Transport::negotiate: the features are read back.
LEMMA ReadBackKeeps ==
    ASSUME DiskInv, ReadBack
    PROVE  DiskInv'
<1>0. /\ step = "readback" /\ "readback" \notin On /\ "readback" # "idle"
      /\ "readback" \notin {"sized", "msixsized"}
      /\ "FeaturesRejected" # "Capabilities" /\ "DeviceFailed" # "Capabilities"
  BY DEF ReadBack, On
<1>1. CASE FailsWith("FeaturesRejected") \/ FailsWith("DeviceFailed")
  BY <1>0, <1>1, FailsKeeps, ZenonT(60)
<1>2. CASE ~(FailsWith("FeaturesRejected") \/ FailsWith("DeviceFailed"))
  <2>1. "FEATURES_OK" \in dev.status /\ GoTo("take") /\ KeepMemory /\ dev' = dev
    BY <1>2 DEF ReadBack
  <2>2. step' = "take" /\ guard' = guard
    BY <2>1 DEF GoTo, KeepMemory
  <2>3. MemInv /\ LatchInv /\ StatusInv /\ WireInv /\ LiveInv /\ CallInv
    BY DEF DiskInv
  <2>4. DevShape(dev) /\ dev.sizing = FALSE
    BY <1>0, <2>3 DEF WireInv
  <2>5. WireInv'
    BY <1>0, <2>1, <2>2, <2>3, <2>4, WireOrder, WireMove, ZenonT(60)
  <2>6. /\ "take" \notin Full /\ "readback" \notin Featured /\ "take" \notin On
        /\ "readback" \in Driven /\ "take" # "commit" /\ "take" # "walk"
    BY SMTT(40) DEF Driven, Featured, Full, On
  <2>7. MemInv'
    BY <1>0, <2>1, <2>3, <2>6, MemMove
  <2>8. LatchInv'
    BY <1>0, <2>1, <2>2, <2>3, <2>6, LatchMove
  <2>9. StatusInv'
    BY <1>0, <2>1, <2>2, <2>3, <2>6 DEF StatusInv
  <2>10. LiveInv' /\ CallInv'
    BY <1>0, <2>1, <2>3, <2>6, CallMove
  <2> QED
    BY <2>5, <2>7, <2>8, <2>9, <2>10 DEF DiskInv
<1> QED
  BY <1>1, <1>2

\* FrameGuard::take: the frame leaves the free list and the guard holds it, at once.
LEMMA TakeKeeps ==
    ASSUME DiskInv, Take
    PROVE  DiskInv'
<1>0. /\ step = "take" /\ "take" \notin On /\ "take" # "idle" /\ Len(guard) < 3
      /\ "take" \notin {"sized", "msixsized"} /\ "OutOfMemory" # "Capabilities"
  BY DEF Take, On
<1>1. CASE FreeFrames = {}
  <2>1. FailsWith("OutOfMemory")
    BY <1>1 DEF Take
  <2> QED
    BY <1>0, <2>1, FailsKeeps
<1>2. CASE FreeFrames # {}
  <2>1. PICK f \in FreeFrames :
            /\ guard' = Append(guard, f) /\ owner' = [owner EXCEPT ![f] = "guard"]
            /\ GoTo("take") /\ dev' = dev /\ zeroed' = zeroed
    BY <1>2 DEF Take
  <2>2. /\ step' = "take" /\ DEVICE' = DEVICE /\ lateFail' = lateFail
    BY <2>1 DEF GoTo
  <2>3. MemInv /\ LatchInv /\ StatusInv /\ WireInv /\ LiveInv /\ CallInv
    BY DEF DiskInv
  <2>4. f \in Frames /\ owner[f] = "free"
    BY <2>1 DEF FreeFrames
  <2>5. /\ "take" \notin Full /\ "take" \in Featured /\ "take" \in Driven /\ "take" # "commit"
        /\ "take" # "walk" /\ "take" \notin Ringed
    BY SMT DEF Driven, Featured, Full, Ringed
  <2>6. MemInv'
    <3>1. /\ owner \in [Frames -> {"free", "guard", "driver", "other"}] /\ guard \in Seq(Frames)
          /\ Owned("guard") = Freed
      BY <2>3 DEF MemInv
    <3>2. owner' \in [Frames -> {"free", "guard", "driver", "other"}]
      BY <2>1, <3>1
    <3>3. guard' \in Seq(Frames) /\ Len(guard') <= 3 /\ Freed' = Freed \cup {f}
      BY <1>0, <2>1, <2>4, <3>1, SMTT(40) DEF Freed
    <3>4. owner'[f] = "guard" /\ \A g \in Frames \ {f} : owner'[g] = owner[g]
      BY <2>1, <2>4, <3>1
    <3>5. Owned("guard")' = Owned("guard") \cup {f}
      BY <2>4, <3>4 DEF Owned
    <3>6. "free" # "driver" /\ "guard" # "driver"
      OBVIOUS
    <3>7. \A g \in Frames : owner'[g] = "driver" <=> owner[g] = "driver"
      BY <2>4, <3>4, <3>6
    <3>8. Owned("driver")' = Owned("driver")
      BY <3>7 DEF Owned
    <3>9. DEVICE' \in Seq(Frames) /\ Owned("driver")' = {DEVICE'[i] : i \in DOMAIN DEVICE'}
      BY <2>2, <2>3, <3>8 DEF MemInv
    <3>10. step' \notin Full /\ step' \in Featured /\ Owned("guard")' = Freed'
      BY <2>2, <2>5, <3>1, <3>3, <3>5
    <3> QED
      BY <3>2, <3>3, <3>9, <3>10 DEF MemInv
  <2>7. LatchInv'
    BY <1>0, <2>1, <2>2, <2>3 DEF LatchInv
  <2>8. StatusInv'
    BY <1>0, <2>1, <2>2, <2>3 DEF StatusInv
  <2>9. WireInv'
    <3>1. DevShape(dev) /\ dev.sizing = FALSE
      BY <1>0, <2>3 DEF WireInv
    <3> QED
      BY <1>0, <2>1, <2>2, <2>3, <2>5, <3>1, WireOrder, WireMove, ZenonT(60)
  <2>10. LiveInv' /\ CallInv'
    BY <1>0, <2>1, <2>3, <2>5, CallMove
  <2> QED
    BY <2>6, <2>7, <2>8, <2>9, <2>10 DEF DiskInv
<1> QED
  BY <1>1, <1>2

\* The three frames are zeroed before the device hears of them.
LEMMA ZeroKeeps ==
    ASSUME DiskInv, Zero
    PROVE  DiskInv'
<1>1. /\ step = "take" /\ Len(guard) = 3 /\ zeroed' = zeroed \cup Freed /\ GoTo("configure")
      /\ dev' = dev /\ guard' = guard /\ owner' = owner
  BY DEF Zero
<1>2. step' = "configure" /\ DEVICE' = DEVICE
  BY <1>1 DEF GoTo
<1>3. MemInv /\ LatchInv /\ StatusInv /\ WireInv /\ LiveInv /\ CallInv
  BY DEF DiskInv
<1>4. /\ "configure" \in Full /\ "configure" \in Featured /\ "take" \in Featured /\ "take" \in Driven
      /\ "configure" \notin On /\ "take" \notin On /\ "configure" # "commit" /\ "configure" # "walk"
      /\ "take" # "idle" /\ "take" \notin {"sized", "msixsized"}
  BY SMT DEF Driven, Featured, Full, On
<1>5. MemInv'
  <2>1. Freed' = Freed /\ Owned("guard")' = Owned("guard") /\ Owned("driver")' = Owned("driver")
    BY <1>1 DEF Freed, Owned
  <2>2. Len(guard') = 3 /\ Freed' \subseteq zeroed' /\ step' \in Featured
    BY <1>1, <1>2, <1>4, <2>1
  <2> QED
    BY <1>1, <1>2, <1>3, <2>1, <2>2 DEF MemInv
<1>6. LatchInv'
  BY <1>1, <1>3, <1>4, LatchMove
<1>7. StatusInv'
  BY <1>1, <1>3, <1>4, StatusMove
<1>8. WireInv'
  <2>1. DevShape(dev) /\ dev.sizing = FALSE
    BY <1>1, <1>3, <1>4 DEF WireInv
  <2> QED
    BY <1>1, <1>2, <1>3, <2>1, WireOrder, WireMove
<1>9. LiveInv' /\ CallInv'
  BY <1>1, <1>3, <1>4, CallMove
<1> QED
  BY <1>5, <1>6, <1>7, <1>8, <1>9 DEF DiskInv

\* configure_queue_sized writes the ring's address, and may still give up.
LEMMA ConfigureKeeps ==
    ASSUME DiskInv, Configure
    PROVE  DiskInv'
<1>0. /\ step = "configure" /\ "configure" \notin On /\ "configure" # "idle"
      /\ "configure" \notin {"sized", "msixsized"}
      /\ "QueueTooSmall" # "Capabilities" /\ "BadNotifyOffset" # "Capabilities"
  BY DEF Configure, On
<1>1. WireInv /\ DevShape(dev) /\ dev.sizing = FALSE /\ dev.decode = TRUE /\ dev.master = TRUE
  BY <1>0 DEF DiskInv, WireInv
<1>2. CASE FailsWith("QueueTooSmall")
  BY <1>0, <1>2, FailsKeeps
<1>3. CASE ~FailsWith("QueueTooSmall")
  <2>1. /\ dev' = [dev EXCEPT !.queue.ring = guard[1]]
        /\ (GoTo("msix") /\ KeepMemory) \/ (Return("BadNotifyOffset") /\ Release /\ UNCHANGED lateFail)
    BY <1>3 DEF Configure
  <2>2. /\ dev'.decode = dev.decode /\ dev'.master = dev.master /\ dev'.sizing = dev.sizing
        /\ dev'.status = dev.status /\ dev'.latched = dev.latched /\ dev'.msix = dev.msix
        /\ dev'.queue.ring = guard[1] /\ DevShape(dev')
    BY <1>1, <2>1 DEF DevShape
  <2>3. CASE Return("BadNotifyOffset") /\ Release /\ UNCHANGED lateFail
    BY <1>0, <1>1, <2>2, <2>3, FailKeeps
  <2>4. CASE GoTo("msix") /\ KeepMemory
    <3>1. step' = "msix" /\ guard' = guard
      BY <2>4 DEF GoTo, KeepMemory
    <3>2. "msix" \notin Rung /\ "msix" \notin Bound /\ "msix" # "enable"
      BY SMT DEF Rung, Bound
    <3>3. WireInv'
      BY <1>1, <2>2, <3>1, <3>2 DEF WireInv
    <3> QED
      BY <1>0, <2>2, <2>4, <3>3, InitOrder, MoveKeeps
  <2> QED
    BY <2>1, <2>3, <2>4
<1> QED
  BY <1>2, <1>3

\* install_msix: the BAR is sized.
LEMMA MsixSizeKeeps ==
    ASSUME DiskInv, MsixSize
    PROVE  DiskInv'
<1>0. /\ step = "msix" /\ "msix" \notin On /\ "msix" # "idle"
      /\ "msix" \notin {"sized", "msixsized"} /\ "NoMsix" # "Capabilities"
  BY DEF MsixSize, On
<1>1. WireInv /\ DevShape(dev)
  BY <1>0 DEF DiskInv, WireInv
<1>2. CASE FailsWith("NoMsix")
  BY <1>0, <1>2, FailsKeeps
<1>3. CASE ~FailsWith("NoMsix")
  <2>1. dev' = [dev EXCEPT !.sizing = TRUE] /\ GoTo("msixsized") /\ KeepMemory
    BY <1>3 DEF MsixSize
  <2>2. step' = "msixsized" /\ guard' = guard
    BY <2>1 DEF GoTo, KeepMemory
  <2>3. /\ dev'.decode = dev.decode /\ dev'.master = dev.master /\ dev'.status = dev.status
        /\ dev'.latched = dev.latched /\ dev'.queue = dev.queue /\ dev'.msix = dev.msix /\ DevShape(dev')
    BY <1>1, <2>1 DEF DevShape
  <2>4. WireInv'
    BY <1>0, <1>1, <2>2, <2>3, WireOrder, WireMove
  <2> QED
    BY <1>0, <2>1, <2>3, <2>4, InitOrder, MoveKeeps
<1> QED
  BY <1>2, <1>3

\* install_msix: the table entry names the completion vector.
LEMMA MsixTableKeeps ==
    ASSUME DiskInv, MsixTable
    PROVE  DiskInv'
<1>0. /\ step = "msixsized" /\ "msixsized" \notin On /\ "msixsized" # "idle"
      /\ "NoMsix" # "Capabilities" /\ "MsixOutsideBar" # "Capabilities" /\ "OutOfMemory" # "Capabilities"
  BY DEF MsixTable, On
<1>1. /\ WireInv /\ DevShape(dev) /\ dev.decode = TRUE /\ dev.master = TRUE /\ dev.queue.ring = guard[1]
  <2>1. "msixsized" \in Ringed /\ "msixsized" \notin {"idle", "find"}
    BY SMT DEF Ringed
  <2> QED
    BY <1>0, <2>1 DEF DiskInv, WireInv
<1>2. ASSUME dev' = [dev EXCEPT !.sizing = FALSE], NEW r, r # "Capabilities", Return(r), Release,
             lateFail' = lateFail
      PROVE  DiskInv'
  <2>1. /\ dev'.status = dev.status /\ dev'.latched = dev.latched /\ DevShape(dev') /\ dev'.sizing = FALSE
    BY <1>1, <1>2 DEF DevShape
  <2> QED
    BY <1>0, <1>2, <2>1, FailKeeps
<1>3. ASSUME dev' = [dev EXCEPT !.sizing = FALSE, !.msix.entry = COMPLETION_VECTOR],
             GoTo("msixon"), KeepMemory
      PROVE  DiskInv'
  <2>1. step' = "msixon" /\ guard' = guard
    BY <1>3 DEF GoTo, KeepMemory
  <2>2. /\ dev'.decode = dev.decode /\ dev'.master = dev.master /\ dev'.status = dev.status
        /\ dev'.latched = dev.latched /\ dev'.queue = dev.queue /\ dev'.sizing = FALSE
        /\ dev'.msix.entry = COMPLETION_VECTOR /\ DevShape(dev')
    BY <1>1, <1>3 DEF DevShape
  <2>3. "msixon" \notin Bound /\ "msixon" # "enable"
    BY SMT DEF Bound
  <2>4. WireInv'
    BY <1>1, <2>1, <2>2, <2>3 DEF WireInv
  <2> QED
    BY <1>0, <1>3, <2>2, <2>4, InitOrder, MoveKeeps
<1>4. \/ dev' = [dev EXCEPT !.sizing = FALSE] /\ Return("NoMsix") /\ Release /\ UNCHANGED lateFail
      \/ dev' = [dev EXCEPT !.sizing = FALSE] /\ Return("MsixOutsideBar") /\ Release /\ UNCHANGED lateFail
      \/ dev' = [dev EXCEPT !.sizing = FALSE] /\ Return("OutOfMemory") /\ Release /\ UNCHANGED lateFail
      \/ /\ dev' = [dev EXCEPT !.sizing = FALSE, !.msix.entry = COMPLETION_VECTOR]
         /\ GoTo("msixon") /\ KeepMemory
  BY DEF MsixTable
<1> QED
  BY <1>0, <1>2, <1>3, <1>4

\* install_msix: MSI-X is on and the queue is bound to entry 0 before the queue is enabled.
LEMMA MsixOnKeeps ==
    ASSUME DiskInv, MsixOn
    PROVE  DiskInv'
<1>1. /\ step = "msixon" /\ dev' = [dev EXCEPT !.msix.enabled = TRUE, !.queue.vector = 0]
      /\ GoTo("enable") /\ KeepMemory
  BY DEF MsixOn
<1>2. /\ DevShape(dev) /\ dev.decode = TRUE /\ dev.master = TRUE /\ dev.queue.ring = guard[1]
      /\ dev.msix.entry = COMPLETION_VECTOR /\ dev.sizing = FALSE
  <2>1. "msixon" \in Ringed /\ "msixon" \in Rung /\ "msixon" \notin {"idle", "find", "sized", "msixsized"}
    BY SMT DEF Ringed, Rung
  <2> QED
    BY <1>1, <2>1 DEF DiskInv, WireInv
<1>3. step' = "enable" /\ guard' = guard
  BY <1>1 DEF GoTo, KeepMemory
<1>4. /\ dev'.decode = dev.decode /\ dev'.master = dev.master /\ dev'.status = dev.status
      /\ dev'.latched = dev.latched /\ dev'.queue.ring = dev.queue.ring /\ dev'.queue.vector = 0
      /\ dev'.sizing = dev.sizing /\ dev'.msix.entry = dev.msix.entry /\ dev'.msix.enabled = TRUE
      /\ DevShape(dev')
  BY <1>1, <1>2 DEF DevShape
<1>5. WireInv'
  BY <1>2, <1>3, <1>4, ZenonT(60) DEF WireInv
<1> QED
  BY <1>1, <1>4, <1>5, InitOrder, MoveKeeps

\* enable_queue: the device latches the guard's ring, its interrupt bound.
LEMMA EnableKeeps ==
    ASSUME DiskInv, EnableQueue
    PROVE  DiskInv'
<1>1. /\ step = "enable" /\ GoTo("finish") /\ KeepMemory
      /\ dev' = [dev EXCEPT !.queue.enabled = TRUE, !.latched = [dev.queue EXCEPT !.enabled = TRUE]]
  BY DEF EnableQueue
<1>2. MemInv /\ LatchInv /\ StatusInv /\ WireInv /\ LiveInv /\ CallInv
  BY DEF DiskInv
<1>3. /\ "enable" \in Ringed /\ "enable" \in Full /\ "enable" \in Featured /\ "enable" \in Driven
      /\ "finish" \in Full /\ "finish" \in Featured /\ "finish" \in On /\ "finish" # "commit"
      /\ "finish" \notin Ringed /\ "finish" # "walk" /\ "enable" # "idle"
      /\ "enable" \notin {"sized", "msixsized"}
  BY SMT DEF Ringed, Full, Featured, Driven, On
<1>4. DevShape(dev) /\ dev.queue.ring = guard[1] /\ dev.queue.vector = 0 /\ dev.sizing = FALSE
  BY <1>1, <1>2, <1>3 DEF WireInv
<1>5. /\ step' = "finish" /\ guard' = guard /\ DEVICE' = DEVICE /\ lateFail' = lateFail
  BY <1>1 DEF GoTo, KeepMemory
<1>6. /\ dev'.decode = dev.decode /\ dev'.master = dev.master /\ dev'.status = dev.status
      /\ dev'.sizing = dev.sizing /\ dev'.msix = dev.msix /\ DevShape(dev')
      /\ dev'.latched = [ring |-> dev.queue.ring, vector |-> dev.queue.vector, enabled |-> TRUE]
  BY <1>1, <1>4 DEF DevShape
<1>7. MemInv'
  BY <1>1, <1>2, <1>3, MemMove
<1>8. LatchInv'
  <2>1. dev'.latched = [ring |-> guard'[1], vector |-> 0, enabled |-> TRUE]
    BY <1>4, <1>5, <1>6
  <2>2. "ACKNOWLEDGE" \in dev'.status
    BY <1>1, <1>2, <1>3, <1>6 DEF StatusInv
  <2>3. dev'.status # {}
    BY <2>2
  <2> QED
    BY <1>3, <1>5, <2>1, <2>3 DEF LatchInv
<1>9. StatusInv'
  BY <1>1, <1>2, <1>3, <1>6, StatusMove
<1>10. WireInv'
  BY <1>1, <1>2, <1>3, <1>4, <1>5, <1>6, WireOrder, WireMove
<1>11. LiveInv' /\ CallInv'
  BY <1>1, <1>2, <1>3, CallMove, ZenonT(60)
<1> QED
  BY <1>7, <1>8, <1>9, <1>10, <1>11 DEF DiskInv

\* finish: DRIVER_OK, the last status.
LEMMA FinishKeeps ==
    ASSUME DiskInv, Finish
    PROVE  DiskInv'
<1>1. /\ step = "finish" /\ GoTo("commit") /\ KeepMemory
      /\ dev' = [dev EXCEPT !.status = dev.status \cup {"DRIVER_OK"}]
  BY DEF Finish
<1>2. MemInv /\ LatchInv /\ StatusInv /\ WireInv /\ LiveInv /\ CallInv
  BY DEF DiskInv
<1>3. /\ "finish" \in Full /\ "finish" \in Featured /\ "finish" \in Driven /\ "finish" \in On
      /\ "commit" \in Full /\ "commit" \in Featured /\ "commit" \in On
      /\ "commit" \notin Ringed /\ "commit" # "walk" /\ "finish" # "idle"
      /\ "finish" \notin {"sized", "msixsized"} /\ "resetting" # "DRIVER_OK"
  BY SMT DEF Ringed, Full, Featured, Driven, On
<1>4. DevShape(dev) /\ dev.sizing = FALSE
  BY <1>1, <1>2, <1>3 DEF WireInv
<1>5. /\ step' = "commit" /\ guard' = guard
  BY <1>1 DEF GoTo, KeepMemory
<1>6. /\ dev'.decode = dev.decode /\ dev'.master = dev.master /\ dev'.latched = dev.latched
      /\ dev'.sizing = dev.sizing /\ dev'.msix = dev.msix /\ DevShape(dev')
      /\ dev'.status = dev.status \cup {"DRIVER_OK"}
  BY <1>1, <1>4 DEF DevShape
<1>7. /\ dev.status \subseteq dev'.status /\ "DRIVER_OK" \in dev'.status
      /\ dev'.status # {} /\ ("resetting" \in dev'.status => "resetting" \in dev.status)
  BY <1>3, <1>6
<1>8. MemInv'
  BY <1>1, <1>2, <1>3, MemMove
<1>9. LatchInv'
  BY <1>1, <1>2, <1>3, <1>5, <1>6, <1>7, LatchMove, ZenonT(60)
<1>10. StatusInv'
  BY <1>1, <1>2, <1>3, <1>7, StatusMove
<1>11. WireInv'
  BY <1>1, <1>2, <1>3, <1>4, <1>5, <1>6, WireOrder, WireMove, ZenonT(60)
<1>12. LiveInv' /\ CallInv'
  BY <1>1, <1>2, <1>3, CallMove
<1> QED
  BY <1>8, <1>9, <1>10, <1>11, <1>12 DEF DiskInv

\* The commit: the driver's state takes the guard's frames, or, on a device that failed at
\* the last moment, the frames go back with the queue on.
LEMMA CommitKeeps ==
    ASSUME DiskInv, Commit
    PROVE  DiskInv'
<1>0. step = "commit"
  BY DEF Commit
<1>1. MemInv /\ LatchInv /\ StatusInv /\ WireInv /\ LiveInv /\ CallInv
  BY DEF DiskInv
<1>2. /\ "commit" \in Full /\ "commit" \in Featured /\ "commit" \in Driven /\ "commit" \in On
      /\ "commit" \in Rung /\ "commit" \in Bound /\ "commit" \notin {"idle", "find", "sized", "msixsized"}
      /\ "idle" \notin Driven /\ "idle" \notin Featured /\ "idle" \notin Full /\ "idle" \notin On
      /\ "idle" \notin Ringed /\ "idle" \notin Rung /\ "idle" \notin Bound
      /\ "DeviceFailed" # "Capabilities" /\ "Ok" # "Capabilities"
  BY SMT DEF Driven, Featured, Full, On, Ringed, Rung, Bound
<1>3. /\ DevShape(dev) /\ dev.sizing = FALSE /\ dev.decode = TRUE /\ dev.master = TRUE
      /\ dev.msix.entry = COMPLETION_VECTOR /\ dev.msix.enabled = TRUE
  BY <1>0, <1>1, <1>2 DEF WireInv
<1>4. /\ guard \in Seq(Frames) /\ Len(guard) = 3 /\ Freed \subseteq zeroed /\ Owned("guard") = Freed
      /\ owner \in [Frames -> {"free", "guard", "driver", "other"}]
      /\ Owned("driver") = {DEVICE[i] : i \in DOMAIN DEVICE}
  BY <1>0, <1>1, <1>2 DEF MemInv
<1>5. guard[1] \in Freed /\ guard # <<>> /\ Freed \subseteq Frames
  <2>1. 1 \in DOMAIN guard /\ guard # <<>> /\ \A i \in DOMAIN guard : guard[i] \in Frames
    <3>1. guard \in Seq(Frames) /\ Len(guard) = 3
      BY <1>4
    <3>2. 1 \in DOMAIN guard
      BY <3>1, SMT
    <3>4. \A i \in DOMAIN guard : guard[i] \in Frames
      <4>1. guard \in Seq(Frames)
        BY <3>1
      <4> QED
        BY <4>1, SMT
    <3>3. Len(<<>>) # 3
      BY SMT
    <3> QED
      BY <3>1, <3>2, <3>3, <3>4
  <2> QED
    BY <2>1 DEF Freed
<1>6. dev.latched = [ring |-> guard[1], vector |-> 0, enabled |-> TRUE]
  BY <1>0, <1>1, <1>2 DEF LatchInv
<1>7. CASE "FAILED" \in dev.status
  <2>1. Return("DeviceFailed") /\ Release /\ lateFail' = Freed /\ dev' = dev
    BY <1>7 DEF Commit
  <2>2. dev.latched.ring \in lateFail'
    <3>1. dev.latched.ring = guard[1]
      BY <1>6, SMTT(40)
    <3> QED
      BY <3>1, <1>5, <2>1
  <2> QED
    BY <1>0, <1>2, <1>3, <2>1, <2>2, FailKeeps
<1>8. CASE "FAILED" \notin dev.status
  <2>1. /\ DEVICE' = guard /\ guard' = <<>> /\ step' = "idle" /\ result' = "Ok"
        /\ owner' = [f \in Frames |-> IF f \in Freed THEN "driver" ELSE owner[f]]
        /\ device' = device /\ dev' = dev /\ zeroed' = zeroed /\ inits' = inits
    BY <1>8 DEF Commit
  <2>2. DEVICE = <<>>
    BY <1>0, <1>1, <1>2, ZenonT(60) DEF LiveInv
  <2>3. Owned("driver") = {}
    BY <1>4, <2>2, SMTT(40)
  <2>4. MemInv'
    <3>1. owner' \in [Frames -> {"free", "guard", "driver", "other"}]
      BY <1>4, <2>1
    <3>2. \A f \in Frames : owner'[f] = IF f \in Freed THEN "driver" ELSE owner[f]
      BY <2>1
    <3>3. \A f \in Frames : (f \in Freed <=> owner[f] = "guard") /\ owner[f] # "driver"
      BY <1>4, <2>3 DEF Owned
    <3>4. \A f \in Frames : owner'[f] # "guard" /\ (owner'[f] = "driver" <=> f \in Freed)
      BY <3>2, <3>3
    <3>5. Owned("guard")' = {} /\ Owned("driver")' = Freed
      BY <1>5, <3>4 DEF Owned
    <3>6. Freed = {DEVICE'[i] : i \in DOMAIN DEVICE'} /\ DEVICE' \in Seq(Frames)
      BY <1>4, <2>1 DEF Freed
    <3>7. Freed' = {} /\ guard' \in Seq(Frames) /\ Len(guard') <= 3
      BY <2>1, SMT DEF Freed
    <3>8. step' \notin Full /\ Owned("guard")' = Freed' /\ guard' = <<>>
      BY <1>2, <2>1, <3>5, <3>7
    <3>9. Owned("driver")' = {DEVICE'[i] : i \in DOMAIN DEVICE'}
      BY <3>5, <3>6
    <3> QED
      BY <3>1, <3>6, <3>7, <3>8, <3>9 DEF MemInv
  <2>5. "ACKNOWLEDGE" \in dev.status /\ "resetting" \notin dev.status
        /\ {"ACKNOWLEDGE", "DRIVER", "FEATURES_OK", "DRIVER_OK"} \subseteq dev.status
    BY <1>0, <1>1, <1>2 DEF StatusInv
  <2>6. LatchInv'
    <3>1. dev'.status # {}
      BY <2>1, <2>5
    <3>2. DEVICE' # <<>> /\ step' \notin On /\ step' \notin Driven
      BY <1>2, <1>5, <2>1
    <3> QED
      BY <3>1, <3>2 DEF LatchInv
  <2>7. StatusInv'
    <3>1. step' \notin Driven /\ step' \notin Featured /\ step' # "commit"
      BY <1>2, <2>1
    <3> QED
      BY <3>1 DEF StatusInv
  <2>8. WireInv'
    BY <1>2, <1>3, <2>1 DEF WireInv
  <2>9. LiveInv'
    <3>1. dev.msix = [entry |-> COMPLETION_VECTOR, enabled |-> TRUE]
      BY <1>3 DEF DevShape
    <3>2. {DEVICE'[i] : i \in DOMAIN DEVICE'} \subseteq zeroed'
      BY <1>4, <2>1 DEF Freed
    <3> QED
      BY <1>3, <1>4, <1>6, <2>1, <2>5, <3>1, <3>2, ZenonT(60) DEF LiveInv
  <2>10. CallInv'
    BY <1>1, <1>2, <2>1 DEF CallInv
  <2> QED
    BY <2>4, <2>6, <2>7, <2>8, <2>9, <2>10 DEF DiskInv
<1> QED
  BY <1>7, <1>8

\* A reset the device completes turns its queues off, at a moment init has none on.
LEMMA ResetDoneKeeps ==
    ASSUME DiskInv, ResetDone
    PROVE  DiskInv'
<1>1. /\ "resetting" \in dev.status /\ lateFail' = {}
      /\ dev' = [dev EXCEPT !.status = {}, !.queue = OffQueue, !.latched = OffQueue]
      /\ device' = device /\ step' = step /\ guard' = guard /\ owner' = owner /\ zeroed' = zeroed
      /\ DEVICE' = DEVICE /\ inits' = inits /\ result' = result
  BY DEF ResetDone, KeepDriver
<1>2. MemInv /\ LatchInv /\ StatusInv /\ WireInv /\ LiveInv /\ CallInv
  BY DEF DiskInv
<1>3. DevShape(dev)
  BY <1>2 DEF WireInv
<1>4. /\ dev'.decode = dev.decode /\ dev'.master = dev.master /\ dev'.sizing = dev.sizing
      /\ dev'.msix = dev.msix /\ DevShape(dev') /\ dev'.latched.enabled = FALSE
  BY <1>1, <1>3 DEF DevShape, OffQueue
<1>5. step \notin Driven /\ DEVICE = <<>>
  BY <1>1, <1>2 DEF StatusInv, LiveInv
<1>6. step \notin Featured /\ step \notin Ringed /\ step \notin On /\ step # "enable" /\ step # "commit"
      /\ step \notin Rung /\ step \notin Bound
  BY <1>5, SMT DEF Driven, Featured, Full, Ringed, On, Rung, Bound
<1>7. MemInv'
  <2>1. Freed' = Freed /\ Owned("guard")' = Owned("guard") /\ Owned("driver")' = Owned("driver")
    BY <1>1 DEF Freed, Owned
  <2> QED
    BY <1>1, <1>2, <2>1 DEF MemInv
<1>8. LatchInv' /\ StatusInv' /\ LiveInv'
  BY <1>1, <1>4, <1>5, <1>6 DEF LatchInv, StatusInv, LiveInv
<1>9. WireInv'
  BY <1>1, <1>2, <1>4, <1>6 DEF WireInv
<1>10. CallInv'
  <2>1. ListEnds' <=> ListEnds
    BY <1>1, ListKept, ZenonT(60)
  <2> QED
    BY <1>1, <1>2, <2>1 DEF CallInv
<1> QED
  BY <1>7, <1>8, <1>9, <1>10 DEF DiskInv

\* A device that fails says so, or withdraws a feature before init reads it back.
LEMMA MisbehaveKeeps ==
    ASSUME DiskInv, Misbehave
    PROVE  DiskInv'
<1>1. PICK st : /\ dev' = [dev EXCEPT !.status = st]
                /\ \/ st = dev.status \cup {"FAILED"}
                   \/ "FEATURES_OK" \in dev.status /\ step = "readback" /\ st = dev.status \ {"FEATURES_OK"}
  BY DEF Misbehave
<1>2. /\ device' = device /\ step' = step /\ guard' = guard /\ owner' = owner /\ zeroed' = zeroed
      /\ DEVICE' = DEVICE /\ inits' = inits /\ result' = result /\ lateFail' = lateFail
      /\ dev.status # {} /\ "resetting" \notin dev.status
  BY DEF Misbehave, KeepDriver
<1>3. MemInv /\ LatchInv /\ StatusInv /\ WireInv /\ LiveInv /\ CallInv
  BY DEF DiskInv
<1>4. DevShape(dev)
  BY <1>3 DEF WireInv
<1>5. /\ dev'.decode = dev.decode /\ dev'.master = dev.master /\ dev'.sizing = dev.sizing
      /\ dev'.msix = dev.msix /\ dev'.queue = dev.queue /\ dev'.latched = dev.latched
      /\ dev'.status = st /\ DevShape(dev')
  BY <1>1, <1>4 DEF DevShape
<1>6. "readback" \in Driven \ On /\ "readback" \notin Featured /\ "readback" # "commit" /\ "readback" # "idle"
  BY SMT DEF Driven, Featured, Full, On
<1>7. /\ "resetting" # "FAILED" /\ "ACKNOWLEDGE" # "FEATURES_OK" /\ "DRIVER" # "FEATURES_OK"
  OBVIOUS
<1>8. \A b : b \in dev.status => b \in st \/ (step = "readback" /\ b = "FEATURES_OK")
  BY <1>1
<1>9. "resetting" \notin st
  BY <1>1, <1>2, <1>7
<1>10. MemInv'
  <2>1. Freed' = Freed /\ Owned("guard")' = Owned("guard") /\ Owned("driver")' = Owned("driver")
    BY <1>2 DEF Freed, Owned
  <2> QED
    BY <1>2, <1>3, <2>1 DEF MemInv
<1>11. LatchInv'
  <2>1. dev.latched.enabled => st # {}
    <3>1. ASSUME st = {}
          PROVE  ~dev.latched.enabled
      <4>1. step = "readback"
        BY <1>1, <3>1
      <4> QED
        BY <1>3, <1>6, <4>1 DEF LatchInv
    <3> QED
      BY <3>1
  <2> QED
    BY <1>2, <1>3, <1>5, <2>1, ZenonT(60) DEF LatchInv
<1>12. StatusInv'
  BY <1>2, <1>3, <1>5, <1>6, <1>7, <1>8, <1>9, ZenonT(60) DEF StatusInv
<1>13. WireInv'
  BY <1>2, <1>3, <1>5 DEF WireInv
<1>14. LiveInv'
  <2>1. ASSUME DEVICE # <<>>
        PROVE  {"ACKNOWLEDGE", "DRIVER", "FEATURES_OK", "DRIVER_OK"} \subseteq st
    BY <1>3, <1>6, <1>8, <2>1 DEF LiveInv
  <2> QED
    BY <1>2, <1>3, <1>5, <1>9, <2>1 DEF LiveInv
<1>15. CallInv'
  <2>1. ListEnds' <=> ListEnds
    BY <1>2, ListKept
  <2> QED
    BY <1>2, <1>3, <2>1 DEF CallInv
<1> QED
  BY <1>10, <1>11, <1>12, <1>13, <1>14, <1>15 DEF DiskInv

\* The rest of the kernel handles frames that are neither the guard's nor the driver's.
LEMMA OthersKeep ==
    ASSUME DiskInv, OthersUse
    PROVE  DiskInv'
<1>1. PICK f \in Frames :
          \/ owner[f] = "free" /\ owner' = [owner EXCEPT ![f] = "other"] /\ zeroed' = zeroed \ {f}
          \/ owner[f] = "other" /\ owner' = [owner EXCEPT ![f] = "free"] /\ zeroed' = zeroed
  BY DEF OthersUse
<1>2. /\ device' = device /\ dev' = dev /\ step' = step /\ guard' = guard
      /\ DEVICE' = DEVICE /\ inits' = inits /\ result' = result /\ lateFail' = lateFail
  BY DEF OthersUse
<1>3. MemInv /\ LatchInv /\ StatusInv /\ WireInv /\ LiveInv /\ CallInv
  BY DEF DiskInv
<1>4. /\ owner \in [Frames -> {"free", "guard", "driver", "other"}] /\ Owned("guard") = Freed
      /\ Owned("driver") = {DEVICE[i] : i \in DOMAIN DEVICE}
  BY <1>3 DEF MemInv
<1>5. owner' \in [Frames -> {"free", "guard", "driver", "other"}]
  BY <1>1, <1>4
<1>6. /\ owner[f] \in {"free", "other"} /\ owner'[f] \in {"free", "other"}
      /\ \A g \in Frames \ {f} : owner'[g] = owner[g]
  BY <1>1, <1>4
<1>7. \A g \in Frames : /\ owner'[g] = "guard" <=> owner[g] = "guard"
                        /\ owner'[g] = "driver" <=> owner[g] = "driver"
  BY <1>6
<1>8. Owned("guard")' = Owned("guard") /\ Owned("driver")' = Owned("driver") /\ Freed' = Freed
  BY <1>2, <1>7 DEF Owned, Freed
<1>9. f \notin Owned("guard") /\ f \notin Owned("driver") /\ \A g \in zeroed : g = f \/ g \in zeroed'
  BY <1>1, <1>6 DEF Owned
<1>10. MemInv'
  <2>1. step' \in Full => Len(guard') = 3 /\ Freed' \subseteq zeroed'
    BY <1>2, <1>3, <1>4, <1>8, <1>9 DEF MemInv
  <2> QED
    BY <1>2, <1>3, <1>5, <1>8, <2>1, ZenonT(60) DEF MemInv
<1>11. LatchInv' /\ StatusInv' /\ WireInv'
  BY <1>2, <1>3, ZenonT(60) DEF LatchInv, StatusInv, WireInv
<1>12. LiveInv'
  <2>1. DEVICE # <<>> => {DEVICE[i] : i \in DOMAIN DEVICE} \subseteq zeroed'
    BY <1>3, <1>4, <1>9 DEF LiveInv
  <2> QED
    BY <1>2, <1>3, <2>1 DEF LiveInv
<1>13. CallInv'
  <2>1. ListEnds' <=> ListEnds
    BY <1>2, ListKept
  <2> QED
    BY <1>2, <1>3, <2>1 DEF CallInv
<1> QED
  BY <1>10, <1>11, <1>12, <1>13 DEF DiskInv

\* pci::walk_capabilities as a sequence of m steps from the head of the list.
Unwalked(d) == [list |-> <<>>, at |-> d.head, err |-> "walking"]
IsWalk(d, w, m) == w = [n \in 0..m |-> IF n = 0 THEN Unwalked(d) ELSE WalkStep(d, w[n - 1])]

\* A set of numbers has a least one.
LEMMA Least ==
    ASSUME NEW S \in SUBSET Nat, S # {}
    PROVE  \E x \in S : \A y \in S : x <= y
<1>1. PICK x \in S : \A y \in S : ~(<<y, x>> \in OpToRel(<, Nat))
  BY NatLessThanWellFounded, WFMin
<1>2. ASSUME NEW y \in S
      PROVE  x <= y
  <2>1. ~(y < x) /\ x \in Nat /\ y \in Nat
    BY <1>1, <1>2 DEF OpToRel
  <2> QED
    BY <2>1, SMTT(40)
<1> QED
  BY <1>2

\* The walk's recursion has a solution of every length.
LEMMA WalkExists ==
    ASSUME NEW d, NEW m \in Nat
    PROVE  \E w : IsWalk(d, w, m)
<1>1. SUFFICES ASSUME NEW S, S = {n \in Nat : ~\E w : IsWalk(d, w, n)}, S # {} PROVE FALSE
  OBVIOUS
<1>2. PICK x \in S : \A y \in S : x <= y
  BY <1>1, Least
<1>3. x \in Nat /\ ~\E w : IsWalk(d, w, x)
  BY <1>1, <1>2
<1>4. CASE x = 0
  <2>1. PICK w : w = [n \in 0..0 |-> Unwalked(d)]
    OBVIOUS
  <2>2. \A n \in 0..0 : n = 0
    BY SMT
  <2>3. IsWalk(d, w, 0)
    BY <2>1, <2>2 DEF IsWalk
  <2> QED
    BY <1>3, <1>4, <2>3
<1>5. CASE x # 0
  <2>1. PICK k : k = x - 1
    OBVIOUS
  <2>2. k \in Nat /\ ~(x <= k) /\ k + 1 = x
    BY <1>3, <1>5, <2>1, SMTT(40)
  <2>3. PICK w : IsWalk(d, w, k)
    BY <1>1, <1>2, <2>2
  <2>4. PICK g : g = [n \in 0..x |-> IF n = 0 THEN Unwalked(d) ELSE WalkStep(d, w[n - 1])]
    OBVIOUS
  <2>5. ASSUME NEW n \in 0..x, n # 0
        PROVE  g[n - 1] = w[n - 1]
    <3>1. n - 1 \in 0..k /\ n - 1 \in 0..x
      BY <1>3, <2>2, <2>5, SMTT(40)
    <3>2. PICK j : j = n - 1
      OBVIOUS
    <3>3. g[j] = IF j = 0 THEN Unwalked(d) ELSE WalkStep(d, w[j - 1])
      BY <2>4, <3>1, <3>2
    <3>4. w[j] = IF j = 0 THEN Unwalked(d) ELSE WalkStep(d, w[j - 1])
      BY <2>3, <3>1, <3>2 DEF IsWalk
    <3> QED
      BY <3>2, <3>3, <3>4
  <2>6. IsWalk(d, g, x)
    <3>1. \A n \in 0..x : (IF n = 0 THEN Unwalked(d) ELSE WalkStep(d, w[n - 1]))
                          = (IF n = 0 THEN Unwalked(d) ELSE WalkStep(d, g[n - 1]))
      BY <2>5
    <3> QED
      BY <2>4, <3>1 DEF IsWalk
  <2> QED
    BY <1>3, <2>6
<1> QED
  BY <1>4, <1>5

\* What the walk holds after n steps: the list as far as it was followed, in order.
Linked(d, r) ==
    /\ r = [list |-> r.list, at |-> r.at, err |-> r.err]
    /\ r.list \in Seq(Offsets) /\ r.at \in Pointers
    /\ r.list = <<>> => r.at = d.head
    /\ r.list # <<>> => r.list[1] = d.head /\ d.next[r.list[Len(r.list)]] = r.at
    /\ \A k \in 1..(Len(r.list) - 1) : d.next[r.list[k]] = r.list[k + 1]
    /\ r.err \in {"walking", "ok", "Unaligned"}
    /\ r.err = "Unaligned" => r.at = Unaligned

\* One step of the walk follows one pointer.
LEMMA WalkStepLinks ==
    ASSUME NEW d, d.head \in Pointers, d.next \in [Offsets -> Pointers], NEW r, NEW n \in Nat,
           Linked(d, r), r.err = "walking" => Len(r.list) = n, NEW t, t = WalkStep(d, r)
    PROVE  Linked(d, t) /\ (t.err = "walking" => Len(t.list) = n + 1)
<1>1. /\ r = [list |-> r.list, at |-> r.at, err |-> r.err]
      /\ r.list \in Seq(Offsets) /\ r.at \in Pointers
      /\ r.list = <<>> => r.at = d.head
      /\ r.list # <<>> => r.list[1] = d.head /\ d.next[r.list[Len(r.list)]] = r.at
      /\ \A k \in 1..(Len(r.list) - 1) : d.next[r.list[k]] = r.list[k + 1]
  BY DEF Linked
<1>2. CASE r.err # "walking"
  <2>1. t = r
    BY <1>2 DEF WalkStep
  <2> QED
    BY <1>2, <2>1
<1>3. CASE r.err = "walking" /\ r.at = 0
  <2>1. t = [r EXCEPT !.err = "ok"]
    BY <1>3 DEF WalkStep
  <2>2. t = [list |-> t.list, at |-> t.at, err |-> t.err] /\ t.list = r.list /\ t.at = r.at /\ t.err = "ok"
    BY <1>1, <2>1
  <2>3. "ok" # "walking" /\ "ok" # "Unaligned"
    OBVIOUS
  <2> QED
    BY <1>1, <2>2, <2>3 DEF Linked
<1>4. CASE r.err = "walking" /\ r.at # 0 /\ r.at = Unaligned
  <2>1. t = [r EXCEPT !.err = "Unaligned"]
    BY <1>4 DEF WalkStep
  <2>2. /\ t = [list |-> t.list, at |-> t.at, err |-> t.err]
        /\ t.list = r.list /\ t.at = r.at /\ t.err = "Unaligned"
    BY <1>1, <2>1
  <2>3. "Unaligned" # "walking"
    OBVIOUS
  <2> QED
    BY <1>1, <1>4, <2>2, <2>3 DEF Linked
<1>5. CASE r.err = "walking" /\ r.at # 0 /\ r.at # Unaligned
  <2>1. t = [r EXCEPT !.list = Append(r.list, r.at), !.at = d.next[r.at]]
    BY <1>5 DEF WalkStep
  <2>2. PICK l, a : l = r.list /\ a = r.at
    OBVIOUS
  <2>3. /\ t = [list |-> t.list, at |-> t.at, err |-> t.err]
        /\ t.list = Append(l, a) /\ t.at = d.next[a] /\ t.err = "walking"
    BY <1>1, <1>5, <2>1, <2>2
  <2>4. a \in Offsets
    BY <1>1, <1>5, <2>2 DEF Pointers
  <2>5. t.at \in Pointers
    BY <2>3, <2>4
  <2>6. Len(l) = n /\ l \in Seq(Offsets)
    BY <1>1, <1>5, <2>2
  <2>7. PICK s : s = Append(l, a)
    OBVIOUS
  <2>8. /\ s \in Seq(Offsets) /\ s # <<>> /\ Len(s) = n + 1 /\ s[Len(s)] = a
        /\ (l # <<>> => s[1] = l[1]) /\ (l = <<>> => s[1] = a)
        /\ \A k \in 1..Len(l) : s[k] = l[k]
    BY <2>4, <2>6, <2>7, SMTT(40)
  <2>9. s[1] = d.head
    BY <1>1, <2>2, <2>8
  <2>10. ASSUME NEW k \in 1..(Len(s) - 1)
         PROVE  d.next[s[k]] = s[k + 1]
    <3>1. k \in 1..Len(l)
      BY <2>6, <2>8, <2>10, SMTT(40)
    <3>2. CASE k \in 1..(Len(l) - 1)
      <4>1. k + 1 \in 1..Len(l)
        BY <2>6, <3>2, SMTT(40)
      <4> QED
        BY <1>1, <2>2, <2>8, <3>1, <3>2, <4>1, ZenonT(60)
    <3>3. CASE k \notin 1..(Len(l) - 1)
      <4>1. k = Len(l) /\ k + 1 = Len(s) /\ l # <<>>
        BY <2>6, <2>8, <3>1, <3>3, SMTT(40)
      <4> QED
        BY <1>1, <2>2, <2>8, <3>1, <4>1, ZenonT(60)
    <3> QED
      BY <3>2, <3>3
  <2>11. t.list = s /\ d.next[s[Len(s)]] = t.at /\ "walking" # "Unaligned"
    BY <2>3, <2>7, <2>8
  <2> QED
    BY <2>3, <2>5, <2>8, <2>9, <2>10, <2>11, ZenonT(60) DEF Linked
<1> QED
  BY <1>2, <1>3, <1>4, <1>5

\* What walk_capabilities returns: still walking only after a step for every offset and one more.
LEMMA WalkResult ==
    ASSUME NEW d, d.head \in Pointers, d.next \in [Offsets -> Pointers]
    PROVE  /\ Linked(d, walk_capabilities(d))
           /\ walk_capabilities(d).err = "walking" => Len(walk_capabilities(d).list) = WalkBound
<1>1. WalkBound \in Nat
  BY DiskAssumption, FS_CardinalityType, SMTT(40) DEF WalkBound
<1>2. PICK w : /\ w = [n \in 0..WalkBound |-> IF n = 0 THEN Unwalked(d) ELSE WalkStep(d, w[n - 1])]
               /\ walk_capabilities(d) = w[WalkBound]
  <2>1. \E w : w = [n \in 0..WalkBound |-> IF n = 0 THEN Unwalked(d) ELSE WalkStep(d, w[n - 1])]
    BY <1>1, WalkExists DEF IsWalk
  <2>2. walk_capabilities(d) =
          (CHOOSE w : w = [n \in 0..WalkBound |-> IF n = 0 THEN Unwalked(d) ELSE WalkStep(d, w[n - 1])])[WalkBound]
    BY DEF walk_capabilities, Unwalked
  <2> QED
    BY <2>1, <2>2
<1>3. \A n \in 0..WalkBound : Linked(d, w[n]) /\ (w[n].err = "walking" => Len(w[n].list) = n)
  <2>1. SUFFICES ASSUME NEW S, S # {},
                        S = {n \in 0..WalkBound : ~(Linked(d, w[n]) /\ (w[n].err = "walking" => Len(w[n].list) = n))}
                 PROVE  FALSE
    OBVIOUS
  <2>2. S \in SUBSET Nat
    <3>1. \A n \in 0..WalkBound : n \in Nat
      BY <1>1, SMTT(40)
    <3> QED
      BY <2>1, <3>1
  <2>3. PICK x \in S : \A y \in S : x <= y
    BY <2>1, <2>2, Least
  <2>4. x \in 0..WalkBound /\ ~(Linked(d, w[x]) /\ (w[x].err = "walking" => Len(w[x].list) = x))
    BY <2>1, <2>3
  <2>5. CASE x = 0
    <3>1. w[0] = Unwalked(d)
      BY <1>2, <2>4, <2>5
    <3>2. PICK r : r = Unwalked(d)
      OBVIOUS
    <3>3. r.list = <<>> /\ r.at = d.head /\ r.err = "walking" /\ r = [list |-> r.list, at |-> r.at, err |-> r.err]
      BY <3>2 DEF Unwalked
    <3>4. /\ <<>> \in Seq(Offsets) /\ Len(<<>>) = 0
          /\ \A k \in 1..(Len(<<>>) - 1) : FALSE
      BY SMT
    <3>5. Linked(d, r) /\ Len(r.list) = 0
      BY <3>3, <3>4 DEF Linked
    <3> QED
      BY <2>4, <2>5, <3>1, <3>2, <3>5, ZenonT(60)
  <2>6. CASE x # 0
    <3>1. PICK k : k = x - 1
      OBVIOUS
    <3>2. k \in 0..WalkBound /\ k \in Nat /\ ~(x <= k) /\ k + 1 = x
      BY <1>1, <2>4, <2>6, <3>1, SMTT(40)
    <3>3. Linked(d, w[k]) /\ (w[k].err = "walking" => Len(w[k].list) = k)
      BY <2>1, <2>3, <3>2
    <3>4. w[x] = WalkStep(d, w[k])
      BY <1>2, <2>4, <2>6, <3>1
    <3>5. PICK r, t : r = w[k] /\ t = w[x] /\ t = WalkStep(d, r)
      BY <3>4
    <3>6. Linked(d, r) /\ (r.err = "walking" => Len(r.list) = k)
      BY <3>3, <3>5, ZenonT(60)
    <3>7. Linked(d, t) /\ (t.err = "walking" => Len(t.list) = k + 1)
      BY <3>2, <3>5, <3>6, WalkStepLinks, SMTT(40)
    <3> QED
      BY <2>4, <3>2, <3>5, <3>7, ZenonT(60)
  <2> QED
    BY <2>5, <2>6
<1>4. WalkBound \in 0..WalkBound
  BY <1>1, SMT
<1> QED
  BY <1>2, <1>3, <1>4

\* A list the walk refuses does not end: it points off the grid, or it comes back on itself.
LEMMA RefusedNeverEnds ==
    ASSUME device.head \in Pointers, device.next \in [Offsets -> Pointers],
           walk_capabilities(device).err # "ok"
    PROVE  ~ListEnds
<1>1. PICK r : r = walk_capabilities(device)
  OBVIOUS
<1>2. Linked(device, r) /\ (r.err = "walking" => Len(r.list) = WalkBound)
  BY <1>1, WalkResult
<1>3. PICK l, a : l = r.list /\ a = r.at
  OBVIOUS
<1>4. /\ l \in Seq(Offsets)
      /\ l = <<>> => a = device.head
      /\ l # <<>> => l[1] = device.head /\ device.next[l[Len(l)]] = a
      /\ \A k \in 1..(Len(l) - 1) : device.next[l[k]] = l[k + 1]
      /\ r.err \in {"walking", "Unaligned"}
      /\ r.err = "Unaligned" => a = Unaligned
      /\ r.err = "walking" => Len(l) = WalkBound
  BY <1>1, <1>2, <1>3 DEF Linked
<1>5. 0 \notin Offsets /\ Unaligned \notin Offsets /\ Unaligned # 0 /\ IsFiniteSet(Offsets)
  BY DiskAssumption
<1>6. CASE r.err = "Unaligned"
  <2>1. PICK S : S = {l[k] : k \in 1..Len(l)} \cup {Unaligned}
    OBVIOUS
  <2>2. \A k \in 1..Len(l) : l[k] \in Offsets
    BY <1>4, SMT
  <2>3. S \in SUBSET Pointers /\ 0 \notin S
    BY <1>5, <2>1, <2>2 DEF Pointers
  <2>4. device.head \in S
    <3>1. l # <<>> => 1 \in 1..Len(l)
      BY <1>4, SMTT(40)
    <3> QED
      BY <1>4, <1>6, <2>1, <3>1
  <2>5. ASSUME NEW o \in S \cap Offsets
        PROVE  device.next[o] \in S
    <3>1. PICK k \in 1..Len(l) : o = l[k]
      BY <1>5, <2>1, <2>5
    <3>2. CASE k = Len(l)
      <4>1. l # <<>>
        BY <1>4, <3>1, SMTT(40)
      <4> QED
        BY <1>4, <1>6, <2>1, <3>1, <3>2, <4>1, ZenonT(60)
    <3>3. CASE k # Len(l)
      <4>1. k \in 1..(Len(l) - 1) /\ k + 1 \in 1..Len(l)
        BY <1>4, <3>1, <3>3, SMTT(40)
      <4> QED
        BY <1>4, <2>1, <3>1, <4>1, ZenonT(60)
    <3> QED
      BY <3>2, <3>3
  <2> QED
    BY <2>3, <2>4, <2>5 DEF ListEnds
<1>7. CASE r.err = "walking"
  <2>1. Cardinality(Offsets) \in Nat /\ Len(l) = Cardinality(Offsets) + 1
    BY <1>4, <1>5, <1>7, FS_CardinalityType DEF WalkBound
  <2>2. IsFiniteSet(1..Len(l)) /\ Cardinality(1..Len(l)) = Len(l)
    <3>1. 1 \in Int /\ Len(l) \in Int /\ ~(1 > Len(l)) /\ Len(l) - 1 + 1 = Len(l)
      BY <2>1, SMTT(40)
    <3> QED
      BY <3>1, FS_Interval
  <2>3. l \in [1..Len(l) -> Offsets] /\ Cardinality(Offsets) < Len(l)
    BY <1>4, <2>1, SMTT(40)
  <2>4. PICK i, j \in 1..Len(l) : i # j /\ l[i] = l[j]
    BY <1>5, <2>2, <2>3, FS_PigeonHole
  <2>5. PICK b, e \in 1..Len(l) : b < e /\ l[b] = l[e]
    <3>1. i < j \/ j < i
      BY <2>1, <2>4, SMTT(40)
    <3> QED
      BY <2>4, <3>1
  <2>6. PICK S : S = {l[k] : k \in 1..(e - 1)}
    OBVIOUS
  <2>7. \A k \in 1..(e - 1) : l[k] \in Offsets
    BY <1>4, <2>1, <2>5, SMTT(40)
  <2>8. S \in SUBSET Pointers /\ 0 \notin S
    BY <1>5, <2>6, <2>7 DEF Pointers
  <2>9. device.head \in S
    <3>1. 1 \in 1..(e - 1) /\ l # <<>>
      BY <1>4, <2>1, <2>5, SMTT(40)
    <3> QED
      BY <1>4, <2>6, <3>1
  <2>10. ASSUME NEW o \in S \cap Offsets
         PROVE  device.next[o] \in S
    <3>1. PICK k \in 1..(e - 1) : o = l[k]
      BY <2>6, <2>10
    <3>2. k \in 1..(Len(l) - 1) /\ b \in 1..(e - 1)
      BY <2>1, <2>5, <3>1, SMTT(40)
    <3>3. device.next[o] = l[k + 1]
      BY <1>4, <3>1, <3>2
    <3>4. CASE k + 1 = e
      BY <2>5, <2>6, <3>2, <3>3, <3>4
    <3>5. CASE k + 1 # e
      <4>1. k + 1 \in 1..(e - 1)
        BY <2>1, <2>5, <3>1, <3>5, SMTT(40)
      <4> QED
        BY <2>6, <3>3, <4>1
    <3> QED
      BY <3>4, <3>5
  <2> QED
    BY <2>8, <2>9, <2>10 DEF ListEnds
<1> QED
  BY <1>4, <1>6, <1>7

\* The walk refuses only a list that does not end.
LEMMA WalkKeeps ==
    ASSUME DiskInv, Walk
    PROVE  DiskInv'
<1>0. /\ step = "walk" /\ "walk" \notin On /\ "walk" # "idle" /\ "walk" \notin {"sized", "msixsized"}
  <2>1. step = "walk"
    BY DEF Walk
  <2>2. "walk" \notin On /\ "walk" # "idle" /\ "walk" \notin {"sized", "msixsized"}
    BY SMT DEF On
  <2> QED
    BY <2>1, <2>2
<1>1. CASE walk_capabilities(device).err # "ok"
  <2>1. FailsWith("Capabilities")
    BY <1>1 DEF Walk
  <2>2. device \in Devices /\ device.id = "modern"
    BY <1>0 DEF DiskInv, CallInv
  <2>3. device.head \in Pointers /\ device.next \in [Offsets -> Pointers]
    BY <2>2, DiskAssumption
  <2>4. ~ListEnds
    BY <1>1, <2>3, RefusedNeverEnds
  <2> QED
    BY <1>0, <2>1, <2>4, FailsKeeps
<1>2. CASE walk_capabilities(device).err = "ok"
  <2>1. GoTo("caps") /\ KeepMemory /\ dev' = dev
    BY <1>2 DEF Walk
  <2>2. step' = "caps" /\ guard' = guard
    BY <2>1 DEF GoTo, KeepMemory
  <2>3. WireInv /\ DevShape(dev) /\ dev.sizing = FALSE
    BY <1>0 DEF DiskInv, WireInv
  <2>4. WireInv'
    BY <1>0, <2>1, <2>2, <2>3, WireMove, WireOrder
  <2> QED
    BY <1>0, <2>1, <2>4, MoveKeeps, InitOrder
<1> QED
  BY <1>1, <1>2

\* Every step of the machine keeps the disk's invariant; the processors' leave it alone.
LEMMA DiskStep ==
    ASSUME DiskInv, [Next]_vars
    PROVE  DiskInv'
<1>1. CASE UNCHANGED diskVars
  <2>1. UNCHANGED <<device, dev, step, guard, owner, zeroed, DEVICE, inits, result, lateFail>>
    BY <1>1 DEF diskVars
  <2>2. /\ Owned("guard")' = Owned("guard") /\ Owned("driver")' = Owned("driver") /\ Freed' = Freed
        /\ ListEnds' <=> ListEnds
    BY <2>1 DEF Owned, Freed, ListEnds
  <2>3. MemInv' /\ LatchInv' /\ StatusInv'
    BY <2>1, <2>2 DEF DiskInv, MemInv, LatchInv, StatusInv
  <2>4. WireInv' /\ LiveInv' /\ CallInv'
    BY <2>1, <2>2, ZenonT(60) DEF DiskInv, WireInv, LiveInv, CallInv
  <2> QED
    BY <2>3, <2>4 DEF DiskInv
<1>2. CASE InitCall
  <2>1. \/ Begin \/ Find \/ Walk \/ SkipCap \/ SizeBar \/ MapWindow \/ Structured \/ ResetPoll
        \/ Offer \/ ReadBack \/ Take \/ Zero \/ Configure \/ MsixSize \/ MsixTable \/ MsixOn
        \/ EnableQueue \/ Finish \/ Commit
    BY <1>2 DEF InitCall
  <2> QED
    BY <2>1, BeginKeeps, FindKeeps, WalkKeeps, CapsKeep, WindowKeeps, StructuredKeeps, ResetKeeps,
       OfferKeeps, ReadBackKeeps, TakeKeeps, ZeroKeeps, ConfigureKeeps, MsixSizeKeeps,
       MsixTableKeeps, MsixOnKeeps, EnableKeeps, FinishKeeps, CommitKeeps, ZenonT(60)
<1>3. CASE ResetDone \/ Misbehave \/ OthersUse
  BY <1>3, ResetDoneKeeps, MisbehaveKeeps, OthersKeep
<1> QED
  BY <1>1, <1>2, <1>3 DEF Next, NextDisk, vars

\* Before the first call nobody holds a frame and the device is off.
LEMMA DiskStart ==
    ASSUME Init
    PROVE  DiskInv
<1>1. /\ dev = [decode |-> FALSE, master |-> FALSE, sizing |-> FALSE, status |-> {},
                queue |-> OffQueue, latched |-> OffQueue,
                msix |-> [entry |-> NoVector, enabled |-> FALSE]]
      /\ step = "idle" /\ guard = <<>> /\ owner = [f \in Frames |-> "free"]
      /\ DEVICE = <<>> /\ inits = 0 /\ result = "none"
  BY DEF Init, InitDisk
<1>2. /\ "idle" \notin Full /\ "idle" \notin Driven /\ "idle" \notin Featured /\ "idle" \notin On
      /\ "idle" \notin Ringed /\ "idle" \notin Rung /\ "idle" \notin Bound
      /\ "idle" # "enable" /\ "idle" # "commit" /\ "idle" # "walk" /\ "none" # "Capabilities"
  BY SMT DEF Driven, Featured, Full, On, Ringed, Rung, Bound
<1>3. MemInv
  <2>1. <<>> \in Seq(Frames) /\ Len(<<>>) <= 3 /\ {<<>>[i] : i \in DOMAIN <<>>} = {}
    BY SMT
  <2>2. Owned("guard") = {} /\ Owned("driver") = {}
    <3>1. \A f \in Frames : owner[f] # "guard" /\ owner[f] # "driver"
      BY <1>1
    <3> QED
      BY <3>1 DEF Owned
  <2>3. Freed = {}
    BY <1>1, <2>1 DEF Freed
  <2>4. owner \in [Frames -> {"free", "guard", "driver", "other"}]
    BY <1>1
  <2> QED
    BY <1>1, <1>2, <2>1, <2>2, <2>3, <2>4, ZenonT(60) DEF MemInv
<1>4. /\ dev.latched.enabled = FALSE /\ dev.sizing = FALSE
      /\ dev.queue = OffQueue /\ dev.msix = [entry |-> NoVector, enabled |-> FALSE]
  BY <1>1 DEF OffQueue
<1>5. DevShape(dev)
  BY <1>1, <1>4 DEF DevShape, OffQueue
<1>6. LatchInv /\ StatusInv /\ WireInv /\ LiveInv
  BY <1>1, <1>2, <1>4, <1>5 DEF LatchInv, StatusInv, WireInv, LiveInv
<1>7. CallInv
  <2>1. inits \in Nat
    BY <1>1, SMTT(40)
  <2> QED
    BY <1>1, <1>2, <2>1 DEF CallInv
<1> QED
  BY <1>3, <1>6, <1>7 DEF DiskInv

\* block::init loses no frame, whatever the device answers and whoever else allocates, and
\* the memory behind a queue the device may read is held and zeroed, except after a call
\* that failed once the queue was on, until the device's next reset.
THEOREM RingsOwned == Spec => []RingsAreOwned
<1>1. Init => DiskInv
  BY DiskStart, SMT
<1>2. DiskInv /\ [Next]_vars => DiskInv'
  BY DiskStep, SMT
<1>3. DiskInv => RingsAreOwned
  <2>1. SUFFICES ASSUME MemInv, LatchInv, LiveInv
                 PROVE  RingsAreOwned
    BY DEF DiskInv
  <2>2. "idle" \notin Featured /\ \A s \in On : s \in Full
    BY SMT DEF Featured, Full, On
  <2>3. step = "idle" => guard = <<>>
    BY <2>1, <2>2 DEF MemInv
  <2>4. ASSUME dev.latched.enabled, dev.latched.ring \notin lateFail
        PROVE  dev.latched.ring \in (Owned("guard") \cup Owned("driver")) \cap zeroed
    <3>1. CASE step \in On
      <4>1. dev.latched.ring = guard[1] /\ Len(guard) = 3 /\ guard \in Seq(Frames)
        <5>1. dev.latched = [ring |-> guard[1], vector |-> 0, enabled |-> TRUE]
          BY <2>1, <3>1 DEF LatchInv
        <5>2. step \in Full
          BY <2>2, <3>1
        <5>3. Len(guard) = 3 /\ guard \in Seq(Frames)
          BY <2>1, <5>2 DEF MemInv
        <5>4. dev.latched.ring = guard[1]
          BY <5>1, SMTT(40)
        <5> QED
          BY <5>3, <5>4
      <4>2. 1 \in DOMAIN guard
        BY <4>1, SMT
      <4>3. guard[1] \in Freed
        BY <4>2 DEF Freed
      <4> QED
        BY <2>1, <2>2, <3>1, <4>1, <4>3 DEF MemInv
    <3>2. CASE step \notin On
      <4>1. DEVICE # <<>>
        BY <2>1, <2>4, <3>2 DEF LatchInv
      <4>2. dev.latched.ring = DEVICE[1] /\ Len(DEVICE) = 3 /\ DEVICE \in Seq(Frames)
        <5>1. dev.latched = [ring |-> DEVICE[1], vector |-> 0, enabled |-> TRUE] /\ Len(DEVICE) = 3
          BY <2>1, <4>1 DEF LiveInv
        <5>2. DEVICE \in Seq(Frames)
          BY <2>1 DEF MemInv
        <5>3. dev.latched.ring = DEVICE[1]
          BY <5>1, SMTT(40)
        <5> QED
          BY <5>1, <5>2, <5>3
      <4>3. 1 \in DOMAIN DEVICE
        BY <4>2, SMT
      <4> QED
        BY <2>1, <4>1, <4>2, <4>3 DEF MemInv, LiveInv
    <3> QED
      BY <3>1, <3>2
  <2> QED
    BY <2>1, <2>3, <2>4 DEF RingsAreOwned, MemInv
<1> QED
  BY <1>1, <1>2, <1>3, PTL DEF Spec

\* A disk that block::init brought up answers on the completion vector with its own ring,
\* and a capability list that ends is never the reason to refuse one.
THEOREM LiveAnswers == Spec => []LiveDiskAnswers
<1>1. Init => DiskInv
  BY DiskStart, SMT
<1>2. DiskInv /\ [Next]_vars => DiskInv'
  BY DiskStep, SMT
<1>3. DiskInv => LiveDiskAnswers
  <2>1. SUFFICES ASSUME WireInv, LiveInv, CallInv
                 PROVE  LiveDiskAnswers
    BY DEF DiskInv
  <2>2. step = "idle" => dev.sizing = FALSE
    BY <2>1 DEF WireInv
  <2> QED
    BY <2>1, <2>2 DEF LiveInv, CallInv, LiveDiskAnswers
<1> QED
  BY <1>1, <1>2, <1>3, PTL DEF Spec
=============================================================================
