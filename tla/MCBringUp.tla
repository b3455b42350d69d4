----------------------------- MODULE MCBringUp ------------------------------
(* Three processors and a handful of firmware tables; devices whose capability  *)
(* lists take every shape three places allow, and well-formed lists whose bodies *)
(* are flawed in one place.                                                     *)
EXTENDS BringUp

Straight == [c \in CPUs |-> c]
MCFirmwares ==
    {[answered |-> TRUE, apic |-> Straight, id |-> Straight, starts |-> s] : s \in {{1, 2}, {1}}}
    \cup {[answered |-> FALSE, apic |-> Straight, id |-> Straight, starts |-> {}],
          [answered |-> TRUE, apic |-> [Straight EXCEPT ![2] = MAX_CPUS], id |-> Straight, starts |-> {1, 2}],
          [answered |-> TRUE, apic |-> Straight, id |-> [Straight EXCEPT ![2] = MAX_CPUS], starts |-> {1, 2}],
          [answered |-> TRUE, apic |-> Straight, id |-> [Straight EXCEPT ![1] = 0], starts |-> {1}]}

Kinds == <<"common", "notify", "msix">>
Bodies(flaws) == [o \in Offsets |-> [kind |-> Kinds[o], flaw |-> flaws[o]]]
Sound == [o \in Offsets |-> "none"]
Chain == [o \in Offsets |-> (o + 1) % 4]
MCDevices ==
    {[id |-> "modern", head |-> h, next |-> n, body |-> Bodies(Sound)] :
        h \in Pointers, n \in [Offsets -> Pointers]}
    \cup {[id |-> i, head |-> 1, next |-> Chain, body |-> Bodies(Sound)] : i \in {"legacy", "absent"}}
    \cup {[id |-> "modern", head |-> 1, next |-> Chain, body |-> Bodies([Sound EXCEPT ![o] = f])] :
        o \in {1, 2}, f \in {"BadBar", "WindowTooLarge", "NotMemory", "Short"}}
    \cup {[id |-> "modern", head |-> 1, next |-> Chain, body |-> Bodies([Sound EXCEPT ![3] = f])] :
        f \in {"NoMsix", "MsixOutsideBar"}}
=============================================================================
