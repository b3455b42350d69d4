----------------------------- MODULE MCProcess -----------------------------
(***************************************************************************)
(* Two processes on two processors.  Pages of four bytes, 32 addresses; p   *)
(* is loaded from a well-formed image and from ones each check refuses, q   *)
(* from one that is only a stack.                                           *)
(***************************************************************************)
EXTENDS Process, TLC

CONSTANTS p, q, c0, c1

CpuSymmetry == Permutations(CPUs)

Seg(vaddr, filesz, memsz, w, x, offset) ==
    [load |-> TRUE, w |-> w, x |-> x, offset |-> offset, vaddr |-> vaddr, filesz |-> filesz, memsz |-> memsz]
Note == [Seg(0, 0, 0, FALSE, FALSE, 0) EXCEPT !.load = FALSE]
Image(ph) == [len |-> 20, ident |-> "elf64 x86-64 exec", phoff |-> 2, phentsize |-> 2, ph |-> ph]
Text(vaddr, n) == Seg(vaddr, n, n, FALSE, TRUE, 8)
Data(vaddr, filesz, memsz) == Seg(vaddr, filesz, memsz, TRUE, FALSE, 14)

\* Two segments share a page and two bytes; a third has zeroed space after its data.
Shared == Image(<<Text(4, 5), Note, Seg(7, 3, 3, FALSE, FALSE, 13), Data(13, 1, 3)>>)
\* Nothing but a stack: whatever the other process maps is foreign to this one.
Bare == Image(<<Note>>)
Refused == {
    Image(<<Text(4, 5), Data(9, 1, 2)>>),                    \* one page, write and execute
    Image(<<Text(4, 2), Seg(24, 1, 1, FALSE, TRUE, 8)>>),    \* kernel half
    Image(<<Data(2, 1, 1)>>),                                \* null page
    Image(<<Data(29, 1, 2)>>),                               \* its end rounds past the top
    Image(<<Data(16, 1, 1)>>),                               \* where the stack goes
    Image(<<Data(8, 3, 2)>>), Image(<<Seg(8, 5, 5, TRUE, FALSE, 30)>>),
    Image(<<Seg(30, 1, 4, TRUE, FALSE, 8)>>),
    [Image(<<Text(4, 1), Note>>) EXCEPT !.phoff = 17], [Image(<<Note>>) EXCEPT !.phentsize = 1],
    [Image(<<>>) EXCEPT !.len = 1], [Image(<<>>) EXCEPT !.ident = "NotExecutable"] }
MCFiles == p :> ({Shared} \cup Refused) @@ q :> {Bare}
\* Zero and MAX_WRITE bytes included.
MCWrites == {<<5, 2>>, <<5, 4>>, <<23, 2>>, <<18, 4>>, <<12, 8>>, <<6, 9>>, <<31, 4>>, <<31, 0>>}
=============================================================================
