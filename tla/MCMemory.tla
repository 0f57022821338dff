------------------------------ MODULE MCMemory ------------------------------
(* A small machine for Memory: three processes and 32-byte pages.          *)
EXTENDS Memory

Seg(vaddr, memsz, filesz, short) ==
    [vaddr |-> vaddr, memsz |-> memsz, filesz |-> filesz, short |-> short]

\* A program of one page, one of two segments whose second is cut short in
\* the file, one that leaves no room for its stack, one that
\* does not fit at all, and one with a header that makes no sense.
SomePrograms ==
    { <<Seg(0, 20, 20, FALSE)>>,
      <<Seg(0, 32, 10, FALSE), Seg(32, 8, 8, TRUE)>>,
      <<Seg(0, 70, 70, FALSE)>>,
      <<Seg(96, 40, 8, FALSE)>>,
      <<Seg(0, 8, 9, FALSE)>> }

\* No argument, and arguments that fill more than the stack page.
SomeArgvs == { <<>>, <<3, 9>> }

Increments == {40, -40, -96}
=============================================================================
