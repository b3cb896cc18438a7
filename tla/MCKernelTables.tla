---------------------------- MODULE MCKernelTables ----------------------------
(***************************************************************************)
(* The layout of a small kernel for KernelTables.                          *)
(***************************************************************************)
EXTENDS KernelTables

At(at, size) == [at |-> at, size |-> size]

MCKernel == At(0, 64)
MCHeap == At(16, 36)
MCMagic == At(8, 4)

ByTable(handlers, process, threads, events) ==
  [k \in Tables |-> CASE k = "HANDLERS" -> handlers [] k = "PROCESS" -> process
                      [] k = "THREADS" -> threads [] k = "EVENTS" -> events]

MCSizeOf == ByTable(4, 4, 8, 4)
MCDefaults == ByTable(1, 1, 1, 1)
MCArenas == {At(100, 8)}
MCMoves == [k \in Counted |-> IF k = "THREADS" THEN {At(200, 16)} ELSE {At(300, 10)}]

(* It lies over the magic bytes and reaches into the heap.                 *)
MCForeigns == {ByTable(At(4, 8), At(16, 4), At(20, 8), At(12, 4))}
=============================================================================
