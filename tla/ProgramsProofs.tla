---------------------------- MODULE ProgramsProofs ----------------------------
(***************************************************************************)
(* Proofs about Programs: types, that its contexts form a call stack, that *)
(* the disc's tables find every file, and that what runs was asked for.    *)
(***************************************************************************)
EXTENDS ProgramsRefinement, FiniteSetTheorems, SequenceTheorems, TLAPS

Depth == Len(calls) + 1

(* Contexts of one activation.                                             *)
Same(c, d) == c.frame = d.frame /\ c.s0 = d.s0 /\ c.prog = d.prog

(* The activations are distinct and in their order.                        *)
Ordered ==
  /\ \A k \in 1 .. Depth : Stack[k].frame <= frames
  /\ \A k, l \in 1 .. Depth : k < l => Stack[k].frame < Stack[l].frame

(* A descriptor that is still an activation's own holds its caller's       *)
(* context, and the activation's s0 is the descriptor.                     *)
OwnersSaved ==
  \A h \in AllHeaders :
    /\ owner[h] <= frames
    /\ \A k \in 1 .. Depth : owner[h] = Stack[k].frame =>
         k > 1 /\ Stack[k].s0 = h /\ header[h].saved = Stack[k - 1]

(* A buffer set by an activation has its s0 and its program.               *)
MarksSaved ==
  \A b \in Buffers : jmpbuf[b] # NoContext =>
    /\ jmpbuf[b].frame <= frames
    /\ \A k \in 1 .. Depth : jmpbuf[b].frame = Stack[k].frame => Same(jmpbuf[b], Stack[k])

IInv == TypeOK /\ Ordered /\ OwnersSaved /\ MarksSaved
-----------------------------------------------------------------------------
(* What the drive holds is a program or none.                              *)
LEMMA ProgramAtType ==
  ASSUME disc \in Discs, NEW s
  PROVE  ProgramAt(s) \in Programs \cup {NoProgram}
BY DEF ProgramAt, Programs

LEMMA ProgramAskedType ==
  ASSUME disc \in Discs, NEW path
  PROVE  ProgramAsked(path) \in Programs \cup {NoProgram}
<1>1. AskedFor(path) \subseteq Programs
  BY DEF AskedFor, Programs
<1> QED BY <1>1 DEF ProgramAsked

LEMMA BootAskedType ==
  ASSUME disc \in Discs PROVE BootAsked \in Programs
<1>1. PICK f \in Files[disc] : ~f.dir /\ f.path = psxFs_Canonicalize(Exe(disc))
  BY DiscsAssumption
<1>2. [disc |-> disc, start |-> f.start] \in Programs
  BY <1>1 DEF Programs
<1>3. \E p \in Programs : \E g \in Files[disc] :
        ~g.dir /\ g.path = psxFs_Canonicalize(Exe(disc)) /\ p = [disc |-> disc, start |-> g.start]
  BY <1>1, <1>2
<1> QED BY <1>3 DEF BootAsked

LEMMA CachedType ==
  ASSUME disc \in Discs, fs.disc \in Discs, fs.byPath \in Tables[fs.disc], NEW f \in Cached
  PROVE  f.disc \in Discs /\ f.byPath \in Tables[f.disc]
BY DEF Cached

LEMMA BootContextType ==
  ASSUME disc \in Discs, NEW t, NEW n \in 1 .. MaxFrames
  PROVE  BootContext(t, n) \in Contexts
BY ProgramAtType, SizesAssumption DEF BootContext, Contexts, Places

(* The stack, in terms of its parts.                                       *)
LEMMA StackParts ==
  ASSUME NEW c \in Seq(Contexts), NEW r \in Contexts
  PROVE  /\ Len(c) \in Nat
         /\ Append(c, r) \in Seq(Contexts)
         /\ Len(Append(c, r)) = Len(c) + 1
         /\ \A i \in 1 .. Len(c) : Append(c, r)[i] = c[i] /\ c[i] \in Contexts
         /\ Append(c, r)[Len(c) + 1] = r
BY LenProperties, ElementOfSeq, AppendProperties

(* A prefix of the callers.                                                *)
LEMMA Prefix ==
  ASSUME NEW c \in Seq(Contexts), NEW k \in 1 .. Len(c) + 1
  PROVE  /\ SubSeq(c, 1, k - 1) \in Seq(Contexts)
         /\ Len(SubSeq(c, 1, k - 1)) = k - 1
         /\ \A i \in 1 .. k - 1 : SubSeq(c, 1, k - 1)[i] = c[i]
<1>1. Len(c) \in Nat /\ \A i \in 1 .. k - 1 : c[i] \in Contexts
  BY LenProperties, ElementOfSeq
<1> QED BY <1>1, SubSeqProperties
(* The first k - 1 activations stay, the CPU runs the one above them.      *)
CutTo(k) ==
  /\ calls' \in Seq(Contexts) /\ regs' \in Contexts
  /\ Depth' = k
  /\ \A i \in 1 .. k - 1 : Stack'[i] = Stack[i]
  /\ Stack'[k] = regs'

LEMMA Unwound ==
  ASSUME calls \in Seq(Contexts), regs \in Contexts, regs' \in Contexts,
         NEW k \in 1 .. Depth, calls' = SubSeq(calls, 1, k - 1)
  PROVE  CutTo(k)
<1>1. k \in 1 .. Len(calls) + 1 /\ Len(calls) \in Nat
  BY LenProperties DEF Depth
<1>2. calls' \in Seq(Contexts) /\ Len(calls') = k - 1
        /\ \A i \in 1 .. k - 1 : calls'[i] = calls[i]
  BY <1>1, Prefix
<1> QED BY <1>1, <1>2, StackParts DEF CutTo, Stack, Depth

LEMMA Stayed ==
  ASSUME calls \in Seq(Contexts), regs \in Contexts, regs' \in Contexts, UNCHANGED calls
  PROVE  CutTo(Depth)
BY StackParts, LenProperties DEF CutTo, Stack, Depth

LEMMA Pushed ==
  ASSUME calls \in Seq(Contexts), regs \in Contexts, regs' \in Contexts,
         calls' = Append(calls, regs)
  PROVE  CutTo(Depth + 1) /\ Stack'[Depth] = regs
<1>1. calls' \in Seq(Contexts) /\ Len(calls') = Len(calls) + 1 /\ calls' = Stack
  BY StackParts DEF Stack
<1> QED BY <1>1, StackParts DEF CutTo, Stack, Depth

LEMMA Restarted ==
  ASSUME regs' \in Contexts, calls' = <<>>
  PROVE  CutTo(1)
<1>1. calls' \in Seq(Contexts) /\ Len(calls') = 0
  BY EmptySeq
<1> QED BY <1>1, StackParts DEF CutTo, Stack, Depth
-----------------------------------------------------------------------------
LEMMA InitInv == Init => IInv
<1> SUFFICES ASSUME Init PROVE IInv
  OBVIOUS
<1>1. PICK table \in Tables[disc], version \in Versions :
        /\ fs = [disc |-> disc, byPath |-> table]
        /\ hle = [version |-> version, pwd |-> NoPwd]
        /\ regs = BootContext(table, 1)
  BY DEF Init
<1>2. regs \in Contexts /\ regs.frame = 1
  BY <1>1, BootContextType, SizesAssumption DEF Init, BootContext
<1>3. calls \in Seq(Contexts) /\ Len(calls) = 0
  BY EmptySeq DEF Init
<1>4. Depth = 1 /\ Stack[1] = regs
  BY <1>2, <1>3, StackParts DEF Depth, Stack
<1>5. TypeOK
  BY <1>1, <1>2, <1>3, BootAskedType, SizesAssumption DEF TypeOK, Init, Empty, AskedAtBoot
<1>6. Ordered /\ OwnersSaved /\ MarksSaved
  BY <1>2, <1>4 DEF Ordered, OwnersSaved, MarksSaved, Init
<1> QED BY <1>5, <1>6 DEF IInv

(* What Loads and Executes leave: types.                                   *)
LEMMA LoadsType ==
  ASSUME TypeOK, NEW path \in Paths, NEW h \in AllHeaders, Loads(path, h)
  PROVE  /\ fs'.disc \in Discs /\ fs'.byPath \in Tables[fs'.disc]
         /\ asked' \in [AllHeaders \cup {NoHeader} -> Programs \cup {NoProgram}]
         /\ LoadedInto(path, h) \in [AllHeaders ->
              [prog : Programs \cup {NoProgram}, saved : Contexts \cup {NoContext}]]
<1>1. fs' = fs \/ fs' \in Cached
  BY DEF Loads
<1>2. fs'.disc \in Discs /\ fs'.byPath \in Tables[fs'.disc]
  BY <1>1, CachedType DEF TypeOK
<1>3. ProgramAsked(path) \in Programs \cup {NoProgram}
  BY ProgramAskedType DEF TypeOK
<1>4. ProgramAt(SectorFor(path)) \in Programs \cup {NoProgram}
  BY ProgramAtType DEF TypeOK
<1>5. asked' \in [AllHeaders \cup {NoHeader} -> Programs \cup {NoProgram}]
  BY <1>3 DEF Loads, TypeOK
<1>6. LoadedInto(path, h) \in [AllHeaders ->
        [prog : Programs \cup {NoProgram}, saved : Contexts \cup {NoContext}]]
  BY <1>4 DEF LoadedInto, TypeOK
<1> QED BY <1>2, <1>5, <1>6

LEMMA ExecutesType ==
  ASSUME TypeOK, NEW h \in AllHeaders,
         NEW ds \in [AllHeaders ->
           [prog : Programs \cup {NoProgram}, saved : Contexts \cup {NoContext}]],
         Executes(ds, h)
  PROVE  /\ header' \in [AllHeaders ->
              [prog : Programs \cup {NoProgram}, saved : Contexts \cup {NoContext}]]
         /\ regs' \in Contexts /\ calls' \in Seq(Contexts)
         /\ owner' \in [AllHeaders -> 0 .. MaxFrames] /\ frames' \in 1 .. MaxFrames
<1>1. frames + 1 \in 1 .. MaxFrames /\ 0 \in Places
  BY SizesAssumption DEF TypeOK, Executes, Places
<1>2. ds[h].prog \in Programs \cup {NoProgram}
  OBVIOUS
<1>3. regs' \in Contexts
  BY <1>1, <1>2 DEF Executes, Contexts
<1>4. calls' \in Seq(Contexts)
  BY StackParts DEF Executes, TypeOK
<1>5. header' \in [AllHeaders ->
        [prog : Programs \cup {NoProgram}, saved : Contexts \cup {NoContext}]]
  BY DEF Executes, TypeOK
<1> QED BY <1>1, <1>3, <1>4, <1>5 DEF Executes, TypeOK
-----------------------------------------------------------------------------
(* Types of the stack.                                                     *)
LEMMA StackType ==
  ASSUME TypeOK
  PROVE  /\ Depth \in Nat \ {0} /\ Stack[Depth] = regs
         /\ \A i \in 1 .. Depth : Stack[i] \in Contexts /\ Stack[i].frame \in Nat \ {0}
         /\ \A i \in 1 .. Depth - 1 : Stack[i] = calls[i]
<1>1. Len(calls) \in Nat
  BY LenProperties DEF TypeOK
<1>2. /\ Depth \in Nat \ {0} /\ Stack[Depth] = regs
      /\ \A i \in 1 .. Depth - 1 : Stack[i] = calls[i] /\ calls[i] \in Contexts
  BY <1>1, StackParts DEF TypeOK, Stack, Depth
<1>3. \A i \in 1 .. Depth : Stack[i] \in Contexts
  BY <1>2 DEF TypeOK
<1> QED BY <1>2, <1>3, SizesAssumption DEF Contexts

(* A step that unwinds to an activation, or stays, and goes on in it.      *)
LEMMA SameActivation ==
  ASSUME IInv, NEW k \in 1 .. Depth, CutTo(k), UNCHANGED frames,
         Same(regs', Stack[k])
  PROVE  /\ Ordered'
         /\ \A i \in 1 .. k : Same(Stack'[i], Stack[i])
         /\ (UNCHANGED jmpbuf => MarksSaved')
<1>1. Depth \in Nat \ {0} /\ k \in Nat \ {0}
  BY StackType DEF IInv
<1>2. \A i \in 1 .. k : Same(Stack'[i], Stack[i])
  BY <1>1 DEF CutTo, Same
<1>3. Ordered'
  BY <1>1, <1>2, StackType DEF IInv, Ordered, CutTo, Same
<1>4. ASSUME UNCHANGED jmpbuf PROVE MarksSaved'
  BY <1>1, <1>2, <1>4 DEF IInv, MarksSaved, CutTo, Same
<1> QED BY <1>2, <1>3, <1>4

LEMMA OwnersKept ==
  ASSUME IInv, NEW k \in 1 .. Depth, CutTo(k), UNCHANGED frames,
         Same(regs', Stack[k]),
         \A h \in AllHeaders :
           (owner'[h] = owner[h] /\ header'[h].saved = header[h].saved) \/ owner'[h] = 0
  PROVE  OwnersSaved'
<1>1. Depth \in Nat \ {0} /\ k \in Nat \ {0}
  BY StackType DEF IInv
<1>2. \A i \in 1 .. k : /\ Stack'[i].frame = Stack[i].frame /\ Stack'[i].s0 = Stack[i].s0
                        /\ Stack[i].frame # 0
  BY <1>1, SameActivation, StackType DEF IInv, Same
<1>3. frames \in Nat
  BY DEF IInv, TypeOK
<1>4. SUFFICES ASSUME NEW h \in AllHeaders
               PROVE  /\ owner'[h] <= frames'
                      /\ \A i \in 1 .. k : owner'[h] = Stack'[i].frame =>
                           i > 1 /\ Stack'[i].s0 = h /\ header'[h].saved = Stack'[i - 1]
  BY DEF OwnersSaved, CutTo
<1>5. CASE owner'[h] = 0
  BY <1>2, <1>3, <1>5
<1>6. CASE owner'[h] = owner[h] /\ header'[h].saved = header[h].saved
  <2>1. owner'[h] <= frames'
    BY <1>6 DEF IInv, OwnersSaved
  <2>2. ASSUME NEW i \in 1 .. k, owner'[h] = Stack'[i].frame
        PROVE  i > 1 /\ Stack'[i].s0 = h /\ header'[h].saved = Stack'[i - 1]
    <3>1. i > 1 /\ Stack[i].s0 = h /\ header[h].saved = Stack[i - 1]
      BY <1>1, <1>2, <1>6, <2>2 DEF IInv, OwnersSaved
    <3>2. i - 1 \in 1 .. k - 1
      BY <1>1, <2>2, <3>1
    <3> QED BY <1>2, <1>6, <3>1, <3>2 DEF CutTo
  <2> QED BY <2>1, <2>2
<1> QED BY <1>4, <1>5, <1>6
(* A step that calls a program.                                            *)
LEMMA ExecutesKeeps ==
  ASSUME IInv, NEW h \in AllHeaders,
         NEW ds \in [AllHeaders ->
           [prog : Programs \cup {NoProgram}, saved : Contexts \cup {NoContext}]],
         \A g \in AllHeaders \ {h} : ds[g].saved = header[g].saved,
         Executes(ds, h), UNCHANGED jmpbuf
  PROVE  /\ CutTo(Depth + 1) /\ Stack'[Depth] = regs
         /\ Ordered' /\ OwnersSaved' /\ MarksSaved'
<1>1. /\ calls \in Seq(Contexts) /\ regs \in Contexts /\ regs' \in Contexts
      /\ frames \in Nat /\ owner \in [AllHeaders -> Nat] /\ frames' = frames + 1
  <2>1. regs' \in Contexts
    BY ExecutesType DEF IInv
  <2>2. calls \in Seq(Contexts) /\ regs \in Contexts /\ frames \in 1 .. MaxFrames
          /\ owner \in [AllHeaders -> 0 .. MaxFrames]
    BY DEF IInv, TypeOK
  <2> QED BY <2>1, <2>2, SizesAssumption DEF Executes
<1>2. CutTo(Depth + 1) /\ Stack'[Depth] = regs
  BY <1>1, Pushed DEF Executes
<1>3. /\ Depth \in Nat \ {0} /\ Depth' = Depth + 1
      /\ \A i \in 1 .. Depth : Stack'[i] = Stack[i]
      /\ Stack'[Depth + 1] = regs'
      /\ regs'.frame = frames + 1 /\ regs'.s0 = h
      /\ \A i \in 1 .. Depth : Stack[i].frame \in Nat /\ Stack[i].frame <= frames
  BY <1>2, StackType DEF CutTo, Executes, IInv, Ordered
<1>4. Ordered'
  <2>1. \A i \in 1 .. Depth + 1 : i \in 1 .. Depth \/ i = Depth + 1
    BY <1>3
  <2>2. ASSUME NEW k \in 1 .. Depth + 1
        PROVE  Stack'[k].frame <= frames'
    <3>1. CASE k \in 1 .. Depth
      <4>1. Stack'[k].frame \in Nat /\ Stack'[k].frame <= frames
        BY <1>3, <3>1
      <4> QED BY <1>1, <4>1
    <3>2. CASE k = Depth + 1
      BY <1>1, <1>3, <3>2
    <3> QED BY <2>1, <3>1, <3>2
  <2>3. \A k, l \in 1 .. Depth : k < l => Stack'[k].frame < Stack'[l].frame
    BY <1>3 DEF IInv, Ordered
  <2>4. \A k \in 1 .. Depth : Stack'[k].frame < Stack'[Depth + 1].frame
    BY <1>1, <1>3
  <2>5. \A k, l \in 1 .. Depth + 1 : k < l => Stack'[k].frame < Stack'[l].frame
    BY <1>3, <2>1, <2>3, <2>4
  <2> QED BY <1>3, <2>2, <2>5 DEF Ordered
<1>5. \A b \in Buffers : jmpbuf[b] # NoContext => jmpbuf[b].frame \in Nat
  BY SizesAssumption DEF IInv, TypeOK, Contexts
<1>6. MarksSaved'
  <2>1. SUFFICES ASSUME NEW b \in Buffers, jmpbuf[b] # NoContext
                 PROVE  /\ jmpbuf[b].frame <= frames'
                        /\ \A k \in 1 .. Depth + 1 : jmpbuf[b].frame = Stack'[k].frame =>
                             Same(jmpbuf[b], Stack'[k])
    BY <1>3 DEF MarksSaved
  <2>2. jmpbuf[b].frame \in Nat /\ jmpbuf[b].frame <= frames
          /\ \A k \in 1 .. Depth : jmpbuf[b].frame = Stack[k].frame => Same(jmpbuf[b], Stack[k])
    BY <1>5, <2>1 DEF IInv, MarksSaved
  <2>3. \A k \in 1 .. Depth + 1 : jmpbuf[b].frame = Stack'[k].frame => k \in 1 .. Depth
    BY <1>1, <1>3, <2>2
  <2>4. jmpbuf[b].frame <= frames'
    BY <1>1, <2>2
  <2>5. ASSUME NEW k \in 1 .. Depth + 1, jmpbuf[b].frame = Stack'[k].frame
        PROVE  Same(jmpbuf[b], Stack'[k])
    <3>1. k \in 1 .. Depth
      BY <2>3, <2>5
    <3>2. Stack'[k] = Stack[k]
      BY <1>3, <3>1
    <3> QED BY <2>2, <2>5, <3>1, <3>2
  <2> QED BY <2>4, <2>5
<1>7. ASSUME NEW g \in AllHeaders
      PROVE  /\ owner'[g] <= frames'
             /\ \A i \in 1 .. Depth + 1 : owner'[g] = Stack'[i].frame =>
                  i > 1 /\ Stack'[i].s0 = g /\ header'[g].saved = Stack'[i - 1]
  <2>1. CASE g = h
    <3>1. owner'[g] = frames + 1 /\ header'[g].saved = regs
      BY <1>1, <2>1 DEF Executes
    <3>2. ASSUME NEW i \in 1 .. Depth + 1, owner'[g] = Stack'[i].frame
          PROVE  i = Depth + 1
      <4>1. ASSUME i \in 1 .. Depth PROVE FALSE
        <5>1. Stack'[i].frame \in Nat /\ Stack'[i].frame <= frames
          BY <1>3, <4>1
        <5> QED BY <1>1, <3>1, <3>2, <5>1
      <4> QED BY <1>3, <4>1
    <3> QED BY <1>1, <1>2, <1>3, <2>1, <3>1, <3>2
  <2>2. CASE g # h
    <3>1. owner'[g] = owner[g] /\ header'[g].saved = header[g].saved /\ owner[g] <= frames
            /\ owner[g] \in Nat
      BY <1>1, <2>2 DEF Executes, IInv, OwnersSaved
    <3>2. \A i \in 1 .. Depth + 1 : owner'[g] = Stack'[i].frame => i \in 1 .. Depth
      BY <1>1, <1>3, <3>1
    <3>3. \A i \in 1 .. Depth : i > 1 => i - 1 \in 1 .. Depth
      BY <1>3
    <3>4. \A i \in 1 .. Depth : owner[g] = Stack[i].frame =>
            i > 1 /\ Stack[i].s0 = g /\ header[g].saved = Stack[i - 1]
      BY DEF IInv, OwnersSaved
    <3> QED BY <1>1, <1>3, <3>1, <3>2, <3>3, <3>4
  <2> QED BY <2>1, <2>2
<1>8. OwnersSaved'
  BY <1>3, <1>7 DEF OwnersSaved
<1> QED BY <1>2, <1>4, <1>6, <1>8

(* A reset.                                                                *)
LEMMA BootKeeps ==
  ASSUME IInv, psxBiosLoadExecCdrom
  PROVE  CutTo(1) /\ regs'.frame = frames + 1 /\ IInv'
<1>1. frames \in Nat /\ frames + 1 \in 1 .. MaxFrames /\ disc' = disc /\ disc \in Discs
  BY SizesAssumption DEF IInv, TypeOK, psxBiosLoadExecCdrom
<1>2. regs' \in Contexts /\ regs'.frame = frames + 1
  BY <1>1, BootContextType DEF psxBiosLoadExecCdrom, BootContext
<1>3. CutTo(1)
  BY <1>2, Restarted DEF psxBiosLoadExecCdrom
<1>4. fs'.disc \in Discs /\ fs'.byPath \in Tables[fs'.disc]
  BY CachedType DEF IInv, TypeOK, psxBiosLoadExecCdrom
<1>5. TypeOK'
  BY <1>1, <1>2, <1>3, <1>4, BootAskedType, SizesAssumption
  DEF TypeOK, psxBiosLoadExecCdrom, CutTo, Empty, AskedAtBoot
<1>6. Ordered' /\ OwnersSaved' /\ MarksSaved'
  BY <1>1, <1>2, <1>3 DEF CutTo, Ordered, OwnersSaved, MarksSaved, psxBiosLoadExecCdrom
<1> QED BY <1>2, <1>3, <1>5, <1>6 DEF IInv

(* A return: the context restored is that of the caller.                   *)
LEMMA ReturnsToCaller ==
  ASSUME IInv, ExecRet
  PROVE  Depth > 1 /\ CutTo(Depth - 1) /\ regs' = Stack[Depth - 1]
<1>1. PICK h \in AllHeaders : owner[h] = regs.frame
  BY DEF ExecRet, MayReturn
<1>2. Depth \in Nat \ {0} /\ Stack[Depth] = regs
  BY StackType DEF IInv
<1>3. Depth > 1 /\ regs.s0 = h /\ header[h].saved = Stack[Depth - 1]
  BY <1>1, <1>2 DEF IInv, OwnersSaved
<1>4. regs' = Stack[Depth - 1] /\ regs' \in Contexts
  BY <1>2, <1>3, StackType DEF ExecRet, IInv
<1>5. calls' = SubSeq(calls, 1, (Depth - 1) - 1) /\ Depth - 1 \in 1 .. Depth
  BY <1>2, <1>3 DEF ExecRet, Depth, IInv, TypeOK
<1>6. calls \in Seq(Contexts) /\ regs \in Contexts
  BY DEF IInv, TypeOK
<1>7. CutTo(Depth - 1)
  BY <1>4, <1>5, <1>6, Unwound
<1> QED BY <1>3, <1>4, <1>7

(* A jump: the context restored is one of the activation's own.            *)
LEMMA JumpsToMark ==
  ASSUME IInv, NEW b \in Buffers, longjmp(b)
  PROVE  \E k \in 1 .. Depth : CutTo(k) /\ Same(regs', Stack[k])
<1>1. Len(Stack) = Depth /\ calls \in Seq(Contexts) /\ regs \in Contexts
  BY StackParts DEF IInv, TypeOK, Stack, Depth
<1>2. PICK k \in 1 .. Depth :
        Stack[k].frame = jmpbuf[b].frame /\ calls' = SubSeq(calls, 1, k - 1)
  BY <1>1 DEF longjmp
<1>3. regs' \in Contexts /\ regs' = jmpbuf[b] /\ jmpbuf[b] # NoContext
  BY DEF longjmp, IInv, TypeOK
<1>4. CutTo(k)
  BY <1>1, <1>2, <1>3, Unwound
<1>5. Same(regs', Stack[k])
  BY <1>2, <1>3 DEF IInv, MarksSaved
<1> QED BY <1>4, <1>5
-----------------------------------------------------------------------------
LEMMA NextInv == IInv /\ [Next]_vars => IInv'
<1> SUFFICES ASSUME IInv, [Next]_vars PROVE IInv'
  OBVIOUS
<1> USE DEF IInv
<1>0. /\ Depth \in 1 .. Depth /\ Stack[Depth] = regs /\ Depth \in Nat \ {0}
      /\ calls \in Seq(Contexts) /\ regs \in Contexts
  BY StackType DEF TypeOK
<1>1. CASE psxBiosLoadExecCdrom
  BY <1>1, BootKeeps
<1>2. ASSUME regs' \in Contexts, Same(regs', regs),
             UNCHANGED <<calls, frames, jmpbuf>>,
             \A h \in AllHeaders :
               (owner'[h] = owner[h] /\ header'[h].saved = header[h].saved) \/ owner'[h] = 0
      PROVE  Ordered' /\ OwnersSaved' /\ MarksSaved'
  BY <1>0, <1>2, Stayed, SameActivation, OwnersKept
<1>3. CASE Swap
  <2>1. TypeOK'
    BY <1>3 DEF Swap, TypeOK
  <2> QED BY <1>0, <1>2, <1>3, <2>1 DEF Swap, Same
<1>4. CASE Work
  <2>1. regs' \in Contexts /\ Same(regs', regs)
    <3>1. (regs.at + 1) % Period \in Places
      BY <1>0, SizesAssumption DEF Contexts, Places
    <3>2. regs' = [regs EXCEPT !.at = (regs.at + 1) % Period]
      BY <1>4 DEF Work
    <3> QED BY <1>0, <3>1, <3>2 DEF Contexts, Same
  <2>2. TypeOK'
    BY <1>4, <2>1 DEF Work, TypeOK
  <2> QED BY <1>2, <1>4, <2>1, <2>2 DEF Work
<1>5. ASSUME NEW path \in Directories, cd(path) PROVE IInv'
  <2>1. TypeOK'
    BY <1>5 DEF cd, TypeOK
  <2> QED BY <1>0, <1>2, <1>5, <2>1 DEF cd, Same
<1>6. ASSUME NEW path \in Paths, LoadExec(path) PROVE IInv'
  <2>1. Loads(path, ExecHeader) /\ Executes(LoadedInto(path, ExecHeader), ExecHeader)
          /\ ExecHeader \in AllHeaders /\ UNCHANGED <<disc, hle, jmpbuf>>
    BY <1>6 DEF LoadExec, AllHeaders
  <2>2. /\ fs'.disc \in Discs /\ fs'.byPath \in Tables[fs'.disc]
        /\ asked' \in [AllHeaders \cup {NoHeader} -> Programs \cup {NoProgram}]
        /\ LoadedInto(path, ExecHeader) \in [AllHeaders ->
             [prog : Programs \cup {NoProgram}, saved : Contexts \cup {NoContext}]]
    BY <2>1, LoadsType
  <2>3. \A g \in AllHeaders \ {ExecHeader} :
          LoadedInto(path, ExecHeader)[g].saved = header[g].saved
    BY DEF LoadedInto, TypeOK
  <2>4. Ordered' /\ OwnersSaved' /\ MarksSaved'
    BY <2>1, <2>2, <2>3, ExecutesKeeps
  <2>5. /\ header' \in [AllHeaders ->
             [prog : Programs \cup {NoProgram}, saved : Contexts \cup {NoContext}]]
        /\ regs' \in Contexts /\ calls' \in Seq(Contexts)
        /\ owner' \in [AllHeaders -> 0 .. MaxFrames] /\ frames' \in 1 .. MaxFrames
    BY <2>1, <2>2, ExecutesType
  <2>6. TypeOK'
    BY <2>1, <2>2, <2>5 DEF TypeOK
  <2> QED BY <2>4, <2>6
<1>7. ASSUME NEW path \in Paths, NEW h \in Headers, Load(path, h) PROVE IInv'
  <2>1. Loads(path, h) /\ h \in AllHeaders
    BY <1>7 DEF Load, AllHeaders
  <2>2. owner' \in [AllHeaders -> 0 .. MaxFrames]
    <3>1. owner' = owner \/ owner' = [owner EXCEPT ![h] = 0]
      BY <1>7 DEF Load
    <3>2. 0 \in 0 .. MaxFrames /\ owner \in [AllHeaders -> 0 .. MaxFrames]
      BY SizesAssumption DEF TypeOK
    <3> QED BY <3>1, <3>2
  <2>3. TypeOK'
    BY <1>7, <2>1, <2>2, LoadsType DEF Load, TypeOK
  <2>4. \A g \in AllHeaders :
          (owner'[g] = owner[g] /\ header'[g].saved = header[g].saved) \/ owner'[g] = 0
    BY <1>7 DEF Load, LoadedInto, TypeOK
  <2> QED BY <1>0, <1>2, <1>7, <2>3, <2>4 DEF Load, Same
<1>8. ASSUME NEW h \in Headers, Exec(h) PROVE IInv'
  <2>1. h \in AllHeaders /\ Executes(header, h) /\ UNCHANGED <<disc, fs, hle, jmpbuf, asked>>
          /\ header \in [AllHeaders ->
               [prog : Programs \cup {NoProgram}, saved : Contexts \cup {NoContext}]]
    BY <1>8 DEF Exec, AllHeaders, TypeOK
  <2>2. Ordered' /\ OwnersSaved' /\ MarksSaved'
    BY <2>1, ExecutesKeeps
  <2>3. /\ header' \in [AllHeaders ->
             [prog : Programs \cup {NoProgram}, saved : Contexts \cup {NoContext}]]
        /\ regs' \in Contexts /\ calls' \in Seq(Contexts)
        /\ owner' \in [AllHeaders -> 0 .. MaxFrames] /\ frames' \in 1 .. MaxFrames
    BY <2>1, ExecutesType
  <2>4. TypeOK'
    BY <2>1, <2>3 DEF TypeOK
  <2> QED BY <2>2, <2>4
<1>9. CASE ExecRet
  <2>1. Depth > 1 /\ CutTo(Depth - 1) /\ regs' = Stack[Depth - 1] /\ Depth - 1 \in 1 .. Depth
    BY <1>0, <1>9, ReturnsToCaller
  <2>2. TypeOK'
    BY <1>9, <2>1 DEF ExecRet, TypeOK, CutTo
  <2>3. UNCHANGED <<frames, jmpbuf, owner, header>>
    BY <1>9 DEF ExecRet
  <2> QED BY <2>1, <2>2, <2>3, SameActivation, OwnersKept DEF Same
<1>10. ASSUME NEW b \in Buffers, setjmp(b) PROVE IInv'
  <2>1. TypeOK'
    BY <1>0, <1>10 DEF setjmp, TypeOK
  <2>2. CutTo(Depth) /\ UNCHANGED <<calls, regs, frames, owner, header>>
    BY <1>0, <1>10, Stayed DEF setjmp
  <2>3. Ordered' /\ OwnersSaved'
    BY <1>0, <2>2, SameActivation, OwnersKept DEF Same
  <2>4. Depth' = Depth /\ \A k \in 1 .. Depth : Stack'[k] = Stack[k]
    BY <2>2 DEF Depth, Stack
  <2>5. regs.frame <= frames /\ \A k \in 1 .. Depth : regs.frame = Stack[k].frame => k = Depth
    <3>1. \A k \in 1 .. Depth : k # Depth => k < Depth
      BY <1>0
    <3>2. \A k \in 1 .. Depth : Stack[k].frame \in Nat
      BY StackType
    <3> QED BY <1>0, <3>1, <3>2 DEF Ordered
  <2>6. \A a \in Buffers : jmpbuf'[a] = jmpbuf[a] \/ jmpbuf'[a] = regs
    BY <1>10 DEF setjmp, TypeOK
  <2>7. MarksSaved'
    BY <1>0, <2>2, <2>4, <2>5, <2>6 DEF MarksSaved, Same
  <2> QED BY <2>1, <2>3, <2>7
<1>11. ASSUME NEW b \in Buffers, longjmp(b) PROVE IInv'
  <2>1. PICK k \in 1 .. Depth : CutTo(k) /\ Same(regs', Stack[k])
    BY <1>11, JumpsToMark
  <2>2. TypeOK'
    BY <1>11, <2>1 DEF longjmp, TypeOK, CutTo
  <2>3. UNCHANGED <<frames, jmpbuf, owner, header>>
    BY <1>11 DEF longjmp
  <2> QED BY <2>1, <2>2, <2>3, SameActivation, OwnersKept
<1>12. CASE UNCHANGED vars
  BY <1>0, <1>2, <1>12 DEF vars, TypeOK, Same
<1> QED
  BY <1>1, <1>3, <1>4, <1>5, <1>6, <1>7, <1>8, <1>9, <1>10, <1>11, <1>12 DEF Next

THEOREM Invariant == Spec => []IInv
BY InitInv, NextInv, PTL DEF Spec

(* Programs are loaded, started, left and jumped out of within the types:  *)
(* psxBios_Load, Exec, LoadExec, ExecRet, setjmp, longjmp, the boot.       *)
THEOREM TypeCorrect == Spec => []TypeOK
BY Invariant, PTL DEF IInv
-----------------------------------------------------------------------------
(* The call stack, and what steps make of it.                              *)
Activations == [frame : Nat, at : Nat]

ShownParts ==
  /\ Shown \in Seq(Activations) /\ Len(Shown) = Depth /\ DOMAIN Shown = 1 .. Depth
  /\ \A i \in 1 .. Depth : Shown[i] = Activation(Stack[i])

LEMMA ShownType == TypeOK => ShownParts
<1> SUFFICES ASSUME TypeOK PROVE ShownParts
  OBVIOUS
<1>1. Depth \in Nat /\ Depth = Len(calls) + 1
  BY StackType DEF Depth
<1>2. \A i \in 1 .. Depth : Activation(Stack[i]) \in Activations
  BY StackType, SizesAssumption DEF Contexts, Places, Activation, Activations
<1>3. Shown \in [1 .. Depth -> Activations]
  BY <1>1, <1>2 DEF Shown
<1>4. Shown \in Seq(Activations)
  BY <1>1, <1>3, SeqDef
<1>5. DOMAIN Shown = 1 .. Len(Shown) /\ Len(Shown) \in Nat
  BY <1>4, LenProperties
<1> QED BY <1>1, <1>3, <1>4, <1>5 DEF Shown, ShownParts

LEMMA ShownCut ==
  ASSUME TypeOK, TypeOK', NEW k \in 1 .. Depth + 1, CutTo(k)
  PROVE  Shown' = Append(SubSeq(Shown, 1, k - 1), Activation(regs'))
<1>1. /\ Depth \in Nat \ {0} /\ Depth' = k /\ k \in Nat \ {0}
      /\ \A i \in 1 .. k - 1 : Stack'[i] = Stack[i] /\ i \in 1 .. Depth
      /\ Stack'[k] = regs'
  BY StackType DEF CutTo
<1>2. /\ Shown' \in Seq(Activations) /\ Len(Shown') = k
      /\ \A i \in 1 .. k : Shown'[i] = Activation(Stack'[i])
  <2>1. ShownParts'
    BY ShownType, PTL
  <2> QED BY <1>1, <2>1 DEF ShownParts
<1>3. /\ Shown \in Seq(Activations) /\ \A i \in 1 .. k - 1 : Shown[i] \in Activations
      /\ \A i \in 1 .. k - 1 : Shown[i] = Activation(Stack[i])
  BY <1>1, ShownType, ElementOfSeq DEF ShownParts
<1> DEFINE cut == SubSeq(Shown, 1, k - 1)
<1>4. /\ cut \in Seq(Activations) /\ Len(cut) = k - 1
      /\ \A i \in 1 .. k - 1 : cut[i] = Shown[i]
  BY <1>1, <1>3, SubSeqProperties
<1>5. Activation(regs') \in Activations
  BY <1>1, <1>2, ElementOfSeq
<1> HIDE DEF cut
<1>6. /\ Append(cut, Activation(regs')) \in Seq(Activations)
      /\ Len(Append(cut, Activation(regs'))) = k
      /\ \A i \in 1 .. k - 1 : Append(cut, Activation(regs'))[i] = cut[i]
      /\ Append(cut, Activation(regs'))[k] = Activation(regs')
  BY <1>1, <1>4, <1>5, AppendProperties
<1>7. \A i \in 1 .. k : Shown'[i] = Append(cut, Activation(regs'))[i]
  BY <1>1, <1>2, <1>3, <1>4, <1>6
<1> QED BY <1>2, <1>6, <1>7, SeqEqual DEF cut

LEMMA InitShown == Init => Calls!Init
<1> SUFFICES ASSUME Init PROVE Calls!Init
  OBVIOUS
<1>1. TypeOK /\ IInv
  BY InitInv DEF IInv
<1>2. Len(calls) = 0 /\ Depth = 1 /\ Stack[1] = regs /\ regs.frame = 1 /\ regs.at = 0
  BY <1>1, StackType, EmptySeq DEF Init, BootContext, Depth
<1>3. Shown \in Seq(Activations) /\ Len(Shown) = 1 /\ Shown[1] = [frame |-> 1, at |-> 0]
  BY <1>1, <1>2, ShownType DEF ShownParts, Activation
<1>4. /\ <<[frame |-> 1, at |-> 0]>> \in Seq(Activations)
      /\ Len(<<[frame |-> 1, at |-> 0]>>) = 1
      /\ <<[frame |-> 1, at |-> 0]>>[1] = [frame |-> 1, at |-> 0]
  BY DEF Activations
<1>5. Shown = <<[frame |-> 1, at |-> 0]>>
  BY <1>3, <1>4, SeqEqual
<1> QED BY <1>1, <1>5 DEF Calls!Init, Init, Marks, Marked

LEMMA NextShown == IInv /\ IInv' /\ [Next]_vars => [Calls!Next]_(Calls!vars)
<1> SUFFICES ASSUME IInv, IInv', [Next]_vars PROVE [Calls!Next]_(Calls!vars)
  OBVIOUS
<1> USE DEF IInv
<1>0. /\ Depth \in Nat \ {0} /\ Depth \in 1 .. Depth /\ Stack[Depth] = regs
      /\ calls \in Seq(Contexts) /\ regs \in Contexts
      /\ ShownParts /\ Shown[Depth] = Activation(regs)
  BY StackType, ShownType DEF TypeOK, ShownParts
<1>1. ASSUME NEW k \in 1 .. Depth + 1, CutTo(k)
      PROVE  Shown' = Append(SubSeq(Shown, 1, k - 1), Activation(regs'))
  BY <1>1, ShownCut
<1>2. ASSUME UNCHANGED jmpbuf PROVE UNCHANGED Marks
  BY <1>2 DEF Marks
<1>3. ASSUME UNCHANGED <<calls, regs>> PROVE UNCHANGED Shown
  BY <1>3 DEF Shown, Stack
<1>4. ASSUME UNCHANGED <<calls, regs, jmpbuf, frames>> PROVE UNCHANGED Calls!vars
  BY <1>2, <1>3, <1>4 DEF Calls!vars
<1>5. CASE psxBiosLoadExecCdrom
  <2>1. CutTo(1) /\ regs'.frame = frames + 1 /\ regs'.at = 0
    BY <1>5, BootKeeps DEF psxBiosLoadExecCdrom, BootContext
  <2>2. Shown' = Append(SubSeq(Shown, 1, 1 - 1), Activation(regs'))
    <3>1. 1 \in 1 .. Depth + 1
      BY <1>0
    <3> QED BY <1>1, <2>1, <3>1
  <2>3. SubSeq(Shown, 1, 1 - 1) = <<>> /\ Activation(regs') = [frame |-> frames + 1, at |-> 0]
    BY <2>1, SubSeqEmpty DEF Activation
  <2>5. Shown' = <<[frame |-> frames + 1, at |-> 0]>>
    <3> DEFINE top == [frame |-> frames + 1, at |-> 0]
    <3>1. Shown' = Append(<<>>, top)
      BY <2>2, <2>3
    <3> HIDE DEF top
    <3>2. Append(<<>>, top) = <<top>>
      OBVIOUS
    <3> QED BY <3>1, <3>2 DEF top
  <2>4. Marks' = [b \in Buffers |-> NoContext] /\ frames' = frames + 1
    BY <1>5 DEF Marks, Marked, psxBiosLoadExecCdrom
  <2> QED BY <2>5, <2>4 DEF Calls!Next, Calls!Restart
<1>6. CASE Work
  <2>1. regs' \in Contexts /\ regs'.frame = regs.frame /\ UNCHANGED <<calls, jmpbuf, frames>>
    BY <1>0, <1>6 DEF Work, TypeOK, Contexts
  <2>2. CutTo(Depth)
    BY <1>0, <2>1, Stayed
  <2>3. /\ ShownParts' /\ Depth' = Depth
        /\ \A i \in 1 .. Depth - 1 : Stack'[i] = Stack[i]
        /\ Stack'[Depth] = regs'
    BY <2>2, ShownType, PTL DEF CutTo
  <2>4. DOMAIN Shown' = DOMAIN Shown /\ Len(Shown) = Depth
    BY <1>0, <2>3 DEF ShownParts
  <2>5. \A i \in 1 .. Depth - 1 : Shown'[i] = Shown[i]
    BY <1>0, <2>3 DEF ShownParts
  <2>6. Shown'[Depth].frame = Shown[Depth].frame
    BY <1>0, <2>1, <2>3 DEF ShownParts, Activation
  <2>7. Calls!Work
    BY <1>2, <2>1, <2>4, <2>5, <2>6 DEF Calls!Work, Calls!Top
  <2> QED BY <2>7 DEF Calls!Next
<1>7. ASSUME NEW h \in AllHeaders, NEW ds, Executes(ds, h), UNCHANGED jmpbuf,
             CutTo(Depth + 1)
      PROVE  Calls!Call
  <2>1. Shown' = Append(SubSeq(Shown, 1, Depth), Activation(regs'))
    BY <1>0, <1>1, <1>7
  <2>2. SubSeq(Shown, 1, Depth) = Shown
    BY <1>0, SubSeqFull DEF ShownParts
  <2> QED BY <1>2, <1>7, <2>1, <2>2 DEF Calls!Call, Executes, Activation
<1>8. ASSUME NEW path \in Paths, LoadExec(path) PROVE Calls!Call
  <2>1. Loads(path, ExecHeader) /\ Executes(LoadedInto(path, ExecHeader), ExecHeader)
          /\ ExecHeader \in AllHeaders /\ UNCHANGED jmpbuf
    BY <1>8 DEF LoadExec, AllHeaders
  <2>2. calls' = Append(calls, regs) /\ regs' \in Contexts
    BY <2>1 DEF Executes, TypeOK
  <2>3. CutTo(Depth + 1)
    BY <1>0, <2>2, Pushed
  <2> QED BY <1>7, <2>1, <2>3
<1>9. ASSUME NEW h \in Headers, Exec(h) PROVE Calls!Call
  <2>1. h \in AllHeaders /\ Executes(header, h) /\ UNCHANGED jmpbuf
    BY <1>9 DEF Exec, AllHeaders
  <2>2. calls' = Append(calls, regs) /\ regs' \in Contexts
    BY <2>1 DEF Executes, TypeOK
  <2>3. CutTo(Depth + 1)
    BY <1>0, <2>2, Pushed
  <2> QED BY <1>7, <2>1, <2>3
<1>10. CASE ExecRet
  <2>1. Depth > 1 /\ CutTo(Depth - 1) /\ regs' = Stack[Depth - 1]
    BY <1>10, ReturnsToCaller
  <2>2. Shown' = Append(SubSeq(Shown, 1, (Depth - 1) - 1), Shown[Depth - 1])
    BY <1>0, <1>1, <2>1 DEF ShownParts
  <2>3. Shown' = SubSeq(Shown, 1, Depth - 1)
    <3> DEFINE n == Depth - 1
               cut == SubSeq(Shown, 1, n - 1)
               whole == SubSeq(Shown, 1, n)
    <3>1. /\ n \in Nat \ {0} /\ Shown \in Seq(Activations)
          /\ \A i \in 1 .. n : Shown[i] \in Activations
      BY <1>0, <2>1, ElementOfSeq DEF ShownParts
    <3>2. cut \in Seq(Activations) /\ Len(cut) = n - 1 /\ \A i \in 1 .. n - 1 : cut[i] = Shown[i]
      <4> HIDE DEF n
      <4>1. \A i \in 1 .. n - 1 : i \in 1 .. n
        BY <3>1
      <4>2. n - 1 \in Int /\ \A i \in 1 .. n - 1 : Shown[i] \in Activations
        BY <3>1, <4>1
      <4> QED BY <3>1, <4>2, SubSeqProperties
    <3>3. whole \in Seq(Activations) /\ Len(whole) = n /\ \A i \in 1 .. n : whole[i] = Shown[i]
      BY <3>1, SubSeqProperties
    <3>4. Shown[n] \in Activations /\ Shown' = Append(cut, Shown[n])
      <4>1. n \in 1 .. n
        <5> HIDE DEF n
        <5> QED BY <3>1
      <4> QED BY <2>2, <3>1, <4>1
    <3> HIDE DEF n, cut, whole
    <3>5. /\ Append(cut, Shown[n]) \in Seq(Activations) /\ Len(Append(cut, Shown[n])) = n
          /\ \A i \in 1 .. n : Append(cut, Shown[n])[i] = whole[i]
      BY <3>1, <3>2, <3>3, <3>4, AppendProperties
    <3>6. Append(cut, Shown[n]) = whole
      BY <3>3, <3>5, SeqEqual
    <3> QED BY <3>4, <3>6 DEF n, cut, whole
  <2>4. UNCHANGED <<jmpbuf, frames>>
    BY <1>10 DEF ExecRet
  <2> QED BY <1>0, <1>2, <2>1, <2>3, <2>4 DEF Calls!Next, Calls!Return, ShownParts
<1>11. ASSUME NEW b \in Buffers, setjmp(b) PROVE Calls!Mark(b)
  <2>1. regs # NoContext
    BY <1>0, SizesAssumption
  <2>2. Marks' = [Marks EXCEPT ![b] = Activation(regs)]
    BY <1>11, <2>1 DEF setjmp, Marks, Marked, TypeOK
  <2>3. UNCHANGED Shown /\ UNCHANGED frames
    BY <1>3, <1>11 DEF setjmp
  <2> QED BY <1>0, <2>2, <2>3 DEF Calls!Mark, Calls!Top, ShownParts
<1>12. ASSUME NEW b \in Buffers, longjmp(b) PROVE Calls!Jump(b)
  <2>1. Len(Stack) = Depth /\ calls \in Seq(Contexts) /\ regs \in Contexts
    BY <1>0, StackParts DEF Stack, Depth
  <2>2. PICK k \in 1 .. Depth :
          Stack[k].frame = jmpbuf[b].frame /\ calls' = SubSeq(calls, 1, k - 1)
    BY <1>12, <2>1 DEF longjmp
  <2>3. regs' \in Contexts /\ regs' = jmpbuf[b] /\ jmpbuf[b] # NoContext
          /\ UNCHANGED <<jmpbuf, frames>>
    BY <1>12 DEF longjmp, TypeOK
  <2>4. CutTo(k) /\ k \in 1 .. Depth + 1
    BY <1>0, <2>1, <2>2, <2>3, Unwound
  <2>5. Shown' = Append(SubSeq(Shown, 1, k - 1), Marks[b])
    BY <1>1, <2>3, <2>4 DEF Marks, Marked
  <2>6. Marks[b] = Activation(jmpbuf[b]) /\ Marks[b] # NoContext
    BY <2>3, SizesAssumption DEF Marks, Marked, Activation, Contexts, Places
  <2>7. Shown[k].frame = Marks[b].frame
    BY <1>0, <2>2, <2>6 DEF ShownParts, Activation
  <2>8. k \in 1 .. Len(Shown)
    BY <1>0, <2>2 DEF ShownParts
  <2> QED BY <1>2, <2>3, <2>5, <2>6, <2>7, <2>8 DEF Calls!Jump
<1>13. CASE Swap \/ (\E path \in Directories : cd(path))
            \/ (\E path \in Paths, h \in Headers : Load(path, h))
  BY <1>4, <1>13 DEF Swap, cd, Load
<1>14. CASE UNCHANGED vars
  BY <1>4, <1>14 DEF vars
<1> QED
  BY <1>5, <1>6, <1>8, <1>9, <1>10, <1>11, <1>12, <1>13, <1>14 DEF Next, Calls!Next

(* Exec, the return of a program, setjmp and longjmp form a stack of       *)
(* activations: whatever descriptors and buffers programs use, each one    *)
(* that may return finds the context of its caller.                        *)
THEOREM ProgramsAreCalls == Spec => CallStackSpec
BY Invariant, InitShown, NextShown, PTL DEF Spec, CallStackSpec, Calls!Spec
-----------------------------------------------------------------------------
(* The disc: induction, over a set of numbers in place of a predicate, and *)
(* functions defined by recursion.                                         *)
LEMMA Least ==
  ASSUME NEW S \in SUBSET Nat, S # {}
  PROVE  \E m \in S : \A n \in S : m <= n
<1> DEFINE R == StrictSubsetOrdering(Nat)
           F == FiniteSubsetsOf(Nat)
           T == {0 .. n : n \in S}
<1>1. IsWellFoundedOn(R, F)
  BY FS_StrictSubsetOrderingWellFounded
<1>2. T \subseteq F
  <2>1. ASSUME NEW n \in S PROVE 0 .. n \subseteq Nat /\ IsFiniteSet(0 .. n)
    BY FS_Interval
  <2>2. QED
    BY <2>1 DEF FiniteSubsetsOf
<1>3. T # {}
  OBVIOUS
<1>4. PICK t \in T : \A u \in T : ~(<<u, t>> \in R)
  <2> HIDE DEF R, F, T
  <2>1. QED
    BY <1>1, <1>2, <1>3, WFMin
<1>5. PICK m \in S : t = 0 .. m
  OBVIOUS
<1>6. ASSUME NEW n \in S, n < m PROVE FALSE
  <2>1. 0 .. n \in SUBSET Nat /\ 0 .. m \in SUBSET Nat
    OBVIOUS
  <2>2. 0 .. n \subseteq 0 .. m /\ m \in 0 .. m /\ m \notin 0 .. n
    BY <1>6
  <2>3. <<0 .. n, 0 .. m>> \in R
    BY <2>1, <2>2 DEF StrictSubsetOrdering
  <2>4. QED
    BY <1>4, <1>5, <2>3
<1>7. QED
  BY <1>6

(* Induction, over a set in place of a predicate.                          *)
LEMMA Induction ==
  ASSUME NEW S, \A n \in Nat : (\A m \in Nat : m < n => m \in S) => n \in S
  PROVE  \A n \in Nat : n \in S
<1> SUFFICES ASSUME NEW k \in Nat, k \notin S PROVE FALSE
  OBVIOUS
<1>1. Nat \ S \in SUBSET Nat /\ Nat \ S # {}
  OBVIOUS
<1>2. PICK m \in Nat \ S : \A n \in Nat \ S : m <= n
  BY <1>1, Least
<1>3. \A n \in Nat : n < m => n \in S
  BY <1>2
<1> QED BY <1>2, <1>3

(* Every x in S that is not a root has p[x] before it.                     *)
Ranked(S, roots, p, rank, top) ==
  /\ roots \in SUBSET S /\ p \in [S \ roots -> S] /\ rank \in [S -> Nat] /\ top \in Nat
  /\ \A x \in S : rank[x] <= top
  /\ \A x \in S \ roots : rank[p[x]] < rank[x]

Follows(g, S, roots, p, base, op) ==
  \A x \in S : g[x] = op[x][IF x \in roots THEN base ELSE g[p[x]]]

(* A function that takes its value at x from the one at p[x] exists.       *)
LEMMA Recursion ==
  ASSUME NEW S, NEW V, NEW roots, NEW p, NEW rank, NEW top, Ranked(S, roots, p, rank, top),
         NEW base \in V, NEW op \in [S -> [V -> V]]
  PROVE  \E g \in [S -> V] : Follows(g, S, roots, p, base, op)
<1> USE DEF Ranked
<1> DEFINE Holds(g, x) == g[x] = op[x][IF x \in roots THEN base ELSE g[p[x]]]
           Good == {n \in Nat : \E g \in [S -> V] : \A x \in S : rank[x] < n => Holds(g, x)}
<1>1. ASSUME NEW n \in Nat, \A m \in Nat : m < n => m \in Good
      PROVE  n \in Good
  <2>1. CASE n = 0
    <3>1. [x \in S |-> base] \in [S -> V] /\ \A x \in S : ~(rank[x] < n)
      BY <2>1
    <3> QED BY <3>1
  <2>2. CASE n # 0
    <3>1. n - 1 \in Good
      BY <1>1, <2>2
    <3>2. PICK g \in [S -> V] : \A x \in S : rank[x] < n - 1 => Holds(g, x)
      BY <3>1
    <3> DEFINE h == [x \in S |-> op[x][IF x \in roots THEN base ELSE g[p[x]]]]
    <3>3. h \in [S -> V]
      OBVIOUS
    <3>4. ASSUME NEW x \in S, rank[x] < n PROVE Holds(h, x)
      <4>1. CASE x \in roots
        BY <4>1
      <4>2. CASE x \notin roots
        <5>1. p[x] \in S /\ rank[p[x]] < n - 1
          BY <3>4, <4>2
        <5>2. h[p[x]] = g[p[x]]
          BY <3>2, <5>1
        <5> QED BY <4>2, <5>2
      <4> QED BY <4>1, <4>2
    <3> QED BY <3>3, <3>4
  <2> QED BY <2>1, <2>2
<1>2. top + 1 \in Good
  <2> HIDE DEF Good
  <2>1. \A n \in Nat : n \in Good
    BY <1>1, Induction
  <2> QED BY <2>1
<1>3. PICK g \in [S -> V] : \A x \in S : rank[x] < top + 1 => Holds(g, x)
  BY <1>2
<1>4. \A x \in S : rank[x] < top + 1
  OBVIOUS
<1> QED BY <1>3, <1>4 DEF Follows
-----------------------------------------------------------------------------
Listed(E, l) == l \in Seq(E) /\ ToSet(l) = E /\ MayReport(l)

(* The entry that has sector s, and the sectors of the first k.            *)
Owner(l, s) == CHOOSE i \in 1 .. Len(l) : s \in Extent(l[i])

Covered(l, k) == UNION {Extent(l[i]) : i \in 1 .. k}

LEMMA Reported ==
  ASSUME NEW E, NEW l, Listed(E, l)
  PROVE  /\ Len(l) \in Nat
         /\ \A i \in 1 .. Len(l) : l[i] \in E
         /\ \A f \in E : \E i \in 1 .. Len(l) : f = l[i]
<1>1. l \in Seq(E) /\ Len(l) \in Nat /\ DOMAIN l = 1 .. Len(l)
  BY LenProperties DEF Listed
<1>2. \A i \in 1 .. Len(l) : l[i] \in E
  BY <1>1, ElementOfSeq
<1>3. \A f \in E : \E i \in DOMAIN l : f = l[i]
  BY DEF Listed, ToSet
<1> QED BY <1>1, <1>2, <1>3

LEMMA EntryTypes ==
  ASSUME NEW E, NEW l, Listed(E, l), NEW i \in 1 .. Len(l)
  PROVE  /\ l[i].start \in Nat \ {0} /\ l[i].sectors \in Nat \ {0} /\ l[i].parent \in Nat
         /\ l[i].dir \in BOOLEAN /\ l[i].name # NoName
         /\ l[i].start \in Extent(l[i]) /\ Extent(l[i]) \subseteq Nat \ {0}
         /\ \A s \in Extent(l[i]) : l[i].start <= s
         /\ l[i].parent # 0 => \E j \in 1 .. Len(l) :
              l[j].dir /\ l[i].parent = l[j].start /\ (l[i].dir => j < i)
         /\ \A j \in 1 .. Len(l) :
              l[i].parent = l[j].parent /\ l[i].name = l[j].name => i = j
<1>1. DOMAIN l = 1 .. Len(l) /\ MayReport(l)
  BY LenProperties DEF Listed
<1>2. /\ l[i].start \in Nat \ {0} /\ l[i].sectors \in Nat \ {0} /\ l[i].parent \in Nat
      /\ l[i].dir \in BOOLEAN /\ l[i].name # NoName
      /\ l[i].parent # 0 => \E j \in 1 .. Len(l) :
           l[j].dir /\ l[i].parent = l[j].start /\ (l[i].dir => j < i)
      /\ \A j \in (1 .. Len(l)) \ {i} :
           l[i].parent = l[j].parent => l[i].name # l[j].name
  BY <1>1 DEF MayReport
<1>3. /\ l[i].start \in Extent(l[i]) /\ Extent(l[i]) \subseteq Nat \ {0}
      /\ \A s \in Extent(l[i]) : l[i].start <= s
  BY <1>2 DEF Extent
<1>4. ASSUME NEW j \in 1 .. Len(l)
      PROVE  l[i].parent = l[j].parent /\ l[i].name = l[j].name => i = j
  BY <1>2
<1> QED BY <1>2, <1>3, <1>4

LEMMA Disjoint ==
  ASSUME NEW E, NEW l, Listed(E, l), NEW i \in 1 .. Len(l), NEW j \in 1 .. Len(l), i # j
  PROVE  Extent(l[i]) \cap Extent(l[j]) = {}
BY LenProperties DEF Listed, MayReport

LEMMA OwnerIs ==
  ASSUME NEW E, NEW l, Listed(E, l), NEW i \in 1 .. Len(l), NEW s \in Extent(l[i])
  PROVE  Owner(l, s) = i
<1>1. \A j \in 1 .. Len(l) : s \in Extent(l[j]) => j = i
  BY Disjoint
<1> QED BY <1>1 DEF Owner

LEMMA EntryAt ==
  ASSUME NEW E, NEW l, Listed(E, l), NEW i \in 1 .. Len(l)
  PROVE  (CHOOSE e \in E : e.start = l[i].start) = l[i]
<1>1. l[i] \in E
  BY Reported
<1>2. ASSUME NEW e \in E, e.start = l[i].start PROVE e = l[i]
  <2>1. PICK j \in 1 .. Len(l) : e = l[j]
    BY Reported
  <2>2. l[i].start \in Extent(l[i]) /\ l[i].start \in Extent(l[j])
    BY <1>2, <2>1, EntryTypes
  <2>3. i = j
    BY <2>2, Disjoint
  <2> QED BY <2>1, <2>3
<1> QED BY <1>1, <1>2

(* A directory comes after those above it; files come last.                *)
Rank(l, i) == IF l[i].dir THEN i ELSE Len(l) + 1

LEMMA ParentRank ==
  ASSUME NEW E, NEW l, Listed(E, l), NEW i \in 1 .. Len(l), l[i].parent # 0
  PROVE  \E j \in 1 .. Len(l) : l[j].dir /\ l[i].parent = l[j].start /\ Rank(l, j) < Rank(l, i)
<1>1. PICK j \in 1 .. Len(l) : l[j].dir /\ l[i].parent = l[j].start /\ (l[i].dir => j < i)
  BY EntryTypes
<1>2. Len(l) \in Nat
  BY Reported
<1>3. Rank(l, j) < Rank(l, i)
  BY <1>1, <1>2 DEF Rank
<1> QED BY <1>1, <1>3

Names(E) == {f.name : f \in E} \cup {NoName}

(* The path of an entry is that of its directory with its name behind.     *)
LEMMA TruePaths ==
  ASSUME NEW E, NEW l, Listed(E, l)
  PROVE  \A i \in 1 .. Len(l) :
           /\ TruePath(E, l[i]) \in Seq(Names(E))
           /\ l[i].parent = 0 => TruePath(E, l[i]) = Append(<<>>, l[i].name)
           /\ \A j \in 1 .. Len(l) : l[i].parent = l[j].start =>
                TruePath(E, l[i]) = Append(TruePath(E, l[j]), l[i].name)
<1> DEFINE at(s) == CHOOSE e \in E : e.start = s
           S == {e.start : e \in E}
           V == Seq(Names(E))
           roots == {s \in S : at(s).parent = 0}
           p == [s \in S \ roots |-> at(s).parent]
           rank == [s \in S |-> Rank(l, Owner(l, s))]
           op == [s \in S |-> [v \in V |-> Append(v, at(s).name)]]
           top == Len(l) + 1
           base == <<>>
           path == CHOOSE f : f = [s \in S |->
             Append(IF at(s).parent = 0 THEN <<>> ELSE f[at(s).parent], at(s).name)]
<1>1. ASSUME NEW i \in 1 .. Len(l)
      PROVE  l[i].start \in S /\ at(l[i].start) = l[i] /\ Owner(l, l[i].start) = i
               /\ l[i].name \in Names(E) /\ Rank(l, i) \in Nat /\ Rank(l, i) <= Len(l) + 1
  <2>1. l[i] \in E /\ Len(l) \in Nat
    BY Reported
  <2>2. Rank(l, i) \in Nat /\ Rank(l, i) <= Len(l) + 1
    BY <2>1 DEF Rank
  <2> QED BY <2>1, <2>2, EntryAt, OwnerIs, EntryTypes DEF Names
<1>2. ASSUME NEW s \in S PROVE \E i \in 1 .. Len(l) : s = l[i].start
  BY Reported
<1>3. ASSUME NEW s \in S \ roots PROVE p[s] \in S /\ rank[p[s]] < rank[s]
  <2>1. PICK i \in 1 .. Len(l) : s = l[i].start
    BY <1>2
  <2>2. l[i].parent # 0 /\ p[s] = l[i].parent
    BY <1>1, <1>3, <2>1
  <2>3. PICK j \in 1 .. Len(l) : l[i].parent = l[j].start /\ Rank(l, j) < Rank(l, i)
    BY <2>2, ParentRank
  <2> QED BY <1>1, <2>1, <2>2, <2>3
<1>4. \E g \in [S -> V] : Follows(g, S, roots, p, base, op)
  <2>1. ASSUME NEW s \in S
        PROVE  rank[s] \in Nat /\ rank[s] <= top /\ at(s).name \in Names(E)
    <3>1. PICK i \in 1 .. Len(l) : s = l[i].start
      BY <1>2
    <3> QED BY <1>1, <3>1
  <2>2. op \in [S -> [V -> V]]
    <3>1. \A s \in S, v \in V : Append(v, at(s).name) \in V
      <4> HIDE DEF at
      <4> QED BY <2>1, AppendProperties
    <3> HIDE DEF at, V, S
    <3> QED BY <3>1
  <2>3. top \in Nat
    BY Reported
  <2>4. base \in V
    BY EmptySeq
  <2>5. p \in [S \ roots -> S]
    BY <1>3
  <2>6. rank \in [S -> Nat]
    BY <2>1
  <2>7. roots \in SUBSET S
    OBVIOUS
  <2>8. \A s \in S \ roots : rank[p[s]] < rank[s]
    BY <1>3
  <2>9. \A s \in S : rank[s] <= top
    BY <2>1
  <2> HIDE DEF S, V, roots, p, rank, op, at, top, base
  <2>10. Ranked(S, roots, p, rank, top)
    BY <2>3, <2>5, <2>6, <2>7, <2>8, <2>9 DEF Ranked
  <2> QED BY <2>2, <2>4, <2>10, Recursion
<1>5. PICK g \in [S -> V] : \A s \in S : g[s] = op[s][IF s \in roots THEN base ELSE g[p[s]]]
  BY <1>4 DEF Follows
<1>6. g = [s \in S |-> Append(IF at(s).parent = 0 THEN <<>> ELSE g[at(s).parent], at(s).name)]
  <2>1. ASSUME NEW s \in S
        PROVE  g[s] = Append(IF at(s).parent = 0 THEN <<>> ELSE g[at(s).parent], at(s).name)
    <3>1. (IF s \in roots THEN <<>> ELSE g[p[s]]) = (IF at(s).parent = 0 THEN <<>> ELSE g[at(s).parent])
      OBVIOUS
    <3>2. (IF s \in roots THEN <<>> ELSE g[p[s]]) \in V
      <4>1. CASE s \in roots
        BY <4>1, EmptySeq
      <4>2. CASE s \notin roots
        <5>1. p[s] \in S
          BY <1>3, <4>2
        <5> HIDE DEF V, p, S, roots
        <5> QED BY <1>5, <4>2, <5>1
      <4> QED BY <4>1, <4>2
    <3>3. g[s] = op[s][IF s \in roots THEN base ELSE g[p[s]]]
      BY <1>5
    <3> HIDE DEF V, p, S, roots, at
    <3> QED BY <3>1, <3>2, <3>3
  <2>2. g \in [S -> V]
    BY <1>5
  <2> HIDE DEF at, S, V
  <2> QED BY <2>1, <2>2
<1>7. path = [s \in S |->
        Append(IF at(s).parent = 0 THEN <<>> ELSE path[at(s).parent], at(s).name)]
  <2> HIDE DEF at, S
  <2> QED BY <1>6
<1>8. \A i \in 1 .. Len(l) : TruePath(E, l[i]) = path[l[i].start]
  BY DEF TruePath
<1> HIDE DEF path
<1>9. ASSUME NEW i \in 1 .. Len(l)
      PROVE  /\ l[i].parent = 0 => TruePath(E, l[i]) = Append(<<>>, l[i].name)
             /\ \A j \in 1 .. Len(l) : l[i].parent = l[j].start =>
                  TruePath(E, l[i]) = Append(TruePath(E, l[j]), l[i].name)
  <2>1. TruePath(E, l[i]) = Append(IF l[i].parent = 0 THEN <<>> ELSE path[l[i].parent], l[i].name)
    <3>1. path[l[i].start] = Append(IF at(l[i].start).parent = 0 THEN <<>>
                                    ELSE path[at(l[i].start).parent], at(l[i].start).name)
      <4> HIDE DEF at, S
      <4> QED BY <1>1, <1>7
    <3>2. at(l[i].start) = l[i]
      BY <1>1
    <3> HIDE DEF at
    <3> QED BY <1>8, <3>1, <3>2, Zenon
  <2>2. ASSUME NEW j \in 1 .. Len(l), l[i].parent = l[j].start
        PROVE  TruePath(E, l[i]) = Append(TruePath(E, l[j]), l[i].name)
    <3>1. l[i].parent # 0
      BY <2>2, EntryTypes
    <3> QED BY <1>8, <2>1, <2>2, <3>1
  <2> QED BY <2>1, <2>2
<1>10. \A v \in V, x \in Names(E) : Append(v, x) \in V
  BY AppendProperties
<1>11. \A i \in 1 .. Len(l) : TruePath(E, l[i]) \in V
  <2> DEFINE Good == {n \in Nat : \A i \in 1 .. Len(l) : Rank(l, i) = n => TruePath(E, l[i]) \in V}
  <2> HIDE DEF at, S, roots, p, rank, op, top, base
  <2>1. ASSUME NEW n \in Nat, \A m \in Nat : m < n => m \in Good
        PROVE  n \in Good
    <3> SUFFICES ASSUME NEW i \in 1 .. Len(l), Rank(l, i) = n PROVE TruePath(E, l[i]) \in V
      OBVIOUS
    <3>1. CASE l[i].parent = 0
      <4>1. TruePath(E, l[i]) = Append(<<>>, l[i].name) /\ l[i].name \in Names(E)
        BY <1>1, <1>9, <3>1
      <4>2. <<>> \in V
        BY EmptySeq
      <4> QED BY <1>10, <4>1, <4>2, Zenon
    <3>2. CASE l[i].parent # 0
      <4>1. PICK j \in 1 .. Len(l) : l[i].parent = l[j].start /\ Rank(l, j) < n
        BY <3>2, ParentRank
      <4>2. TruePath(E, l[j]) \in V
        BY <1>1, <2>1, <4>1
      <4>3. TruePath(E, l[i]) = Append(TruePath(E, l[j]), l[i].name) /\ l[i].name \in Names(E)
        BY <1>1, <1>9, <4>1
      <4> QED BY <1>10, <4>2, <4>3, Zenon
    <3> QED BY <3>1, <3>2
  <2> HIDE DEF Good
  <2>2. \A n \in Nat : n \in Good
    BY <2>1, Induction
  <2> QED BY <1>1, <2>2 DEF Good
<1> QED BY <1>9, <1>11

(* Entry j is the directory that i is in.                                  *)
Inside(E, l, i, j) ==
  /\ l[j].dir /\ l[i].parent = l[j].start /\ Rank(l, j) < Rank(l, i)
  /\ TruePath(E, l[i]) = Append(TruePath(E, l[j]), l[i].name)

LEMMA ParentPath ==
  ASSUME NEW E, NEW l, Listed(E, l), NEW i \in 1 .. Len(l), l[i].parent # 0
  PROVE  \E j \in 1 .. Len(l) : Inside(E, l, i, j)
<1>1. PICK j \in 1 .. Len(l) : l[j].dir /\ l[i].parent = l[j].start /\ Rank(l, j) < Rank(l, i)
  BY ParentRank
<1>2. TruePath(E, l[i]) = Append(TruePath(E, l[j]), l[i].name)
  BY <1>1, TruePaths
<1> QED BY <1>1, <1>2 DEF Inside

LEMMA Appended ==
  ASSUME NEW S, NEW s \in Seq(S), NEW t \in Seq(S), NEW x \in S, NEW y \in S
  PROVE  Append(s, x) # <<>> /\ (Append(s, x) = Append(t, y) => s = t /\ x = y)
BY AppendProperties, AppendInjective

(* No two entries have the same path.                                      *)
LEMMA DistinctPaths ==
  ASSUME NEW E, NEW l, Listed(E, l)
  PROVE  \A i, j \in 1 .. Len(l) : TruePath(E, l[i]) = TruePath(E, l[j]) => i = j
<1> DEFINE Good == {n \in Nat : \A i, j \in 1 .. Len(l) :
                      Rank(l, i) = n /\ TruePath(E, l[i]) = TruePath(E, l[j]) => i = j}
<1>1. \A i \in 1 .. Len(l) : TruePath(E, l[i]) \in Seq(Names(E)) /\ l[i].name \in Names(E)
                             /\ Rank(l, i) \in Nat /\ <<>> \in Seq(Names(E))
  <2>1. ASSUME NEW i \in 1 .. Len(l) PROVE l[i].name \in Names(E) /\ Rank(l, i) \in Nat
    BY Reported DEF Names, Rank
  <2> QED BY <2>1, TruePaths, EmptySeq
<1>2. \A i \in 1 .. Len(l) : TruePath(E, l[i]) # <<>>
  <2> SUFFICES ASSUME NEW i \in 1 .. Len(l) PROVE TruePath(E, l[i]) # <<>>
    OBVIOUS
  <2>1. PICK t \in Seq(Names(E)) : TruePath(E, l[i]) = Append(t, l[i].name)
    <3>1. CASE l[i].parent = 0
      <4>1. TruePath(E, l[i]) = Append(<<>>, l[i].name)
        BY <3>1, TruePaths
      <4>2. <<>> \in Seq(Names(E))
        BY EmptySeq
      <4> QED BY <4>1, <4>2, Zenon
    <3>2. CASE l[i].parent # 0
      <4>1. PICK g \in 1 .. Len(l) : Inside(E, l, i, g)
        BY <3>2, ParentPath
      <4>2. TruePath(E, l[g]) \in Seq(Names(E))
        BY <1>1
      <4> QED BY <4>1, <4>2, Zenon DEF Inside
    <3> QED BY <3>1, <3>2
  <2>2. l[i].name \in Names(E)
    BY <1>1
  <2>3. Append(t, l[i].name) # <<>>
    BY <2>2, Appended
  <2> QED BY <2>1, <2>3, Zenon
<1>3. ASSUME NEW n \in Nat, \A m \in Nat : m < n => m \in Good
      PROVE  n \in Good
  <2> SUFFICES ASSUME NEW i \in 1 .. Len(l), NEW j \in 1 .. Len(l), Rank(l, i) = n,
                      TruePath(E, l[i]) = TruePath(E, l[j])
               PROVE  i = j
    OBVIOUS
  <2>1. SUFFICES l[i].parent = l[j].parent /\ l[i].name = l[j].name
    BY EntryTypes
  <2>2. CASE l[i].parent = 0 /\ l[j].parent = 0
    <3>1. Append(<<>>, l[i].name) = Append(<<>>, l[j].name)
      BY <2>2, TruePaths
    <3> QED BY <1>1, <2>2, <3>1, Appended
  <2>3. CASE l[i].parent = 0 /\ l[j].parent # 0
    <3>1. PICK g \in 1 .. Len(l) : Inside(E, l, j, g)
      BY <2>3, ParentPath
    <3>2. TruePath(E, l[i]) = Append(<<>>, l[i].name)
      BY <2>3, TruePaths
    <3>3. Append(<<>>, l[i].name) = Append(TruePath(E, l[g]), l[j].name)
      BY <3>1, <3>2, Zenon DEF Inside
    <3>4. TruePath(E, l[g]) = <<>>
      <4>1. /\ TruePath(E, l[g]) \in Seq(Names(E)) /\ <<>> \in Seq(Names(E))
            /\ l[i].name \in Names(E) /\ l[j].name \in Names(E)
        <5> HIDE DEF Good
        <5> QED BY <1>1
      <4> QED BY <3>3, <4>1, Appended
    <3> QED BY <1>2, <3>4
  <2>4. CASE l[i].parent # 0 /\ l[j].parent = 0
    <3>1. PICK g \in 1 .. Len(l) : Inside(E, l, i, g)
      BY <2>4, ParentPath
    <3>2. TruePath(E, l[j]) = Append(<<>>, l[j].name)
      BY <2>4, TruePaths
    <3>3. Append(<<>>, l[j].name) = Append(TruePath(E, l[g]), l[i].name)
      BY <3>1, <3>2, Zenon DEF Inside
    <3>4. TruePath(E, l[g]) = <<>>
      <4>1. /\ TruePath(E, l[g]) \in Seq(Names(E)) /\ <<>> \in Seq(Names(E))
            /\ l[i].name \in Names(E) /\ l[j].name \in Names(E)
        <5> HIDE DEF Good
        <5> QED BY <1>1
      <4> QED BY <3>3, <4>1, Appended
    <3> QED BY <1>2, <3>4
  <2>5. CASE l[i].parent # 0 /\ l[j].parent # 0
    <3>1. PICK g \in 1 .. Len(l) : Inside(E, l, i, g)
      BY <2>5, ParentPath
    <3>2. PICK h \in 1 .. Len(l) : Inside(E, l, j, h)
      BY <2>5, ParentPath
    <3>3. Append(TruePath(E, l[g]), l[i].name) = Append(TruePath(E, l[h]), l[j].name)
      BY <3>1, <3>2, Zenon DEF Inside
    <3>4. TruePath(E, l[g]) = TruePath(E, l[h]) /\ l[i].name = l[j].name
      <4>1. /\ TruePath(E, l[g]) \in Seq(Names(E)) /\ TruePath(E, l[h]) \in Seq(Names(E))
            /\ l[i].name \in Names(E) /\ l[j].name \in Names(E)
        <5> HIDE DEF Good
        <5> QED BY <1>1
      <4> QED BY <3>3, <4>1, Appended
    <3>5. g = h
      BY <1>1, <1>3, <3>1, <3>4 DEF Inside
    <3> QED BY <3>1, <3>2, <3>4, <3>5 DEF Inside
  <2> QED BY <2>2, <2>3, <2>4, <2>5
<1> HIDE DEF Good
<1>4. \A n \in Nat : n \in Good
  BY <1>3, Induction
<1> QED BY <1>1, <1>4 DEF Good
-----------------------------------------------------------------------------
(* The tables after the first k entries.                                   *)
FilesAfter(l, k) == [s \in Covered(l, k) |-> l[Owner(l, s)]]

DirStarts(l, k) == {l[i].start : i \in {j \in 1 .. k : l[j].dir}}

DirsAfter(E, l, k) ==
  [s \in {0} \cup DirStarts(l, k) |-> IF s = 0 THEN <<>> ELSE TruePath(E, l[Owner(l, s)])]

TablesAfter(E, l, k) == [files |-> FilesAfter(l, k), dirs |-> DirsAfter(E, l, k)]

LEMMA AtAfter ==
  ASSUME NEW E, NEW l, Listed(E, l), NEW k \in 0 .. Len(l)
  PROVE  /\ \A s \in Covered(l, k) : \E i \in 1 .. k : s \in Extent(l[i])
         /\ \A i \in 1 .. k : \A s \in Extent(l[i]) :
              s \in Covered(l, k) /\ At(FilesAfter(l, k), s) = l[i]
         /\ \A i \in 1 .. Len(l) : i > k => \A s \in Extent(l[i]) : s \notin Covered(l, k)
         /\ \A s : s \notin Covered(l, k) => At(FilesAfter(l, k), s) = Blank
<1>1. Len(l) \in Nat /\ \A i \in 1 .. k : i \in 1 .. Len(l)
  BY Reported
<1>2. \A s \in Covered(l, k) : \E i \in 1 .. k : s \in Extent(l[i])
  BY DEF Covered
<1>3. ASSUME NEW i \in 1 .. k, NEW s \in Extent(l[i])
      PROVE  s \in Covered(l, k) /\ At(FilesAfter(l, k), s) = l[i]
  BY <1>1, OwnerIs DEF Covered, At, FilesAfter
<1>4. ASSUME NEW i \in 1 .. Len(l), i > k, NEW s \in Extent(l[i]) PROVE s \notin Covered(l, k)
  <2>1. SUFFICES ASSUME NEW j \in 1 .. k, s \in Extent(l[j]) PROVE FALSE
    BY <1>2
  <2>2. j \in 1 .. Len(l) /\ j # i
    BY <1>1, <1>4
  <2> QED BY <2>1, <2>2, Disjoint
<1>5. \A s : s \notin Covered(l, k) => At(FilesAfter(l, k), s) = Blank
  BY DEF At, FilesAfter
<1> QED BY <1>2, <1>3, <1>4, <1>5

(* The walk's recursion.                                                   *)
Step(f, x, above) ==
  [path |-> Below(above.path, f.name), sectors |-> above.sectors \cup {x}]

NoWalk == [path |-> <<>>, sectors |-> {}]

LEMMA Walks ==
  ASSUME NEW E, NEW l, Listed(E, l), NEW k \in 0 .. Len(l), NEW x \in Nat
  PROVE  LET f == At(FilesAfter(l, k), x)
         IN  Walk(FilesAfter(l, k), x) =
               Step(f, x, IF f.parent = 0 THEN NoWalk ELSE Walk(FilesAfter(l, k), f.parent))
<1> DEFINE F == FilesAfter(l, k)
           V == [path : Seq(Names(E)), sectors : SUBSET Nat]
           roots == {s \in Nat : At(F, s).parent = 0}
           p == [s \in Nat \ roots |-> At(F, s).parent]
           rank == [s \in Nat |-> IF s \in Covered(l, k) THEN Rank(l, Owner(l, s)) ELSE 0]
           top == Len(l) + 1
           op == [s \in Nat |-> [v \in V |-> Step(At(F, s), s, v)]]
           base == NoWalk
           Above(g, s) == IF At(F, s).parent = 0 THEN NoWalk ELSE g[At(F, s).parent]
           walk == CHOOSE g : g = [s \in Nat |-> Step(At(F, s), s, Above(g, s))]
<1>1. Len(l) \in Nat /\ \A i \in 1 .. k : i \in 1 .. Len(l)
  BY Reported
<1>2. ASSUME NEW s \in Nat, s \in Covered(l, k)
      PROVE  \E i \in 1 .. k : s \in Extent(l[i]) /\ At(F, s) = l[i] /\ rank[s] = Rank(l, i)
                              /\ i \in 1 .. Len(l)
  <2>1. PICK i \in 1 .. k : s \in Extent(l[i])
    BY <1>2, AtAfter
  <2>2. i \in 1 .. Len(l)
    BY <1>1
  <2> QED BY <1>2, <2>1, <2>2, AtAfter, OwnerIs
<1>3. ASSUME NEW s \in Nat, s \notin Covered(l, k)
      PROVE  At(F, s) = Blank /\ rank[s] = 0
  BY <1>3, AtAfter
<1>4. \A i \in 1 .. Len(l) : Rank(l, i) \in 1 .. top
  BY <1>1 DEF Rank
<1>5. ASSUME NEW s \in Nat
      PROVE  /\ At(F, s).parent \in Nat /\ At(F, s).name \in Names(E)
             /\ rank[s] \in Nat /\ rank[s] <= top
  <2> HIDE DEF F, rank
  <2>1. CASE s \in Covered(l, k)
    <3>1. PICK i \in 1 .. Len(l) : At(F, s) = l[i] /\ rank[s] = Rank(l, i)
      BY <1>2, <2>1
    <3> QED BY <1>1, <1>4, <3>1, EntryTypes, Reported DEF Names
  <2>2. CASE s \notin Covered(l, k)
    BY <1>1, <1>3, <2>2 DEF Blank, Names
  <2> QED BY <2>1, <2>2
<1>6. ASSUME NEW s \in Nat \ roots
      PROVE  p[s] \in Nat /\ rank[p[s]] < rank[s]
  <2>1. s \in Covered(l, k)
    BY <1>3, <1>6 DEF Blank
  <2>2. PICK i \in 1 .. Len(l) : At(F, s) = l[i] /\ rank[s] = Rank(l, i)
    BY <1>2, <2>1
  <2>3. l[i].parent # 0 /\ p[s] = l[i].parent
    BY <1>6, <2>2
  <2>4. PICK j \in 1 .. Len(l) : l[i].parent = l[j].start /\ Rank(l, j) < Rank(l, i)
    BY <2>3, ParentRank
  <2>5. p[s] \in Nat /\ p[s] \in Extent(l[j])
    BY <2>3, <2>4, EntryTypes
  <2>6. CASE j \in 1 .. k
    <3>1. p[s] \in Covered(l, k) /\ Owner(l, p[s]) = j
      BY <2>5, <2>6, AtAfter, OwnerIs
    <3> HIDE DEF p
    <3> QED BY <2>2, <2>4, <2>5, <3>1
  <2>7. CASE j \notin 1 .. k
    <3>1. p[s] \notin Covered(l, k)
      BY <2>5, <2>7, AtAfter
    <3>2. rank[p[s]] = 0
      BY <1>3, <2>5, <3>1
    <3> QED BY <1>4, <2>2, <2>5, <3>2
  <2> QED BY <2>6, <2>7
<1>7. \E g \in [Nat -> V] : Follows(g, Nat, roots, p, base, op)
  <2>1. Ranked(Nat, roots, p, rank, top)
    <3>1. p \in [Nat \ roots -> Nat]
      BY <1>6
    <3>2. rank \in [Nat -> Nat]
      BY <1>5
    <3>3. top \in Nat /\ roots \in SUBSET Nat
      BY <1>1
    <3>4. (\A s \in Nat : rank[s] <= top) /\ \A s \in Nat \ roots : rank[p[s]] < rank[s]
      BY <1>5, <1>6
    <3> HIDE DEF roots, p, rank, top
    <3> QED BY <3>1, <3>2, <3>3, <3>4 DEF Ranked
  <2>2. base \in V
    BY EmptySeq DEF NoWalk
  <2>3. op \in [Nat -> [V -> V]]
    <3>1. ASSUME NEW s \in Nat, NEW v \in V PROVE Step(At(F, s), s, v) \in V
      <4>1. v.path \in Seq(Names(E)) /\ v.sectors \cup {s} \in SUBSET Nat
        OBVIOUS
      <4>2. Below(v.path, At(F, s).name) \in Seq(Names(E))
        BY <1>5, <4>1, AppendProperties DEF Below
      <4> QED BY <4>1, <4>2 DEF Step
    <3> HIDE DEF V, F
    <3> QED BY <3>1
  <2> HIDE DEF V, roots, p, rank, top, op, base
  <2> QED BY <2>1, <2>2, <2>3, Recursion
<1>8. PICK g \in [Nat -> V] : Follows(g, Nat, roots, p, base, op)
  BY <1>7
<1>9. g = [s \in Nat |-> Step(At(F, s), s, Above(g, s))]
  <2>1. ASSUME NEW s \in Nat PROVE g[s] = Step(At(F, s), s, Above(g, s))
    <3>1. g[s] = op[s][IF s \in roots THEN base ELSE g[p[s]]]
      BY <1>8 DEF Follows
    <3>2. (IF s \in roots THEN base ELSE g[p[s]]) = Above(g, s)
      OBVIOUS
    <3>3. Above(g, s) \in V
      <4>1. base \in V
        BY EmptySeq DEF NoWalk
      <4>2. At(F, s).parent \in Nat
        BY <1>5
      <4> HIDE DEF V, F
      <4> QED BY <1>8, <4>1, <4>2
    <3> HIDE DEF V, F, Above, roots, base, p
    <3> QED BY <3>1, <3>2, <3>3
  <2> HIDE DEF V, F, Above
  <2> QED BY <1>8, <2>1
<1>10. walk = [s \in Nat |-> Step(At(F, s), s, Above(walk, s))]
  <2> HIDE DEF F
  <2> QED BY <1>9
<1>11. \A s : Walk(F, s) = walk[s]
  <2> HIDE DEF F
  <2> QED BY DEF Walk, Step, NoWalk
<1>12. Walk(F, x) = Step(At(F, x), x, Above(walk, x))
  <2> HIDE DEF F, Above, walk
  <2> QED BY <1>10, <1>11
<1>13. Above(walk, x) = IF At(F, x).parent = 0 THEN NoWalk ELSE Walk(F, At(F, x).parent)
  <2> HIDE DEF F, walk
  <2> QED BY <1>11
<1> QED BY <1>12, <1>13, Zenon

(* The walk from a directory that was reported finds its path, and misses  *)
(* no entry.                                                               *)
LEMMA DirectoryWalk ==
  ASSUME NEW E, NEW l, Listed(E, l), NEW k \in 0 .. Len(l), NEW i \in 1 .. k, l[i].dir
  PROVE  LET walk == Walk(FilesAfter(l, k), l[i].start)
         IN  walk.path = TruePath(E, l[i]) /\ walk.sectors \subseteq Covered(l, k)
<1> DEFINE F == FilesAfter(l, k)
           Right(j) == /\ Walk(F, l[j].start).path = TruePath(E, l[j])
                       /\ Walk(F, l[j].start).sectors \subseteq Covered(l, k)
           Good == {n \in Nat : n \in 1 .. k /\ l[n].dir => Right(n)}
<1>1. Len(l) \in Nat /\ \A j \in 1 .. k : j \in 1 .. Len(l)
  BY Reported
<1>2. ASSUME NEW n \in Nat, \A m \in Nat : m < n => m \in Good
      PROVE  n \in Good
  <2> SUFFICES ASSUME n \in 1 .. k, l[n].dir PROVE Right(n)
    OBVIOUS
  <2>1. n \in 1 .. Len(l)
    BY <1>1
  <2>2. l[n].start \in Nat /\ l[n].start \in Extent(l[n]) /\ l[n].name # NoName
    BY <2>1, EntryTypes
  <2>3. At(F, l[n].start) = l[n] /\ l[n].start \in Covered(l, k)
    BY <2>2, AtAfter
  <2>4. Walk(F, l[n].start) =
          Step(l[n], l[n].start, IF l[n].parent = 0 THEN NoWalk ELSE Walk(F, l[n].parent))
    <3> HIDE DEF F
    <3>1. Walk(F, l[n].start) =
            Step(At(F, l[n].start), l[n].start,
                 IF At(F, l[n].start).parent = 0 THEN NoWalk
                 ELSE Walk(F, At(F, l[n].start).parent))
      BY <2>2, Walks DEF F
    <3> QED BY <2>3, <3>1, Zenon
  <2> HIDE DEF F
  <2>5. CASE l[n].parent = 0
    <3>1. /\ Walk(F, l[n].start).path = Append(<<>>, l[n].name)
          /\ Walk(F, l[n].start).sectors = {l[n].start}
      BY <2>2, <2>4, <2>5 DEF Step, NoWalk, Below
    <3>2. TruePath(E, l[n]) = Append(<<>>, l[n].name)
      BY <2>1, <2>5, TruePaths
    <3> QED BY <2>3, <3>1, <3>2
  <2>6. CASE l[n].parent # 0
    <3>1. PICK j \in 1 .. Len(l) : Inside(E, l, n, j)
      BY <2>1, <2>6, ParentPath
    <3>2. j < n /\ j \in Nat /\ j \in 1 .. k
      BY <1>1, <3>1 DEF Rank, Inside
    <3>3. Right(j)
      BY <1>2, <3>1, <3>2 DEF Inside
    <3>4. /\ Walk(F, l[n].start).path = Append(Walk(F, l[j].start).path, l[n].name)
          /\ Walk(F, l[n].start).sectors = Walk(F, l[j].start).sectors \cup {l[n].start}
      BY <2>2, <2>4, <2>6, <3>1 DEF Step, Below, Inside
    <3> QED BY <2>3, <3>1, <3>3, <3>4 DEF Inside
  <2> QED BY <2>5, <2>6
<1>3. \A n \in Nat : n \in Good
  <2> HIDE DEF Good
  <2> QED BY <1>2, Induction
<1> QED BY <1>1, <1>3

LEMMA FirstTables ==
  ASSUME NEW E, NEW l
  PROVE  TablesAfter(E, l, 0) = [files |-> [s \in {} |-> Blank], dirs |-> [s \in {0} |-> <<>>]]
<1>1. Covered(l, 0) = {} /\ DirStarts(l, 0) = {}
  BY DEF Covered, DirStarts
<1>2. FilesAfter(l, 0) = [s \in {} |-> Blank]
  BY <1>1 DEF FilesAfter
<1>3. DirsAfter(E, l, 0) = [s \in {0} |-> <<>>]
  BY <1>1 DEF DirsAfter
<1> QED BY <1>2, <1>3 DEF TablesAfter

(* What AddFile makes of the tables.                                       *)
LEMMA FilesInserted ==
  ASSUME NEW E, NEW l, Listed(E, l), NEW k \in 1 .. Len(l)
  PROVE  /\ l[k].start \notin DOMAIN FilesAfter(l, k - 1)
         /\ insert(FilesAfter(l, k - 1), Extent(l[k]), l[k]) = FilesAfter(l, k)
<1>1. k - 1 \in 0 .. Len(l) /\ k > k - 1 /\ Len(l) \in Nat
  BY Reported
<1>2. l[k].start \in Extent(l[k]) /\ \A s \in Extent(l[k]) : s \notin Covered(l, k - 1)
  BY <1>1, AtAfter, EntryTypes
<1>3. Covered(l, k) = Covered(l, k - 1) \cup Extent(l[k])
  <2>1. 1 .. k = (1 .. k - 1) \cup {k}
    BY <1>1
  <2> QED BY <2>1 DEF Covered
<1>4. \A s \in Extent(l[k]) : Owner(l, s) = k
  BY OwnerIs
<1> QED BY <1>2, <1>3, <1>4 DEF FilesAfter, insert

LEMMA DirInserted ==
  ASSUME NEW E, NEW l, Listed(E, l), NEW k \in 1 .. Len(l)
  PROVE  DirsAfter(E, l, k) =
           IF l[k].dir THEN insert(DirsAfter(E, l, k - 1), {l[k].start}, TruePath(E, l[k]))
           ELSE DirsAfter(E, l, k - 1)
<1>1. Len(l) \in Nat /\ 1 .. k = (1 .. k - 1) \cup {k} /\ k - 1 \in 0 .. Len(l) /\ k > k - 1
  BY Reported
<1>2. DirStarts(l, k) = DirStarts(l, k - 1) \cup (IF l[k].dir THEN {l[k].start} ELSE {})
  BY <1>1 DEF DirStarts
<1>3. l[k].start \notin {0} \cup DirStarts(l, k - 1)
  <2>1. ASSUME NEW j \in 1 .. k - 1, l[k].start = l[j].start PROVE FALSE
    <3>1. j \in 1 .. Len(l) /\ j # k
      BY <1>1
    <3>2. l[k].start \in Extent(l[k]) /\ l[k].start \in Extent(l[j])
      BY <2>1, <3>1, EntryTypes
    <3> QED BY <3>1, <3>2, Disjoint
  <2>2. l[k].start # 0
    BY EntryTypes
  <2> QED BY <2>1, <2>2 DEF DirStarts
<1>4. Owner(l, l[k].start) = k /\ l[k].start # 0
  BY OwnerIs, EntryTypes
<1>5. CASE l[k].dir
  BY <1>2, <1>3, <1>4, <1>5 DEF DirsAfter, insert
<1>6. CASE ~l[k].dir
  BY <1>2, <1>6 DEF DirsAfter
<1> QED BY <1>5, <1>6

LEMMA AddsFile ==
  ASSUME NEW E, NEW l, Listed(E, l), NEW k \in 1 .. Len(l)
  PROVE  AddFile(TablesAfter(E, l, k - 1), l[k]) = TablesAfter(E, l, k)
<1> DEFINE T == TablesAfter(E, l, k - 1)
           F == FilesAfter(l, k)
<1>1. T.files = FilesAfter(l, k - 1) /\ T.dirs = DirsAfter(E, l, k - 1)
  BY DEF TablesAfter
<1>2. l[k].start \notin DOMAIN T.files /\ insert(T.files, Extent(l[k]), l[k]) = F
  BY <1>1, FilesInserted
<1>3. CASE l[k].dir
  <2> DEFINE walk == recurse_parent_walk(F, l[k].start)
  <2>1. k \in 0 .. Len(l) /\ k \in 1 .. k
    BY Reported
  <2>2. /\ Walk(F, l[k].start).path = TruePath(E, l[k])
        /\ Walk(F, l[k].start).sectors \subseteq DOMAIN F
    BY <1>3, <2>1, DirectoryWalk DEF FilesAfter
  <2>3. insert(F, Walk(F, l[k].start).sectors, Blank) = F
    BY <2>2 DEF insert, FilesAfter
  <2>4. walk.path = TruePath(E, l[k]) /\ walk.files = F
    BY <2>2, <2>3 DEF recurse_parent_walk
  <2>5. AddFile(T, l[k]) = [files |-> walk.files, dirs |-> insert(T.dirs, {l[k].start}, walk.path)]
    <3> HIDE DEF T, F
    <3> QED BY <1>2, <1>3 DEF AddFile
  <2>6. insert(T.dirs, {l[k].start}, walk.path) = DirsAfter(E, l, k)
    BY <1>1, <1>3, <2>4, DirInserted
  <2> HIDE DEF T, F, walk
  <2>7. AddFile(T, l[k]) = [files |-> F, dirs |-> DirsAfter(E, l, k)]
    BY <2>4, <2>5, <2>6, Zenon
  <2> QED BY <2>7 DEF TablesAfter, T, F
<1>4. CASE ~l[k].dir
  <2>1. AddFile(T, l[k]) = [T EXCEPT !.files = F]
    <3> HIDE DEF T, F
    <3> QED BY <1>2, <1>4 DEF AddFile
  <2>2. DirsAfter(E, l, k) = DirsAfter(E, l, k - 1)
    BY <1>4, DirInserted
  <2> QED BY <2>1, <2>2 DEF TablesAfter
<1> QED BY <1>3, <1>4

(* The table by path of the entries E.                                     *)
ByTruePath(E) ==
  [p \in {TruePath(E, f) : f \in E} |-> (CHOOSE f \in E : TruePath(E, f) = p).start]

(* Every sector of an entry is found under the entry's path.               *)
LEMMA SectorPath ==
  ASSUME NEW E, NEW l, Listed(E, l), NEW i \in 1 .. Len(l)
  PROVE  LET T == TablesAfter(E, l, Len(l))
         IN  Below(IF l[i].parent \in DOMAIN T.dirs THEN T.dirs[l[i].parent] ELSE <<>>, l[i].name)
               = TruePath(E, l[i])
<1> DEFINE D == DirsAfter(E, l, Len(l))
<1>1. TablesAfter(E, l, Len(l)).dirs = D /\ l[i].name # NoName
  BY EntryTypes DEF TablesAfter
<1>2. CASE l[i].parent = 0
  <2>1. l[i].parent \in DOMAIN D /\ D[l[i].parent] = <<>>
    BY <1>2 DEF DirsAfter
  <2>2. TruePath(E, l[i]) = Append(<<>>, l[i].name)
    BY <1>2, TruePaths
  <2> HIDE DEF D
  <2> QED BY <1>1, <2>1, <2>2 DEF Below
<1>3. CASE l[i].parent # 0
  <2>1. PICK j \in 1 .. Len(l) : Inside(E, l, i, j)
    BY <1>3, ParentPath
  <2>2. l[j].start \in DirStarts(l, Len(l)) /\ l[j].start # 0 /\ Owner(l, l[j].start) = j
    BY <2>1, EntryTypes, OwnerIs DEF DirStarts, Inside
  <2>3. l[i].parent \in DOMAIN D /\ D[l[i].parent] = TruePath(E, l[j])
    BY <2>1, <2>2 DEF DirsAfter, Inside
  <2> HIDE DEF D
  <2> QED BY <1>1, <2>1, <2>3 DEF Below, Inside
<1> QED BY <1>2, <1>3

LEMMA Built ==
  ASSUME NEW E, NEW l, Listed(E, l)
  PROVE  buildFilesByDirLUT(TablesAfter(E, l, Len(l))) = ByTruePath(E)
<1> DEFINE T == TablesAfter(E, l, Len(l))
           dir(s) == IF s \in DOMAIN T.dirs THEN T.dirs[s] ELSE <<>>
           path(s) == Below(dir(T.files[s].parent), T.files[s].name)
           sectors(p) == {s \in DOMAIN T.files : path(s) = p}
           All == {path(s) : s \in DOMAIN T.files}
<1>1. ASSUME NEW i \in 1 .. Len(l), NEW s \in Extent(l[i])
      PROVE  s \in DOMAIN T.files /\ T.files[s] = l[i] /\ path(s) = TruePath(E, l[i])
  <2>1. i \in 1 .. Len(l) /\ Owner(l, s) = i /\ s \in Covered(l, Len(l))
    BY OwnerIs DEF Covered
  <2>2. s \in DOMAIN T.files /\ T.files[s] = l[i]
    BY <2>1 DEF TablesAfter, FilesAfter
  <2>3. Below(dir(l[i].parent), l[i].name) = TruePath(E, l[i])
    BY SectorPath
  <2> HIDE DEF T, dir
  <2> QED BY <2>2, <2>3
<1>2. ASSUME NEW s \in DOMAIN T.files
      PROVE  \E i \in 1 .. Len(l) : s \in Extent(l[i])
  BY DEF TablesAfter, FilesAfter, Covered
<1>3. All = {TruePath(E, f) : f \in E}
  <2>1. ASSUME NEW s \in DOMAIN T.files PROVE \E f \in E : path(s) = TruePath(E, f)
    BY <1>1, <1>2, Reported
  <2>2. ASSUME NEW f \in E PROVE \E s \in DOMAIN T.files : path(s) = TruePath(E, f)
    <3>1. PICK i \in 1 .. Len(l) : f = l[i]
      BY Reported
    <3>2. l[i].start \in Extent(l[i])
      BY EntryTypes
    <3> QED BY <1>1, <3>1, <3>2
  <2> HIDE DEF T, path
  <2> QED BY <2>1, <2>2
<1>4. ASSUME NEW i \in 1 .. Len(l)
      PROVE  T.files[Min(sectors(TruePath(E, l[i])))].start = l[i].start
  <2> DEFINE S == sectors(TruePath(E, l[i]))
  <2>1. S = Extent(l[i])
    <3>1. ASSUME NEW s \in S PROVE s \in Extent(l[i])
      <4>1. PICK j \in 1 .. Len(l) : s \in Extent(l[j])
        BY <1>2
      <4>2. TruePath(E, l[j]) = TruePath(E, l[i])
        BY <1>1, <4>1
      <4> QED BY <4>1, <4>2, DistinctPaths
    <3>2. \A s \in Extent(l[i]) : s \in S
      BY <1>1
    <3> QED BY <3>1, <3>2
  <2>2. l[i].start \in Extent(l[i]) /\ \A s \in Extent(l[i]) : l[i].start <= s
    BY EntryTypes
  <2>3. Min(Extent(l[i])) \in Extent(l[i])
    BY <2>2 DEF Min
  <2> HIDE DEF T, path, sectors, S
  <2> QED BY <1>1, <2>1, <2>3 DEF S
<1>5. ASSUME NEW i \in 1 .. Len(l)
      PROVE  (CHOOSE f \in E : TruePath(E, f) = TruePath(E, l[i])) = l[i]
  <2>1. \A f \in E : TruePath(E, f) = TruePath(E, l[i]) => f = l[i]
    BY Reported, DistinctPaths
  <2>2. l[i] \in E
    BY Reported
  <2> QED BY <2>1, <2>2
<1>6. ASSUME NEW p \in {TruePath(E, f) : f \in E}
      PROVE  T.files[Min(sectors(p))].start = (CHOOSE f \in E : TruePath(E, f) = p).start
  <2>1. PICK i \in 1 .. Len(l) : p = TruePath(E, l[i])
    BY Reported
  <2> HIDE DEF T, sectors
  <2> QED BY <1>4, <1>5, <2>1
<1>7. buildFilesByDirLUT(T) = [p \in All |-> T.files[Min(sectors(p))].start]
  <2> HIDE DEF T
  <2> QED BY DEF buildFilesByDirLUT
<1> HIDE DEF T, sectors, path, All
<1> QED BY <1>3, <1>6, <1>7 DEF ByTruePath, T

(* The tables a disc's entries are made into, in whatever order they come. *)
LEMMA Caches ==
  ASSUME NEW E, NEW l, Listed(E, l)
  PROVE  psxFs_CacheFilesystem(l) = ByTruePath(E)
<1> DEFINE N == Len(l)
           First == [files |-> [s \in {} |-> Blank], dirs |-> [s \in {0} |-> <<>>]]
           T(k) == TablesAfter(E, l, k)
           tables == CHOOSE g : g = [k \in 0 .. N |->
                       IF k = 0 THEN First ELSE AddFile(g[k - 1], l[k])]
           Good == {k \in Nat : k \in 0 .. N => tables[k] = T(k)}
<1>1. N \in Nat
  BY Reported
<1>2. T(0) = First /\ \A k \in 1 .. N : AddFile(T(k - 1), l[k]) = T(k)
  BY FirstTables, AddsFile
<1>3. \E g : g = [k \in 0 .. N |-> IF k = 0 THEN First ELSE AddFile(g[k - 1], l[k])]
  <2> DEFINE g == [k \in 0 .. N |-> T(k)]
  <2>1. ASSUME NEW k \in 0 .. N PROVE g[k] = IF k = 0 THEN First ELSE AddFile(g[k - 1], l[k])
    <3>1. CASE k = 0
      BY <1>2, <3>1
    <3>2. CASE k # 0
      <4>1. k \in 1 .. N /\ k - 1 \in 0 .. N
        BY <1>1, <3>2
      <4> HIDE DEF First, T, N
      <4> QED BY <1>2, <3>2, <4>1
    <3> QED BY <3>1, <3>2
  <2>2. g = [k \in 0 .. N |-> IF k = 0 THEN First ELSE AddFile(g[k - 1], l[k])]
    <3> HIDE DEF First, T, N
    <3> QED BY <2>1
  <2> HIDE DEF g
  <2> QED BY <2>2
<1>4. tables = [k \in 0 .. N |-> IF k = 0 THEN First ELSE AddFile(tables[k - 1], l[k])]
  <2> HIDE DEF First, N
  <2> QED BY <1>3
<1>5. psxFs_CacheFilesystem(l) = buildFilesByDirLUT(tables[N])
  BY DEF psxFs_CacheFilesystem
<1> HIDE DEF tables, First, T, N
<1>6. ASSUME NEW k \in Nat, \A m \in Nat : m < k => m \in Good
      PROVE  k \in Good
  <2> SUFFICES ASSUME k \in 0 .. N PROVE tables[k] = T(k)
    OBVIOUS
  <2>1. CASE k = 0
    BY <1>2, <1>4, <2>1
  <2>2. CASE k # 0
    <3>1. k \in 1 .. N /\ k - 1 \in 0 .. N /\ k - 1 \in Nat /\ k - 1 < k
      BY <1>1, <2>2
    <3>2. tables[k - 1] = T(k - 1)
      BY <1>6, <3>1
    <3>3. tables[k] = AddFile(tables[k - 1], l[k])
      BY <1>4, <2>2
    <3> QED BY <1>2, <3>1, <3>2, <3>3
  <2> QED BY <2>1, <2>2
<1>7. tables[N] = T(N)
  <2>1. \A k \in Nat : k \in Good
    <3> HIDE DEF Good
    <3> QED BY <1>6, Induction
  <2> QED BY <1>1, <2>1
<1> QED BY <1>5, <1>7, Built DEF T, N

LEMMA DiscListed ==
  ASSUME NEW d \in Discs, NEW l \in Listings[d] PROVE Listed(Entries(d), l)
BY DiscsAssumption DEF Listed

(* The tables made of a disc (AddFile, buildFilesByDirLUT) do not depend on*)
(* the order in which the parser reports its entries.                      *)
THEOREM OrderDoesNotMatter ==
  \A d \in Discs : Tables[d] = {ByTruePath(Entries(d))}
<1> SUFFICES ASSUME NEW d \in Discs PROVE Tables[d] = {ByTruePath(Entries(d))}
  OBVIOUS
<1>1. \A l \in Listings[d] : psxFs_CacheFilesystem(l) = ByTruePath(Entries(d))
  BY DiscListed, Caches
<1> QED BY <1>1, DiscsAssumption DEF Tables

LEMMA TablesFind ==
  ASSUME NEW d \in Discs, NEW t \in Tables[d], NEW f \in Files[d]
  PROVE  f.path \in DOMAIN t /\ t[f.path] = f.start
<1> DEFINE E == Entries(d)
<1>1. PICK l \in Listings[d] : Listed(E, l)
  BY DiscListed, DiscsAssumption
<1>2. PICK e \in E : f.start = e.start /\ f.path = TruePath(E, e)
  BY DEF Files
<1>3. \A g \in E : TruePath(E, g) = TruePath(E, e) => g = e
  <2> HIDE DEF E
  <2> QED BY <1>1, <1>2, Reported, DistinctPaths
<1>4. t = ByTruePath(E)
  BY OrderDoesNotMatter
<1> HIDE DEF E
<1> QED BY <1>2, <1>3, <1>4 DEF ByTruePath

(* Every file of the disc is found under its path, whatever the order in   *)
(* which its entries were reported (psxFs_CacheFilesystem).                *)
THEOREM FilesAreFound == Spec => []FilesFound
<1>1. IInv => FilesFound
  BY TablesFind DEF IInv, TypeOK, FilesFound
<1> QED BY Invariant, <1>1, PTL
-----------------------------------------------------------------------------
(* If the tables find every file, what is looked up is what is asked for.  *)
LEMMA FileStarts ==
  ASSUME NEW d \in Discs, NEW f \in Files[d] PROVE f.start # 0
<1>1. PICK e \in Entries(d) : f.start = e.start
  BY DEF Files
<1>2. \E l \in Listings[d] : TRUE
  BY DiscsAssumption
<1>3. PICK l \in Listings[d] : Entries(d) = ToSet(l)
  BY <1>2 DEF Entries
<1>4. PICK i \in DOMAIN l : e = l[i]
  BY <1>1, <1>3 DEF ToSet
<1>5. MayReport(l)
  BY DiscsAssumption
<1> QED BY <1>1, <1>4, <1>5 DEF MayReport

LEMMA AskedIsFound ==
  ASSUME FilesFound, disc \in Discs, NEW path, ProgramAsked(path) # NoProgram
  PROVE  SectorFor(path) # 0 /\ ProgramAt(SectorFor(path)) = ProgramAsked(path)
<1>1. MayAsk(path) /\ AskedFor(path) # {} /\ ProgramAsked(path) \in AskedFor(path)
  BY DEF ProgramAsked
<1>2. PICK f \in Files[disc] :
        /\ ~f.dir /\ ProgramAsked(path) = [disc |-> disc, start |-> f.start]
        /\ f.path = IF path.mount = Cdrom /\ ~path.rooted /\ hle.version >= 2
                       /\ hle.pwd.mount = Cdrom
                    THEN hle.pwd.names \o path.names ELSE path.names
  BY <1>1 DEF AskedFor
<1>3. f.path = psxFs_Canonicalize(FullPath(path))
  BY <1>1, <1>2, SizesAssumption DEF MayAsk, FullPath, psxFs_Canonicalize
<1>4. f.path \in DOMAIN fs.byPath /\ fs.byPath[f.path] = f.start
  BY <1>1, <1>2 DEF FilesFound, MayAsk
<1>5. SectorFor(path) = f.start
  BY <1>3, <1>4 DEF SectorFor, psxFs_GetFileSector
<1>6. ProgramAt(f.start) = [disc |-> disc, start |-> f.start]
  BY <1>2 DEF ProgramAt
<1> QED BY <1>2, <1>5, <1>6, FileStarts

LEMMA BootIsFound ==
  ASSUME disc \in Discs, NEW t, NEW n,
         \A f \in Files[disc] : f.path \in DOMAIN t /\ t[f.path] = f.start
  PROVE  BootContext(t, n).prog = BootAsked
<1> DEFINE canon == psxFs_Canonicalize(Exe(disc))
<1>1. PICK f \in Files[disc] : ~f.dir /\ f.path = canon
  BY DiscsAssumption
<1>2. psxFs_GetFileSector(t, Exe(disc)) = f.start
  BY <1>1 DEF psxFs_GetFileSector
<1>3. ProgramAt(f.start) = [disc |-> disc, start |-> f.start]
  BY <1>1 DEF ProgramAt
<1>4. BootContext(t, n).prog = [disc |-> disc, start |-> f.start]
  BY <1>2, <1>3 DEF BootContext
<1>5. \A p \in Programs, g \in Files[disc] :
        g.path = canon /\ p = [disc |-> disc, start |-> g.start] =>
          p = [disc |-> disc, start |-> f.start]
  BY <1>1
<1>6. [disc |-> disc, start |-> f.start] \in Programs
  BY <1>1 DEF Programs
<1>7. \E p \in Programs : \E g \in Files[disc] :
        ~g.dir /\ g.path = canon /\ p = [disc |-> disc, start |-> g.start]
  BY <1>1, <1>6
<1>8. BootAsked = [disc |-> disc, start |-> f.start]
  <2> HIDE DEF canon
  <2>1. BootAsked \in Programs /\ \E g \in Files[disc] :
          ~g.dir /\ g.path = canon /\ BootAsked = [disc |-> disc, start |-> g.start]
    BY <1>7 DEF BootAsked, canon
  <2> QED BY <1>5, <2>1
<1> QED BY <1>4, <1>8

LEMMA InitRuns == Init /\ FilesFound => RunsAsAsked
<1> SUFFICES ASSUME Init, FilesFound PROVE RunsAsAsked
  OBVIOUS
<1>1. PICK table \in Tables[disc] :
        fs = [disc |-> disc, byPath |-> table] /\ regs = BootContext(table, 1)
  BY DEF Init
<1>2. disc \in Discs /\ TypeOK /\ Len(calls) = 0
  BY InitInv, EmptySeq DEF IInv, Init
<1>3. Stack[1] = regs
  BY <1>2, StackType DEF Depth
<1>4. regs.prog = BootAsked
  BY <1>1, <1>2, BootIsFound DEF FilesFound
<1>5. asked[NoHeader] = BootAsked /\ \A h \in AllHeaders : asked[h] = NoProgram
  BY SizesAssumption DEF Init, AskedAtBoot
<1> QED BY <1>3, <1>4, <1>5 DEF RunsAsAsked

LEMMA NextRuns ==
  IInv /\ IInv' /\ FilesFound /\ FilesFound' /\ RunsAsAsked /\ [Next]_vars => RunsAsAsked'
<1> SUFFICES ASSUME IInv, IInv', FilesFound, FilesFound', RunsAsAsked, [Next]_vars
             PROVE  RunsAsAsked'
  OBVIOUS
<1> USE DEF IInv
<1>0. /\ Depth \in Nat \ {0} /\ Depth \in 1 .. Depth /\ 1 \in 1 .. Depth /\ Stack[Depth] = regs
      /\ calls \in Seq(Contexts) /\ regs \in Contexts /\ disc \in Discs
  BY StackType DEF TypeOK
<1>1. ASSUME NEW k \in 1 .. Depth + 1, CutTo(k), k > 1 \/ regs'.prog = Stack[1].prog
      PROVE  Stack'[1].prog = Stack[1].prog
  BY <1>1 DEF CutTo
<1>2. ASSUME NEW path, NEW h \in AllHeaders, Loads(path, h)
      PROVE  /\ \A g \in AllHeaders :
                  asked'[g] # NoProgram => LoadedInto(path, h)[g].prog = asked'[g]
             /\ asked'[NoHeader] = asked[NoHeader]
  <2>1. CASE SectorFor(path) = 0 /\ ProgramAsked(path) = NoProgram
    BY <1>2, <2>1 DEF Loads, LoadedInto, RunsAsAsked
  <2>2. CASE ~(SectorFor(path) = 0 /\ ProgramAsked(path) = NoProgram)
    <3>1. asked' = [asked EXCEPT ![h] = ProgramAsked(path)]
      BY <1>2, <2>2 DEF Loads
    <3>2. /\ \A g \in AllHeaders \ {h} : asked'[g] = asked[g]
          /\ asked'[NoHeader] = asked[NoHeader] /\ asked'[h] = ProgramAsked(path)
      BY <3>1, SizesAssumption DEF TypeOK
    <3>3. \A g \in AllHeaders \ {h} : LoadedInto(path, h)[g].prog = header[g].prog
      BY DEF LoadedInto, TypeOK
    <3>4. ASSUME ProgramAsked(path) # NoProgram
          PROVE  LoadedInto(path, h)[h].prog = ProgramAsked(path)
      BY <1>0, <3>4, AskedIsFound DEF LoadedInto, TypeOK
    <3> QED BY <3>2, <3>3, <3>4 DEF RunsAsAsked
  <2> QED BY <2>1, <2>2
<1>3. ASSUME NEW ds, NEW h \in AllHeaders, Executes(ds, h),
             ds \in [AllHeaders ->
               [prog : Programs \cup {NoProgram}, saved : Contexts \cup {NoContext}]]
      PROVE  /\ \A g \in AllHeaders : header'[g].prog = ds[g].prog
             /\ Stack'[1].prog = Stack[1].prog
  <2>1. calls' = Append(calls, regs) /\ regs' \in Contexts
    BY <1>3, ExecutesType DEF Executes
  <2>2. CutTo(Depth + 1) /\ Depth + 1 > 1
    BY <1>0, <2>1, Pushed
  <2> QED BY <1>0, <1>1, <1>3, <2>2 DEF Executes
<1>4. CASE psxBiosLoadExecCdrom
  <2>1. CutTo(1) /\ fs' \in Cached /\ disc' = disc
    BY <1>4, BootKeeps DEF psxBiosLoadExecCdrom
  <2>2. fs'.disc = disc
    BY <2>1 DEF Cached
  <2>3. \A f \in Files[disc] : f.path \in DOMAIN fs'.byPath /\ fs'.byPath[f.path] = f.start
    BY <2>2 DEF FilesFound
  <2>4. regs'.prog = BootAsked
    BY <1>0, <1>4, <2>3, BootIsFound DEF psxBiosLoadExecCdrom
  <2>5. asked'[NoHeader] = BootAsked /\ \A h \in AllHeaders : asked'[h] = NoProgram
    BY <1>4, SizesAssumption DEF psxBiosLoadExecCdrom, AskedAtBoot
  <2> QED BY <2>1, <2>4, <2>5 DEF CutTo, RunsAsAsked
<1>5. CASE Work
  <2>1. regs' \in Contexts /\ regs'.prog = regs.prog /\ UNCHANGED <<calls, header, asked>>
    BY <1>0, <1>5 DEF Work, TypeOK, Contexts
  <2>2. CutTo(Depth)
    BY <1>0, <2>1, Stayed
  <2>3. Stack'[1].prog = Stack[1].prog
    BY <1>0, <1>1, <2>1, <2>2
  <2> QED BY <2>1, <2>3 DEF RunsAsAsked
<1>6. ASSUME NEW path \in Paths, LoadExec(path) PROVE RunsAsAsked'
  <2>1. ExecHeader \in AllHeaders /\ Loads(path, ExecHeader)
          /\ Executes(LoadedInto(path, ExecHeader), ExecHeader)
    BY <1>6 DEF LoadExec, AllHeaders
  <2>2. LoadedInto(path, ExecHeader) \in [AllHeaders ->
          [prog : Programs \cup {NoProgram}, saved : Contexts \cup {NoContext}]]
    BY <2>1, LoadsType
  <2> QED BY <1>2, <1>3, <2>1, <2>2 DEF RunsAsAsked
<1>7. ASSUME NEW path \in Paths, NEW h \in Headers, Load(path, h) PROVE RunsAsAsked'
  <2>1. h \in AllHeaders /\ Loads(path, h) /\ header' = LoadedInto(path, h)
          /\ UNCHANGED <<calls, regs>>
    BY <1>7 DEF Load, AllHeaders
  <2>2. Stack' = Stack
    BY <2>1 DEF Stack
  <2> QED BY <1>2, <2>1, <2>2 DEF RunsAsAsked
<1>8. ASSUME NEW h \in Headers, Exec(h) PROVE RunsAsAsked'
  <2>1. h \in AllHeaders /\ Executes(header, h) /\ UNCHANGED asked
    BY <1>8 DEF Exec, AllHeaders
  <2> QED BY <1>3, <2>1 DEF RunsAsAsked, TypeOK
<1>9. CASE ExecRet
  <2>1. Depth > 1 /\ CutTo(Depth - 1) /\ regs' = Stack[Depth - 1]
          /\ UNCHANGED <<header, asked>>
    BY <1>9, ReturnsToCaller DEF ExecRet
  <2>2. Stack'[1].prog = Stack[1].prog
    BY <1>0, <1>1, <2>1
  <2> QED BY <2>1, <2>2 DEF RunsAsAsked
<1>10. ASSUME NEW b \in Buffers, longjmp(b) PROVE RunsAsAsked'
  <2>1. PICK k \in 1 .. Depth : CutTo(k) /\ Same(regs', Stack[k])
    BY <1>10, JumpsToMark
  <2>2. Stack'[1].prog = Stack[1].prog
    BY <1>0, <1>1, <2>1 DEF Same
  <2> QED BY <1>10, <2>2 DEF longjmp, RunsAsAsked
<1>11. CASE Swap \/ (\E path \in Directories : cd(path)) \/ (\E b \in Buffers : setjmp(b))
            \/ UNCHANGED vars
  <2>1. UNCHANGED <<calls, regs, header, asked>>
    BY <1>11 DEF Swap, cd, setjmp, vars
  <2>2. Stack' = Stack
    BY <2>1 DEF Stack
  <2> QED BY <2>1, <2>2 DEF RunsAsAsked
<1> QED BY <1>4, <1>5, <1>6, <1>7, <1>8, <1>9, <1>10, <1>11 DEF Next

(* The program loaded or booted is the one asked for (psxBios_Load,        *)
(* LoadExec, psxBiosLoadExecCdrom), however discs are swapped, directories *)
(* changed and programs started, returned from and jumped out of.          *)
THEOREM RunsWhatIsAsked == Spec => []RunsAsAsked
BY Invariant, FilesAreFound, InitRuns, NextRuns, PTL DEF Spec
=============================================================================
