--------------------------- MODULE ServicesProofs ----------------------------
(***************************************************************************)
(* Theorems about the parts of the kernel that share no state: Qsort, for  *)
(* arrays of any length, Gpu, Descriptors, Dispatch, Console, and Library, *)
(* for a memory of any size.                                               *)
(***************************************************************************)
EXTENDS Services, FunctionTheorems, FiniteSetTheorems, SequenceTheorems, TLAPS

Frames == [a : 0 .. N, l : 0 .. N]

(* Places p and q are of one range that is not sorted yet: the one at work, *)
(* from lo to hi, or one that a caller goes on with.                       *)
Together(p, q, lo, hi, st) ==
  \/ lo <= p /\ q < hi
  \/ \E k \in 1 .. Len(st) : st[k].a <= p /\ q < st[k].l

(* Elements of different ranges are in order already.                      *)
InOrder(ar, ky, lo, hi, st) ==
  \A p, q \in Places :
    p < q => ky[ar[p]] <= ky[ar[q]] \/ Together(p, q, lo, hi, st)

(* The ranges do not overlap.                                              *)
Apart(lo, hi, st) ==
  /\ \A k \in 1 .. Len(st) :
       st[k].a <= st[k].l /\ (st[k].l <= lo \/ hi <= st[k].a)
  /\ \A k, m \in 1 .. Len(st) : k < m => st[k].l <= st[m].a \/ st[m].l <= st[k].a

(* What a partition in progress has placed: less than the pivot up to i,   *)
(* equal from lp to hp, greater from j on; at "right", arr[i] is greater.  *)
SidesPlaced ==
  /\ \A p \in a .. i - 1 : key[arr[p]] < key[arr[lp]]
  /\ \A p \in lp .. hp : key[arr[p]] = key[arr[lp]]
  /\ \A p \in j + 1 .. l - 1 : key[arr[p]] > key[arr[lp]]
  /\ pc = "right" /\ i < lp => key[arr[i]] > key[arr[lp]]

Honest == honest /\ ~nested

SortInv ==
  /\ TypeOK
  /\ i \in Int /\ lp \in Int /\ hp \in Int /\ j \in Int /\ a \in Int /\ l \in Int
  /\ Apart(a, l, stack)
  /\ Permutation
  /\ StatusRestored
  /\ Honest => InOrder(arr, key, a, l, stack)
  /\ Honest /\ pc \in {"left", "right"} => SidesPlaced
  /\ pc = "idle" => stack = <<>> /\ l - a <= 1
-----------------------------------------------------------------------------
(* Exchanges within a range.                                               *)

(* new is old with the elements of lo .. hi-1 in another order.            *)
Moved(old, new, lo, hi) ==
  /\ new \in [Places -> Places]
  /\ \A p, q \in Places : new[p] = new[q] => p = q
  /\ \A p \in Places : ~(lo <= p /\ p < hi) => new[p] = old[p]
  /\ \A p \in Places : lo <= p /\ p < hi =>
       \E r \in Places : lo <= r /\ r < hi /\ new[p] = old[r]

LEMMA Exchange ==
  ASSUME arr \in [Places -> Places], Permutation,
         NEW lo \in Int, NEW hi \in Int, NEW p \in Places, NEW q \in Places,
         lo <= p, p < hi, lo <= q, q < hi
  PROVE  /\ Moved(arr, qexchange(p, q), lo, hi)
         /\ \A r \in Places : qexchange(p, q)[r] =
              IF r = q THEN arr[p] ELSE IF r = p THEN arr[q] ELSE arr[r]
  BY DEF Moved, qexchange, Permutation, Places

(* The three places of q3exchange, of which the last two may be one.       *)
LEMMA Exchange3 ==
  ASSUME arr \in [Places -> Places], Permutation,
         NEW lo \in Int, NEW hi \in Int,
         NEW p \in Places, NEW q \in Places, NEW r \in Places,
         lo <= p, p < hi, lo <= q, q < hi, lo <= r, r < hi, p # q, p # r
  PROVE  /\ Moved(arr, q3exchange(p, q, r), lo, hi)
         /\ \A s \in Places : q3exchange(p, q, r)[s] =
              IF s = q THEN arr[p] ELSE IF s = p THEN arr[r]
              ELSE IF s = r THEN arr[q] ELSE arr[s]
<1>1. \A s \in Places : q3exchange(p, q, r)[s] =
              IF s = q THEN arr[p] ELSE IF s = p THEN arr[r]
              ELSE IF s = r THEN arr[q] ELSE arr[s]
  BY DEF q3exchange
<1>2. q3exchange(p, q, r) \in [Places -> Places]
  BY DEF q3exchange
<1>3. QED
  BY <1>1, <1>2 DEF Moved, Permutation

(* Order between ranges does not depend on the order within one.           *)
LEMMA OrderKept ==
  ASSUME NEW old \in [Places -> Places], NEW new, NEW ky \in [Places -> Keys],
         NEW lo \in Int, NEW hi \in Int, NEW st \in Seq(Frames),
         Moved(old, new, lo, hi), Apart(lo, hi, st), InOrder(old, ky, lo, hi, st)
  PROVE  InOrder(new, ky, lo, hi, st)
<1> SUFFICES ASSUME NEW p \in Places, NEW q \in Places, p < q,
                    ~Together(p, q, lo, hi, st)
             PROVE  ky[new[p]] <= ky[new[q]]
  BY DEF InOrder
<1>1. \A k \in 1 .. Len(st) : st[k].a \in 0 .. N /\ st[k].l \in 0 .. N
  <2>1. \A k \in 1 .. Len(st) : st[k] \in Frames
    OBVIOUS
  <2>2. QED
    BY <2>1 DEF Frames
<1>2. CASE lo <= p /\ p < hi
  <2>1. ~(q < hi)
    BY <1>2 DEF Together
  <2>2. PICK r \in Places : lo <= r /\ r < hi /\ new[p] = old[r]
    BY <1>2 DEF Moved
  <2>3. ~Together(r, q, lo, hi, st)
    <3>1. SUFFICES ASSUME NEW k \in 1 .. Len(st), st[k].a <= r, q < st[k].l PROVE FALSE
      BY <2>1 DEF Together
    <3>2. st[k].a \in Int /\ st[k].l \in Int /\ p \in Int /\ q \in Int /\ r \in Int
      <4>1. st[k].a \in Int /\ st[k].l \in Int
        BY <1>1, SizeAssumption
      <4>2. p \in Int /\ q \in Int /\ r \in Int
        BY SizeAssumption DEF Places
      <4>3. QED
        BY <4>1, <4>2
    <3>3. st[k].l <= lo \/ hi <= st[k].a
      BY DEF Apart
    <3>4. QED
      BY <1>2, <2>2, <3>1, <3>2, <3>3
  <2>4. new[q] = old[q] /\ r < q
    BY <2>1, <2>2 DEF Moved, Places
  <2>5. QED
    BY <2>2, <2>3, <2>4 DEF InOrder
<1>3. CASE lo <= q /\ q < hi /\ ~(lo <= p /\ p < hi)
  <2>1. p < lo
    BY <1>3 DEF Places
  <2>2. PICK r \in Places : lo <= r /\ r < hi /\ new[q] = old[r]
    BY <1>3 DEF Moved
  <2>3. ~Together(p, r, lo, hi, st)
    <3>1. SUFFICES ASSUME NEW k \in 1 .. Len(st), st[k].a <= p, r < st[k].l PROVE FALSE
      BY <2>1, <2>2 DEF Together, Places
    <3>2. st[k].a \in Int /\ st[k].l \in Int /\ p \in Int /\ r \in Int
      <4>1. st[k].a \in Int /\ st[k].l \in Int
        BY <1>1, SizeAssumption
      <4>2. p \in Int /\ r \in Int
        BY SizeAssumption DEF Places
      <4>3. QED
        BY <4>1, <4>2
    <3>3. st[k].l <= lo \/ hi <= st[k].a
      BY DEF Apart
    <3>4. QED
      BY <1>3, <2>1, <2>2, <3>1, <3>2, <3>3
  <2>4. new[p] = old[p] /\ p < r
    BY <1>3, <2>1, <2>2 DEF Moved, Places
  <2>5. QED
    BY <2>2, <2>3, <2>4 DEF InOrder
<1>4. CASE ~(lo <= p /\ p < hi) /\ ~(lo <= q /\ q < hi)
  BY <1>4 DEF Moved, InOrder
<1>5. QED
  BY <1>2, <1>3, <1>4
-----------------------------------------------------------------------------
(* The stack.                                                              *)

LEMMA Pushed ==
  ASSUME NEW f \in Frames, NEW st \in Seq(Frames)
  PROVE  /\ <<f>> \o st \in Seq(Frames)
         /\ Len(<<f>> \o st) = Len(st) + 1
         /\ (<<f>> \o st)[1] = f
         /\ \A k \in 1 .. Len(st) : (<<f>> \o st)[k + 1] = st[k]
         /\ \A k \in 2 .. Len(st) + 1 : (<<f>> \o st)[k] = st[k - 1]
  OBVIOUS

LEMMA Popped ==
  ASSUME NEW st \in Seq(Frames), st # <<>>
  PROVE  /\ Tail(st) \in Seq(Frames) /\ Head(st) \in Frames
         /\ Len(st) \in Nat /\ Len(st) >= 1
         /\ Len(Tail(st)) = Len(st) - 1 /\ Head(st) = st[1]
         /\ \A k \in 1 .. Len(st) - 1 : Tail(st)[k] = st[k + 1]
  OBVIOUS
-----------------------------------------------------------------------------
LEMMA SortInitInv == Init => SortInv
<1> SUFFICES ASSUME Init PROVE SortInv
  OBVIOUS
<1>1. TypeOK
  <2>1. stack \in Seq([a : 0 .. N, l : 0 .. N])
    BY DEF Init
  <2>2. arr \in [Places -> Places] /\ key \in [Places -> Keys]
    BY SizeAssumption DEF Init, NoKeys
  <2>3. 0 <= a /\ a <= l /\ l <= N /\ ~(pc \in {"left", "right"})
    BY SizeAssumption DEF Init
  <2>4. QED
    BY <2>1, <2>2, <2>3 DEF Init, TypeOK, Labels
<1>2. Apart(a, l, stack) /\ StatusRestored /\ Permutation
  BY DEF Init, Apart, StatusRestored, Permutation, Places
<1>3. InOrder(arr, key, a, l, stack)
  <2>1. \A p \in Places : key[arr[p]] = 0
    BY DEF Init, NoKeys
  <2>2. QED
    BY <2>1 DEF InOrder
<1>4. QED
  BY <1>1, <1>2, <1>3 DEF Init, SortInv
-----------------------------------------------------------------------------
(* One lemma per step of qsort_main.                                       *)

(* What the steps of a partition share: they only move elements of the     *)
(* range, or nothing.                                                      *)
Partition == pc \in {"left", "right"} /\ UNCHANGED <<compare, range, stack, status>>

LEMMA PartitionKeeps ==
  ASSUME SortInv, Partition, pc' \in {"left", "right"},
         arr' = arr \/ Moved(arr, arr', a, l),
         i' \in Int, lp' \in Int, hp' \in Int, j' \in Int,
         a <= i', i' <= lp', lp' <= hp', hp' <= j', j' < l,
         Honest => SidesPlaced'
  PROVE  SortInv'
<1> USE DEF SortInv, TypeOK, Partition, compare, range, status, Honest
<1>1. arr' \in [Places -> Places] /\ Permutation'
  BY DEF Moved, Permutation
<1>2. Honest => InOrder(arr', key, a, l, stack)
  BY OrderKept DEF Frames
<1>3. TypeOK'
  BY <1>1 DEF Labels
<1>4. Apart(a', l', stack') /\ StatusRestored'
  BY DEF StatusRestored
<1>5. QED
  BY <1>1, <1>2, <1>3, <1>4

(* The places the pointers stand on.                                       *)
LEMMA Pointers ==
  ASSUME SortInv, pc \in {"left", "right"}
  PROVE  /\ a \in Int /\ l \in Int /\ 0 <= a /\ l <= N
         /\ i \in Places /\ lp \in Places /\ hp \in Places /\ j \in Places
         /\ a <= i /\ i <= lp /\ lp <= hp /\ hp <= j /\ j < l
         /\ arr \in [Places -> Places] /\ key \in [Places -> Int] /\ Permutation
         /\ Places \subseteq Int
         /\ \A p \in Int : a <= p /\ p < l => p \in Places
         /\ Honest => SidesPlaced
<1>1. /\ a \in Int /\ l \in Int /\ 0 <= a /\ l <= N
      /\ i \in Int /\ lp \in Int /\ hp \in Int /\ j \in Int
      /\ a <= i /\ i <= lp /\ lp <= hp /\ hp <= j /\ j < l
  BY DEF SortInv, TypeOK
<1>2. arr \in [Places -> Places] /\ Permutation /\ (Honest => SidesPlaced)
  BY DEF SortInv, TypeOK
<1>3. key \in [Places -> Int]
  BY SizeAssumption DEF SortInv, TypeOK
<1>4. QED
  BY <1>1, <1>2, <1>3, SizeAssumption DEF Places

LEMMA LeftKeeps ==
  ASSUME SortInv, LeftEqual \/ LeftLess \/ LeftGreater
  PROVE  SortInv'
<1> USE Pointers DEF AtLeft
<1>1. CASE LeftLess
  <2>1. Honest => SidesPlaced'
    BY <1>1 DEF LeftLess, qscmp, Honest, SidesPlaced, compare, range, status
  <2>2. QED
    BY <1>1, <2>1, PartitionKeeps DEF LeftLess, Partition
<1>2. CASE LeftGreater
  <2>1. Honest => SidesPlaced'
    BY <1>2 DEF LeftGreater, qscmp, Honest, SidesPlaced, compare, range, status, pointers
  <2>2. QED
    BY <1>2, <2>1, PartitionKeeps DEF LeftGreater, Partition, pointers
<1>3. CASE LeftEqual
  <2>1. lp - 1 \in Places /\ i <= lp - 1
    <3>1. i \in Places /\ lp \in Places /\ i < lp
      BY <1>3 DEF LeftEqual
    <3>2. QED
      BY <3>1, SizeAssumption DEF Places
  <2>2. /\ Moved(arr, arr', a, l)
        /\ \A r \in Places : arr'[r] = IF r = lp - 1 THEN arr[i]
                                       ELSE IF r = i THEN arr[lp - 1] ELSE arr[r]
    <3>1. arr' = qexchange(i, lp - 1)
      BY <1>3 DEF LeftEqual
    <3>2. pc \in {"left", "right"}
      BY <1>3 DEF LeftEqual
    <3>3. a <= i /\ i < l /\ a <= lp - 1 /\ lp - 1 < l
      BY <2>1, <3>2, Pointers
    <3>4. QED
      BY <2>1, <3>1, <3>2, <3>3, Exchange
  <2>4. Honest => SidesPlaced'
    <3> SUFFICES ASSUME Honest PROVE SidesPlaced'
      OBVIOUS
    <3>1. key[arr[i]] = key[arr[lp]] /\ key' = key /\ SidesPlaced /\ pc = "left"
      BY <1>3 DEF LeftEqual, qscmp, Honest, compare
    <3>2. lp' = lp - 1 /\ hp' = hp /\ i' = i /\ j' = j /\ a' = a /\ l' = l /\ pc' = "left"
      BY <1>3 DEF LeftEqual, range
    <3>3. arr'[lp - 1] = arr[i] /\ key[arr[i]] = key[arr[lp]]
      BY <2>1, <2>2, <3>1
    <3>4. \A p \in a .. i - 1 : p \in Places /\ arr'[p] = arr[p]
      BY <1>3, <2>1, <2>2 DEF LeftEqual
    <3>5. \A p \in lp .. l - 1 : p \in Places /\ arr'[p] = arr[p]
      BY <1>3, <2>1, <2>2 DEF LeftEqual
    <3>6. a \in Int /\ lp \in Int /\ hp \in Int /\ j \in Int /\ l \in Int /\ i \in Int
          /\ lp <= hp /\ hp <= j /\ j < l
      BY <3>1, Pointers
    <3>7. \A p \in a .. i - 1 : key[arr'[p]] < key[arr'[lp - 1]]
      BY <3>1, <3>3, <3>4 DEF SidesPlaced
    <3>8. \A p \in lp - 1 .. hp : key[arr'[p]] = key[arr'[lp - 1]]
      <4>1. \A p \in lp .. hp : p \in lp .. l - 1
        BY <3>6
      <4>2. \A p \in lp .. hp : key[arr'[p]] = key[arr'[lp - 1]]
        BY <3>1, <3>3, <3>5, <4>1 DEF SidesPlaced
      <4>3. \A p \in lp - 1 .. hp : p = lp - 1 \/ p \in lp .. hp
        BY <3>6
      <4>4. QED
        BY <4>2, <4>3
    <3>9. \A p \in j + 1 .. l - 1 : key[arr'[p]] > key[arr'[lp - 1]]
      <4>1. \A p \in j + 1 .. l - 1 : p \in lp .. l - 1
        BY <3>6
      <4>2. QED
        BY <3>1, <3>3, <3>5, <4>1 DEF SidesPlaced
    <3>10. QED
      BY <3>1, <3>2, <3>7, <3>8, <3>9 DEF SidesPlaced
  <2>5. QED
    BY <1>3, <2>1, <2>2, <2>4, PartitionKeeps DEF LeftEqual, Partition
<1>4. QED
  BY <1>1, <1>2, <1>3

LEMMA RightKeeps ==
  ASSUME SortInv, RightEqual \/ RightGreater
  PROVE  SortInv'
<1>0. pc \in {"left", "right"}
  BY DEF RightEqual, RightGreater, AtRight
<1>1. CASE RightGreater
  <2>1. Honest => SidesPlaced'
    BY <1>0, <1>1, Pointers
    DEF RightGreater, AtRight, qscmp, Honest, SidesPlaced, compare, range, status
  <2>2. QED
    BY <1>0, <1>1, <2>1, Pointers, PartitionKeeps DEF RightGreater, Partition
<1>2. CASE RightEqual
  <2>1. hp + 1 \in Places /\ hp + 1 <= j
    BY <1>0, <1>2, Pointers DEF RightEqual
  <2>2. /\ Moved(arr, arr', a, l)
        /\ \A r \in Places : arr'[r] = IF r = j THEN arr[hp + 1]
                                       ELSE IF r = hp + 1 THEN arr[j] ELSE arr[r]
    <3>1. arr' = qexchange(hp + 1, j)
      BY <1>2 DEF RightEqual
    <3>2. a <= hp + 1 /\ hp + 1 < l /\ a <= j /\ j < l
      BY <1>0, <2>1, Pointers
    <3>3. QED
      BY <1>0, <2>1, <3>1, <3>2, Pointers, Exchange
  <2>3. Honest => SidesPlaced'
    <3> SUFFICES ASSUME Honest PROVE SidesPlaced'
      OBVIOUS
    <3>1. key[arr[hp]] = key[arr[j]] /\ key' = key /\ SidesPlaced
      BY <1>0, <1>2, Pointers DEF RightEqual, qscmp, Honest, compare
    <3>2. lp' = lp /\ hp' = hp + 1 /\ i' = i /\ j' = j /\ a' = a /\ l' = l
      BY <1>2 DEF RightEqual, range
    <3>3. arr'[hp + 1] = arr[j] /\ key[arr[hp]] = key[arr[lp]]
      BY <1>0, <2>1, <2>2, <3>1, Pointers DEF SidesPlaced
    <3>4. \A p \in a .. hp : p \in Places /\ arr'[p] = arr[p]
      BY <1>0, <2>1, <2>2, Pointers
    <3>5. \A p \in j + 1 .. l - 1 : p \in Places /\ arr'[p] = arr[p]
      BY <1>0, <2>1, <2>2, Pointers
    <3>6. pc' = "right" /\ (i < lp => key[arr[i]] > key[arr[lp]])
      BY <1>0, <1>2, <3>1, Pointers DEF RightEqual, AtRight, SidesPlaced
    <3>7. arr'[i] = arr[i] /\ arr'[lp] = arr[lp]
      BY <1>0, <3>4, Pointers
    <3>8. \A p \in lp .. hp + 1 : key[arr'[p]] = key[arr[lp]]
      <4>1. key[arr'[hp + 1]] = key[arr[lp]]
        BY <3>1, <3>3
      <4>2. \A p \in lp .. hp : p \in a .. hp /\ key[arr[p]] = key[arr[lp]]
        BY <1>0, <3>1, Pointers DEF SidesPlaced
      <4>3. QED
        BY <1>0, <3>4, <4>1, <4>2, Pointers
    <3>9. \A p \in a .. i - 1 : key[arr'[p]] < key[arr[lp]]
      BY <1>0, <3>1, <3>4, Pointers DEF SidesPlaced
    <3>10. \A p \in j + 1 .. l - 1 : key[arr'[p]] > key[arr[lp]]
      BY <1>0, <3>1, <3>5, Pointers DEF SidesPlaced
    <3>11. QED
      BY <3>1, <3>2, <3>6, <3>7, <3>8, <3>9, <3>10 DEF SidesPlaced
  <2>4. QED
    BY <1>0, <1>2, <2>1, <2>2, <2>3, Pointers, PartitionKeeps DEF RightEqual, Partition
<1>3. QED
  BY <1>1, <1>2

LEMMA ShiftUpKeeps ==
  ASSUME SortInv, RightLessShift
  PROVE  SortInv'
<1>0. pc \in {"left", "right"}
  BY DEF RightLessShift, AtRight
<1>1. hp + 1 \in Places /\ hp + 1 <= j /\ i = lp
  BY <1>0, Pointers DEF RightLessShift
<1>2. /\ Moved(arr, arr', a, l)
      /\ \A s \in Places : arr'[s] = IF s = hp + 1 THEN arr[i] ELSE IF s = i THEN arr[j]
                                     ELSE IF s = j THEN arr[hp + 1] ELSE arr[s]
  <2>1. arr' = q3exchange(i, hp + 1, j)
    BY DEF RightLessShift
  <2>2. a <= hp + 1 /\ hp + 1 < l /\ a <= j /\ j < l /\ a <= i /\ i < l /\ i # hp + 1 /\ i # j
    BY <1>0, <1>1, Pointers
  <2>3. QED
    BY <1>0, <1>1, <2>1, <2>2, Pointers, Exchange3
<1>3. lp' = lp + 1 /\ hp' = hp + 1 /\ i' = lp + 1 /\ j' = j /\ a' = a /\ l' = l /\ pc' = "right"
  BY DEF RightLessShift, range
<1>4. Honest => SidesPlaced'
  <2> SUFFICES ASSUME Honest PROVE SidesPlaced'
    OBVIOUS
  <2>1. key[arr[j]] < key[arr[hp]] /\ key' = key /\ SidesPlaced
    BY <1>0, Pointers DEF RightLessShift, qscmp, Honest, compare
  <2>2. key[arr[hp]] = key[arr[lp]]
    BY <1>0, <2>1, Pointers DEF SidesPlaced
  <2>3. arr'[hp + 1] = arr[lp] /\ arr'[lp] = arr[j] /\ lp + 1 \in Places
    BY <1>0, <1>1, <1>2, Pointers
  <2>4. \A p \in a .. lp - 1 : p \in Places /\ arr'[p] = arr[p]
    BY <1>0, <1>1, <1>2, Pointers
  <2>5. \A p \in lp + 1 .. hp : p \in Places /\ arr'[p] = arr[p]
    BY <1>0, <1>1, <1>2, Pointers
  <2>6. \A p \in j + 1 .. l - 1 : p \in Places /\ arr'[p] = arr[p]
    BY <1>0, <1>1, <1>2, Pointers
  <2>7. key[arr'[lp + 1]] = key[arr[lp]]
    BY <1>0, <2>1, <2>3, <2>5, Pointers DEF SidesPlaced
  <2>8. \A p \in lp + 1 .. hp + 1 : key[arr'[p]] = key[arr[lp]]
    <3>1. lp \in Int /\ hp \in Int
      BY <1>0, Pointers
    <3>2. \A p \in lp + 1 .. hp + 1 : p = hp + 1 \/ (p \in lp + 1 .. hp /\ p \in lp .. hp)
      BY <3>1
    <3>3. \A p \in lp + 1 .. hp : p \in lp .. hp => key[arr'[p]] = key[arr[lp]]
      BY <2>1, <2>5 DEF SidesPlaced
    <3>4. QED
      BY <2>3, <3>2, <3>3
  <2>9. \A p \in a .. lp : key[arr'[p]] < key[arr[lp]]
    BY <1>0, <1>1, <2>1, <2>2, <2>3, <2>4, Pointers DEF SidesPlaced
  <2>10. \A p \in j + 1 .. l - 1 : key[arr'[p]] > key[arr[lp]]
    BY <1>0, <2>1, <2>6, Pointers DEF SidesPlaced
  <2>11. QED
    BY <1>0, <1>3, <2>1, <2>7, <2>8, <2>9, <2>10, Pointers DEF SidesPlaced
<1>5. QED
  BY <1>0, <1>1, <1>2, <1>3, <1>4, Pointers, PartitionKeeps DEF RightLessShift, Partition

LEMMA SwapKeeps ==
  ASSUME SortInv, RightLessSwap
  PROVE  SortInv'
<1>0. pc \in {"left", "right"} /\ i < lp /\ j > hp
  <2>1. pc \in {"left", "right"} /\ i # lp /\ j > hp
    BY DEF RightLessSwap, AtRight
  <2>2. QED
    BY <2>1, Pointers
<1>1. pc = "right"
  BY <1>0, Pointers DEF RightLessSwap, AtRight
<1>2. /\ Moved(arr, arr', a, l)
      /\ \A r \in Places : arr'[r] = IF r = j THEN arr[i] ELSE IF r = i THEN arr[j] ELSE arr[r]
  <2>1. arr' = qexchange(i, j)
    BY DEF RightLessSwap
  <2>2. a <= i /\ i < l /\ a <= j /\ j < l
    BY <1>0, Pointers
  <2>3. QED
    BY <1>0, <2>1, <2>2, Pointers, Exchange
<1>3. lp' = lp /\ hp' = hp /\ i' = i + 1 /\ j' = j - 1 /\ a' = a /\ l' = l /\ pc' = "left"
  BY DEF RightLessSwap, range
<1>4. Honest => SidesPlaced'
  <2> SUFFICES ASSUME Honest PROVE SidesPlaced'
    OBVIOUS
  <2>1. key[arr[j]] < key[arr[hp]] /\ key' = key /\ SidesPlaced
    BY <1>0, Pointers DEF RightLessSwap, qscmp, Honest, compare
  <2>2. key[arr[hp]] = key[arr[lp]] /\ key[arr[i]] > key[arr[lp]]
    BY <1>0, <1>1, <2>1, Pointers DEF SidesPlaced
  <2>3. arr'[i] = arr[j] /\ arr'[j] = arr[i]
    BY <1>0, <1>2, Pointers
  <2>4. \A p \in a .. l - 1 : p # i /\ p # j => p \in Places /\ arr'[p] = arr[p]
    BY <1>0, <1>2, Pointers
  <2>5. \A p \in a .. i : key[arr'[p]] < key[arr[lp]]
    BY <1>0, <2>1, <2>2, <2>3, <2>4, Pointers DEF SidesPlaced
  <2>6. \A p \in lp .. hp : arr'[p] = arr[p]
    BY <1>0, <2>4, Pointers
  <2>7. \A p \in j .. l - 1 : key[arr'[p]] > key[arr[lp]]
    BY <1>0, <2>1, <2>2, <2>3, <2>4, Pointers DEF SidesPlaced
  <2>8. QED
    BY <1>0, <1>3, <2>1, <2>5, <2>6, <2>7, Pointers DEF SidesPlaced
<1>5. QED
  BY <1>0, <1>2, <1>3, <1>4, Pointers, PartitionKeeps DEF RightLessSwap, Partition

LEMMA ShiftKeeps ==
  ASSUME SortInv, Shift
  PROVE  SortInv'
<1>0. pc \in {"left", "right"} /\ j = hp /\ i < lp
  <2>1. pc \in {"left", "right"} /\ j <= hp /\ i # lp
    BY DEF Shift, AtRight
  <2>2. QED
    BY <2>1, Pointers
<1>1. pc = "right" /\ lp - 1 \in Places /\ i <= lp - 1
  BY <1>0, Pointers DEF Shift, AtRight
<1>2. /\ Moved(arr, arr', a, l)
      /\ \A s \in Places : arr'[s] = IF s = lp - 1 THEN arr[j] ELSE IF s = j THEN arr[i]
                                     ELSE IF s = i THEN arr[lp - 1] ELSE arr[s]
  <2>1. arr' = q3exchange(j, lp - 1, i)
    BY DEF Shift
  <2>2. a <= lp - 1 /\ lp - 1 < l /\ a <= j /\ j < l /\ a <= i /\ i < l /\ j # lp - 1 /\ j # i
    BY <1>0, <1>1, Pointers
  <2>3. QED
    BY <1>0, <1>1, <2>1, <2>2, Pointers, Exchange3
<1>3. lp' = lp - 1 /\ hp' = hp - 1 /\ i' = i /\ j' = hp - 1 /\ a' = a /\ l' = l /\ pc' = "left"
  BY DEF Shift, range
<1>4. Honest => SidesPlaced'
  <2> SUFFICES ASSUME Honest PROVE SidesPlaced'
    OBVIOUS
  <2>1. key[arr[i]] > key[arr[lp]] /\ key' = key /\ SidesPlaced
    BY <1>0, <1>1, Pointers DEF Shift, compare, SidesPlaced
  <2>2. key[arr[j]] = key[arr[lp]]
    BY <1>0, <2>1, Pointers DEF SidesPlaced
  <2>3. arr'[lp - 1] = arr[j] /\ arr'[j] = arr[i]
    BY <1>0, <1>1, <1>2, Pointers
  <2>4. \A p \in a .. l - 1 : p # i /\ p # j /\ p # lp - 1 => p \in Places /\ arr'[p] = arr[p]
    BY <1>0, <1>1, <1>2, Pointers
  <2>5. \A p \in a .. i - 1 : key[arr'[p]] < key[arr[lp]]
    BY <1>0, <1>1, <2>1, <2>4, Pointers DEF SidesPlaced
  <2>6. \A p \in lp - 1 .. hp - 1 : key[arr'[p]] = key[arr[lp]]
    <3>1. \A p \in lp .. hp - 1 : key[arr'[p]] = key[arr[lp]]
      BY <1>0, <1>1, <2>1, <2>4, Pointers DEF SidesPlaced
    <3>2. QED
      BY <1>0, <2>2, <2>3, <3>1, Pointers
  <2>7. \A p \in hp .. l - 1 : key[arr'[p]] > key[arr[lp]]
    <3>1. \A p \in hp + 1 .. l - 1 : key[arr'[p]] > key[arr[lp]]
      BY <1>0, <1>1, <2>1, <2>4, Pointers DEF SidesPlaced
    <3>2. QED
      BY <1>0, <2>1, <2>3, <3>1, Pointers
  <2>8. QED
    BY <1>0, <1>3, <2>1, <2>2, <2>3, <2>5, <2>6, <2>7, Pointers DEF SidesPlaced
<1>5. QED
  BY <1>0, <1>1, <1>2, <1>3, <1>4, Pointers, PartitionKeeps DEF Shift, Partition

LEMMA SplitKeeps ==
  ASSUME SortInv, Split
  PROVE  SortInv'
<1> USE DEF SortInv, TypeOK
<1>1. lp' \in Int /\ hp' = lp' /\ i' = a /\ j' = l - 1 /\ a <= lp' /\ lp' < l /\ pc' = "left"
  BY DEF Split
<1>2. UNCHANGED <<arr, compare, range, stack, status>>
  BY DEF Split
<1>3. TypeOK'
  BY <1>1, <1>2 DEF compare, range, status, Labels
<1>4. SidesPlaced'
  BY <1>1, <1>2, <1>3 DEF SidesPlaced, range, compare
<1>5. Apart(a', l', stack') /\ Permutation' /\ (Honest' => InOrder(arr', key', a', l', stack'))
  BY <1>2 DEF compare, range, Permutation, Honest
<1>6. StatusRestored'
  BY <1>1, <1>2 DEF Split, StatusRestored, status, compare
<1>7. QED
  BY <1>1, <1>2, <1>3, <1>4, <1>5, <1>6 DEF range

(* One range becomes two, the first at work and the second on the stack.   *)
LEMMA RangesDivided ==
  ASSUME NEW st \in Seq(Frames), NEW lo \in Int, NEW hi \in Int,
         NEW lo1 \in 0 .. N, NEW hi1 \in 0 .. N, NEW lo2 \in 0 .. N, NEW hi2 \in 0 .. N,
         lo <= lo1, lo1 <= hi1, hi1 <= hi, lo <= lo2, lo2 <= hi2, hi2 <= hi,
         hi1 <= lo2 \/ hi2 <= lo1, Apart(lo, hi, st)
  PROVE  Apart(lo1, hi1, <<[a |-> lo2, l |-> hi2]>> \o st)
<1> DEFINE f == [a |-> lo2, l |-> hi2]
           new == <<f>> \o st
<1>1. f \in Frames /\ f.a = lo2 /\ f.l = hi2
  BY DEF Frames
<1>2. /\ Len(new) = Len(st) + 1 /\ new[1] = f /\ Len(st) \in Nat
      /\ \A k \in 2 .. Len(st) + 1 : k - 1 \in 1 .. Len(st) /\ new[k] = st[k - 1]
  BY <1>1, Pushed
<1>3. \A k \in 1 .. Len(st) : st[k].a \in Int /\ st[k].l \in Int
  <2>1. \A k \in 1 .. Len(st) : st[k] \in Frames
    OBVIOUS
  <2>2. QED
    BY <2>1, SizeAssumption, SMTT(30) DEF Frames
<1> HIDE DEF f, new
<1>4. ASSUME NEW k \in 1 .. Len(new)
      PROVE  new[k].a <= new[k].l /\ (new[k].l <= lo1 \/ hi1 <= new[k].a)
  <2>1. CASE k = 1
    BY <1>1, <1>2, <2>1
  <2>2. CASE k # 1
    <3>1. k - 1 \in 1 .. Len(st) /\ new[k] = st[k - 1]
      BY <1>2, <2>2
    <3>2. /\ st[k - 1].a <= st[k - 1].l
          /\ st[k - 1].l <= lo \/ hi <= st[k - 1].a
      BY <3>1 DEF Apart
    <3>3. st[k - 1].a \in Int /\ st[k - 1].l \in Int
      BY <1>3, <3>1
    <3>4. QED
      BY <3>1, <3>2, <3>3, SizeAssumption
  <2>3. QED
    BY <2>1, <2>2
<1>5. ASSUME NEW k \in 1 .. Len(new), NEW m \in 1 .. Len(new), k < m
      PROVE  new[k].l <= new[m].a \/ new[m].l <= new[k].a
  <2>1. m - 1 \in 1 .. Len(st) /\ new[m] = st[m - 1]
    <3>1. m \in 2 .. Len(st) + 1
      BY <1>2, <1>5
    <3>2. QED
      BY <1>2, <3>1
  <2>2. CASE k = 1
    <3>1. new[k].a = lo2 /\ new[k].l = hi2
      BY <1>1, <1>2, <2>2
    <3>2. st[m - 1].l <= lo \/ hi <= st[m - 1].a
      BY <2>1 DEF Apart
    <3>3. st[m - 1].a \in Int /\ st[m - 1].l \in Int
      BY <1>3, <2>1
    <3>4. QED
      BY <2>1, <3>1, <3>2, <3>3, SizeAssumption, SMTT(30)
  <2>3. CASE k # 1
    <3>1. k - 1 \in 1 .. Len(st) /\ new[k] = st[k - 1] /\ k - 1 < m - 1
      BY <1>2, <1>5, <2>3
    <3>2. QED
      BY <2>1, <3>1 DEF Apart
  <2>4. QED
    BY <2>2, <2>3
<1>6. QED
  BY <1>4, <1>5 DEF Apart, f, new

(* Places in one of the two new ranges, or of one on the stack before.     *)
LEMMA TogetherDivided ==
  ASSUME NEW st \in Seq(Frames), NEW f \in Frames, NEW lo, NEW hi, NEW p, NEW q,
         \/ lo <= p /\ q < hi
         \/ f.a <= p /\ q < f.l
         \/ \E k \in 1 .. Len(st) : st[k].a <= p /\ q < st[k].l
  PROVE  Together(p, q, lo, hi, <<f>> \o st)
<1> DEFINE new == <<f>> \o st
<1>1. /\ Len(new) = Len(st) + 1 /\ new[1] = f /\ Len(st) \in Nat
      /\ \A k \in 1 .. Len(st) : k + 1 \in 1 .. Len(new) /\ new[k + 1] = st[k]
  BY Pushed
<1> HIDE DEF new
<1>2. CASE lo <= p /\ q < hi
  BY <1>2 DEF Together
<1>3. CASE f.a <= p /\ q < f.l
  BY <1>1, <1>3 DEF Together, new
<1>4. CASE \E k \in 1 .. Len(st) : st[k].a <= p /\ q < st[k].l
  <2>1. \E k \in 1 .. Len(new) : new[k].a <= p /\ q < new[k].l
    BY <1>1, <1>4
  <2>2. QED
    BY <2>1 DEF Together, new
<1>5. QED
  BY <1>2, <1>3, <1>4

LEMMA PartKeeps ==
  ASSUME SortInv, Part
  PROVE  SortInv'
<1>0. pc \in {"left", "right"} /\ j = hp /\ i = lp
  <2>1. pc \in {"left", "right"} /\ j <= hp /\ i = lp
    BY DEF Part, AtRight
  <2>2. QED
    BY <2>1, Pointers
<1>1. stack \in Seq(Frames) /\ Apart(a, l, stack)
  BY DEF SortInv, TypeOK, Frames
<1> DEFINE small == [a |-> a, l |-> lp]
           large == [a |-> hp + 1, l |-> l]
<1>2. a \in 0 .. N /\ lp \in 0 .. N /\ hp + 1 \in 0 .. N /\ l \in 0 .. N
      /\ a <= lp /\ lp <= hp /\ hp + 1 <= l
  <2>1. /\ a \in Int /\ l \in Int /\ lp \in Int /\ hp \in Int /\ 0 <= a /\ l <= N
        /\ a <= lp /\ lp <= hp /\ hp < l
    BY <1>0, Pointers
  <2>2. QED
    BY <2>1, SizeAssumption
<1>3. small \in Frames /\ large \in Frames
  BY <1>2 DEF Frames
<1>4. Honest => \A p, q \in Places : p < q =>
        \/ key[arr[p]] <= key[arr[q]]
        \/ a <= p /\ q < lp
        \/ hp + 1 <= p /\ q < l
        \/ \E k \in 1 .. Len(stack) : stack[k].a <= p /\ q < stack[k].l
  <2> SUFFICES ASSUME Honest, NEW p \in Places, NEW q \in Places, p < q,
                      a <= p, q < l, ~(q < lp), ~(hp + 1 <= p)
               PROVE  key[arr[p]] <= key[arr[q]]
    BY <1>2 DEF SortInv, InOrder, Together, Places
  <2>1. SidesPlaced /\ key[arr[lp]] \in Int /\ key[arr[p]] \in Int /\ key[arr[q]] \in Int
    BY <1>0, Pointers
  <2>2. key[arr[p]] <= key[arr[lp]]
    BY <1>0, <1>2, <2>1, Pointers DEF SidesPlaced
  <2>3. key[arr[lp]] <= key[arr[q]]
    BY <1>0, <1>2, <2>1, Pointers DEF SidesPlaced
  <2>4. QED
    BY <2>1, <2>2, <2>3
<1>5. UNCHANGED <<arr, compare, pointers, status>> /\ pc' = "start"
  BY DEF Part
<1>6. CASE a' = hp + 1 /\ l' = l /\ stack' = <<small>> \o stack
  <2>1. Apart(a', l', stack')
    <3>1. a \in Int /\ l \in Int /\ lp \in Int /\ hp + 1 \in Int /\ lp <= hp + 1
      BY <1>2, SizeAssumption DEF SortInv
    <3>2. QED
      BY <1>1, <1>2, <1>6, <3>1, RangesDivided
  <2>2. Honest => InOrder(arr, key, a', l', stack')
    <3> SUFFICES ASSUME Honest, NEW p \in Places, NEW q \in Places, p < q,
                        ~(key[arr[p]] <= key[arr[q]])
                 PROVE  Together(p, q, a', l', stack')
      BY DEF InOrder
    <3>1. small.a = a /\ small.l = lp
      OBVIOUS
    <3>2. \/ a' <= p /\ q < l'
          \/ small.a <= p /\ q < small.l
          \/ \E k \in 1 .. Len(stack) : stack[k].a <= p /\ q < stack[k].l
      BY <1>4, <1>6, <3>1
    <3>3. QED
      BY <1>1, <1>3, <1>6, <3>2, TogetherDivided
  <2>3. stack' \in Seq(Frames)
    BY <1>1, <1>3, <1>6, Pushed
  <2>4. TypeOK'
    BY <1>2, <1>5, <1>6, <2>3 DEF SortInv, TypeOK, Frames, Labels, compare, pointers, status
  <2>5. QED
    BY <1>0, <1>2, <1>5, <1>6, <2>1, <2>2, <2>4
    DEF SortInv, Permutation, StatusRestored, Honest, compare, pointers, status
<1>7. CASE a' = a /\ l' = lp /\ stack' = <<large>> \o stack
  <2>1. Apart(a', l', stack')
    <3>1. a \in Int /\ l \in Int /\ lp \in Int /\ hp + 1 \in Int /\ lp <= hp + 1
      BY <1>2, SizeAssumption DEF SortInv
    <3>2. QED
      BY <1>1, <1>2, <1>7, <3>1, RangesDivided
  <2>2. Honest => InOrder(arr, key, a', l', stack')
    <3> SUFFICES ASSUME Honest, NEW p \in Places, NEW q \in Places, p < q,
                        ~(key[arr[p]] <= key[arr[q]])
                 PROVE  Together(p, q, a', l', stack')
      BY DEF InOrder
    <3>1. large.a = hp + 1 /\ large.l = l
      OBVIOUS
    <3>2. \/ a' <= p /\ q < l'
          \/ large.a <= p /\ q < large.l
          \/ \E k \in 1 .. Len(stack) : stack[k].a <= p /\ q < stack[k].l
      BY <1>4, <1>7, <3>1
    <3>3. QED
      BY <1>1, <1>3, <1>7, <3>2, TogetherDivided
  <2>3. stack' \in Seq(Frames)
    BY <1>1, <1>3, <1>7, Pushed
  <2>4. TypeOK'
    BY <1>2, <1>5, <1>7, <2>3 DEF SortInv, TypeOK, Frames, Labels, compare, pointers, status
  <2>5. QED
    BY <1>0, <1>2, <1>5, <1>7, <2>1, <2>2, <2>4
    DEF SortInv, Permutation, StatusRestored, Honest, compare, pointers, status
<1>8. QED
  BY <1>6, <1>7 DEF Part

(* A range of at most one element holds no two places.                     *)
LEMMA ReturnKeeps ==
  ASSUME SortInv, Return
  PROVE  SortInv'
<1>0. stack \in Seq(Frames) /\ Apart(a, l, stack) /\ pc = "start" /\ l - a <= 1
      /\ a \in Int /\ l \in Int
  BY DEF SortInv, TypeOK, Frames, Return
<1>1. UNCHANGED <<arr, compare, pointers, word, before>>
  BY DEF Return
<1>2. Honest => \A p, q \in Places : p < q =>
        \/ key[arr[p]] <= key[arr[q]]
        \/ \E k \in 1 .. Len(stack) : stack[k].a <= p /\ q < stack[k].l
  BY <1>0, SizeAssumption DEF SortInv, InOrder, Together, Places
<1>3. CASE stack = <<>>
  <2>1. pc' = "idle" /\ UNCHANGED <<range, stack>> /\ sr' = word
    BY <1>3 DEF Return
  <2>2. QED
    BY <1>0, <1>1, <1>3, <2>1
    DEF SortInv, TypeOK, Labels, Permutation, StatusRestored, Honest,
        range, compare, pointers
<1>4. CASE stack # <<>>
  <2>1. /\ a' = stack[1].a /\ l' = stack[1].l /\ stack' = Tail(stack)
        /\ UNCHANGED <<pc, sr>>
    BY <1>4, Popped, <1>0 DEF Return
  <2>2. /\ stack' \in Seq(Frames) /\ stack[1] \in Frames /\ Len(stack) \in Nat
        /\ Len(stack) >= 1 /\ Len(stack') = Len(stack) - 1
        /\ \A k \in 1 .. Len(stack) - 1 : stack'[k] = stack[k + 1]
    BY <1>0, <1>4, <2>1, Popped
  <2>3. Apart(a', l', stack')
    <3>1. \A k \in 1 .. Len(stack') :
            k + 1 \in 1 .. Len(stack) /\ stack'[k] = stack[k + 1]
      BY <2>2
    <3>2. 1 \in 1 .. Len(stack)
      BY <2>2
    <3>3. ASSUME NEW k \in 1 .. Len(stack')
          PROVE  stack'[k].a <= stack'[k].l /\ (stack'[k].l <= a' \/ l' <= stack'[k].a)
      <4>1. k + 1 \in 1 .. Len(stack) /\ stack'[k] = stack[k + 1] /\ 1 < k + 1
        BY <3>1, <2>2
      <4>2. QED
        BY <1>0, <2>1, <3>2, <4>1 DEF Apart
    <3>4. ASSUME NEW k \in 1 .. Len(stack'), NEW m \in 1 .. Len(stack'), k < m
          PROVE  stack'[k].l <= stack'[m].a \/ stack'[m].l <= stack'[k].a
      <4>1. k + 1 \in 1 .. Len(stack) /\ m + 1 \in 1 .. Len(stack) /\ k + 1 < m + 1
        BY <3>1, <3>4
      <4>2. QED
        BY <1>0, <3>1, <4>1 DEF Apart
    <3>5. QED
      BY <3>3, <3>4 DEF Apart
  <2>4. Honest => InOrder(arr, key, a', l', stack')
    <3> SUFFICES ASSUME Honest, NEW p \in Places, NEW q \in Places, p < q,
                        ~(key[arr[p]] <= key[arr[q]])
                 PROVE  Together(p, q, a', l', stack')
      BY DEF InOrder
    <3>1. PICK k \in 1 .. Len(stack) : stack[k].a <= p /\ q < stack[k].l
      BY <1>2
    <3>2. CASE k = 1
      BY <2>1, <3>1, <3>2 DEF Together
    <3>3. CASE k # 1
      <4>1. k - 1 \in 1 .. Len(stack') /\ stack'[k - 1] = stack[k]
        BY <2>2, <3>3
      <4>2. QED
        BY <3>1, <4>1 DEF Together
    <3>4. QED
      BY <3>2, <3>3
  <2>5. stack[1].a \in 0 .. N /\ stack[1].l \in 0 .. N /\ stack[1].a <= stack[1].l
    BY <1>0, <2>2 DEF Frames, Apart
  <2>6. TypeOK'
    BY <1>0, <1>1, <2>1, <2>2, <2>5, SizeAssumption
    DEF SortInv, TypeOK, Frames, Labels, compare, pointers
  <2>7. QED
    BY <1>0, <1>1, <2>1, <2>3, <2>4, <2>5, <2>6, SizeAssumption
    DEF SortInv, Permutation, StatusRestored, Honest, compare, pointers
<1>5. QED
  BY <1>3, <1>4
-----------------------------------------------------------------------------
(* The call, and what else happens.                                        *)

LEMMA QsortKeeps ==
  ASSUME SortInv, NEW k \in [Places -> Keys], NEW h \in BOOLEAN, Qsort(k, h)
  PROVE  SortInv'
<1>1. /\ arr' = [p \in Places |-> p] /\ key' = k /\ honest' = h /\ nested' = FALSE
      /\ a' = 0 /\ l' = N /\ pc' = "start" /\ word' = sr /\ before' = sr /\ sr' = FALSE
      /\ UNCHANGED <<pointers, stack>> /\ stack = <<>>
  BY DEF SortInv, Qsort
<1>2. TypeOK'
  <2>1. arr' \in [Places -> Places] /\ ~(pc' \in {"left", "right"})
    BY <1>1
  <2>2. stack' \in Seq([a : 0 .. N, l : 0 .. N]) /\ sr \in BOOLEAN
    BY <1>1 DEF SortInv, TypeOK
  <2>3. 0 <= a' /\ a' <= l' /\ l' <= N
    BY <1>1, SizeAssumption
  <2>4. QED
    BY <1>1, <2>1, <2>2, <2>3 DEF TypeOK, Labels
<1>3. Apart(a', l', stack')
  BY <1>1 DEF Apart
<1>4. InOrder(arr', key', a', l', stack')
  BY <1>1, SizeAssumption DEF InOrder, Together, Places
<1>5. Permutation' /\ StatusRestored'
  BY <1>1 DEF Permutation, StatusRestored
<1>6. QED
  BY <1>1, <1>2, <1>3, <1>4, <1>5, SizeAssumption DEF SortInv, pointers

LEMMA OthersKeep ==
  ASSUME SortInv, NestedSort \/ (\E on \in BOOLEAN : SetStatus(on)) \/ UNCHANGED vars
  PROVE  SortInv'
<1> USE DEF SortInv, TypeOK, Labels, Permutation, StatusRestored, Honest, Apart, InOrder,
            SidesPlaced, Together
<1>1. CASE NestedSort
  BY <1>1 DEF NestedSort, range, pointers
<1>2. CASE \E on \in BOOLEAN : SetStatus(on)
  BY <1>2 DEF SetStatus, range, pointers, compare
<1>3. CASE UNCHANGED vars
  BY <1>3 DEF vars, range, pointers, compare, status
<1>4. QED
  BY <1>1, <1>2, <1>3

LEMMA SortNextInv == SortInv /\ [Next]_vars => SortInv'
<1> SUFFICES ASSUME SortInv, [Next]_vars PROVE SortInv'
  OBVIOUS
<1>1. CASE Sort
  BY <1>1, ReturnKeeps, SplitKeeps, LeftKeeps, RightKeeps, ShiftUpKeeps, SwapKeeps,
     ShiftKeeps, PartKeeps DEF Sort
<1>2. CASE \E k \in [Places -> Keys] : Qsort(k, TRUE)
  BY <1>2, QsortKeeps
<1>3. CASE Qsort(NoKeys, FALSE)
  BY <1>3, QsortKeeps, SizeAssumption DEF NoKeys
<1>4. CASE NestedSort \/ (\E on \in BOOLEAN : SetStatus(on)) \/ UNCHANGED vars
  BY <1>4, OthersKeep
<1>5. QED
  BY <1>1, <1>2, <1>3, <1>4 DEF Next

LEMMA SortInvariant == Spec => []SortInv
BY SortInitInv, SortNextInv, PTL DEF Spec
-----------------------------------------------------------------------------
(* The depth of the recursion.                                             *)

(* Of the subsets of 1 .. n + 1, half have n + 1 for an element.           *)
LEMMA PowerOfTwo ==
  ASSUME NEW n \in Nat
  PROVE  2 ^ n \in Nat /\ 2 ^ (n + 1) = 2 * 2 ^ n
<1> DEFINE small == SUBSET (1 .. n)
           large == {S \in SUBSET (1 .. n + 1) : n + 1 \in S}
           f == [S \in small |-> S \cup {n + 1}]
<1>1. /\ IsFiniteSet(1 .. n) /\ Cardinality(1 .. n) = n
      /\ IsFiniteSet(1 .. n + 1) /\ Cardinality(1 .. n + 1) = n + 1
  BY FS_Interval
<1>2. /\ IsFiniteSet(small) /\ Cardinality(small) = 2 ^ n
      /\ Cardinality(SUBSET (1 .. n + 1)) = 2 ^ (n + 1)
  BY <1>1, FS_SUBSET
<1>3. f \in Bijection(small, large)
  <2>1. \A S \in small : n + 1 \notin S
    OBVIOUS
  <2>2. \A S \in small : f[S] \in large
    OBVIOUS
  <2>3. \A S, T \in small : f[S] = f[T] => S = T
    BY <2>1
  <2>4. ASSUME NEW S \in large PROVE \E T \in small : f[T] = S
    <3>1. S \ {n + 1} \in small /\ (S \ {n + 1}) \cup {n + 1} = S
      OBVIOUS
    <3> QED BY <3>1
  <2> HIDE DEF small, large
  <2>5. f \in [small -> large]
    BY <2>2
  <2> HIDE DEF f
  <2> QED BY <2>3, <2>4, <2>5, Fun_IsBij
<1>4. IsFiniteSet(large) /\ Cardinality(large) = 2 ^ n
  BY <1>2, <1>3, FS_Bijection DEF ExistsBijection
<1>5. small \cap large = {} /\ small \cup large = SUBSET (1 .. n + 1)
  OBVIOUS
<1> HIDE DEF small, large
<1>6. Cardinality(small \cup large) = Cardinality(small) + Cardinality(large) - 0
  BY <1>2, <1>4, <1>5, FS_Union, FS_EmptySet, ZenonT(60)
<1>7. Cardinality(small) \in Nat
  BY <1>2, FS_CardinalityType
<1> QED BY <1>2, <1>4, <1>5, <1>6, <1>7

LEMMA Times2 ==
  ASSUME NEW u \in Nat, NEW v \in Nat, NEW n \in Nat, 2 * u <= v
  PROVE  u * 2 ^ (n + 1) <= v * 2 ^ n
<1> DEFINE p == 2 ^ n
<1>1. p \in Nat /\ 2 ^ (n + 1) = 2 * p
  BY PowerOfTwo
<1> HIDE DEF p
<1>2. (2 * u) * p <= v * p
  BY <1>1
<1>3. u * (2 * p) = (2 * u) * p
  BY <1>1
<1> QED BY <1>1, <1>2, <1>3 DEF p

(* The range at work, and each one that waits, is the smaller the more     *)
(* callers of qsort_main there are below it.                               *)
Shallow ==
  /\ (l - a + 1) * 2 ^ Len(stack) <= N + 1
  /\ \A k \in 1 .. Len(stack) :
       (stack[k].l - stack[k].a + 1) * 2 ^ (Len(stack) - k) <= N + 1

(* Where neither the range nor the callers change.                         *)
LEMMA ShallowStays == ASSUME Shallow, UNCHANGED <<a, l, stack>> PROVE Shallow'
BY DEF Shallow

LEMMA ReturnShallow == ASSUME SortInv, Shallow, Return PROVE Shallow'
<1>1. CASE stack = <<>>
  BY <1>1, ShallowStays DEF Return, range
<1>2. CASE stack # <<>>
  <2>1. /\ stack \in Seq(Frames) /\ stack' = Tail(stack)
        /\ a' = Head(stack).a /\ l' = Head(stack).l
    BY <1>2 DEF Return, SortInv, TypeOK, Frames
  <2>2. /\ Len(stack) \in Nat /\ Len(stack) >= 1
        /\ Len(stack') = Len(stack) - 1 /\ Head(stack) = stack[1]
        /\ \A k \in 1 .. Len(stack) - 1 : stack'[k] = stack[k + 1]
    BY <1>2, <2>1, Popped
  <2>3. (l' - a' + 1) * 2 ^ Len(stack') <= N + 1
    BY <2>1, <2>2 DEF Shallow
  <2>4. ASSUME NEW k \in 1 .. Len(stack')
        PROVE  (stack'[k].l - stack'[k].a + 1) * 2 ^ (Len(stack') - k) <= N + 1
    <3>1. k + 1 \in 1 .. Len(stack) /\ stack'[k] = stack[k + 1]
      BY <2>2
    <3>2. Len(stack') - k = Len(stack) - (k + 1)
      BY <2>2
    <3> QED BY <3>1, <3>2 DEF Shallow
  <2> QED BY <2>3, <2>4 DEF Shallow
<1> QED BY <1>1, <1>2

(* Half of the larger part is left for the smaller one.                    *)
LEMMA PartShallow == ASSUME SortInv, Shallow, Part PROVE Shallow'
<1>1. /\ a \in Int /\ l \in Int /\ 0 <= a /\ l <= N /\ lp \in Int /\ hp \in Int
      /\ a <= lp /\ lp <= hp /\ hp < l /\ N \in Nat
      /\ stack \in Seq(Frames) /\ Len(stack) \in Nat
  <2>1. pc \in {"left", "right"}
    BY DEF Part, AtRight
  <2>2. /\ a \in Int /\ l \in Int /\ 0 <= a /\ l <= N /\ lp \in Int /\ hp \in Int
        /\ a <= lp /\ lp <= hp /\ hp < l
    BY <2>1, Pointers
  <2> QED BY <2>2, SizeAssumption DEF SortInv, TypeOK, Frames
<1> DEFINE depth == Len(stack)
           size == l - a + 1
<1>2. PICK f \in Frames :
        /\ stack' = <<f>> \o stack
        /\ 2 * (l' - a' + 1) <= size /\ l' - a' + 1 \in Nat
        /\ f.l - f.a + 1 <= size /\ f.l - f.a + 1 \in Nat
  <2>1. CASE lp - a >= l - hp
    <3> DEFINE f == [a |-> a, l |-> lp]
    <3>1. f \in Frames /\ f.a = a /\ f.l = lp
      BY <1>1 DEF Frames
    <3>2. a' = hp + 1 /\ l' = l /\ stack' = <<f>> \o stack
      BY <2>1 DEF Part
    <3> HIDE DEF f
    <3>3. 2 * (l' - a' + 1) <= size /\ l' - a' + 1 \in Nat
      BY <1>1, <2>1, <3>2
    <3>4. f.l - f.a + 1 <= size /\ f.l - f.a + 1 \in Nat
      BY <1>1, <3>1
    <3> QED BY <3>1, <3>2, <3>3, <3>4
  <2>2. CASE ~(lp - a >= l - hp)
    <3> DEFINE f == [a |-> hp + 1, l |-> l]
    <3>1. f \in Frames /\ f.a = hp + 1 /\ f.l = l
      BY <1>1 DEF Frames
    <3>2. a' = a /\ l' = lp /\ stack' = <<f>> \o stack
      BY <2>2 DEF Part
    <3> HIDE DEF f
    <3>3. 2 * (l' - a' + 1) <= size /\ l' - a' + 1 \in Nat
      BY <1>1, <2>2, <3>2
    <3>4. f.l - f.a + 1 <= size /\ f.l - f.a + 1 \in Nat
      BY <1>1, <3>1
    <3> QED BY <3>1, <3>2, <3>3, <3>4
  <2> QED BY <2>1, <2>2
<1>3. /\ Len(stack') = depth + 1 /\ stack'[1] = f
      /\ \A k \in 2 .. depth + 1 : stack'[k] = stack[k - 1]
  BY <1>1, <1>2, Pushed
<1>4. size \in Nat /\ depth \in Nat /\ 2 ^ depth \in Nat /\ size * 2 ^ depth <= N + 1
  BY <1>1, PowerOfTwo DEF Shallow
<1> HIDE DEF depth, size
<1>5. (l' - a' + 1) * 2 ^ Len(stack') <= N + 1
  <2>1. (l' - a' + 1) * 2 ^ (depth + 1) <= size * 2 ^ depth
    BY <1>2, <1>4, Times2
  <2>2. 2 ^ (depth + 1) \in Nat
    BY <1>4, PowerOfTwo
  <2> QED BY <1>1, <1>2, <1>3, <1>4, <2>1, <2>2
<1>6. ASSUME NEW k \in 1 .. Len(stack')
      PROVE  (stack'[k].l - stack'[k].a + 1) * 2 ^ (Len(stack') - k) <= N + 1
  <2>1. CASE k = 1
    <3>1. stack'[k] = f /\ Len(stack') - k = depth
      BY <1>3, <1>4, <2>1
    <3> DEFINE p == 2 ^ depth
               u == f.l - f.a + 1
    <3>2. u \in Nat /\ u <= size /\ p \in Nat /\ size * p <= N + 1
      BY <1>2, <1>4
    <3> HIDE DEF p, u
    <3>3. u * p <= size * p
      BY <1>4, <3>2
    <3>4. u * p <= N + 1
      BY <1>1, <1>4, <3>2, <3>3
    <3> QED BY <3>1, <3>4 DEF p, u
  <2>2. CASE k # 1
    <3>1. k - 1 \in 1 .. depth /\ stack'[k] = stack[k - 1] /\ Len(stack') - k = depth - (k - 1)
      BY <1>3, <1>4, <2>2
    <3> QED BY <3>1 DEF Shallow, depth
  <2> QED BY <2>1, <2>2
<1> QED BY <1>5, <1>6 DEF Shallow

LEMMA ShallowInv == ASSUME SortInv, Shallow, [Next]_vars PROVE Shallow'
<1> USE DEF compare, range, pointers, status
<1>1. ASSUME NEW k \in [Places -> Keys], NEW h \in BOOLEAN, Qsort(k, h) PROVE Shallow'
  <2>1. a' = 0 /\ l' = N /\ stack' = <<>>
    BY <1>1 DEF Qsort, SortInv
  <2> QED BY <2>1, SizeAssumption DEF Shallow
<1>2. Qsort(NoKeys, FALSE) => Shallow'
  BY <1>1, SizeAssumption DEF NoKeys
<1>3. CASE Split \/ LeftEqual \/ LeftLess \/ LeftGreater \/ RightEqual \/ RightGreater
  BY <1>3, ShallowStays DEF Split, LeftEqual, LeftLess, LeftGreater, RightEqual, RightGreater
<1>4. CASE RightLessShift \/ RightLessSwap \/ Shift \/ NestedSort
           \/ (\E on \in BOOLEAN : SetStatus(on)) \/ UNCHANGED vars
  BY <1>4, ShallowStays DEF RightLessShift, RightLessSwap, Shift, NestedSort, SetStatus, vars
<1> QED BY <1>1, <1>2, <1>3, <1>4, ReturnShallow, PartShallow DEF Next, Sort
-----------------------------------------------------------------------------
(* qsort never compares or exchanges outside of its array, whatever the    *)
(* comparison function answers.                                            *)
THEOREM SortTypeCorrect == Spec => []TypeOK
<1>1. SortInv => TypeOK
  BY DEF SortInv
<1>2. QED
  BY <1>1, SortInvariant, PTL

(* It never loses or doubles an element.                                   *)
THEOREM NothingLost == Spec => []Permutation
<1>1. SortInv => Permutation
  BY DEF SortInv
<1>2. QED
  BY <1>1, SortInvariant, PTL

(* With an honest comparison function, the array is sorted on return: no   *)
(* range is left, so that elements of any two places are in order.         *)
THEOREM SortsArray == Spec => []Sorted
<1>1. ASSUME SortInv PROVE Sorted
  <2> SUFFICES ASSUME pc = "idle", Honest, NEW p \in Places, NEW q \in Places, p <= q
               PROVE  key[arr[p]] <= key[arr[q]]
    BY DEF Sorted, Honest
  <2>1. stack = <<>> /\ l - a <= 1 /\ a \in Int /\ l \in Int
        /\ InOrder(arr, key, a, l, stack)
    BY <1>1 DEF SortInv
  <2>2. CASE p = q
    <3>1. key[arr[p]] \in Int
      BY <1>1, SizeAssumption DEF SortInv, TypeOK
    <3>2. QED
      BY <2>2, <3>1
  <2>3. CASE p < q
    <3>1. ~Together(p, q, a, l, stack)
      BY <2>1, <2>3, SizeAssumption DEF Together, Places
    <3>2. QED
      BY <2>1, <2>3, <3>1 DEF InOrder
  <2>4. QED
    BY <2>2, <2>3, SizeAssumption DEF Places
<1>2. QED
  BY <1>1, SortInvariant, PTL

(* The critical section holds until qsort returns, and gives back the      *)
(* program's own interrupt enable.                                         *)
THEOREM CriticalSectionKept == Spec => []StatusRestored
<1>1. SortInv => StatusRestored
  BY DEF SortInv
<1>2. QED
  BY <1>1, SortInvariant, PTL

(* qsort sorts in place.                                                   *)
THEOREM SortedInPlace == Spec => []SortsInPlace
BY SortTypeCorrect, NothingLost, SortsArray, CriticalSectionKept, PTL DEF SortsInPlace

(* As it recurses on the smaller part, qsort is never deeper in itself     *)
(* than the logarithm of the number of elements, for any answers of the    *)
(* comparison function.                                                    *)
THEOREM DepthIsLogarithmic == Spec => []DepthBounded
<1>1. Init => Shallow
  BY SizeAssumption DEF Init, Shallow
<1>2. SortInv /\ Shallow /\ [Next]_vars => Shallow'
  BY ShallowInv
<1>3. SortInv /\ Shallow => DepthBounded
  <2> SUFFICES ASSUME SortInv, Shallow PROVE DepthBounded
    OBVIOUS
  <2> DEFINE p == 2 ^ Len(stack)
             size == l - a + 1
  <2>1. size \in Nat /\ size >= 1 /\ p \in Nat
    <3>1. Len(stack) \in Nat /\ a \in Int /\ l \in Int /\ a <= l
      BY DEF SortInv, TypeOK
    <3> QED BY <3>1, PowerOfTwo
  <2>2. size * p <= N + 1
    BY DEF Shallow
  <2> HIDE DEF p, size
  <2>3. p <= size * p
    BY <2>1
  <2>4. p <= N + 1
    BY <2>1, <2>2, <2>3, SizeAssumption
  <2> QED BY <2>4 DEF DepthBounded, p
<1> QED BY <1>1, <1>2, <1>3, SortInvariant, PTL DEF Spec
-----------------------------------------------------------------------------
(* Descriptors.                                                            *)

FileContents == [0 .. Length - 1 -> 0 .. 255]
Descriptions == [offset : 0 .. Length, async : BOOLEAN]
Views == [file : FileContents, at : 0 .. Length, async : BOOLEAN, open : BOOLEAN]

(* Types; the program and the descriptor agree, open or not.               *)
FilesInv ==
  /\ data \in [Files!Cards -> FileContents]
  /\ fdesc \in [{2, 3} -> Descriptions] /\ view \in [Files!Cards -> Views]
  /\ answer = due
  /\ \A m \in Files!Cards :
       /\ view[m].file = data[m]
       /\ view[m].at = fdesc[1 + m].offset /\ view[m].async = fdesc[1 + m].async

LEMMA FilesInitInv == Files!Init => FilesInv
<1> SUFFICES ASSUME Files!Init PROVE FilesInv
  OBVIOUS
<1>1. Files!Blank \in FileContents
  BY DEF Files!Blank, FileContents
<1>2. 0 \in 0 .. Length
  BY FilesAssumption
<1>3. \A m \in Files!Cards : 1 + m \in {2, 3}
  BY DEF Files!Cards
<1> QED BY <1>1, <1>2, <1>3 DEF Files!Init, FilesInv, Files!Answer, Descriptions, Views

(* The card of a descriptor.                                               *)
LEMMA OwnCard ==
  ASSUME NEW m \in Files!Cards
  PROVE  /\ Files!Card(Files!Descriptor(m)) = m /\ Files!Descriptor(m) = 1 + m
         /\ 1 + m \in {2, 3}
         /\ \A n \in Files!Cards : 1 + n = 1 + m => n = m
BY DEF Files!Card, Files!Descriptor, Files!Cards

LEMMA AnswersOnly ==
  ASSUME FilesInv, answer' = due', UNCHANGED <<data, fdesc, view>>
  PROVE  FilesInv'
BY DEF FilesInv

LEMMA FilesNextInv == ASSUME FilesInv, [Files!Next]_Files!vars PROVE FilesInv'
<1>1. CASE UNCHANGED Files!vars
  BY <1>1, AnswersOnly DEF Files!vars, FilesInv
<1>2. CASE Files!Next
  <2>1. PICK m \in Files!Cards :
          \/ \E async \in BOOLEAN : Files!Open(m, async)
          \/ \E to \in -Length .. Length, whence \in {"set", "cur"} : Files!lseek(m, whence, to)
          \/ Files!ReadNowhere(m) \/ Files!getc(m) \/ Files!close(m)
          \/ \E n \in 1 .. Length : Files!read(m, n)
          \/ \E b \in FileBytes : Files!write(m, b)
    BY <1>2 DEF Files!Next
  <2> DEFINE fd == 1 + m
  <2>0. data = [data EXCEPT ![m] = data[m]]
    BY DEF FilesInv
  <2>2. /\ Files!Descriptor(m) = fd /\ Files!Card(fd) = m /\ fd \in {2, 3}
        /\ data[m] \in FileContents /\ data[m] = view[m].file
        /\ fdesc[fd].offset = view[m].at /\ fdesc[fd].async = view[m].async
        /\ view[m].at \in 0 .. Length /\ view[m].async \in BOOLEAN /\ view[m].open \in BOOLEAN
    <3>1. view[m] \in Views /\ data[m] \in FileContents
      BY DEF FilesInv
    <3> QED BY <3>1, OwnCard DEF FilesInv, Views
  <2>10. view[m] \in Views /\ fdesc[fd] \in Descriptions
    BY <2>2 DEF FilesInv
  <2>11. \A n \in Files!Cards : 1 + n \in {2, 3} /\ (1 + n = fd => n = m)
    BY OwnCard
  <2>12. ASSUME NEW f \in Descriptions, NEW v \in Views, NEW file \in FileContents,
                answer' = due', data' = [data EXCEPT ![m] = file],
                fdesc' = [fdesc EXCEPT ![fd] = f], view' = [view EXCEPT ![m] = v],
                v.file = file, v.at = f.offset, v.async = f.async
         PROVE  FilesInv'
    BY <2>11, <2>12 DEF FilesInv
  <2>3. ASSUME NEW async \in BOOLEAN, Files!Open(m, async) PROVE FilesInv'
    <3>1. CASE m \in present
      <4>1. 0 \in 0 .. Length
        BY FilesAssumption
      <4>2. /\ fdesc' = [fdesc EXCEPT ![fd] = [offset |-> 0, async |-> async]]
            /\ view' = [view EXCEPT ![m].at = 0, ![m].async = async, ![m].open = TRUE]
            /\ data' = data /\ answer' = due'
        BY <2>2, <2>3, <3>1 DEF Files!Open, Files!Answers
      <4>3. /\ view' = [view EXCEPT ![m] = [view[m] EXCEPT !.at = 0, !.async = async, !.open = TRUE]]
            /\ fdesc' = [fdesc EXCEPT ![1 + m] = [offset |-> 0, async |-> async]]
            /\ data' = [data EXCEPT ![m] = data[m]]
        BY <4>2 DEF FilesInv
      <4> DEFINE w == [view[m] EXCEPT !.at = 0, !.async = async, !.open = TRUE]
                 g == [offset |-> 0, async |-> async]
      <4>4. /\ w \in Views /\ w.file = data[m] /\ w.at = 0 /\ w.async = async
            /\ g \in Descriptions /\ g.offset = 0 /\ g.async = async
        BY <2>2, <2>10, <4>1 DEF Views, Descriptions
      <4>5. fdesc' = [fdesc EXCEPT ![1 + m] = g] /\ view' = [view EXCEPT ![m] = w]
        BY <4>3
      <4>6. PICK f \in Descriptions, v \in Views : f = g /\ v = w
        BY <4>4
      <4> HIDE DEF w, g
      <4>7. /\ fdesc' = [fdesc EXCEPT ![fd] = f] /\ view' = [view EXCEPT ![m] = v]
            /\ v.file = data[m] /\ v.at = f.offset /\ v.async = f.async
        BY <4>4, <4>5, <4>6
      <4> QED BY <2>0, <2>2, <2>12, <4>2, <4>7, ZenonT(60)
    <3>2. CASE m \notin present
      BY <2>3, <3>2, AnswersOnly DEF Files!Open, Files!Answers
    <3> QED BY <3>1, <3>2
  <2>4. ASSUME NEW at \in 0 .. Length, NEW file \in FileContents, answer' = due',
               data' = [data EXCEPT ![m] = file],
               fdesc' = [fdesc EXCEPT ![fd].offset = at],
               view' = [view EXCEPT ![m].file = file, ![m].at = at]
        PROVE  FilesInv'
    <3>1. /\ fdesc' = [fdesc EXCEPT ![1 + m] = [fdesc[1 + m] EXCEPT !.offset = at]]
          /\ view' = [view EXCEPT ![m] = [view[m] EXCEPT !.file = file, !.at = at]]
      BY <2>4
    <3> DEFINE f == [fdesc[1 + m] EXCEPT !.offset = at]
               v == [view[m] EXCEPT !.file = file, !.at = at]
    <3>2. /\ f \in Descriptions /\ f.offset = at /\ f.async = view[m].async
          /\ v \in Views /\ v.file = file /\ v.at = at /\ v.async = view[m].async
      BY <2>2, <2>4, <2>10 DEF Views, Descriptions
    <3>3. fdesc' = [fdesc EXCEPT ![1 + m] = f] /\ view' = [view EXCEPT ![m] = v]
      BY <3>1
    <3>4. PICK d \in Descriptions, w \in Views : d = f /\ w = v
      BY <3>2
    <3> HIDE DEF f, v
    <3>5. /\ fdesc' = [fdesc EXCEPT ![fd] = d] /\ view' = [view EXCEPT ![m] = w]
          /\ w.file = file /\ w.at = d.offset /\ w.async = d.async
      BY <2>2, <3>2, <3>3, <3>4
    <3> QED BY <2>4, <2>12, <3>5
  <2>5. ASSUME NEW to \in -Length .. Length, NEW whence \in {"set", "cur"},
               Files!lseek(m, whence, to)
        PROVE  FilesInv'
    <3> DEFINE at == IF whence = "set" THEN to ELSE view[m].at + to
    <3>1. at \in 0 .. Length
      BY <2>5 DEF Files!lseek, Files!MayUse
    <3>2. /\ fdesc' = [fdesc EXCEPT ![fd].offset = at]
          /\ view' = [view EXCEPT ![m].file = data[m], ![m].at = at]
          /\ data' = data /\ answer' = due'
      BY <2>2, <2>5 DEF Files!lseek, Files!Answers, Files!Sees
    <3> HIDE DEF at
    <3> QED BY <2>0, <2>2, <2>4, <3>1, <3>2
  <2>6. CASE Files!ReadNowhere(m) \/ Files!close(m)
    BY <2>6, AnswersOnly DEF Files!ReadNowhere, Files!close, Files!Answers
  <2>7. CASE Files!getc(m)
    <3> DEFINE at == view[m].at + Files!Done(view[m].async, 1)
    <3>1. at \in 0 .. Length
      BY <2>2, <2>7 DEF Files!getc, Files!MayUse, Files!Done
    <3>2. /\ fdesc' = [fdesc EXCEPT ![fd].offset = at]
          /\ view' = [view EXCEPT ![m].file = data[m], ![m].at = at]
          /\ data' = data /\ answer' = due'
      BY <2>2, <2>7 DEF Files!getc, Files!Answers, Files!Sees, Files!Moves
    <3> HIDE DEF at
    <3> QED BY <2>0, <2>2, <2>4, <3>1, <3>2
  <2>8. ASSUME NEW n \in 1 .. Length, Files!read(m, n) PROVE FilesInv'
    <3> DEFINE at == view[m].at + Files!Done(view[m].async, n)
    <3>1. at \in 0 .. Length
      BY <2>2, <2>8 DEF Files!read, Files!MayUse, Files!Done
    <3>2. /\ fdesc' = [fdesc EXCEPT ![fd].offset = at]
          /\ view' = [view EXCEPT ![m].file = data[m], ![m].at = at]
          /\ data' = data /\ answer' = due'
      BY <2>2, <2>8 DEF Files!read, Files!Answers, Files!Sees, Files!Moves
    <3> HIDE DEF at
    <3> QED BY <2>0, <2>2, <2>4, <3>1, <3>2
  <2>9. ASSUME NEW b \in FileBytes, Files!write(m, b) PROVE FilesInv'
    <3> DEFINE at == view[m].at + 1
               file == [data[m] EXCEPT ![view[m].at] = b]
    <3>1. at \in 0 .. Length /\ file \in FileContents
      BY <2>2, <2>9, FilesAssumption DEF Files!write, Files!MayUse, FileContents
    <3>2. /\ fdesc' = [fdesc EXCEPT ![fd].offset = at]
          /\ view' = [view EXCEPT ![m].file = file, ![m].at = at]
          /\ data' = [data EXCEPT ![m][view[m].at] = b] /\ answer' = due'
      BY <2>2, <2>9 DEF Files!write, Files!Answers, Files!Sees, Files!Moves, Files!Done
    <3>3. data' = [data EXCEPT ![m] = file]
      BY <3>2
    <3> HIDE DEF at, file
    <3> QED BY <2>4, <3>1, <3>2, <3>3
  <2> QED BY <2>1, <2>3, <2>5, <2>6, <2>7, <2>8, <2>9
<1> QED BY <1>1, <1>2

(* Every call on a descriptor answers what is due from the file of its own *)
(* card, and all the calls agree on the place in it, for files of any      *)
(* length.                                                                 *)
THEOREM AnswersAreDue == Files!Spec => []AnswersDue
<1>1. FilesInv => AnswersDue
  BY OwnCard DEF FilesInv, AnswersDue, Files!AnswersDue
<1> QED BY <1>1, FilesInitInv, FilesNextInv, PTL DEF Files!Spec
-----------------------------------------------------------------------------
(* What programs put in place.                                             *)

Heaps == [at : Nat, size : Nat]
Wishes ==
  [own : SUBSET Placed!Replaceable, vector : BOOLEAN, heap : Heaps,
   hook : Hooks \cup {Placed!None}, polled : SUBSET {"buf", "ports"}]

(* What a program asked for is what there is, and there is a record of it; *)
(* only Legend's functions replace the kernel's, so a conversion drops     *)
(* none.                                                                   *)
PlacedInv ==
  /\ game \in {"legend", "known", "other"}
  /\ table \in [Placed!Replaceable -> {"kernel", "program"}]
  /\ vector \in {"trampoline", "HLE", "program"}
  /\ pads \in Placed!AllPads
  /\ asked \in Wishes
  /\ \A call \in Placed!Replaceable : table[call] = "program" <=> call \in asked.own
  /\ asked.own # {} => game = "legend"
  /\ vector = "program" <=> asked.vector
  /\ CALL_INIT_HEAP \notin asked.own => heap = asked.heap
  /\ hook = asked.hook
  /\ Placed!Polled(pads) = asked.polled

LEMMA PlacedInitInv == Placed!Init => PlacedInv
<1> SUFFICES ASSUME Placed!Init PROVE PlacedInv
  OBVIOUS
<1> USE DEF Placed!Init, Placed!Fresh, Placed!AskedNothing
<1>1. Placed!NoPads \in Placed!AllPads /\ Placed!Polled(Placed!NoPads) = {}
  BY DEF Placed!NoPads, Placed!AllPads, Placed!Polled
<1>2. Placed!NoHeap \in Heaps
  BY DEF Placed!NoHeap, Heaps
<1> QED BY <1>1, <1>2 DEF PlacedInv, Wishes

(* The ways past a program's code at the vector.                           *)
LEMMA PassedOwn == "own" \in Placed!Passed <=> vector = "program"
<1> USE DEF Placed!HleDispatchCall, Placed!GoesTo
<1>1. ASSUME vector = "program" PROVE "own" \in Placed!Passed
  BY <1>1 DEF Placed!Passed
<1>2. ASSUME vector # "program" PROVE "own" \notin Placed!Passed
  <2> DEFINE way == {"vector", "handler"}
  <2>1. way \in SUBSET {"vector", "own", "handler"} /\ "vector" \in way /\ "own" \notin way
    OBVIOUS
  <2>2. \A q \in way : Placed!HleDispatchCall(q) \/ Placed!GoesTo(q) \in way
    BY <1>2
  <2> HIDE DEF way
  <2> QED BY <2>1, <2>2 DEF Placed!Passed
<1> QED BY <1>1, <1>2

(* The pads an old state polled are those polled once it is upgraded.      *)
LEMMA UpgradedPads ==
  ASSUME NEW p \in Placed!AllPads, p.buf = Placed!None \/ p.ports = Placed!None
  PROVE  /\ Placed!Upgraded(p) \in Placed!AllPads
         /\ Placed!Polled(Placed!Upgraded(p)) = Placed!PolledThen(p)
<1> DEFINE q == [p EXCEPT !.started = TRUE]
<1>1. /\ p \in [started : BOOLEAN, buf : {Placed!None, KnownPads}, ports : {Placed!None, KnownPads}]
      /\ KnownPads # Placed!None
  BY PlacedAssumption DEF Placed!AllPads
<1> HIDE DEF Placed!None
<1>2. q.started = TRUE /\ q.buf = p.buf /\ q.ports = p.ports
  BY <1>1
<1>3. q \in Placed!AllPads
  BY <1>1 DEF Placed!AllPads
<1> HIDE DEF q
<1>4. CASE p.buf = Placed!None
  <2>1. Placed!Upgraded(p) = p
    BY <1>4 DEF Placed!Upgraded
  <2>2. Placed!Polled(q) \cap {"buf"} = {}
    BY <1>2, <1>4 DEF Placed!Polled
  <2> QED BY <2>1, <2>2 DEF Placed!PolledThen, q
<1>5. CASE p.buf # Placed!None
  <2>1. Placed!Upgraded(p) = q
    BY <1>5 DEF Placed!Upgraded, q
  <2>2. Placed!Polled(q) = {"buf"}
    BY <1>2, <1>5 DEF Placed!Polled
  <2>3. Placed!Polled(p) \subseteq {"buf"}
    BY <1>5 DEF Placed!Polled
  <2> QED BY <1>3, <2>1, <2>2, <2>3 DEF Placed!PolledThen, q
<1> QED BY <1>4, <1>5

(* The first of some places is the one all others come after.              *)
LEMMA FirstPlace ==
  ASSUME NEW places \in SUBSET Int, NEW p \in places, \A q \in places : p <= q
  PROVE  Placed!First(places) = p
<1>1. \A u \in places : (\A q \in places : u <= q) => u = p
  <2> SUFFICES ASSUME NEW u \in places, \A q \in places : u <= q PROVE u = p
    OBVIOUS
  <2>1. u <= p /\ p <= u /\ u \in Int /\ p \in Int
    OBVIOUS
  <2> QED BY <2>1
<1> QED BY <1>1 DEF Placed!First

(* A conversion takes the stores of the start and the end for what they    *)
(* are,                                                                    *)
LEMMA HeapIsFound ==
  ASSUME NEW code \in Codes, NEW old, old[CALL_INIT_HEAP] = "openbios", NEW value
  PROVE  Placed!FoundHeap(old, code, value)
           = [at |-> value["sw_start"], size |-> value["sw_end"] - value["sw_start"]]
<1> DEFINE stores == Placed!Stores(code)
<1>1. PICK p \in 1 .. 16, q \in 1 .. 16 :
        /\ p < q /\ code[p] = "sw_start" /\ code[q] = "sw_end"
        /\ \A k \in 1 .. q - 1 : k # p => code[k] = "other"
  BY PlacedAssumption
<1>2. \A k \in stores : k = p \/ q <= k
  <2> SUFFICES ASSUME NEW k \in stores, k # p, ~(q <= k) PROVE FALSE
    OBVIOUS
  <2>1. k \in 1 .. 16 /\ code[k] \in {"sw_start", "sw_end"}
    BY DEF Placed!Stores
  <2>2. k \in 1 .. q - 1
    BY <2>1
  <2> QED BY <1>1, <2>1, <2>2
<1>3. stores \in SUBSET Int /\ p \in stores /\ q \in stores
  BY <1>1 DEF Placed!Stores
<1>4. \A k \in stores : p <= k
  <2> SUFFICES ASSUME NEW k \in stores PROVE p <= k
    OBVIOUS
  <2>1. k \in Int /\ (k = p \/ q <= k)
    BY <1>2, <1>3
  <2> HIDE DEF stores
  <2> QED BY <1>1, <2>1
<1> HIDE DEF stores
<1>5. Placed!First(stores) = p
  BY <1>3, <1>4, FirstPlace
<1> DEFINE rest == stores \ {p}
<1>6. rest \in SUBSET Int /\ q \in rest /\ \A k \in rest : q <= k
  BY <1>1, <1>2, <1>3
<1> HIDE DEF rest
<1>7. Placed!First(rest) = q
  BY <1>6, FirstPlace
<1>8. stores # {} /\ rest # {}
  BY <1>3, <1>6
<1> QED BY <1>1, <1>5, <1>7, <1>8 DEF Placed!FoundHeap, stores, rest

(* and the hook's address for the hook's.                                  *)
LEMMA HookIsFound ==
  ASSUME NEW handler \in Handlers, NEW value
  PROVE  Placed!FoundHook(handler, value) = value["a0_hook"]
<1> DEFINE loads == Placed!Loads(handler)
<1>1. PICK p \in 101 .. 125 :
        handler[p] = "a0_hook" /\ \A k \in 101 .. p - 1 : handler[k] = "other"
  BY PlacedAssumption
<1>2. \A k \in loads : p <= k
  <2> SUFFICES ASSUME NEW k \in loads, ~(p <= k) PROVE FALSE
    OBVIOUS
  <2>1. k \in 101 .. 125 /\ handler[k] \in {"a0_hook", "a0_other"}
    BY DEF Placed!Loads
  <2>2. k \in 101 .. p - 1
    BY <2>1
  <2> QED BY <1>1, <2>1, <2>2
<1>3. loads \in SUBSET Int /\ p \in loads
  BY <1>1 DEF Placed!Loads
<1> HIDE DEF loads
<1>4. Placed!First(loads) = p
  BY <1>2, <1>3, FirstPlace
<1> QED BY <1>1, <1>3, <1>4 DEF Placed!FoundHook, loads

LEMMA PlacedNextInv == ASSUME PlacedInv, [Placed!Next]_Placed!vars PROVE PlacedInv'
<1>0. Placed!Replaceable \subseteq Nat /\ CALL_INIT_HEAP \in Placed!Replaceable
  <2>1. CALL_MALLOC \in Nat /\ CALL_INIT_HEAP \in Nat /\ CALL_MALLOC <= CALL_INIT_HEAP
    BY PlacedAssumption
  <2> QED BY <2>1 DEF Placed!Replaceable
<1>1. CASE UNCHANGED Placed!vars
  BY <1>1 DEF Placed!vars, Placed!kept, PlacedInv, Placed!Polled
<1>2. ASSUME NEW call \in Placed!Replaceable, Placed!Install(call) PROVE PlacedInv'
  <2>1. asked' \in Wishes /\ asked'.own = asked.own \cup {call} /\ asked'.vector = asked.vector
        /\ asked'.heap = asked.heap /\ asked'.hook = asked.hook /\ asked'.polled = asked.polled
    BY <1>2 DEF Placed!Install, PlacedInv, Wishes
  <2>2. table' \in [Placed!Replaceable -> {"kernel", "program"}]
        /\ \A c \in Placed!Replaceable : table'[c] = IF c = call THEN "program" ELSE table[c]
    BY <1>2 DEF Placed!Install, PlacedInv
  <2> QED BY <1>2, <2>1, <2>2 DEF Placed!Install, PlacedInv, Placed!Polled
<1>3. ASSUME NEW r \in Regions, Placed!InitHeap(r) PROVE PlacedInv'
  <2>1. r \in Heaps
    BY PlacedAssumption DEF Heaps
  <2>2. asked' \in Wishes /\ asked'.own = asked.own /\ asked'.vector = asked.vector
        /\ asked'.heap = r /\ asked'.hook = asked.hook /\ asked'.polled = asked.polled
    BY <1>3, <2>1 DEF Placed!InitHeap, PlacedInv, Wishes
  <2> QED BY <1>3, <2>2 DEF Placed!InitHeap, PlacedInv, Placed!Polled
<1>4. ASSUME NEW h \in Hooks, Placed!HookEntryInt(h) PROVE PlacedInv'
  <2>1. asked' \in Wishes /\ asked'.own = asked.own /\ asked'.vector = asked.vector
        /\ asked'.heap = asked.heap /\ asked'.hook = h /\ asked'.polled = asked.polled
    BY <1>4 DEF Placed!HookEntryInt, PlacedInv, Wishes
  <2> QED BY <1>4, <2>1 DEF Placed!HookEntryInt, PlacedInv, Placed!Polled
<1>5. ASSUME NEW polled \in SUBSET {"buf", "ports"}, asked' = [asked EXCEPT !.polled = polled],
             pads' \in Placed!AllPads, Placed!Polled(pads)' = polled,
             UNCHANGED <<game, table, heap, hook>>,
             vector' = vector \/ (vector' = "HLE" /\ ~asked.vector)
      PROVE  PlacedInv'
  <2>1. asked' \in Wishes /\ asked'.own = asked.own /\ asked'.vector = asked.vector
        /\ asked'.heap = asked.heap /\ asked'.hook = asked.hook /\ asked'.polled = polled
    BY <1>5 DEF PlacedInv, Wishes
  <2> QED BY <1>5, <2>1 DEF PlacedInv
<1>6. ASSUME Placed!InitPAD \/ Placed!PAD_init \/ Placed!StopPAD PROVE PlacedInv'
  <2>0. KnownPads # Placed!None
    BY PlacedAssumption
  <2> HIDE DEF Placed!None
  <2>1. CASE Placed!InitPAD
    <3>1. pads' \in Placed!AllPads /\ Placed!Polled(pads)' = {"ports"}
      BY <2>0, <2>1 DEF Placed!InitPAD, Placed!AllPads, Placed!Polled
    <3> QED BY <1>5, <2>1, <3>1 DEF Placed!InitPAD
  <2>2. CASE Placed!PAD_init
    <3>1. pads' \in Placed!AllPads /\ Placed!Polled(pads)' = {"buf"}
      BY <2>0, <2>2 DEF Placed!PAD_init, Placed!AllPads, Placed!Polled
    <3> QED BY <1>5, <2>2, <3>1 DEF Placed!PAD_init
  <2>3. CASE Placed!StopPAD
    <3>1. pads' \in Placed!AllPads /\ Placed!Polled(pads)' = {}
      BY <2>3 DEF Placed!StopPAD, Placed!AllPads, Placed!Polled, PlacedInv
    <3> QED BY <1>5, <2>3, <3>1 DEF Placed!StopPAD
  <2> QED BY <1>6, <2>1, <2>2, <2>3
<1>7. CASE Placed!ReplaceVector
  <2>1. asked' \in Wishes /\ asked'.own = asked.own /\ asked'.vector = TRUE
        /\ asked'.heap = asked.heap /\ asked'.hook = asked.hook /\ asked'.polled = asked.polled
    BY <1>7 DEF Placed!ReplaceVector, PlacedInv, Wishes
  <2> QED BY <1>7, <2>1 DEF Placed!ReplaceVector, PlacedInv, Placed!Polled
<1>8. CASE Placed!Reset
  <2>1. game' \in {"legend", "known", "other"}
    BY <1>8 DEF Placed!Reset, PlacedInv
  <2>2. /\ table' = [call \in Placed!Replaceable |-> "kernel"] /\ vector' = "trampoline"
        /\ heap' = Placed!NoHeap /\ hook' = Placed!None /\ pads' = Placed!NoPads
        /\ asked' = Placed!AskedNothing
    BY <1>8 DEF Placed!Reset, Placed!Becomes, Placed!Fresh
  <2>3. pads' \in Placed!AllPads /\ Placed!Polled(pads)' = {}
    BY <2>2 DEF Placed!NoPads, Placed!AllPads, Placed!Polled
  <2>4. /\ asked' \in Wishes /\ asked'.own = {} /\ asked'.vector = FALSE
        /\ asked'.heap = Placed!NoHeap /\ asked'.hook = Placed!None /\ asked'.polled = {}
    BY <2>2 DEF Placed!AskedNothing, Wishes, Heaps, Placed!NoHeap
  <2> QED BY <2>1, <2>2, <2>3, <2>4 DEF PlacedInv
<1>9. ASSUME NEW p \in Placed!AllPads, NEW magic \in BOOLEAN, Placed!LoadOld(p, magic)
      PROVE  PlacedInv'
  <2>1. /\ p.buf = Placed!None \/ p.ports = Placed!None
        /\ pads' = Placed!Upgraded(p)
        /\ asked' = [asked EXCEPT !.polled = Placed!PolledThen(p)]
        /\ vector' = vector \/ (vector' = "HLE" /\ ~asked.vector)
        /\ UNCHANGED <<game, table, heap, hook>>
    BY <1>9 DEF Placed!LoadOld
  <2>2. pads' \in Placed!AllPads /\ Placed!Polled(pads)' = Placed!PolledThen(p)
    <3>1. Placed!Polled(pads)' = Placed!Polled(Placed!Upgraded(p))
      BY <2>1 DEF Placed!Polled
    <3> QED BY <2>1, <3>1, UpgradedPads
  <2>3. Placed!PolledThen(p) \in SUBSET {"buf", "ports"}
    BY DEF Placed!PolledThen, Placed!Polled
  <2> QED BY <1>5, <2>1, <2>2, <2>3
<1>10. ASSUME NEW code \in Codes, NEW handler \in Handlers, Placed!LoadForeign(code, handler)
       PROVE  PlacedInv'
  <2> DEFINE old == [c \in Placed!Replaceable |-> IF c \in asked.own THEN "program" ELSE "openbios"]
             start == asked.heap.at
             value == [sw_start |-> start, sw_end |-> start + asked.heap.size,
                       a0_hook |-> asked.hook, a0_other |-> "unknown"]
  <2>1. /\ ~asked.vector
        /\ asked.polled = IF game = "other" THEN {} ELSE {"ports"}
        /\ table' = Placed!CopiedTable(old)
        /\ heap' = Placed!FoundHeap(old, code, value)
        /\ hook' = Placed!FoundHook(handler, value)
        /\ pads' = Placed!DefaultPads /\ vector' = "trampoline"
        /\ UNCHANGED <<game, asked>>
    BY <1>10 DEF Placed!LoadForeign, Placed!MayConvert, Placed!VectorTells, Placed!Becomes, Placed!Fresh
  <2>2. /\ table' \in [Placed!Replaceable -> {"kernel", "program"}]
        /\ \A c \in Placed!Replaceable : table'[c] = "program" <=> c \in asked.own
    BY <2>1 DEF Placed!CopiedTable, PlacedInv
  <2>3. CALL_INIT_HEAP \notin asked.own => heap' = asked.heap
    <3> SUFFICES ASSUME CALL_INIT_HEAP \notin asked.own PROVE heap' = asked.heap
      OBVIOUS
    <3>1. old[CALL_INIT_HEAP] = "openbios"
      BY <1>0
    <3>2. asked.heap \in Heaps
      BY DEF PlacedInv, Wishes
    <3>3. value["sw_start"] = start /\ value["sw_end"] = start + asked.heap.size
      OBVIOUS
    <3> HIDE DEF old, value
    <3>4. heap' = [at |-> start, size |-> (start + asked.heap.size) - start]
      BY <2>1, <3>1, <3>3, HeapIsFound
    <3>5. (start + asked.heap.size) - start = asked.heap.size
      BY <3>2 DEF Heaps
    <3> QED BY <3>2, <3>4, <3>5 DEF Heaps
  <2>4. hook' = asked.hook
    <3>1. value["a0_hook"] = asked.hook
      OBVIOUS
    <3> QED BY <2>1, <3>1, HookIsFound
  <2>5. pads' \in Placed!AllPads /\ Placed!Polled(pads)' = asked.polled
    <3>1. KnownPads # Placed!None
      BY PlacedAssumption
    <3> HIDE DEF Placed!None
    <3>2. CASE game = "other"
      BY <2>1, <3>2 DEF Placed!DefaultPads, Placed!NoPads, Placed!AllPads, Placed!Polled
    <3>3. CASE game # "other"
      BY <2>1, <3>1, <3>3 DEF Placed!DefaultPads, Placed!AllPads, Placed!Polled
    <3> QED BY <3>2, <3>3
  <2> QED BY <2>1, <2>2, <2>3, <2>4, <2>5 DEF PlacedInv
<1>11. CASE Placed!ResetEntryInt
  <2>1. asked' \in Wishes /\ asked'.own = asked.own /\ asked'.vector = asked.vector
        /\ asked'.heap = asked.heap /\ asked'.hook = Placed!None /\ asked'.polled = asked.polled
    BY <1>11 DEF Placed!ResetEntryInt, PlacedInv, Wishes
  <2> QED BY <1>11, <2>1 DEF Placed!ResetEntryInt, PlacedInv, Placed!Polled
<1>12. CASE Placed!Next
  BY <1>2, <1>3, <1>4, <1>6, <1>7, <1>8, <1>9, <1>10, <1>11, <1>12 DEF Placed!Next
<1> QED BY <1>1, <1>12

(* What a program has put in place is what is used, through every          *)
(* savestate: for any numbers of the calls, any heaps, hooks and buffers.  *)
THEOREM PlacedIsKept == Placed!Spec => []KeptAsAsked
<1>1. PlacedInv => KeptAsAsked
  <2> SUFFICES ASSUME PlacedInv PROVE Placed!KeptAsAsked
    BY DEF KeptAsAsked
  <2>1. \A call \in Placed!Calls : Placed!psxbios_invoke_any(call) = "program" <=> call \in asked.own
    BY DEF PlacedInv, Wishes, Placed!psxbios_invoke_any
  <2> QED BY <2>1, PassedOwn DEF Placed!KeptAsAsked, PlacedInv
<1> QED BY <1>1, PlacedInitInv, PlacedNextInv, PTL DEF Placed!Spec
-----------------------------------------------------------------------------
(* The GPU.                                                                *)

GpuWords ==
  [kind : {"command", "upload", "position", "pixels"}] \cup [kind : {"size"}, pixels : Nat]

(* The words of an image's header that the GPU has not taken yet.          *)
HeaderLeft ==
  IF awaits = "command" THEN 3 ELSE IF awaits = "position" THEN 2
  ELSE IF awaits = "size" THEN 1 ELSE 0

(* The words the controller has under way.                                 *)
UnderWay == IF busy THEN Len(channel) ELSE 0

(* Only commands are to be written, and nothing is under way ...           *)
CommandsOnly ==
  /\ awaits = "command" /\ busy = FALSE
  /\ \A k \in 1 .. Len(writing) : writing[k].kind = "command"

(* ... or one image: the rest of its header, which the call writes, and as *)
(* many pixels as it announces or has announced, from the call and then    *)
(* from the controller.                                                    *)
ImageOnly ==
  LET left == HeaderLeft
      count == Len(writing) - left + UnderWay
  IN  /\ Len(writing) >= left /\ count >= 1
      /\ left = 3 => writing[1].kind = "upload"
      /\ left >= 2 => writing[left - 1].kind = "position"
      /\ left >= 1 => writing[left].kind = "size" /\ (writing[left].pixels + 1) \div 2 = count
      /\ left = 0 => pixels = count
      /\ \A k \in 1 .. Len(writing) : k > left => writing[k].kind = "pixels"

GpuTypes ==
  /\ awaits \in {"command", "position", "size", "pixels"}
  /\ writing \in Seq(GpuWords) /\ channel \in Seq(GpuWords)
  /\ busy \in BOOLEAN

(* A channel that was started can go on, and has pixels.                   *)
ChannelGoesOn ==
  busy = TRUE =>
    /\ enabled = TRUE /\ direction = "toGpu" /\ channel # <<>>
    /\ \A k \in 1 .. Len(channel) : channel[k].kind = "pixels"

GpuInv ==
  /\ GpuTypes /\ misread = FALSE
  /\ ChannelGoesOn
  /\ CommandsOnly \/ ImageOnly

LEMMA TimesIsSeq ==
  ASSUME NEW item \in GpuWords, NEW n \in Nat
  PROVE  /\ Gpus!Times(item, n) \in Seq(GpuWords) /\ Len(Gpus!Times(item, n)) = n
         /\ \A k \in 1 .. n : Gpus!Times(item, n)[k] = item
<1>1. Gpus!Times(item, n) \in [1 .. n -> GpuWords]
  BY DEF Gpus!Times
<1>2. Gpus!Times(item, n) \in Seq(GpuWords)
  BY <1>1, SeqDef
<1>3. DOMAIN Gpus!Times(item, n) = 1 .. n /\ \A k \in 1 .. n : Gpus!Times(item, n)[k] = item
  BY DEF Gpus!Times
<1> QED BY <1>2, <1>3, LenProperties

LEMMA WordKinds ==
  /\ Gpus!Command \in GpuWords /\ Gpus!Command.kind = "command"
  /\ Gpus!Upload \in GpuWords /\ Gpus!Upload.kind = "upload"
  /\ Gpus!Position \in GpuWords /\ Gpus!Position.kind = "position"
  /\ Gpus!Pixels \in GpuWords /\ Gpus!Pixels.kind = "pixels"
BY DEF Gpus!Command, Gpus!Upload, Gpus!Position, Gpus!Pixels, GpuWords

(* The sizes of images that programs upload.                               *)
LEMMA ImageWords ==
  ASSUME NEW w \in Widths, NEW h \in Heights, w * h > 0
  PROVE  /\ w * h \in Nat /\ Gpus!Words(w, h) \in Nat \ {0}
         /\ Gpus!Words(w, h) = (w * h + 1) \div 2
<1>1. w \in Nat /\ h \in Nat
  BY GpuAssumption
<1>2. w * h \in Nat
  BY <1>1
<1>3. \A p \in Nat : p > 0 => (p + 1) \div 2 \in Nat \ {0}
  OBVIOUS
<1> QED BY <1>2, <1>3 DEF Gpus!Words

LEMMA HeaderKinds ==
  ASSUME NEW w \in Widths, NEW h \in Heights, w * h > 0
  PROVE  LET header == Gpus!Header(w, h)
         IN  /\ header \in Seq(GpuWords) /\ Len(header) = 3
             /\ header[1].kind = "upload" /\ header[2].kind = "position"
             /\ header[3].kind = "size" /\ header[3].pixels = w * h
<1> DEFINE p == w * h
           dimensions == [kind |-> "size", pixels |-> p]
<1>1. p \in Nat
  BY ImageWords
<1> HIDE DEF p
<1>2. dimensions \in GpuWords /\ dimensions.kind = "size" /\ dimensions.pixels = p
  BY <1>1 DEF GpuWords
<1>3. Gpus!Header(w, h) = <<Gpus!Upload, Gpus!Position, dimensions>>
  BY DEF Gpus!Header, Gpus!Dimensions, p
<1> HIDE DEF dimensions
<1> QED BY <1>2, <1>3, WordKinds DEF p

(* Times as many commands, or pixels.                                      *)
LEMMA KindTimes ==
  ASSUME NEW n \in Nat
  PROVE  /\ Gpus!Times(Gpus!Command, n) \in Seq(GpuWords) /\ Len(Gpus!Times(Gpus!Command, n)) = n
         /\ \A k \in 1 .. n : Gpus!Times(Gpus!Command, n)[k].kind = "command"
         /\ Gpus!Times(Gpus!Pixels, n) \in Seq(GpuWords) /\ Len(Gpus!Times(Gpus!Pixels, n)) = n
         /\ \A k \in 1 .. n : Gpus!Times(Gpus!Pixels, n)[k].kind = "pixels"
<1>1. \A item \in GpuWords :
        /\ Gpus!Times(item, n) \in Seq(GpuWords) /\ Len(Gpus!Times(item, n)) = n
        /\ \A k \in 1 .. n : Gpus!Times(item, n)[k].kind = item.kind
  <2> TAKE item \in GpuWords
  <2> QED BY TimesIsSeq
<1>2. Gpus!Command \in GpuWords /\ Gpus!Command.kind = "command"
  BY WordKinds
<1>3. Gpus!Pixels \in GpuWords /\ Gpus!Pixels.kind = "pixels"
  BY WordKinds
<1> QED BY <1>1, <1>2, <1>3

LEMMA GpuInitInv == ASSUME Gpus!Init PROVE GpuInv
<1>1. /\ awaits = "command" /\ misread = FALSE /\ busy = FALSE
      /\ channel = <<>> /\ writing = <<>>
  BY DEF Gpus!Init
<1>2. GpuTypes
  <2>1. busy \in BOOLEAN
    BY <1>1, Zenon
  <2>2. awaits \in {"command", "position", "size", "pixels"}
    BY <1>1, Zenon
  <2>3. <<>> \in Seq(GpuWords)
    OBVIOUS
  <2>4. writing \in Seq(GpuWords) /\ channel \in Seq(GpuWords)
    BY <1>1, <2>3, Zenon
  <2> QED BY <2>1, <2>2, <2>4, Zenon DEF GpuTypes
<1>3. ChannelGoesOn
  BY <1>1, Zenon DEF ChannelGoesOn
<1>4. CommandsOnly
  <2>1. \A k \in 1 .. Len(writing) : writing[k].kind = "command"
    BY <1>1
  <2> QED BY <1>1, <2>1, Zenon DEF CommandsOnly
<1> QED BY <1>1, <1>2, <1>3, <1>4, Zenon DEF GpuInv

(* Between calls a command is awaited, and where the call writes nothing   *)
(* and a command is awaited, no image is under way.                        *)
LEMMA GpuIdle ==
  ASSUME GpuInv
  PROVE  /\ Gpus!MayWrite => awaits = "command"
         /\ awaits = "command" /\ writing = <<>> => CommandsOnly
         /\ awaits = "pixels" /\ writing = <<>> => busy = TRUE /\ Len(channel) = pixels
<1>1. GpuTypes /\ (CommandsOnly \/ ImageOnly)
  BY DEF GpuInv
<1>2. CASE CommandsOnly
  BY <1>2 DEF CommandsOnly
<1>3. CASE ImageOnly
  <2>1. CASE writing = <<>>
    <3>1. Len(writing) = 0 /\ HeaderLeft \in 0 .. 3
      BY <2>1 DEF HeaderLeft
    <3>2. HeaderLeft = 0 /\ UnderWay >= 1 /\ pixels = UnderWay
      <4>1. UnderWay \in Nat
        BY <1>1 DEF UnderWay, GpuTypes
      <4>2. HeaderLeft = 0
        BY <1>3, <3>1 DEF ImageOnly
      <4> QED BY <1>3, <3>1, <4>1, <4>2 DEF ImageOnly
    <3>3. busy = TRUE /\ pixels = Len(channel)
      BY <1>1, <3>2 DEF UnderWay, GpuTypes
    <3>4. awaits # "command"
      BY <3>2 DEF HeaderLeft
    <3> QED BY <3>3, <3>4 DEF Gpus!MayWrite
  <2>2. CASE writing # <<>>
    BY <2>2 DEF Gpus!MayWrite
  <2> QED BY <2>1, <2>2
<1> QED BY <1>1, <1>2, <1>3

(* An image is begun: some pixels follow the header, others the controller *)
(* has.                                                                    *)
LEMMA ImageBegins ==
  ASSUME NEW header \in Seq(GpuWords), Len(header) = 3,
         header[1].kind = "upload", header[2].kind = "position", header[3].kind = "size",
         NEW n \in Nat, NEW m \in Nat, n + m >= 1, (header[3].pixels + 1) \div 2 = n + m,
         awaits' = "command",
         writing' = header \o Gpus!Times(Gpus!Pixels, n),
         channel' \in Seq(GpuWords), busy' \in BOOLEAN, UnderWay' = m
  PROVE  GpuTypes' /\ ImageOnly'
<1>1. PICK sent \in Seq(GpuWords) :
        sent = Gpus!Times(Gpus!Pixels, n)
        /\ Len(sent) = n /\ \A k \in 1 .. n : sent[k].kind = "pixels"
  <2>1. /\ Gpus!Times(Gpus!Pixels, n) \in Seq(GpuWords)
        /\ Len(Gpus!Times(Gpus!Pixels, n)) = n
        /\ \A k \in 1 .. n : Gpus!Times(Gpus!Pixels, n)[k].kind = "pixels"
    BY KindTimes
  <2> QED BY <2>1
<1>2. channel' \in Seq(GpuWords) /\ busy' \in BOOLEAN /\ UnderWay' = m
  OBVIOUS
<1>3. writing' = header \o sent
  BY <1>1
<1>4. /\ writing' \in Seq(GpuWords) /\ Len(writing') = 3 + n
      /\ \A k \in 1 .. 3 : writing'[k] = header[k]
      /\ \A k \in 1 .. Len(writing') : k > 3 => writing'[k] = sent[k - 3]
  <2>1. /\ header \o sent \in Seq(GpuWords) /\ Len(header \o sent) = Len(header) + Len(sent)
        /\ \A k \in 1 .. Len(header) + Len(sent) :
             (header \o sent)[k] = IF k <= Len(header) THEN header[k] ELSE sent[k - Len(header)]
    BY ConcatProperties, Zenon
  <2>2. PICK joined \in Seq(GpuWords) :
          /\ writing' = joined /\ Len(joined) = Len(header) + Len(sent)
          /\ \A k \in 1 .. Len(header) + Len(sent) :
               joined[k] = IF k <= Len(header) THEN header[k] ELSE sent[k - Len(header)]
    BY <1>3, <2>1, Zenon
  <2>3. \A k \in 1 .. 3 + n : joined[k] = IF k <= 3 THEN header[k] ELSE sent[k - 3]
    BY <1>1, <2>2
  <2> QED BY <1>1, <2>2, <2>3
<1>5. writing'[1] = header[1] /\ writing'[2] = header[2] /\ writing'[3] = header[3]
  BY <1>4
<1>6. GpuTypes'
  BY <1>2, <1>4 DEF GpuTypes
<1>7. HeaderLeft' = 3
  BY DEF HeaderLeft
<1>8. \A k \in 1 .. Len(writing') : k > 3 => writing'[k].kind = "pixels"
  BY <1>1, <1>4
<1>9. Len(writing') - 3 + UnderWay' = n + m
  BY <1>2, <1>4
<1>10. ImageOnly'
  BY <1>2, <1>4, <1>5, <1>7, <1>8, <1>9, SMTT(30) DEF ImageOnly
<1> QED BY <1>6, <1>10

(* Commands are written, and nothing is started.                           *)
LEMMA CommandsBegin ==
  ASSUME NEW n \in Nat, awaits' = "command", busy' = FALSE,
         writing' = Gpus!Times(Gpus!Command, n), channel' \in Seq(GpuWords)
  PROVE  GpuTypes' /\ CommandsOnly'
<1>1. /\ writing' \in Seq(GpuWords) /\ Len(writing') = n
      /\ \A k \in 1 .. n : writing'[k].kind = "command"
  BY KindTimes
<1> QED BY <1>1 DEF GpuTypes, CommandsOnly

(* The GPU takes the call's next word.                                     *)
LEMMA WriteKeeps == ASSUME GpuInv, Gpus!Write PROVE GpuInv'
<1> DEFINE item == Head(writing)
<1>1. /\ writing \in Seq(GpuWords) /\ writing # <<>> /\ Len(writing) >= 1 /\ item = writing[1]
      /\ writing' = Tail(writing) /\ Gpus!Taken(item)
      /\ channel' = channel /\ enabled' = enabled /\ direction' = direction /\ busy' = busy
      /\ channel \in Seq(GpuWords) /\ busy \in BOOLEAN /\ misread = FALSE
  BY DEF GpuInv, GpuTypes, Gpus!Write, Gpus!dma
<1>0. UnderWay' = UnderWay /\ UnderWay \in Nat /\ ChannelGoesOn'
  <2>1. ChannelGoesOn /\ Len(channel) \in Nat
    BY <1>1 DEF GpuInv
  <2> QED BY <1>1, <2>1 DEF UnderWay, ChannelGoesOn
<1>2. /\ writing' \in Seq(GpuWords) /\ Len(writing') = Len(writing) - 1
      /\ \A k \in 1 .. Len(writing') : writing'[k] = writing[k + 1]
  BY <1>1
<1> HIDE DEF item
<1>3. CASE CommandsOnly
  <2>1. awaits = "command" /\ item.kind = "command"
    BY <1>1, <1>3 DEF CommandsOnly
  <2>2. awaits' = "command" /\ misread' = FALSE
    BY <1>1, <2>1 DEF Gpus!Taken
  <2>3. CommandsOnly'
    BY <1>1, <1>2, <1>3, <2>2 DEF CommandsOnly
  <2> QED BY <1>0, <1>1, <1>2, <2>2, <2>3 DEF GpuInv, GpuTypes
<1>4. CASE ImageOnly
  <2> DEFINE left == HeaderLeft
             count == Len(writing) - left + UnderWay
  <2>1. /\ Len(writing) >= left /\ count >= 1
        /\ left = 3 => writing[1].kind = "upload"
        /\ left >= 2 => writing[left - 1].kind = "position"
        /\ left >= 1 => writing[left].kind = "size" /\ (writing[left].pixels + 1) \div 2 = count
        /\ left = 0 => pixels = count
        /\ \A k \in 1 .. Len(writing) : k > left => writing[k].kind = "pixels"
    BY <1>4 DEF ImageOnly
  <2>2. CASE awaits = "command"
    <3>1. left = 3 /\ item.kind = "upload"
      BY <1>1, <2>1, <2>2 DEF HeaderLeft
    <3>2. awaits' = "position" /\ misread' = FALSE
      BY <1>1, <2>2, <3>1 DEF Gpus!Taken
    <3>3. HeaderLeft' = 2
      BY <3>2 DEF HeaderLeft
    <3> HIDE DEF left
    <3>4. ImageOnly'
      BY <1>0, <1>1, <1>2, <2>1, <3>1, <3>3 DEF ImageOnly
    <3> QED BY <1>0, <1>1, <1>2, <3>2, <3>4 DEF GpuInv, GpuTypes
  <2>3. CASE awaits = "position"
    <3>1. left = 2 /\ item.kind = "position"
      BY <1>1, <2>1, <2>3 DEF HeaderLeft
    <3>2. awaits' = "size" /\ misread' = FALSE
      BY <1>1, <2>3, <3>1 DEF Gpus!Taken
    <3>3. HeaderLeft' = 1
      BY <3>2 DEF HeaderLeft
    <3> HIDE DEF left
    <3>4. ImageOnly'
      BY <1>0, <1>1, <1>2, <2>1, <3>1, <3>3 DEF ImageOnly
    <3> QED BY <1>0, <1>1, <1>2, <3>2, <3>4 DEF GpuInv, GpuTypes
  <2>4. CASE awaits = "size"
    <3>1. left = 1 /\ item.kind = "size" /\ (item.pixels + 1) \div 2 = count
      BY <1>1, <2>1, <2>4 DEF HeaderLeft
    <3>2. awaits' = "pixels" /\ misread' = FALSE /\ pixels' = count
      BY <1>1, <2>4, <3>1 DEF Gpus!Taken
    <3>3. HeaderLeft' = 0
      BY <3>2 DEF HeaderLeft
    <3> HIDE DEF left
    <3>4. ImageOnly'
      BY <1>0, <1>1, <1>2, <2>1, <3>1, <3>2, <3>3 DEF ImageOnly
    <3> QED BY <1>0, <1>1, <1>2, <3>2, <3>4 DEF GpuInv, GpuTypes
  <2>5. CASE awaits = "pixels"
    <3>1. left = 0 /\ item.kind = "pixels" /\ pixels = count
      BY <1>1, <2>1, <2>5 DEF HeaderLeft
    <3>2. misread' = FALSE /\ pixels' = count - 1
          /\ awaits' = IF count = 1 THEN "command" ELSE "pixels"
      BY <1>1, <2>5, <3>1 DEF Gpus!Taken
    <3> HIDE DEF left
    <3>3. CASE count = 1
      <4>1. Len(writing') = 0 /\ busy' = FALSE
        <5>1. UnderWay = 0
          BY <1>0, <1>1, <3>1, <3>3
        <5>2. busy = FALSE
          <6>1. busy = TRUE => Len(channel) # 0
            BY <1>1 DEF GpuInv, ChannelGoesOn
          <6> QED BY <1>1, <5>1, <6>1 DEF UnderWay
        <5> QED BY <1>0, <1>1, <1>2, <3>1, <3>3, <5>1, <5>2
      <4> QED BY <1>0, <1>1, <1>2, <3>2, <3>3, <4>1 DEF GpuInv, GpuTypes, CommandsOnly
    <3>4. CASE count # 1
      <4>1. HeaderLeft' = 0
        BY <3>2, <3>4 DEF HeaderLeft
      <4>2. ImageOnly'
        BY <1>0, <1>1, <1>2, <2>1, <3>1, <3>2, <3>4, <4>1 DEF ImageOnly
      <4> QED BY <1>0, <1>1, <1>2, <3>2, <3>4, <4>2 DEF GpuInv, GpuTypes
    <3> QED BY <3>3, <3>4
  <2> QED BY <2>2, <2>3, <2>4, <2>5 DEF GpuInv, GpuTypes
<1> QED BY <1>3, <1>4 DEF GpuInv

(* The GPU takes a word of a transfer.                                     *)
LEMMA TransferKeeps == ASSUME GpuInv, Gpus!Transfer PROVE GpuInv'
<1> DEFINE item == Head(channel)
<1>1. /\ channel \in Seq(GpuWords) /\ channel # <<>> /\ Len(channel) >= 1 /\ item = channel[1]
      /\ channel' = Tail(channel) /\ busy' = (channel' # <<>>) /\ Gpus!Taken(item)
      /\ writing = <<>> /\ writing' = writing /\ enabled' = enabled /\ direction' = direction
      /\ misread = FALSE /\ busy = TRUE
  BY DEF GpuInv, GpuTypes, Gpus!Transfer
<1>2. /\ channel' \in Seq(GpuWords) /\ Len(channel') = Len(channel) - 1
      /\ \A k \in 1 .. Len(channel') : channel'[k] = channel[k + 1]
  BY <1>1
<1>3. /\ enabled = TRUE /\ direction = "toGpu"
      /\ \A k \in 1 .. Len(channel) : channel[k].kind = "pixels"
  BY <1>1 DEF GpuInv, ChannelGoesOn
<1>4. ChannelGoesOn'
  <2>1. busy' = TRUE => channel' # <<>>
    BY <1>1, Zenon
  <2>2. enabled' = TRUE /\ direction' = "toGpu"
    BY <1>1, <1>3, Zenon
  <2>3. \A k \in 1 .. Len(channel') : channel'[k].kind = "pixels"
    <3>1. Len(channel) \in Nat
      BY <1>1
    <3>2. \A k \in 1 .. Len(channel') : k + 1 \in 1 .. Len(channel)
      BY <1>2, <3>1
    <3> QED BY <1>2, <1>3, <3>2
  <2> QED BY <2>1, <2>2, <2>3, Zenon DEF ChannelGoesOn
<1>5. item.kind = "pixels"
  BY <1>1, <1>3
<1> HIDE DEF item
<1>6. ImageOnly
  BY <1>1 DEF GpuInv, CommandsOnly
<1>7. awaits = "pixels" /\ pixels = Len(channel)
  <2>1. Len(writing) = 0
    BY <1>1
  <2>2. HeaderLeft = 0
    BY <1>6, <2>1 DEF ImageOnly, HeaderLeft
  <2>3. awaits = "pixels"
    BY <2>2 DEF HeaderLeft, GpuInv, GpuTypes
  <2> QED BY <2>3, <1>1, GpuIdle
<1>8. misread' = FALSE /\ pixels' = Len(channel) - 1
      /\ awaits' = IF Len(channel) = 1 THEN "command" ELSE "pixels"
  BY <1>1, <1>5, <1>7 DEF Gpus!Taken
<1>9. CASE Len(channel) = 1
  <2>1. busy' = FALSE /\ awaits' = "command" /\ Len(writing') = 0
    <3>1. channel' = <<>>
      BY <1>2, <1>9
    <3>2. busy' = FALSE
      BY <1>1, <3>1, Zenon
    <3>3. Len(writing') = 0
      BY <1>1
    <3> QED BY <1>8, <1>9, <3>2, <3>3, Zenon
  <2>2. CommandsOnly'
    BY <2>1 DEF CommandsOnly
  <2> QED BY <1>1, <1>2, <1>4, <1>8, <2>1, <2>2 DEF GpuInv, GpuTypes
<1>10. CASE Len(channel) # 1
  <2>1. busy' = TRUE /\ awaits' = "pixels" /\ Len(writing') = 0
    <3>1. channel' # <<>>
      <4>1. Len(channel) \in Nat /\ Len(channel) >= 1
        BY <1>1
      <4>2. Len(channel') # 0
        BY <1>2, <1>10, <4>1
      <4>3. Len(<<>>) = 0
        OBVIOUS
      <4> QED BY <4>2, <4>3, Zenon
    <3>2. busy' = TRUE
      BY <1>1, <3>1, Zenon
    <3>3. Len(writing') = 0
      BY <1>1
    <3> QED BY <1>8, <1>10, <3>2, <3>3, Zenon
  <2>2. HeaderLeft' = 0 /\ UnderWay' = Len(channel) - 1
    BY <1>2, <2>1 DEF HeaderLeft, UnderWay
  <2>3. ImageOnly'
    <3>1. Len(channel) \in Nat /\ Len(channel) >= 1 /\ Len(writing') = 0
      BY <1>1, <2>1
    <3>2. pixels' = Len(channel) - 1
      BY <1>8
    <3> QED BY <1>10, <2>2, <3>1, <3>2 DEF ImageOnly
  <2> QED BY <1>1, <1>2, <1>4, <1>8, <2>1, <2>3 DEF GpuInv, GpuTypes
<1> QED BY <1>9, <1>10

LEMMA GpuNextInv == ASSUME GpuInv, [Gpus!Next]_Gpus!vars PROVE GpuInv'
<1>0. /\ GpuTypes /\ misread = FALSE
      /\ CommandsOnly \/ ImageOnly
      /\ ChannelGoesOn
  BY DEF GpuInv
<1>1. CASE UNCHANGED Gpus!vars
  BY <1>1, <1>0 DEF Gpus!vars, Gpus!gpu, Gpus!dma, GpuInv, GpuTypes, ChannelGoesOn,
     CommandsOnly, ImageOnly, HeaderLeft, UnderWay
<1>2. ASSUME NEW w \in Widths, NEW h \in Heights, w * h > 0, NEW n \in Nat, NEW m \in Nat,
             n + m = Gpus!Words(w, h), awaits = "command", UNCHANGED <<awaits, pixels, misread>>,
             writing' = Gpus!Header(w, h) \o Gpus!Times(Gpus!Pixels, n),
             channel' \in Seq(GpuWords), busy' \in BOOLEAN, UnderWay' = m, ChannelGoesOn'
      PROVE  GpuInv'
  <2> DEFINE header == Gpus!Header(w, h)
  <2>1. /\ header \in Seq(GpuWords) /\ Len(header) = 3
        /\ header[1].kind = "upload" /\ header[2].kind = "position"
        /\ header[3].kind = "size" /\ header[3].pixels = w * h
    BY <1>2, HeaderKinds
  <2>2. n + m >= 1 /\ (header[3].pixels + 1) \div 2 = n + m
    BY <1>2, <2>1, ImageWords
  <2>3. awaits' = "command" /\ misread' = FALSE
    BY <1>0, <1>2
  <2>4. writing' = header \o Gpus!Times(Gpus!Pixels, n)
    BY <1>2
  <2> HIDE DEF header
  <2>5. GpuTypes' /\ ImageOnly'
    BY <1>2, <2>1, <2>2, <2>3, <2>4, ImageBegins
  <2> QED BY <1>2, <2>3, <2>5 DEF GpuInv
<1>3. ASSUME NEW n \in Nat, awaits = "command", UNCHANGED <<awaits, pixels, misread>>,
             writing' = Gpus!Times(Gpus!Command, n), channel' \in Seq(GpuWords), busy' = FALSE
      PROVE  GpuInv'
  <2>1. awaits' = "command" /\ misread' = FALSE
    BY <1>0, <1>3
  <2>2. GpuTypes' /\ CommandsOnly'
    BY <1>3, <2>1, CommandsBegin
  <2>3. ChannelGoesOn'
    BY <1>3 DEF ChannelGoesOn
  <2> QED BY <2>1, <2>2, <2>3 DEF GpuInv
<1>4. /\ Gpus!Times(Gpus!Pixels, 0) = <<>> /\ Gpus!Times(Gpus!Command, 0) = <<>>
      /\ <<Gpus!Command>> = Gpus!Times(Gpus!Command, 1)
  <2>1. \A s \in Seq(GpuWords) : Len(s) = 0 => s = <<>>
    OBVIOUS
  <2>2. Gpus!Times(Gpus!Command, 1) = [k \in 1 .. 1 |-> Gpus!Command]
    BY DEF Gpus!Times
  <2> QED BY <2>1, <2>2, KindTimes
<1>5. ASSUME NEW w \in Widths, NEW h \in Heights, Gpus!GPU_dw(w, h) PROVE GpuInv'
  <2>1. /\ w * h > 0 /\ awaits = "command" /\ UNCHANGED <<awaits, pixels, misread>>
        /\ writing' = Gpus!Header(w, h) \o Gpus!Times(Gpus!Pixels, Gpus!Words(w, h))
        /\ UNCHANGED <<direction, enabled, busy, channel>> /\ ~busy
    BY <1>5, GpuIdle DEF Gpus!GPU_dw, Gpus!GPU_writeData, Gpus!gpu, Gpus!dma, Gpus!MayWrite
  <2>2. Gpus!Words(w, h) \in Nat /\ Gpus!Words(w, h) + 0 = Gpus!Words(w, h)
    BY <2>1, ImageWords
  <2>3. channel' \in Seq(GpuWords) /\ busy' = FALSE /\ busy' \in BOOLEAN
    BY <1>0, <2>1 DEF GpuTypes
  <2>4. UnderWay' = 0 /\ ChannelGoesOn'
    BY <2>3 DEF UnderWay, ChannelGoesOn
  <2> QED BY <1>2, <2>1, <2>2, <2>3, <2>4
<1>6. ASSUME NEW w \in Widths, NEW h \in Heights, Gpus!mem2vram(w, h) PROVE GpuInv'
  <2> DEFINE m == Gpus!Words(w, h)
  <2>1. /\ w * h > 0 /\ m % 16 = 0 /\ awaits = "command" /\ UNCHANGED <<awaits, pixels, misread>>
        /\ writing' = Gpus!Header(w, h)
        /\ channel' = Gpus!Times(Gpus!Pixels, (m \div 16) * 16)
        /\ enabled' = TRUE /\ direction' = "toGpu" /\ busy' = TRUE
    <3>1. 24 \in Gpus!ImageControl
      BY DEF Gpus!ImageControl
    <3>2. busy' = TRUE
      BY <1>6, <3>1 DEF Gpus!mem2vram, Gpus!HandOver, Gpus!Control
    <3> QED BY <1>6, <3>2, GpuIdle
         DEF Gpus!mem2vram, Gpus!MayTransfer, Gpus!GPU_writeData, Gpus!HandOver, Gpus!BlockWords,
             Gpus!gpu
  <2>2. m \in Nat \ {0}
    BY <2>1, ImageWords
  <2>3. \A x \in Nat : x % 16 = 0 => (x \div 16) * 16 = x
    OBVIOUS
  <2>4. (m \div 16) * 16 = m /\ 0 + m = m
    BY <2>1, <2>2, <2>3
  <2>5. writing' = Gpus!Header(w, h) \o Gpus!Times(Gpus!Pixels, 0)
    BY <1>4, <2>1, HeaderKinds
  <2> HIDE DEF m
  <2>6. 0 + m = Gpus!Words(w, h) /\ channel' = Gpus!Times(Gpus!Pixels, m)
    BY <2>1, <2>4 DEF m
  <2>7. /\ channel' \in Seq(GpuWords) /\ Len(channel') = m
        /\ \A k \in 1 .. m : channel'[k].kind = "pixels"
    BY <2>2, <2>6, KindTimes
  <2>8. UnderWay' = m /\ ChannelGoesOn' /\ busy' \in BOOLEAN
    BY <2>1, <2>2, <2>7 DEF UnderWay, ChannelGoesOn
  <2> QED BY <1>2, <2>1, <2>2, <2>5, <2>6, <2>7, <2>8
<1>7. CASE Gpus!GPU_cw
  <2>1. /\ awaits = "command" /\ UNCHANGED <<awaits, pixels, misread>>
        /\ writing' = Gpus!Times(Gpus!Command, 1) /\ UNCHANGED <<busy, channel>> /\ ~busy
    BY <1>4, <1>7, GpuIdle DEF Gpus!GPU_cw, Gpus!GPU_writeData, Gpus!gpu, Gpus!dma, Gpus!MayWrite
  <2>2. channel' \in Seq(GpuWords) /\ busy' = FALSE
    BY <1>0, <2>1 DEF GpuTypes
  <2> QED BY <1>3, <2>1, <2>2
<1>8. ASSUME NEW n \in Packets, Gpus!GPU_cwb(n) PROVE GpuInv'
  <2>1. /\ awaits = "command" /\ UNCHANGED <<awaits, pixels, misread>>
        /\ writing' = Gpus!Times(Gpus!Command, n) /\ UNCHANGED <<busy, channel>> /\ ~busy
    BY <1>8, GpuIdle DEF Gpus!GPU_cwb, Gpus!GPU_writeData, Gpus!gpu, Gpus!dma, Gpus!MayWrite
  <2>2. n \in Nat /\ channel' \in Seq(GpuWords) /\ busy' = FALSE
    BY <1>0, <2>1, GpuAssumption DEF GpuTypes
  <2> QED BY <1>3, <2>1, <2>2
<1>9. ASSUME NEW n \in Packets, Gpus!GPU_SendPackets(n) PROVE GpuInv'
  <2>1. /\ awaits = "command" /\ UNCHANGED <<awaits, pixels, misread>>
        /\ writing' = Gpus!Times(Gpus!Command, 0) /\ channel' = Gpus!Times(Gpus!Command, n)
    BY <1>4, <1>9, GpuIdle DEF Gpus!GPU_SendPackets, Gpus!HandOver, Gpus!MayWrite, Gpus!gpu
  <2>2. n \in Nat /\ channel' \in Seq(GpuWords)
    BY <2>1, GpuAssumption, KindTimes
  <2>3. busy' = FALSE
    <3>1. ~(24 \in Gpus!ListControl)
      BY DEF Gpus!ListControl
    <3>2. busy' = (24 \in Gpus!ListControl) /\ busy' \in BOOLEAN
      BY <1>9 DEF Gpus!GPU_SendPackets, Gpus!HandOver, Gpus!Control
    <3>3. ~busy'
      BY <3>1, <3>2, Zenon
    <3> QED BY <3>2, <3>3, Zenon
  <2> QED BY <1>3, <2>1, <2>2, <2>3
<1>10. CASE Gpus!sys_a0_4c
  <2>1. /\ awaits = "command" /\ UNCHANGED <<awaits, pixels, misread, channel>>
        /\ writing' = Gpus!Times(Gpus!Command, 3)
    BY <1>10 DEF Gpus!sys_a0_4c, Gpus!GPU_writeData, Gpus!gpu
  <2>2. channel' \in Seq(GpuWords)
    BY <1>0, <2>1 DEF GpuTypes
  <2>3. busy' = FALSE
    <3>1. ~(24 \in Gpus!StopControl)
      BY DEF Gpus!StopControl
    <3>2. busy' = (24 \in Gpus!StopControl) /\ busy' \in BOOLEAN
      BY <1>10 DEF Gpus!sys_a0_4c, Gpus!Control
    <3>3. ~busy'
      BY <3>1, <3>2, Zenon
    <3> QED BY <3>2, <3>3, Zenon
  <2> QED BY <1>3, <2>1, <2>2, <2>3
<1>11. ASSUME NEW to \in {"off", "toGpu", "toCpu"}, Gpus!SendGPU(to) PROVE GpuInv'
  <2>1. ~busy /\ UNCHANGED <<awaits, pixels, misread, busy, channel, writing>>
    BY <1>11 DEF Gpus!SendGPU, Gpus!MayWrite, Gpus!gpu
  <2>2. ChannelGoesOn'
    BY <2>1 DEF ChannelGoesOn
  <2> QED BY <1>0, <2>1, <2>2 DEF GpuInv, GpuTypes, CommandsOnly, ImageOnly, HeaderLeft, UnderWay
<1>12. CASE Gpus!Next
  BY <1>5, <1>6, <1>7, <1>8, <1>9, <1>10, <1>11, <1>12, WriteKeeps, TransferKeeps DEF Gpus!Next
<1> QED BY <1>1, <1>12

(* The GPU never takes a word for another thing than was meant, every      *)
(* transfer that was started can go on to its end, and what the GPU still  *)
(* awaits when a call has returned is under way: for images of all sizes   *)
(* and lists of all lengths, which are never started.                      *)
THEOREM WordsTakenAsMeant == Gpus!Spec => []WordsAsMeant
<1>1. GpuInv => WordsAsMeant
  BY GpuIdle DEF GpuInv, ChannelGoesOn, WordsAsMeant, Gpus!WordsAsMeant
<1> QED BY <1>1, GpuInitInv, GpuNextInv, PTL DEF Gpus!Spec
-----------------------------------------------------------------------------
(* The output.  First, induction over a set of numbers in place of a       *)
(* predicate, and functions defined by recursion.                          *)
LEMMA Least ==
  ASSUME NEW S \in SUBSET Nat, S # {}
  PROVE  \E m \in S : \A n \in S : m <= n
<1> DEFINE R == StrictSubsetOrdering(Nat)
           F == FiniteSubsetsOf(Nat)
           T == {0 .. n : n \in S}
<1>1. IsWellFoundedOn(R, F)
  BY FS_StrictSubsetOrderingWellFounded
<1>2. T \subseteq F
  <2>1. ASSUME NEW n \in S PROVE 0 .. n \subseteq Nat /\ IsFiniteSet(0 .. n)
    BY FS_Interval
  <2>2. QED
    BY <2>1 DEF FiniteSubsetsOf
<1>3. T # {}
  OBVIOUS
<1>4. PICK t \in T : \A u \in T : ~(<<u, t>> \in R)
  <2> HIDE DEF R, F, T
  <2>1. QED
    BY <1>1, <1>2, <1>3, WFMin
<1>5. PICK m \in S : t = 0 .. m
  OBVIOUS
<1>6. ASSUME NEW n \in S, n < m PROVE FALSE
  <2>1. 0 .. n \in SUBSET Nat /\ 0 .. m \in SUBSET Nat
    OBVIOUS
  <2>2. 0 .. n \subseteq 0 .. m /\ m \in 0 .. m /\ m \notin 0 .. n
    BY <1>6
  <2>3. <<0 .. n, 0 .. m>> \in R
    BY <2>1, <2>2 DEF StrictSubsetOrdering
  <2>4. QED
    BY <1>4, <1>5, <2>3
<1>7. QED
  BY <1>6

(* Induction, over a set in place of a predicate.                          *)
LEMMA Induction ==
  ASSUME NEW S, \A n \in Nat : (\A m \in Nat : m < n => m \in S) => n \in S
  PROVE  \A n \in Nat : n \in S
<1> SUFFICES ASSUME NEW k \in Nat, k \notin S PROVE FALSE
  OBVIOUS
<1>1. Nat \ S \in SUBSET Nat /\ Nat \ S # {}
  OBVIOUS
<1>2. PICK m \in Nat \ S : \A n \in Nat \ S : m <= n
  BY <1>1, Least
<1>3. \A n \in Nat : n < m => n \in S
  BY <1>2
<1> QED BY <1>2, <1>3

-----------------------------------------------------------------------------
(* A function from 0 to n that takes each value from the one before it.    *)
Iterates(g, n, V, base, op) ==
  /\ g = [k \in 0 .. n |-> g[k]] /\ g[0] = base /\ g[0] \in V[0]
  /\ \A k \in 1 .. n : g[k] = op[k][g[k - 1]] /\ g[k] \in V[k]

LEMMA Iteration ==
  ASSUME NEW n \in Nat, NEW V, NEW base \in V[0], NEW op,
         \A k \in 1 .. n : op[k] \in [V[k - 1] -> V[k]]
  PROVE  \E g : Iterates(g, n, V, base, op)
<1> DEFINE Good == {m \in Nat : m <= n => \E g : Iterates(g, m, V, base, op)}
<1>1. ASSUME NEW m \in Nat, \A k \in Nat : k < m => k \in Good
      PROVE  m \in Good
  <2> SUFFICES ASSUME m <= n PROVE \E g : Iterates(g, m, V, base, op)
    OBVIOUS
  <2>1. CASE m = 0
    <3> DEFINE g == [k \in 0 .. m |-> base]
    <3>1. Iterates(g, m, V, base, op)
      BY <2>1 DEF Iterates
    <3> HIDE DEF g
    <3> QED BY <3>1
  <2>2. CASE m # 0
    <3>1. m - 1 \in Nat /\ m - 1 < m /\ m - 1 <= n /\ m \in 1 .. n
      BY <2>2
    <3>2. PICK h : Iterates(h, m - 1, V, base, op)
      BY <1>1, <3>1
    <3> DEFINE g == [k \in 0 .. m |-> IF k = m THEN op[m][h[m - 1]] ELSE h[k]]
    <3>3. h[m - 1] \in V[m - 1]
      <4>1. CASE m - 1 = 0
        BY <3>2, <4>1 DEF Iterates
      <4>2. CASE m - 1 # 0
        <5>1. m - 1 \in 1 .. m - 1
          BY <3>1, <4>2
        <5> QED BY <3>2, <5>1 DEF Iterates
      <4> QED BY <4>1, <4>2
    <3>4. op[m][h[m - 1]] \in V[m]
      BY <3>1, <3>3
    <3>5. \A k \in 0 .. m - 1 : g[k] = h[k]
      BY <3>1
    <3>6. g = [k \in 0 .. m |-> g[k]] /\ g[m] = op[m][h[m - 1]] /\ g[0] = h[0] /\ g[m - 1] = h[m - 1]
      BY <2>2, <3>1
    <3> HIDE DEF g
    <3>7. ASSUME NEW k \in 1 .. m PROVE g[k] = op[k][g[k - 1]] /\ g[k] \in V[k]
      <4>1. CASE k = m
        BY <3>4, <3>6, <4>1
      <4>2. CASE k # m
        <5>1. k \in 1 .. m - 1 /\ k \in 0 .. m - 1 /\ k - 1 \in 0 .. m - 1
          BY <3>1, <4>2
        <5>2. h[k] = op[k][h[k - 1]] /\ h[k] \in V[k]
          BY <3>2, <5>1 DEF Iterates
        <5> QED BY <3>5, <5>1, <5>2
      <4> QED BY <4>1, <4>2
    <3>8. Iterates(g, m, V, base, op)
      BY <3>2, <3>6, <3>7 DEF Iterates
    <3> QED BY <3>8
  <2> QED BY <2>1, <2>2
<1>2. n \in Good
  <2> HIDE DEF Good
  <2>1. \A m \in Nat : m \in Good
    BY <1>1, Induction
  <2> QED BY <2>1
<1> QED BY <1>2

LEMMA UpTo ==
  ASSUME NEW n \in Nat, NEW S, 0 \in S, \A k \in 1 .. n : k - 1 \in S => k \in S
  PROVE  \A k \in 0 .. n : k \in S
<1> DEFINE Good == {k \in Nat : k <= n => k \in S}
<1>1. ASSUME NEW k \in Nat, \A m \in Nat : m < k => m \in Good PROVE k \in Good
  <2>1. CASE k = 0
    BY <2>1
  <2>2. CASE k # 0 /\ k <= n
    <3>1. k - 1 \in Nat /\ k - 1 < k /\ k - 1 <= n /\ k \in 1 .. n
      BY <2>2
    <3>2. k - 1 \in S
      BY <1>1, <3>1
    <3> QED BY <3>1, <3>2
  <2> QED BY <2>1, <2>2
<1>2. \A k \in Nat : k \in Good
  <2> HIDE DEF Good
  <2> QED BY <1>1, Induction
<1> QED BY <1>2

LEMMA Iterated ==
  ASSUME NEW n \in Nat, NEW V, NEW base, NEW op, NEW g, Iterates(g, n, V, base, op)
  PROVE  /\ g = [k \in 0 .. n |-> IF k = 0 THEN base ELSE op[k][g[k - 1]]]
         /\ \A k \in 0 .. n : g[k] \in V[k]
<1>1. \A k \in 0 .. n : k = 0 \/ k \in 1 .. n
  OBVIOUS
<1>2. \A k \in 0 .. n : g[k] = (IF k = 0 THEN base ELSE op[k][g[k - 1]]) /\ g[k] \in V[k]
  BY <1>1 DEF Iterates
<1>3. [k \in 0 .. n |-> g[k]] = [k \in 0 .. n |-> IF k = 0 THEN base ELSE op[k][g[k - 1]]]
  BY <1>2
<1> QED BY <1>2, <1>3 DEF Iterates

(* With one type throughout.                                               *)
Unfolds(g, n, T, base, op) ==
  /\ g = [k \in 0 .. n |-> IF k = 0 THEN base ELSE op[k][g[k - 1]]]
  /\ \A k \in 0 .. n : g[k] \in T

LEMMA Unfolding ==
  ASSUME NEW n \in Nat, NEW T, NEW base \in T, NEW op \in [1 .. n -> [T -> T]]
  PROVE  \E g : Unfolds(g, n, T, base, op)
<1> DEFINE V == [k \in 0 .. n |-> T]
<1>1. \A k \in 0 .. n : V[k] = T
  OBVIOUS
<1>2. 0 \in 0 .. n /\ \A k \in 1 .. n : k \in 0 .. n /\ k - 1 \in 0 .. n
  OBVIOUS
<1> HIDE DEF V
<1>3. base \in V[0] /\ \A k \in 1 .. n : op[k] \in [V[k - 1] -> V[k]]
  BY <1>1, <1>2
<1>4. PICK g : Iterates(g, n, V, base, op)
  BY <1>3, Iteration
<1>5. /\ g = [k \in 0 .. n |-> IF k = 0 THEN base ELSE op[k][g[k - 1]]]
      /\ \A k \in 0 .. n : g[k] \in V[k]
  BY <1>4, Iterated
<1>6. Unfolds(g, n, T, base, op)
  BY <1>1, <1>5 DEF Unfolds
<1> QED BY <1>6
-----------------------------------------------------------------------------
(* The output: what is gathered and shown are the lines of the program.    *)
(* The provers do not know that a constant like "7" is a string.           *)
Chars == STRING \cup {"7", "%", "b", "n", "r"}
Str == Seq(Chars)
Outs == [buf : Str, lines : Seq(Str)]

(* Lines, the last one open.                                               *)
Texts == {lines \in Seq(Str) :
            \E past \in Seq(Str), open \in Str : lines = Append(past, open)}

(* The recursive definitions, unfolded.                                    *)
IsSpelled(put, out, str) ==
  /\ put[0] = out /\ Output!Spelled(out, str) = put[Len(str)]
  /\ \A k \in 1 .. Len(str) : put[k] = Output!PutInLine(put[k - 1], str[k])

IsWritten(put, out, str) ==
  /\ put[0] = out /\ Output!Written(out, str) = put[Len(str)]
  /\ \A k \in 1 .. Len(str) : put[k] = Output!raw_putc(put[k - 1], str[k])

IsLines(after, lines, str) ==
  /\ after[0] = lines /\ Output!Lines(lines, str) = after[Len(str)]
  /\ \A k \in 1 .. Len(str) : after[k] = Output!NextLines(after[k - 1], str[k])

IsFull(full, lines) ==
  /\ full[0] = <<>> /\ Output!Full(lines) = full[Len(lines)]
  /\ \A k \in 1 .. Len(lines) :
       full[k] = IF lines[k] = <<>> THEN full[k - 1] ELSE Append(full[k - 1], lines[k])

LEMMA OutTypes ==
  ASSUME NEW out \in Outs, NEW c \in Chars
  PROVE  /\ Output!Shown(out) \in Outs /\ Output!Added(out, c) \in Outs
         /\ Output!raw_putc(out, c) \in Outs /\ Output!PutInLine(out, c) \in Outs
<1>1. /\ out.buf \in Str /\ out.lines \in Seq(Str) /\ <<>> \in Str
      /\ Append(out.lines, out.buf) \in Seq(Str) /\ Append(out.buf, c) \in Str
  BY AppendProperties, EmptySeq DEF Outs, Str
<1>2. Output!Shown(out) \in Outs
  BY <1>1 DEF Output!Shown, Outs
<1>3. Output!Added(out, c) \in Outs
  BY <1>1 DEF Output!Added, Outs
<1> QED BY <1>2, <1>3 DEF Output!raw_putc, Output!PutInLine

LEMMA SpelledSteps ==
  ASSUME NEW out \in Outs, NEW str \in Str
  PROVE  \E put : IsSpelled(put, out, str)
<1> DEFINE n == Len(str)
           put == CHOOSE g : g = [k \in 0 .. n |->
                    IF k = 0 THEN out ELSE Output!PutInLine(g[k - 1], str[k])]
           op == [k \in 1 .. n |-> [v \in Outs |-> Output!PutInLine(v, str[k])]]
<1>1. n \in Nat /\ \A k \in 1 .. n : str[k] \in Chars
  BY LenProperties, ElementOfSeq DEF Str
<1>2. op \in [1 .. n -> [Outs -> Outs]]
  BY <1>1, OutTypes
<1>3. PICK g : Unfolds(g, n, Outs, out, op)
  <2> HIDE DEF n, op
  <2> QED BY <1>1, <1>2, Unfolding
<1>4. \A k \in 1 .. n : op[k][g[k - 1]] = Output!PutInLine(g[k - 1], str[k])
  <2>1. \A k \in 1 .. n : k - 1 \in 0 .. n
    BY <1>1
  <2>2. \A k \in 1 .. n : g[k - 1] \in Outs
    BY <1>3, <2>1 DEF Unfolds
  <2> HIDE DEF n
  <2> QED BY <2>2
<1>5. [k \in 0 .. n |-> IF k = 0 THEN out ELSE op[k][g[k - 1]]] =
        [k \in 0 .. n |-> IF k = 0 THEN out ELSE Output!PutInLine(g[k - 1], str[k])]
  <2>1. \A k \in 0 .. n : k = 0 \/ k \in 1 .. n
    BY <1>1
  <2> HIDE DEF n, op
  <2> QED BY <1>4, <2>1
<1>6. put = [k \in 0 .. n |-> IF k = 0 THEN out ELSE Output!PutInLine(put[k - 1], str[k])]
  <2> HIDE DEF n, op
  <2> QED BY <1>3, <1>5 DEF Unfolds
<1>7. Output!Spelled(out, str) = put[n]
  BY DEF Output!Spelled
<1> HIDE DEF put
<1>8. IsSpelled(put, out, str)
  BY <1>1, <1>6, <1>7 DEF IsSpelled
<1> QED BY <1>8

LEMMA WrittenSteps ==
  ASSUME NEW out \in Outs, NEW str \in Str
  PROVE  \E put : IsWritten(put, out, str)
<1> DEFINE n == Len(str)
           put == CHOOSE g : g = [k \in 0 .. n |->
                    IF k = 0 THEN out ELSE Output!raw_putc(g[k - 1], str[k])]
           op == [k \in 1 .. n |-> [v \in Outs |-> Output!raw_putc(v, str[k])]]
<1>1. n \in Nat /\ \A k \in 1 .. n : str[k] \in Chars
  BY LenProperties, ElementOfSeq DEF Str
<1>2. op \in [1 .. n -> [Outs -> Outs]]
  BY <1>1, OutTypes
<1>3. PICK g : Unfolds(g, n, Outs, out, op)
  <2> HIDE DEF n, op
  <2> QED BY <1>1, <1>2, Unfolding
<1>4. \A k \in 1 .. n : op[k][g[k - 1]] = Output!raw_putc(g[k - 1], str[k])
  <2>1. \A k \in 1 .. n : k - 1 \in 0 .. n
    BY <1>1
  <2>2. \A k \in 1 .. n : g[k - 1] \in Outs
    BY <1>3, <2>1 DEF Unfolds
  <2> HIDE DEF n
  <2> QED BY <2>2
<1>5. [k \in 0 .. n |-> IF k = 0 THEN out ELSE op[k][g[k - 1]]] =
        [k \in 0 .. n |-> IF k = 0 THEN out ELSE Output!raw_putc(g[k - 1], str[k])]
  <2>1. \A k \in 0 .. n : k = 0 \/ k \in 1 .. n
    BY <1>1
  <2> HIDE DEF n, op
  <2> QED BY <1>4, <2>1
<1>6. put = [k \in 0 .. n |-> IF k = 0 THEN out ELSE Output!raw_putc(put[k - 1], str[k])]
  <2> HIDE DEF n, op
  <2> QED BY <1>3, <1>5 DEF Unfolds
<1>7. Output!Written(out, str) = put[n]
  BY DEF Output!Written
<1> HIDE DEF put
<1>8. IsWritten(put, out, str)
  BY <1>1, <1>6, <1>7 DEF IsWritten
<1> QED BY <1>8

(* What a character does to lines of which the last one is open.           *)
LEMMA NextLinesIs ==
  ASSUME NEW past \in Seq(Str), NEW open \in Str, NEW c \in Chars
  PROVE  Output!NextLines(Append(past, open), c) =
           CASE c = "n" -> Append(Append(past, open), <<>>)
             [] c = "r" -> Append(past, open)
             [] OTHER -> Append(past, Append(open, c))
<1> DEFINE lines == Append(past, open)
           n == Len(past) + 1
           new == Append(open, c)
<1>1. Len(past) \in Nat /\ n \in Nat /\ n \in 1 .. n /\ new \in Str
  <2>1. new \in Str
    BY AppendProperties DEF Str
  <2>2. Len(past) \in Nat
    BY LenProperties
  <2> HIDE DEF new
  <2> QED BY <2>1, <2>2
<1>2. lines \in Seq(Str) /\ Len(lines) = n /\ lines[n] = open
      /\ \A u \in 1 .. Len(past) : lines[u] = past[u]
  BY AppendProperties
<1>3. Append(past, new) \in Seq(Str) /\ Len(Append(past, new)) = n
      /\ Append(past, new)[n] = new
      /\ \A u \in 1 .. Len(past) : Append(past, new)[u] = past[u]
  <2> HIDE DEF new
  <2> QED BY <1>1, AppendProperties
<1>4. [lines EXCEPT ![n] = new] = Append(past, new)
  <2> HIDE DEF lines, new
  <2>1. /\ [lines EXCEPT ![n] = new] \in Seq(Str) /\ Len([lines EXCEPT ![n] = new]) = n
        /\ \A u \in 1 .. n : [lines EXCEPT ![n] = new][u] = IF u = n THEN new ELSE lines[u]
    BY <1>1, <1>2, ExceptSeq
  <2>2. ASSUME NEW u \in 1 .. n PROVE [lines EXCEPT ![n] = new][u] = Append(past, new)[u]
    <3>1. u = n \/ u \in 1 .. Len(past)
      BY <1>1
    <3>2. ASSUME u # n PROVE u \in 1 .. Len(past)
      BY <3>1, <3>2
    <3> QED BY <1>2, <1>3, <2>1, <3>2
  <2> QED BY <1>3, <2>1, <2>2, SeqEqual
<1> HIDE DEF lines, new, n
<1>5. Output!NextLines(lines, c) =
        CASE c = "n" -> Append(lines, <<>>)
          [] c = "r" -> lines
          [] OTHER -> [lines EXCEPT ![n] = new]
  BY <1>2 DEF Output!NextLines, new
<1> QED BY <1>4, <1>5 DEF lines, new

LEMMA TextsAre ==
  ASSUME NEW past \in Seq(Str), NEW open \in Str
  PROVE  Append(past, open) \in Texts
<1>1. Append(past, open) \in Seq(Str)
  BY AppendProperties
<1>2. \E p \in Seq(Str), o \in Str : Append(past, open) = Append(p, o)
  OBVIOUS
<1> QED BY <1>1, <1>2, Zenon DEF Texts

LEMMA NextLinesType ==
  ASSUME NEW lines \in Texts, NEW c \in Chars
  PROVE  Output!NextLines(lines, c) \in Texts
<1>1. PICK past \in Seq(Str), open \in Str : lines = Append(past, open)
  BY DEF Texts
<1>2. /\ Append(past, open) \in Seq(Str) /\ <<>> \in Str
      /\ Append(open, c) \in Str
  BY AppendProperties, EmptySeq DEF Str
<1>3. \/ Output!NextLines(lines, c) = Append(Append(past, open), <<>>)
      \/ Output!NextLines(lines, c) = Append(past, open)
      \/ Output!NextLines(lines, c) = Append(past, Append(open, c))
  BY <1>1, NextLinesIs
<1>4. /\ Append(Append(past, open), <<>>) \in Texts
      /\ Append(past, open) \in Texts /\ Append(past, Append(open, c)) \in Texts
  BY <1>2, TextsAre
<1> QED BY <1>3, <1>4

LEMMA LinesSteps ==
  ASSUME NEW lines \in Texts, NEW str \in Str
  PROVE  \E after : IsLines(after, lines, str)
<1> DEFINE n == Len(str)
           after == CHOOSE g : g = [k \in 0 .. n |->
                    IF k = 0 THEN lines ELSE Output!NextLines(g[k - 1], str[k])]
           op == [k \in 1 .. n |-> [v \in Texts |-> Output!NextLines(v, str[k])]]
<1>1. n \in Nat /\ \A k \in 1 .. n : str[k] \in Chars
  BY LenProperties, ElementOfSeq DEF Str
<1>2. op \in [1 .. n -> [Texts -> Texts]]
  BY <1>1, NextLinesType
<1>3. PICK g : Unfolds(g, n, Texts, lines, op)
  <2> HIDE DEF n, op
  <2> QED BY <1>1, <1>2, Unfolding
<1>4. \A k \in 1 .. n : op[k][g[k - 1]] = Output!NextLines(g[k - 1], str[k])
  <2>1. \A k \in 1 .. n : k - 1 \in 0 .. n
    BY <1>1
  <2>2. \A k \in 1 .. n : g[k - 1] \in Texts
    BY <1>3, <2>1 DEF Unfolds
  <2> HIDE DEF n
  <2> QED BY <2>2
<1>5. [k \in 0 .. n |-> IF k = 0 THEN lines ELSE op[k][g[k - 1]]] =
        [k \in 0 .. n |-> IF k = 0 THEN lines ELSE Output!NextLines(g[k - 1], str[k])]
  <2>1. \A k \in 0 .. n : k = 0 \/ k \in 1 .. n
    BY <1>1
  <2> HIDE DEF n, op
  <2> QED BY <1>4, <2>1
<1>6. after = [k \in 0 .. n |-> IF k = 0 THEN lines ELSE Output!NextLines(after[k - 1], str[k])]
  <2> HIDE DEF n, op
  <2> QED BY <1>3, <1>5 DEF Unfolds
<1>7. Output!Lines(lines, str) = after[n]
  BY DEF Output!Lines
<1> HIDE DEF after
<1>8. IsLines(after, lines, str)
  BY <1>1, <1>6, <1>7 DEF IsLines
<1> QED BY <1>8

Kept(full, line) == IF line = <<>> THEN full ELSE Append(full, line)

LEMMA FullSteps ==
  ASSUME NEW lines \in Seq(Str)
  PROVE  \E full : IsFull(full, lines)
<1> DEFINE n == Len(lines)
           full == CHOOSE g : g = [k \in 0 .. n |->
                    IF k = 0 THEN <<>> ELSE Kept(g[k - 1], lines[k])]
           op == [k \in 1 .. n |-> [v \in Seq(Str) |-> Kept(v, lines[k])]]
<1>1. n \in Nat /\ \A k \in 1 .. n : lines[k] \in Str
  BY LenProperties, ElementOfSeq
<1>2. op \in [1 .. n -> [Seq(Str) -> Seq(Str)]]
  BY <1>1, AppendProperties DEF Kept
<1>3. PICK g : Unfolds(g, n, Seq(Str), <<>>, op)
  <2> HIDE DEF n, op
  <2>1. <<>> \in Seq(Str)
    BY EmptySeq
  <2> QED BY <1>1, <1>2, <2>1, Unfolding
<1>4. \A k \in 1 .. n : op[k][g[k - 1]] = Kept(g[k - 1], lines[k])
  <2>1. \A k \in 1 .. n : k - 1 \in 0 .. n
    BY <1>1
  <2>2. \A k \in 1 .. n : g[k - 1] \in Seq(Str)
    BY <1>3, <2>1 DEF Unfolds
  <2> HIDE DEF n
  <2> QED BY <2>2
<1>5. [k \in 0 .. n |-> IF k = 0 THEN <<>> ELSE op[k][g[k - 1]]] =
        [k \in 0 .. n |-> IF k = 0 THEN <<>> ELSE Kept(g[k - 1], lines[k])]
  <2>1. \A k \in 0 .. n : k = 0 \/ k \in 1 .. n
    BY <1>1
  <2> HIDE DEF n, op
  <2> QED BY <1>4, <2>1
<1>6. full = [k \in 0 .. n |-> IF k = 0 THEN <<>> ELSE Kept(full[k - 1], lines[k])]
  <2> HIDE DEF n, op
  <2> QED BY <1>3, <1>5 DEF Unfolds
<1>7. Output!Full(lines) = full[n]
  BY DEF Output!Full, Kept
<1> HIDE DEF full
<1>8. IsFull(full, lines)
  <2>1. \A k \in 1 .. n : full[k] = Kept(full[k - 1], lines[k])
    BY <1>1, <1>6
  <2>2. full[0] = <<>>
    BY <1>1, <1>6
  <2> QED BY <1>7, <2>1, <2>2 DEF IsFull, Kept
<1> QED BY <1>8

LEMMA FullAppend ==
  ASSUME NEW lines \in Seq(Str), NEW x \in Str
  PROVE  Output!Full(Append(lines, x)) = Kept(Output!Full(lines), x)
<1> DEFINE n == Len(lines)
           more == Append(lines, x)
<1>1. /\ n \in Nat /\ more \in Seq(Str) /\ Len(more) = n + 1 /\ more[n + 1] = x
      /\ \A k \in 1 .. n : more[k] = lines[k]
  BY LenProperties, AppendProperties
<1>2. PICK f : IsFull(f, lines)
  BY FullSteps
<1>3. PICK g : IsFull(g, more)
  BY <1>1, FullSteps
<1> HIDE DEF more, n
<1>4. n \in 0 .. n /\ n + 1 \in 1 .. n + 1 /\ n + 1 - 1 = n
      /\ \A k \in 1 .. n : k \in 1 .. n + 1
  BY <1>1
<1>5. f[0] = g[0] /\ \A k \in 1 .. n : f[k] = Kept(f[k - 1], lines[k])
      /\ g[k] = Kept(g[k - 1], lines[k])
  BY <1>1, <1>2, <1>3, <1>4 DEF IsFull, Kept, n
<1>6. f[n] = g[n]
  <2> DEFINE S == {k \in 0 .. n : f[k] = g[k]}
  <2>1. 0 \in S
    BY <1>1, <1>5
  <2>2. \A k \in 1 .. n : k - 1 \in S => k \in S
    BY <1>5
  <2> HIDE DEF S
  <2>3. \A k \in 0 .. n : k \in S
    BY <1>1, <2>1, <2>2, UpTo
  <2> QED BY <1>4, <2>3 DEF S
<1>7. g[n + 1] = Kept(g[n], x)
  BY <1>1, <1>3, <1>4 DEF IsFull, Kept
<1> QED BY <1>1, <1>2, <1>3, <1>6, <1>7 DEF IsFull, more, n

LEMMA LinesType ==
  ASSUME NEW lines \in Texts, NEW str \in Str
  PROVE  Output!Lines(lines, str) \in Texts
<1> DEFINE n == Len(str)
<1>1. n \in Nat /\ n \in 0 .. n /\ \A k \in 1 .. n : k - 1 \in 0 .. n /\ str[k] \in Chars
  <2>1. n \in Nat /\ \A k \in 1 .. n : str[k] \in Chars
    BY LenProperties, ElementOfSeq DEF Str
  <2> HIDE DEF n
  <2> QED BY <2>1
<1>2. PICK f : IsLines(f, lines, str)
  BY LinesSteps
<1> DEFINE S == {k \in 0 .. n : f[k] \in Texts}
<1>3. 0 \in S
  BY <1>1, <1>2 DEF IsLines
<1>4. ASSUME NEW k \in 1 .. n, k - 1 \in S PROVE k \in S
  <2>1. f[k] = Output!NextLines(f[k - 1], str[k]) /\ f[k - 1] \in Texts
    BY <1>2, <1>4 DEF IsLines
  <2>2. f[k] \in Texts
    BY <1>1, <2>1, NextLinesType
  <2> HIDE DEF n
  <2>3. k \in 0 .. n
    BY <1>1
  <2> QED BY <2>2, <2>3
<1> HIDE DEF S, n
<1>5. \A k \in 0 .. n : k \in S
  BY <1>1, <1>3, <1>4, UpTo
<1>6. f[n] \in Texts
  BY <1>1, <1>5 DEF S
<1> QED BY <1>2, <1>6 DEF IsLines, n

LEMMA LinesConcat ==
  ASSUME NEW lines \in Texts, NEW s \in Str, NEW t \in Str
  PROVE  Output!Lines(lines, s \o t) = Output!Lines(Output!Lines(lines, s), t)
<1> DEFINE m == Len(s)
           n == Len(t)
           st == s \o t
           mid == Output!Lines(lines, s)
<1>1. /\ m \in Nat /\ n \in Nat /\ st \in Str /\ Len(st) = m + n
      /\ \A k \in 1 .. m + n : st[k] = IF k <= m THEN s[k] ELSE t[k - m]
  BY LenProperties, ConcatProperties DEF Str
<1>2. mid \in Texts
  BY LinesType
<1>3. PICK f : IsLines(f, lines, s)
  BY LinesSteps
<1>4. PICK g : IsLines(g, mid, t)
  <2> HIDE DEF mid
  <2> QED BY <1>2, LinesSteps
<1>5. PICK h : IsLines(h, lines, st)
  <2> HIDE DEF st
  <2> QED BY <1>1, LinesSteps
<1>6. /\ f[0] = lines /\ mid = f[m] /\ g[0] = mid /\ Output!Lines(mid, t) = g[n]
      /\ h[0] = lines /\ Output!Lines(lines, st) = h[m + n]
      /\ \A k \in 1 .. m : f[k] = Output!NextLines(f[k - 1], s[k])
      /\ \A k \in 1 .. n : g[k] = Output!NextLines(g[k - 1], t[k])
      /\ \A k \in 1 .. m + n : h[k] = Output!NextLines(h[k - 1], st[k])
  <2>1. /\ h[0] = lines /\ Output!Lines(lines, st) = h[Len(st)]
        /\ \A k \in 1 .. Len(st) : h[k] = Output!NextLines(h[k - 1], st[k])
    BY <1>5 DEF IsLines
  <2>2. /\ g[0] = mid /\ Output!Lines(mid, t) = g[n]
        /\ \A k \in 1 .. n : g[k] = Output!NextLines(g[k - 1], t[k])
    BY <1>4 DEF IsLines
  <2>3. /\ f[0] = lines /\ mid = f[m]
        /\ \A k \in 1 .. m : f[k] = Output!NextLines(f[k - 1], s[k])
    BY <1>3 DEF IsLines
  <2> HIDE DEF m, n, st, mid
  <2> QED BY <1>1, <2>1, <2>2, <2>3
<1> HIDE DEF m, n, st, mid
<1>7. h[m] = f[m]
  <2> DEFINE S == {k \in 0 .. m : h[k] = f[k]}
  <2>1. 0 \in S
    BY <1>1, <1>6
  <2>2. ASSUME NEW k \in 1 .. m, k - 1 \in S PROVE k \in S
    <3>1. k \in 1 .. m + n /\ k <= m /\ st[k] = s[k]
      BY <1>1
    <3>2. h[k - 1] = f[k - 1]
      BY <2>2
    <3>3. h[k] = Output!NextLines(h[k - 1], st[k]) /\ f[k] = Output!NextLines(f[k - 1], s[k])
      BY <1>6, <3>1
    <3>4. h[k] = f[k]
      BY <3>1, <3>2, <3>3
    <3> QED BY <1>1, <3>4
  <2> HIDE DEF S
  <2>3. \A k \in 0 .. m : k \in S
    BY <1>1, <2>1, <2>2, UpTo
  <2> QED BY <1>1, <2>3 DEF S
<1>8. h[m + n] = g[n]
  <2> DEFINE S == {k \in 0 .. n : h[m + k] = g[k]}
  <2>1. 0 \in S
    BY <1>1, <1>6, <1>7
  <2>2. ASSUME NEW k \in 1 .. n, k - 1 \in S PROVE k \in S
    <3>1. m + k \in 1 .. m + n /\ ~(m + k <= m) /\ (m + k) - m = k /\ (m + k) - 1 = m + (k - 1)
      BY <1>1
    <3>2. st[m + k] = t[k]
      BY <1>1, <3>1
    <3>3. h[m + k] = Output!NextLines(h[m + (k - 1)], st[m + k])
      BY <1>6, <3>1
    <3>4. g[k] = Output!NextLines(g[k - 1], t[k])
      BY <1>6
    <3>5. h[m + (k - 1)] = g[k - 1]
      BY <2>2
    <3>6. h[m + k] = g[k]
      BY <3>2, <3>3, <3>4, <3>5
    <3> QED BY <1>1, <3>6
  <2> HIDE DEF S
  <2>3. \A k \in 0 .. n : k \in S
    BY <1>1, <2>1, <2>2, UpTo
  <2> QED BY <1>1, <2>3 DEF S
<1> QED BY <1>6, <1>8 DEF mid, st

-----------------------------------------------------------------------------
(* What is shown are the lines before the open one but for blank ones, and *)
(* the open one is in the buffer.                                          *)
Follows(out, lines) ==
  /\ out \in Outs
  /\ \E past \in Seq(Str) :
       lines = Append(past, out.buf) /\ Output!Full(past) = Output!Full(out.lines)

LEMMA FollowsType ==
  ASSUME NEW out, NEW lines, Follows(out, lines)
  PROVE  out \in Outs /\ lines \in Texts
<1>1. out.buf \in Str
  BY DEF Follows, Outs
<1>2. PICK past \in Seq(Str) : lines = Append(past, out.buf)
  BY DEF Follows
<1> QED BY <1>1, <1>2, TextsAre DEF Follows

LEMMA CharFollows ==
  ASSUME NEW out, NEW lines, Follows(out, lines), NEW c \in Chars
  PROVE  /\ Follows(Output!raw_putc(out, c), Output!NextLines(lines, c))
         /\ Follows(Output!PutInLine(out, c), Output!NextLines(lines, c))
<1>1. PICK past \in Seq(Str) :
        lines = Append(past, out.buf) /\ Output!Full(past) = Output!Full(out.lines)
  BY DEF Follows
<1>2. out \in Outs /\ out.buf \in Str /\ out.lines \in Seq(Str) /\ <<>> \in Str
  BY EmptySeq DEF Follows, Outs, Str
<1>3. /\ Append(past, out.buf) \in Seq(Str)
      /\ Output!Full(Append(past, out.buf)) = Kept(Output!Full(past), out.buf)
      /\ Output!Full(Append(out.lines, out.buf)) = Kept(Output!Full(out.lines), out.buf)
  <2>1. Append(past, out.buf) \in Seq(Str)
    BY <1>2, AppendProperties
  <2> QED BY <1>2, <2>1, FullAppend
<1>4. /\ Output!Shown(out) \in Outs /\ Output!Shown(out).buf = <<>>
      /\ Output!Shown(out).lines = Append(out.lines, out.buf)
      /\ Output!Added(out, c) \in Outs /\ Output!Added(out, c).buf = Append(out.buf, c)
      /\ Output!Added(out, c).lines = out.lines
  BY <1>2, OutTypes DEF Output!Shown, Output!Added, Outs
<1>5. ASSUME c = "n"
      PROVE  /\ Follows(Output!Shown(out), Output!NextLines(lines, c))
             /\ out.buf = <<>> => Follows(out, Output!NextLines(lines, c))
  <2>1. Output!NextLines(lines, c) = Append(lines, <<>>)
    BY <1>1, <1>2, <1>5, NextLinesIs
  <2>2. lines \in Seq(Str) /\ Output!Full(lines) = Output!Full(Append(out.lines, out.buf))
    BY <1>1, <1>3
  <2>3. Follows(Output!Shown(out), Output!NextLines(lines, c))
    BY <1>4, <2>1, <2>2 DEF Follows
  <2>4. ASSUME out.buf = <<>> PROVE Follows(out, Output!NextLines(lines, c))
    <3>1. Output!Full(lines) = Output!Full(out.lines)
      BY <1>1, <1>3, <2>4 DEF Kept
    <3> QED BY <1>2, <2>1, <2>2, <2>4, <3>1 DEF Follows
  <2> QED BY <2>3, <2>4
<1>6. ASSUME c = "r" PROVE Follows(out, Output!NextLines(lines, c))
  <2>1. Output!NextLines(lines, c) = lines
    BY <1>1, <1>2, <1>6, NextLinesIs
  <2> QED BY <2>1
<1>7. ASSUME c # "n", c # "r" PROVE Follows(Output!Added(out, c), Output!NextLines(lines, c))
  <2>1. Output!NextLines(lines, c) = Append(past, Append(out.buf, c))
    BY <1>1, <1>2, <1>7, NextLinesIs
  <2> QED BY <1>1, <1>4, <2>1 DEF Follows
<1> QED BY <1>5, <1>6, <1>7 DEF Output!raw_putc, Output!PutInLine

LEMMA WrittenFollows ==
  ASSUME NEW out, NEW lines, Follows(out, lines), NEW str \in Str
  PROVE  Follows(Output!Written(out, str), Output!Lines(lines, str))
<1> DEFINE n == Len(str)
<1>1. n \in Nat /\ n \in 0 .. n /\ \A k \in 1 .. n : str[k] \in Chars
  <2>1. n \in Nat /\ \A k \in 1 .. n : str[k] \in Chars
    BY LenProperties, ElementOfSeq DEF Str
  <2> HIDE DEF n
  <2> QED BY <2>1
<1>2. PICK f : IsWritten(f, out, str)
  BY FollowsType, WrittenSteps
<1>3. PICK g : IsLines(g, lines, str)
  BY FollowsType, LinesSteps
<1> DEFINE S == {k \in 0 .. n : Follows(f[k], g[k])}
<1>4. 0 \in S
  BY <1>1, <1>2, <1>3 DEF IsWritten, IsLines
<1>5. ASSUME NEW k \in 1 .. n, k - 1 \in S PROVE k \in S
  <2>1. f[k] = Output!raw_putc(f[k - 1], str[k]) /\ g[k] = Output!NextLines(g[k - 1], str[k])
    BY <1>2, <1>3 DEF IsWritten, IsLines
  <2>2. Follows(f[k - 1], g[k - 1]) /\ str[k] \in Chars
    BY <1>1, <1>5
  <2>3. Follows(f[k], g[k])
    BY <2>1, <2>2, CharFollows
  <2> HIDE DEF n
  <2> QED BY <2>3
<1> HIDE DEF S, n
<1>6. \A k \in 0 .. n : k \in S
  BY <1>1, <1>4, <1>5, UpTo
<1>7. Follows(f[n], g[n])
  BY <1>1, <1>6 DEF S
<1> QED BY <1>2, <1>3, <1>7 DEF IsWritten, IsLines, n

LEMMA SpelledFollows ==
  ASSUME NEW out, NEW lines, Follows(out, lines), NEW str \in Str
  PROVE  Follows(Output!Spelled(out, str), Output!Lines(lines, str))
<1> DEFINE n == Len(str)
<1>1. n \in Nat /\ n \in 0 .. n /\ \A k \in 1 .. n : str[k] \in Chars
  <2>1. n \in Nat /\ \A k \in 1 .. n : str[k] \in Chars
    BY LenProperties, ElementOfSeq DEF Str
  <2> HIDE DEF n
  <2> QED BY <2>1
<1>2. PICK f : IsSpelled(f, out, str)
  BY FollowsType, SpelledSteps
<1>3. PICK g : IsLines(g, lines, str)
  BY FollowsType, LinesSteps
<1> DEFINE S == {k \in 0 .. n : Follows(f[k], g[k])}
<1>4. 0 \in S
  BY <1>1, <1>2, <1>3 DEF IsSpelled, IsLines
<1>5. ASSUME NEW k \in 1 .. n, k - 1 \in S PROVE k \in S
  <2>1. f[k] = Output!PutInLine(f[k - 1], str[k]) /\ g[k] = Output!NextLines(g[k - 1], str[k])
    BY <1>2, <1>3 DEF IsSpelled, IsLines
  <2>2. Follows(f[k - 1], g[k - 1]) /\ str[k] \in Chars
    BY <1>1, <1>5
  <2>3. Follows(f[k], g[k])
    BY <2>1, <2>2, CharFollows
  <2> HIDE DEF n
  <2> QED BY <2>3
<1> HIDE DEF S, n
<1>6. \A k \in 0 .. n : k \in S
  BY <1>1, <1>4, <1>5, UpTo
<1>7. Follows(f[n], g[n])
  BY <1>1, <1>6 DEF S
<1> QED BY <1>2, <1>3, <1>7 DEF IsSpelled, IsLines, n

LEMMA PutsFollows ==
  ASSUME NEW out, NEW lines, Follows(out, lines), NEW str \in Str
  PROVE  Follows(Output!raw_puts(out, str), Output!Lines(lines, str))
<1>1. CASE str # <<>>
  BY <1>1, SpelledFollows DEF Output!raw_puts
<1>2. CASE str = <<>>
  <2> DEFINE blank == [out EXCEPT !.lines = Append(out.lines, <<>>)]
  <2>1. PICK g : IsLines(g, lines, str)
    BY FollowsType, LinesSteps
  <2>2. Output!Lines(lines, str) = lines
    BY <1>2, <2>1, EmptySeq DEF IsLines
  <2>3. out \in Outs /\ out.lines \in Seq(Str) /\ <<>> \in Str
    BY EmptySeq DEF Follows, Outs, Str
  <2>4. Output!Full(Append(out.lines, <<>>)) = Output!Full(out.lines)
    BY <2>3, FullAppend DEF Kept
  <2>5. Append(out.lines, <<>>) \in Seq(Str)
    BY <2>3, AppendProperties
  <2>6. blank \in Outs /\ blank.buf = out.buf /\ blank.lines = Append(out.lines, <<>>)
    BY <2>3, <2>5 DEF Outs
  <2> HIDE DEF blank
  <2>7. Follows(blank, lines)
    BY <2>4, <2>6 DEF Follows
  <2> QED BY <1>2, <2>2, <2>7 DEF Output!raw_puts, blank
<1> QED BY <1>1, <1>2

LEMMA OneIsSeq == ASSUME NEW S, NEW c \in S PROVE <<c>> \in Seq(S)
OBVIOUS

LEMMA LinesOne ==
  ASSUME NEW lines \in Texts, NEW c \in Chars
  PROVE  Output!Lines(lines, <<c>>) = Output!NextLines(lines, c) /\ <<c>> \in Str
<1>1. <<c>> \in Str
  BY OneIsSeq DEF Str
<1>2. PICK g : IsLines(g, lines, <<c>>)
  BY <1>1, LinesSteps
<1>3. Len(<<c>>) = 1 /\ <<c>>[1] = c /\ 1 \in 1 .. 1 /\ 1 - 1 = 0
  OBVIOUS
<1> QED BY <1>1, <1>2, <1>3 DEF IsLines

LEMMA ConvertedFollows ==
  ASSUME NEW out, NEW lines, Follows(out, lines), NEW c \in {"d", "x", "c", "s"},
         NEW arg \in [char : Chars, string : Str]
  PROVE  /\ Output!ByLetter(c, arg) \in Str
         /\ Follows(Output!Converted(out, c, arg), Output!Lines(lines, Output!ByLetter(c, arg)))
<1>1. /\ arg.char \in Chars /\ arg.string \in Str /\ Output!Number \in Str
      /\ lines \in Texts
  <2>1. "7" \in Chars
    BY DEF Chars
  <2>2. Output!Number \in Str
    BY <2>1, OneIsSeq DEF Output!Number, Str
  <2>3. lines \in Texts
    BY FollowsType
  <2> QED BY <2>2, <2>3
<1>2. CASE c \in {"d", "x"}
  <2>1. Output!ByLetter(c, arg) = Output!Number
    BY <1>2 DEF Output!ByLetter
  <2>2. Output!Converted(out, c, arg) = Output!raw_puts(out, Output!Number)
    BY <1>2 DEF Output!Converted
  <2> QED BY <1>1, <2>1, <2>2, PutsFollows
<1>3. CASE c = "s"
  <2>1. Output!ByLetter(c, arg) = arg.string
    BY <1>3 DEF Output!ByLetter
  <2>2. Output!Converted(out, c, arg) = Output!raw_puts(out, arg.string)
    BY <1>3 DEF Output!Converted
  <2> QED BY <1>1, <2>1, <2>2, PutsFollows
<1>4. CASE c = "c"
  <2>1. Output!ByLetter(c, arg) = <<arg.char>>
    BY <1>4 DEF Output!ByLetter
  <2>2. Output!Converted(out, c, arg) = Output!raw_putc(out, arg.char)
    BY <1>4 DEF Output!Converted
  <2> QED BY <1>1, <2>1, <2>2, CharFollows, LinesOne
<1> QED BY <1>2, <1>3, <1>4
-----------------------------------------------------------------------------
(* Place j is that of the letter of the conversion at k.                   *)
LetterAt(f, k, w) ==
  /\ w \in k + 1 .. Len(f) /\ f[w] \in {"d", "x", "c", "s"}
  /\ \A m \in k + 1 .. w - 1 : f[m] \in {"0", "1", ".", "l"}

LEMMA LetterIs ==
  ASSUME NEW f \in Str, Output!MayPrint(f), NEW k \in 1 .. Len(f), f[k] = "%"
  PROVE  LetterAt(f, k, Output!Letter(f, k + 1))
<1> DEFINE n == Len(f)
<1>1. n \in Nat /\ DOMAIN f = 1 .. n
  BY LenProperties DEF Str
<1>2. PICK w \in k + 1 .. n : /\ f[w] \in {"d", "x", "c", "s"}
                              /\ \A m \in k + 1 .. w - 1 : f[m] \in {"0", "1", ".", "l"}
  BY <1>1 DEF Output!MayPrint, Output!Digits
<1> HIDE DEF n
<1>3. w \in Nat /\ k \in Nat /\ w <= n /\ k + 1 <= w /\ w \in k + 1 .. n + 1
  BY <1>1 DEF n
<1>4. \A m \in 1 .. n : Output!FormatAt(f, m) = f[m]
  BY <1>1 DEF Output!FormatAt, n
<1>5. Output!Ends(f, k + 1, w)
  <2>1. Output!FormatAt(f, w) = f[w]
    BY <1>3, <1>4
  <2>2. ASSUME NEW m \in k + 1 .. w - 1 PROVE Output!FormatAt(f, m) = f[m]
    <3>1. m \in 1 .. n
      BY <1>1, <1>3
    <3> QED BY <1>4, <3>1
  <2> QED BY <1>2, <2>1, <2>2 DEF Output!Ends, Output!Digits
<1>6. ASSUME NEW u \in k + 1 .. n + 1, Output!Ends(f, k + 1, u) PROVE u = w
  <2>1. ~(u < w)
    <3> SUFFICES ASSUME u < w PROVE FALSE
      OBVIOUS
    <3>1. u \in k + 1 .. w - 1 /\ u \in 1 .. n
      BY <1>1, <1>3
    <3>2. f[u] \in {"0", "1", ".", "l"} /\ Output!FormatAt(f, u) = f[u]
      BY <1>2, <1>4, <3>1
    <3> QED BY <1>6, <3>2 DEF Output!Ends, Output!Digits
  <2>2. ~(w < u)
    <3> SUFFICES ASSUME w < u PROVE FALSE
      OBVIOUS
    <3>1. w \in k + 1 .. u - 1 /\ w \in 1 .. n
      BY <1>1, <1>3
    <3>2. Output!FormatAt(f, w) = f[w]
      BY <1>4, <3>1
    <3> QED BY <1>2, <1>6, <3>1, <3>2 DEF Output!Ends, Output!Digits
  <2>3. u \in Int
    BY <1>1, <1>3
  <2> QED BY <1>3, <2>1, <2>2, <2>3
<1>7. Output!Letter(f, k + 1) = w
  BY <1>3, <1>5, <1>6 DEF Output!Letter, n
<1> QED BY <1>2, <1>7 DEF LetterAt, n

Args == [char : Chars, string : Str]

(* What a format means up to a place, from what it means up to the one     *)
(* before.                                                                 *)
Meaning(f, args, m, k) ==
  IF f[k] = "%"
  THEN [text |-> m.text \o Output!ByLetter(f[Output!Letter(f, k + 1)], args[m.used + 1]),
        used |-> m.used + 1]
  ELSE IF Output!Inside(f, k) THEN m ELSE [m EXCEPT !.text = m.text \o <<f[k]>>]

Meanings(k) == [text : Str, used : 0 .. k]

LEMMA ByLetterType ==
  ASSUME NEW c \in {"d", "x", "c", "s"}, NEW arg \in Args
  PROVE  Output!ByLetter(c, arg) \in Str
<1>1. "7" \in Chars
  BY DEF Chars
<1>2. Output!Number \in Str
  BY <1>1, OneIsSeq DEF Output!Number, Str
<1>3. arg.char \in Chars /\ arg.string \in Str /\ <<arg.char>> \in Str
  BY OneIsSeq DEF Args, Str
<1> QED BY <1>2, <1>3 DEF Output!ByLetter

LEMMA MeaningType ==
  ASSUME NEW f \in Str, Output!MayPrint(f), NEW args \in [1 .. Len(f) -> Args],
         NEW k \in 1 .. Len(f), NEW m \in Meanings(k - 1)
  PROVE  /\ Meaning(f, args, m, k) \in Meanings(k)
         /\ f[k] # "%" => f[k] \in Chars
<1>1. /\ m.text \in Str /\ m.used \in 0 .. k - 1 /\ f[k] \in Chars /\ Len(f) \in Nat
      /\ m = [text |-> m.text, used |-> m.used]
  BY LenProperties, ElementOfSeq DEF Meanings, Str
<1>2. CASE f[k] = "%"
  <2> DEFINE t == Output!ByLetter(f[Output!Letter(f, k + 1)], args[m.used + 1])
  <2>1. f[Output!Letter(f, k + 1)] \in {"d", "x", "c", "s"}
    BY <1>2, LetterIs DEF LetterAt
  <2>2. m.used + 1 \in 1 .. Len(f) /\ m.used + 1 \in 0 .. k
    BY <1>1
  <2>3. t \in Str
    BY <2>1, <2>2, ByLetterType
  <2> HIDE DEF t
  <2>4. m.text \o t \in Str
    BY <1>1, <2>3, ConcatProperties DEF Str
  <2> QED BY <1>2, <2>2, <2>4 DEF Meaning, Meanings, t
<1>3. CASE f[k] # "%"
  <2>1. <<f[k]>> \in Str
    BY <1>1, OneIsSeq DEF Str
  <2>2. m.text \o <<f[k]>> \in Str /\ m.used \in 0 .. k
    BY <1>1, <2>1, ConcatProperties DEF Str
  <2>3. [m EXCEPT !.text = m.text \o <<f[k]>>] = [text |-> m.text \o <<f[k]>>, used |-> m.used]
    <3> DEFINE t == m.text \o <<f[k]>>
    <3> HIDE DEF t
    <3>1. m \in [text : Str, used : 0 .. k - 1]
      BY DEF Meanings
    <3>2. [m EXCEPT !.text = t] = [text |-> t, used |-> m.used]
      BY <3>1
    <3> QED BY <3>2 DEF t
  <2>4. m \in Meanings(k)
    BY <1>1, <2>2 DEF Meanings
  <2> QED BY <1>1, <1>3, <2>2, <2>3, <2>4 DEF Meaning, Meanings
<1> QED BY <1>2, <1>3

IsMeant(g, f, args) ==
  /\ g[0] = [text |-> <<>>, used |-> 0] /\ Output!Meant(f, args) = g[Len(f)].text
  /\ \A k \in 1 .. Len(f) : g[k] = Meaning(f, args, g[k - 1], k)
  /\ \A k \in 0 .. Len(f) : g[k] \in Meanings(k)

LEMMA MeantSteps ==
  ASSUME NEW f \in Str, Output!MayPrint(f), NEW args \in [1 .. Len(f) -> Args]
  PROVE  \E g : IsMeant(g, f, args)
<1> DEFINE n == Len(f)
           base == [text |-> <<>>, used |-> 0]
           meant == CHOOSE g : g = [k \in 0 .. n |->
                      IF k = 0 THEN base ELSE Meaning(f, args, g[k - 1], k)]
           V == [k \in 0 .. n |-> Meanings(k)]
           op == [k \in 1 .. n |-> [m \in Meanings(k - 1) |-> Meaning(f, args, m, k)]]
<1>1. n \in Nat /\ (\A k \in 1 .. n : k - 1 \in 0 .. n /\ k \in 0 .. n) /\ 0 \in 0 .. n
      /\ \A k \in 0 .. n : k = 0 \/ k \in 1 .. n
  <2>1. n \in Nat
    BY LenProperties DEF Str
  <2> HIDE DEF n
  <2> QED BY <2>1
<1>2. base \in Meanings(0)
  <2>1. <<>> \in Str
    BY EmptySeq DEF Str
  <2> QED BY <2>1 DEF Meanings
<1>3. \A k \in 0 .. n : V[k] = Meanings(k)
  OBVIOUS
<1>4. \A k \in 1 .. n : op[k] \in [V[k - 1] -> V[k]]
  <2>1. \A k \in 1 .. n : \A m \in Meanings(k - 1) : Meaning(f, args, m, k) \in Meanings(k)
    BY MeaningType
  <2> HIDE DEF n, V
  <2> QED BY <1>1, <1>3, <2>1
<1>5. PICK g : Iterates(g, n, V, base, op)
  <2> HIDE DEF n, V, op, base
  <2> QED BY <1>1, <1>2, <1>3, <1>4, Iteration
<1>6. /\ g = [k \in 0 .. n |-> IF k = 0 THEN base ELSE op[k][g[k - 1]]]
      /\ \A k \in 0 .. n : g[k] \in V[k]
  <2> HIDE DEF n, V, op, base
  <2> QED BY <1>1, <1>5, Iterated
<1>7. \A k \in 1 .. n : op[k][g[k - 1]] = Meaning(f, args, g[k - 1], k)
  <2>1. \A k \in 1 .. n : g[k - 1] \in Meanings(k - 1)
    <3> HIDE DEF n, V, op, base
    <3> QED BY <1>1, <1>3, <1>6
  <2> HIDE DEF n
  <2> QED BY <2>1
<1>8. [k \in 0 .. n |-> IF k = 0 THEN base ELSE op[k][g[k - 1]]] =
        [k \in 0 .. n |-> IF k = 0 THEN base ELSE Meaning(f, args, g[k - 1], k)]
  <2> HIDE DEF n, op, base
  <2> QED BY <1>1, <1>7
<1>9. meant = [k \in 0 .. n |-> IF k = 0 THEN base ELSE Meaning(f, args, meant[k - 1], k)]
  <2> HIDE DEF n, op, base
  <2> QED BY <1>6, <1>8
<1>10. Output!Meant(f, args) = meant[n].text
  BY DEF Output!Meant, Meaning
<1> HIDE DEF meant, n, base
<1>11. meant[0] = base /\ \A k \in 1 .. n : meant[k] = Meaning(f, args, meant[k - 1], k)
  BY <1>1, <1>9
<1> DEFINE S == {k \in 0 .. n : meant[k] \in Meanings(k)}
<1>12. 0 \in S
  BY <1>1, <1>2, <1>11
<1>13. ASSUME NEW k \in 1 .. n, k - 1 \in S PROVE k \in S
  <2>1. k \in 1 .. Len(f) /\ meant[k - 1] \in Meanings(k - 1)
    BY <1>13 DEF n
  <2>2. Meaning(f, args, meant[k - 1], k) \in Meanings(k)
    BY <2>1, MeaningType
  <2> QED BY <1>1, <1>11, <2>2
<1> HIDE DEF S
<1>14. \A k \in 0 .. n : k \in S
  BY <1>1, <1>12, <1>13, UpTo
<1>15. IsMeant(meant, f, args)
  BY <1>10, <1>11, <1>14 DEF IsMeant, S, base, n
<1> QED BY <1>15

-----------------------------------------------------------------------------
(* The loop of printf after i turns: it is between two conversions, it has *)
(* taken the arguments of those behind it, and printed what is meant.      *)
LoopInv(r, u, f, lines, g) ==
  /\ r.at >= u + 1
  /\ r.arg = g[r.at - 1].used + 1
  /\ Follows(r.out, Output!Lines(lines, g[r.at - 1].text))
  /\ \A k \in 1 .. r.at - 1 : f[k] = "%" => Output!Letter(f, k + 1) < r.at

Loops(u, f, lines, g) ==
  {r \in [out : Outs, at : 1 .. Len(f) + 1, arg : 1 .. Len(f) + 1] : LoopInv(r, u, f, lines, g)}

(* What stands inside a conversion is not printed.                         *)
LEMMA NothingInside ==
  ASSUME NEW f \in Str, Output!MayPrint(f), NEW args \in [1 .. Len(f) -> Args],
         NEW g, IsMeant(g, f, args), NEW k \in 1 .. Len(f), f[k] = "%",
         NEW w, LetterAt(f, k, w), w = Output!Letter(f, k + 1)
  PROVE  /\ g[w] = g[k]
         /\ \A m \in k + 1 .. w : f[m] # "%"
<1> DEFINE n == Len(f)
<1>1. n \in Nat
  BY LenProperties DEF Str
<1>2. w \in k + 1 .. n /\ f[w] \in {"d", "x", "c", "s"}
      /\ \A m \in k + 1 .. w - 1 : f[m] \in {"0", "1", ".", "l"}
  BY DEF LetterAt
<1> HIDE DEF n
<1>3. \A m \in k + 1 .. w : m = w \/ m \in k + 1 .. w - 1
  BY <1>1, <1>2
<1>4. \A m \in k + 1 .. w : f[m] # "%"
  <2> SUFFICES ASSUME NEW m \in k + 1 .. w PROVE f[m] # "%"
    OBVIOUS
  <2>1. f[m] \in {"d", "x", "c", "s"} \/ f[m] \in {"0", "1", ".", "l"}
    BY <1>2, <1>3
  <2> QED BY <2>1
<1>5. ASSUME NEW m \in k + 1 .. w PROVE g[m] = g[m - 1] /\ m \in 1 .. n
  <2>1. m \in 1 .. n /\ k \in 1 .. m - 1 /\ m <= Output!Letter(f, k + 1)
    BY <1>1, <1>2 DEF n
  <2>2. Output!Inside(f, m)
    BY <2>1 DEF Output!Inside
  <2>3. g[m] = Meaning(f, args, g[m - 1], m)
    BY <2>1 DEF IsMeant, n
  <2> QED BY <1>4, <2>1, <2>2, <2>3 DEF Meaning
<1> DEFINE S == {u \in 0 .. w - k : g[k + u] = g[k]}
<1>6. w - k \in Nat /\ k + (w - k) = w /\ k + 0 = k /\ k \in Nat
  BY <1>1, <1>2
<1>7. 0 \in S
  BY <1>6
<1>8. ASSUME NEW u \in 1 .. w - k, u - 1 \in S PROVE u \in S
  <2>1. k + u \in k + 1 .. w /\ (k + u) - 1 = k + (u - 1) /\ u \in 0 .. w - k
    BY <1>6
  <2>2. g[k + u] = g[k + (u - 1)]
    BY <1>5, <2>1
  <2> QED BY <1>8, <2>1, <2>2
<1> HIDE DEF S
<1>9. \A u \in 0 .. w - k : u \in S
  BY <1>6, <1>7, <1>8, UpTo
<1>10. g[k + (w - k)] = g[k]
  BY <1>6, <1>9 DEF S
<1> QED BY <1>4, <1>6, <1>10

LEMMA TurnKeeps ==
  ASSUME NEW f \in Str, Output!MayPrint(f), NEW args \in [1 .. Len(f) -> Args],
         NEW lines \in Texts, NEW g, IsMeant(g, f, args),
         NEW u \in 1 .. Len(f), NEW r \in Loops(u - 1, f, lines, g)
  PROVE  Output!Turn(f, args, r) \in Loops(u, f, lines, g)
<1> DEFINE n == Len(f)
           at == r.at
           m == g[at - 1]
           said == Output!Lines(lines, m.text)
<1>1. n \in Nat
  BY LenProperties DEF Str
<1>2. /\ r \in [out : Outs, at : 1 .. n + 1, arg : 1 .. n + 1]
      /\ r.out \in Outs /\ at \in 1 .. n + 1 /\ r.arg \in 1 .. n + 1
  BY DEF Loops
<1>3. /\ at >= u /\ r.arg = m.used + 1
      /\ Follows(r.out, said)
      /\ \A k \in 1 .. at - 1 : f[k] = "%" => Output!Letter(f, k + 1) < at
  BY <1>1 DEF Loops, LoopInv
<1>4. at - 1 \in 0 .. n /\ m \in Meanings(at - 1) /\ m.text \in Str
  <2>1. at - 1 \in 0 .. n
    BY <1>1, <1>2
  <2>2. m \in Meanings(at - 1)
    BY <2>1 DEF IsMeant
  <2> QED BY <2>1, <2>2 DEF Meanings
<1> HIDE DEF said, m, n
<1>5. CASE at > n
  <2>1. Output!Turn(f, args, r) = r
    BY <1>5 DEF Output!Turn, n
  <2>2. at >= u + 1
    BY <1>1, <1>2, <1>5 DEF n
  <2> QED BY <1>2, <1>3, <2>1, <2>2 DEF Loops, LoopInv, n, m, said
<1>6. CASE at <= n /\ f[at] # "%"
  <2> DEFINE new == [r EXCEPT !.out = Output!raw_putc(r.out, f[at]), !.at = at + 1]
  <2>1. at \in 1 .. n /\ at + 1 \in 1 .. n + 1 /\ at + 1 >= u + 1 /\ (at + 1) - 1 = at
    BY <1>1, <1>2, <1>3, <1>6
  <2>2. Output!Turn(f, args, r) = new
    BY <1>2, <1>6 DEF Output!Turn, n
  <2>3. f[at] \in Chars
    BY <2>1, ElementOfSeq DEF Str, n
  <2>4. ~Output!Inside(f, at)
    <3>1. ASSUME NEW k \in 1 .. at - 1, f[k] = "%", at <= Output!Letter(f, k + 1) PROVE FALSE
      <4>1. LetterAt(f, k, Output!Letter(f, k + 1))
        <5>1. k \in 1 .. Len(f)
          BY <1>1, <1>2, <2>1 DEF n
        <5> QED BY <3>1, <5>1, LetterIs
      <4>2. Output!Letter(f, k + 1) \in Int
        BY <1>1, <4>1 DEF LetterAt, n
      <4> QED BY <1>2, <1>3, <3>1, <4>2
    <3> QED BY <3>1 DEF Output!Inside
  <2>5. g[at] = [m EXCEPT !.text = m.text \o <<f[at]>>]
    <3>1. g[at] = Meaning(f, args, g[at - 1], at)
      BY <2>1 DEF IsMeant, n
    <3> QED BY <1>6, <2>4, <3>1 DEF Meaning, m
  <2>6. g[at].used = m.used /\ g[at].text = m.text \o <<f[at]>>
    <3> DEFINE t == m.text \o <<f[at]>>
    <3> HIDE DEF t
    <3>1. m \in [text : Str, used : 0 .. at - 1]
      BY <1>4 DEF Meanings
    <3>2. [m EXCEPT !.text = t].used = m.used /\ [m EXCEPT !.text = t].text = t
      BY <3>1
    <3> QED BY <2>5, <3>2 DEF t
  <2>7. Output!Lines(lines, g[at].text) = Output!NextLines(said, f[at])
    <3>1. said \in Texts /\ <<f[at]>> \in Str
      BY <1>4, <2>3, LinesType, LinesOne DEF said
    <3>2. Output!Lines(lines, m.text \o <<f[at]>>) = Output!Lines(said, <<f[at]>>)
      BY <1>4, <3>1, LinesConcat DEF said
    <3>3. Output!Lines(said, <<f[at]>>) = Output!NextLines(said, f[at])
      BY <2>3, <3>1, LinesOne
    <3> QED BY <2>6, <3>2, <3>3
  <2>8. Follows(Output!raw_putc(r.out, f[at]), Output!Lines(lines, g[at].text))
    BY <1>3, <2>3, <2>7, CharFollows
  <2>9. Output!raw_putc(r.out, f[at]) \in Outs
    BY <2>8, FollowsType
  <2>10. /\ new \in [out : Outs, at : 1 .. n + 1, arg : 1 .. n + 1]
         /\ new.out = Output!raw_putc(r.out, f[at]) /\ new.at = at + 1 /\ new.arg = r.arg
    BY <1>2, <2>1, <2>9
  <2> HIDE DEF new
  <2>11. \A k \in 1 .. at : f[k] = "%" => Output!Letter(f, k + 1) < at + 1
    <3> SUFFICES ASSUME NEW k \in 1 .. at, f[k] = "%" PROVE Output!Letter(f, k + 1) < at + 1
      OBVIOUS
    <3>1. k \in 1 .. at - 1 /\ k \in 1 .. Len(f)
      BY <1>1, <1>2, <1>6 DEF n
    <3>2. Output!Letter(f, k + 1) \in Int
      BY <1>1, <3>1, LetterIs DEF LetterAt, n
    <3> QED BY <1>2, <1>3, <3>1, <3>2
  <2>12. LoopInv(new, u, f, lines, g)
    BY <1>3, <2>1, <2>6, <2>8, <2>10, <2>11 DEF LoopInv
  <2> QED BY <2>2, <2>10, <2>12 DEF Loops, n
<1>7. CASE at <= n /\ f[at] = "%"
  <2> DEFINE w == Output!Letter(f, at + 1)
             c == f[w]
             arg == args[r.arg]
             out == Output!Converted(r.out, c, arg)
             new == [out |-> out, at |-> w + 1, arg |-> r.arg + 1]
  <2>1. at \in 1 .. n
    BY <1>1, <1>2, <1>7
  <2>2. LetterAt(f, at, w)
    BY <1>7, <2>1, LetterIs DEF n
  <2> HIDE DEF w
  <2>3. /\ w \in at + 1 .. n /\ c \in {"d", "x", "c", "s"}
        /\ \A k \in at + 1 .. w - 1 : f[k] \in {"0", "1", ".", "l"}
    BY <2>2 DEF LetterAt, n
  <2>4. /\ w + 1 \in 1 .. n + 1 /\ w + 1 >= u + 1 /\ (w + 1) - 1 = w
        /\ w \in 1 .. n /\ at + 1 \in 1 .. n
    BY <1>1, <1>3, <2>1, <2>3
  <2>5. g[w] = g[at] /\ \A k \in at + 1 .. w : f[k] # "%"
    BY <1>7, <2>1, <2>2, NothingInside DEF w, n
  <2>6. f[at + 1] # "%" /\ Output!FormatAt(f, at + 1) # "%" /\ Output!FormatAt(f, w) = c
    <3>1. at + 1 \in at + 1 .. w
      BY <2>1, <2>3
    <3> QED BY <2>4, <2>5, <3>1 DEF Output!FormatAt, n
  <2>7. Output!Turn(f, args, r) = new
    BY <1>2, <1>7, <2>3, <2>6 DEF Output!Turn, n, w
  <2>8. r.arg \in 1 .. n /\ arg \in Args
    <3>1. r.arg \in 1 .. n
      BY <1>1, <1>3, <1>4, <2>1 DEF Meanings
    <3> QED BY <3>1 DEF n
  <2>9. /\ g[at].text = m.text \o Output!ByLetter(c, arg)
        /\ g[at].used = m.used + 1
    <3>1. g[at] = Meaning(f, args, m, at)
      BY <2>1 DEF IsMeant, n, m
    <3>2. Meaning(f, args, m, at) =
            [text |-> m.text \o Output!ByLetter(c, arg), used |-> m.used + 1]
      BY <1>3, <1>7 DEF Meaning, w
    <3> DEFINE t == m.text \o Output!ByLetter(c, arg)
    <3> HIDE DEF t, c, arg
    <3>3. g[at] = [text |-> t, used |-> m.used + 1]
      BY <3>1, <3>2 DEF t
    <3>4. g[at].text = t /\ g[at].used = m.used + 1
      BY <3>3
    <3> QED BY <3>4 DEF t
  <2> HIDE DEF c, arg
  <2>10. /\ Output!ByLetter(c, arg) \in Str /\ said \in Texts
         /\ Follows(out, Output!Lines(said, Output!ByLetter(c, arg)))
    BY <1>3, <1>4, <2>3, <2>8, ConvertedFollows, LinesType DEF said, Args
  <2>11. Output!Lines(lines, g[w].text) = Output!Lines(said, Output!ByLetter(c, arg))
    BY <1>4, <2>5, <2>9, <2>10, LinesConcat DEF said
  <2> HIDE DEF out
  <2>12. Follows(out, Output!Lines(lines, g[w].text)) /\ out \in Outs
    BY <2>10, <2>11, FollowsType
  <2>13. \A k \in 1 .. w : f[k] = "%" => Output!Letter(f, k + 1) < w + 1
    <3> SUFFICES ASSUME NEW k \in 1 .. w, f[k] = "%" PROVE Output!Letter(f, k + 1) < w + 1
      OBVIOUS
    <3>1. k \in 1 .. at - 1 \/ k = at
      BY <2>1, <2>3, <2>5
    <3>2. CASE k = at
      BY <2>3, <3>2 DEF w
    <3>3. CASE k \in 1 .. at - 1
      <4>1. k \in 1 .. Len(f)
        BY <2>1, <3>3 DEF n
      <4>2. Output!Letter(f, k + 1) \in Int
        BY <1>1, <4>1, LetterIs DEF LetterAt, n
      <4> QED BY <1>3, <2>1, <2>3, <3>3, <4>2
    <3> QED BY <3>1, <3>2, <3>3
  <2>14. r.arg + 1 \in 1 .. n + 1 /\ g[w].used + 1 = r.arg + 1
    BY <1>1, <1>3, <2>5, <2>8, <2>9
  <2>15. /\ new \in [out : Outs, at : 1 .. n + 1, arg : 1 .. n + 1]
         /\ new.out = out /\ new.at = w + 1 /\ new.arg = r.arg + 1
    BY <2>4, <2>12, <2>14
  <2> HIDE DEF new
  <2>16. LoopInv(new, u, f, lines, g)
    BY <2>4, <2>12, <2>13, <2>14, <2>15 DEF LoopInv
  <2> QED BY <2>7, <2>15, <2>16 DEF Loops, n
<1>8. at <= n \/ at > n
  BY <1>1, <1>2
<1> QED BY <1>5, <1>6, <1>7, <1>8

LEMMA FormattedFollows ==
  ASSUME NEW f \in Str, Output!MayPrint(f), NEW args \in [1 .. Len(f) -> Args],
         NEW out, NEW lines, Follows(out, lines)
  PROVE  /\ Output!Meant(f, args) \in Str
         /\ Follows(Output!Formatted(out, f, args), Output!Lines(lines, Output!Meant(f, args)))
<1> DEFINE n == Len(f)
           base == [out |-> out, at |-> 1, arg |-> 1]
           loop == CHOOSE h : h = [u \in 0 .. n |->
                     IF u = 0 THEN base ELSE Output!Turn(f, args, h[u - 1])]
<1>1. n \in Nat /\ (\A k \in 1 .. n : k - 1 \in 0 .. n /\ k \in 0 .. n) /\ 0 \in 0 .. n
      /\ n \in 0 .. n /\ \A k \in 0 .. n : k = 0 \/ k \in 1 .. n
  <2>1. n \in Nat
    BY LenProperties DEF Str
  <2> HIDE DEF n
  <2> QED BY <2>1
<1>2. PICK g : IsMeant(g, f, args)
  BY MeantSteps
<1>3. out \in Outs /\ lines \in Texts
  BY FollowsType
<1> DEFINE V == [u \in 0 .. n |-> Loops(u, f, lines, g)]
           op == [u \in 1 .. n |-> [r \in Loops(u - 1, f, lines, g) |-> Output!Turn(f, args, r)]]
<1>4. base \in Loops(0, f, lines, g)
  <2>1. g[0].text = <<>> /\ g[0].used = 0
    BY <1>2 DEF IsMeant
  <2>2. Output!Lines(lines, <<>>) = lines
    <3>1. <<>> \in Str /\ Len(<<>>) = 0
      BY EmptySeq DEF Str
    <3>2. PICK h : IsLines(h, lines, <<>>)
      BY <1>3, <3>1, LinesSteps
    <3> QED BY <3>1, <3>2 DEF IsLines
  <2>3. base \in [out : Outs, at : 1 .. n + 1, arg : 1 .. n + 1]
        /\ base.out = out /\ base.at = 1 /\ base.arg = 1
    <3> HIDE DEF n
    <3> QED BY <1>1, <1>3
  <2> HIDE DEF base
  <2>4. LoopInv(base, 0, f, lines, g)
    <3>1. base.at - 1 = 0 /\ base.at >= 0 + 1
      BY <2>3
    <3>2. g[base.at - 1].used = 0 /\ g[base.at - 1].text = <<>> /\ 1 .. base.at - 1 = {}
      BY <2>1, <3>1
    <3> QED BY <2>2, <2>3, <3>1, <3>2 DEF LoopInv
  <2> QED BY <2>3, <2>4 DEF Loops
<1>5. \A u \in 1 .. n : \A r \in Loops(u - 1, f, lines, g) :
        Output!Turn(f, args, r) \in Loops(u, f, lines, g)
  BY <1>2, <1>3, TurnKeeps
<1>6. \A u \in 0 .. n : V[u] = Loops(u, f, lines, g)
  OBVIOUS
<1>7. \A u \in 1 .. n : op[u] \in [V[u - 1] -> V[u]]
  <2> HIDE DEF n, V
  <2> QED BY <1>1, <1>5, <1>6
<1>8. PICK h : Iterates(h, n, V, base, op)
  <2> HIDE DEF n, V, op, base
  <2> QED BY <1>1, <1>4, <1>6, <1>7, Iteration
<1>9. /\ h = [u \in 0 .. n |-> IF u = 0 THEN base ELSE op[u][h[u - 1]]]
      /\ \A u \in 0 .. n : h[u] \in V[u]
  <2> HIDE DEF n, V, op, base
  <2> QED BY <1>1, <1>8, Iterated
<1>10. \A u \in 1 .. n : op[u][h[u - 1]] = Output!Turn(f, args, h[u - 1])
  <2>1. \A u \in 1 .. n : h[u - 1] \in Loops(u - 1, f, lines, g)
    <3> HIDE DEF n, V, op, base
    <3> QED BY <1>1, <1>6, <1>9
  <2> HIDE DEF n
  <2> QED BY <2>1
<1>11. [u \in 0 .. n |-> IF u = 0 THEN base ELSE op[u][h[u - 1]]] =
         [u \in 0 .. n |-> IF u = 0 THEN base ELSE Output!Turn(f, args, h[u - 1])]
  <2> HIDE DEF n, op, base
  <2> QED BY <1>1, <1>10
<1>12. loop = [u \in 0 .. n |-> IF u = 0 THEN base ELSE Output!Turn(f, args, loop[u - 1])]
  <2> HIDE DEF n, op, base
  <2> QED BY <1>9, <1>11
<1>13. Output!Formatted(out, f, args) = loop[n].out
  BY DEF Output!Formatted
<1> HIDE DEF loop, n, base
<1>14. loop[0] = base /\ \A u \in 1 .. n : loop[u] = Output!Turn(f, args, loop[u - 1])
  BY <1>1, <1>12
<1> DEFINE S == {u \in 0 .. n : loop[u] \in Loops(u, f, lines, g)}
<1>15. 0 \in S
  BY <1>1, <1>4, <1>14
<1>16. ASSUME NEW u \in 1 .. n, u - 1 \in S PROVE u \in S
  BY <1>1, <1>5, <1>14, <1>16
<1> HIDE DEF S
<1>17. \A u \in 0 .. n : u \in S
  BY <1>1, <1>15, <1>16, UpTo
<1> DEFINE r == loop[n]
<1>18. r \in [out : Outs, at : 1 .. n + 1, arg : 1 .. n + 1] /\ LoopInv(r, n, f, lines, g)
  BY <1>1, <1>17 DEF S, Loops, n
<1> HIDE DEF r
<1>19. r.at = n + 1 /\ r.at - 1 = n
  BY <1>1, <1>18 DEF LoopInv
<1>20. Follows(r.out, Output!Lines(lines, g[n].text))
  BY <1>18, <1>19 DEF LoopInv
<1>21. g[n].text = Output!Meant(f, args) /\ g[n] \in Meanings(n)
  BY <1>1, <1>2 DEF IsMeant, n
<1>22. g[n].text \in Str
  BY <1>21 DEF Meanings
<1> QED BY <1>13, <1>20, <1>21, <1>22 DEF r
-----------------------------------------------------------------------------
OutputInv == Follows(Output!Output, text)

LEMMA OutputInitInv == Output!Init => OutputInv
<1> SUFFICES ASSUME Output!Init PROVE OutputInv
  OBVIOUS
<1>1. <<>> \in Str /\ <<>> \in Seq(Str) /\ <<<<>>>> = Append(<<>>, <<>>)
  BY EmptySeq DEF Str
<1>2. Output!Output \in Outs /\ Output!Output.buf = <<>> /\ Output!Output.lines = <<>>
  BY <1>1 DEF Output!Init, Output!Output, Outs
<1>3. text = Append(<<>>, <<>>)
  BY <1>1 DEF Output!Init
<1> QED BY <1>1, <1>2, <1>3 DEF OutputInv, Follows

LEMMA PrintsKeeps ==
  ASSUME NEW out, NEW str, Follows(out, Output!Lines(text, str)), Output!Prints(out, str)
  PROVE  OutputInv'
<1>1. text' = Output!Lines(text, str) /\ stdoutbuf' = out.buf /\ shown' = out.lines
  BY DEF Output!Prints
<1>2. out \in Outs /\ Output!Output' = [buf |-> out.buf, lines |-> out.lines]
  BY <1>1 DEF Output!Output, Follows
<1>3. Output!Output' = out
  BY <1>2 DEF Outs
<1>4. Follows(Output!Output', text')
  BY <1>1, <1>3, Zenon
<1> QED BY <1>4 DEF OutputInv

LEMMA OutputNextInv == ASSUME OutputInv, [Output!Next]_Output!vars PROVE OutputInv'
<1>0. STRING \subseteq Chars /\ {"b", "n", "r"} \subseteq Chars
  BY DEF Chars
<1>1. \A s \in Seq(STRING) : s \in Str
  BY <1>0, SeqMonotonic DEF Str
<1>2. Formats \subseteq Str /\ Strings \subseteq Str /\ Arguments \subseteq Args
  <2>1. ASSUME NEW a1 \in Arguments PROVE a1 \in Args
    <3>1. a1 \in [char : STRING, string : Seq(STRING)]
      BY OutputAssumption
    <3>2. a1.char \in Chars /\ a1.string \in Str /\ a1 = [char |-> a1.char, string |-> a1.string]
      BY <1>0, <1>1, <3>1
    <3> QED BY <3>2 DEF Args
  <2> QED BY <1>1, <2>1, OutputAssumption
<1>3. text \in Texts /\ Follows(Output!Output, text)
  BY FollowsType DEF OutputInv
<1>4. CASE UNCHANGED Output!vars
  <2>1. UNCHANGED <<stdoutbuf, shown, text>>
    BY <1>4 DEF Output!vars
  <2>2. Output!Output' = Output!Output /\ text' = text
    BY <2>1 DEF Output!Output
  <2>3. Follows(Output!Output', text')
    BY <1>3, <2>2, Zenon
  <2> QED BY <2>3 DEF OutputInv
<1>5. ASSUME NEW c \in {"b", "n", "r"}, Output!Putchar(c) PROVE OutputInv'
  <2>1. c \in Chars
    BY <1>0
  <2>2. Follows(Output!raw_putc(Output!Output, c), Output!Lines(text, <<c>>))
    BY <1>3, <2>1, CharFollows, LinesOne
  <2> QED BY <1>5, <2>2, PrintsKeeps DEF Output!Putchar
<1>6. ASSUME NEW str \in Strings, Output!Puts(str) PROVE OutputInv'
  <2>1. Follows(Output!raw_puts(Output!Output, str), Output!Lines(text, str))
    BY <1>2, <1>3, PutsFollows
  <2> QED BY <1>6, <2>1, PrintsKeeps DEF Output!Puts
<1>7. ASSUME NEW str \in Strings, Output!Write(str) PROVE OutputInv'
  <2>1. Follows(Output!Written(Output!Output, str), Output!Lines(text, str))
    BY <1>2, <1>3, WrittenFollows
  <2> QED BY <1>7, <2>1, PrintsKeeps DEF Output!Write
<1>8. ASSUME NEW f \in Formats, Output!MayPrint(f), NEW args \in [1 .. Len(f) -> Arguments],
             Output!Printf(f, args)
      PROVE  OutputInv'
  <2>1. f \in Str /\ args \in [1 .. Len(f) -> Args]
    BY <1>2
  <2>2. Follows(Output!Formatted(Output!Output, f, args),
                Output!Lines(text, Output!Meant(f, args)))
    BY <1>3, <1>8, <2>1, FormattedFollows
  <2> QED BY <1>8, <2>2, PrintsKeeps DEF Output!Printf
<1>9. CASE Output!Next
  BY <1>5, <1>6, <1>7, <1>8, <1>9 DEF Output!Next
<1> QED BY <1>4, <1>9

(* What is shown are the lines of the program in its order, but for blank  *)
(* ones, for strings, formats and arguments of any length (raw_puts,       *)
(* raw_putc, psxBios_printf).                                              *)
THEOREM LinesAreInOrder == Output!Spec => []LinesInOrder
<1>1. OutputInv => LinesInOrder
  <2> SUFFICES ASSUME OutputInv PROVE LinesInOrder
    OBVIOUS
  <2>1. PICK past \in Seq(Str) :
          /\ text = Append(past, Output!Output.buf)
          /\ Output!Full(past) = Output!Full(Output!Output.lines)
    BY DEF OutputInv, Follows
  <2>2. Output!Output.buf = stdoutbuf /\ Output!Output.lines = shown /\ stdoutbuf \in Str
    BY DEF OutputInv, Follows, Output!Output, Outs
  <2>3. text \in Seq(Str) /\ Len(text) = Len(past) + 1 /\ text[Len(text)] = stdoutbuf
        /\ Len(past) \in Nat /\ \A k \in 1 .. Len(past) : text[k] = past[k]
    BY <2>1, <2>2, AppendProperties, LenProperties
  <2>4. SubSeq(text, 1, Len(text) - 1) = past
    <3> DEFINE front == SubSeq(text, 1, Len(past))
    <3>1. \A k \in 1 .. Len(past) : text[k] \in Str
      BY <2>3, ElementOfSeq
    <3>2. /\ front \in Seq(Str) /\ Len(front) = Len(past)
          /\ \A k \in 1 .. Len(past) : front[k] = text[k]
      BY <2>3, <3>1, SubSeqProperties, SMTT(60)
    <3> HIDE DEF front
    <3>3. front = past
      BY <2>3, <3>2, SeqEqual
    <3>4. Len(text) - 1 = Len(past)
      BY <2>3
    <3> QED BY <3>3, <3>4 DEF front
  <2> QED BY <2>1, <2>2, <2>3, <2>4 DEF LinesInOrder, Output!LinesInOrder
<1> QED BY <1>1, OutputInitInv, OutputNextInv, PTL DEF Output!Spec
-----------------------------------------------------------------------------
(* The calls on memory and strings: every window of RAM.                   *)
Window == [Memory!Cells -> 0 .. 255]

(* What is read of a window: a byte of it, and zero outside.               *)
LEMMA AtType ==
  ASSUME NEW m \in Window, NEW p \in Int
  PROVE  /\ Memory!At(m, p) \in 0 .. 255
         /\ p \notin Memory!Cells => Memory!At(m, p) = 0
         /\ p \in Memory!Cells => Memory!At(m, p) = m[p]
BY DEF Window, Memory!At

(* A write changes the one byte it is for.                                 *)
LEMMA PutIs ==
  ASSUME NEW m \in Window, NEW p \in Int, NEW b \in 0 .. 255
  PROVE  /\ Memory!Put(m, p, b) \in Window
         /\ \A k \in Memory!Cells :
              Memory!Put(m, p, b)[k] = IF k = p THEN b ELSE m[k]
BY DEF Window, Memory!Put

(* Characters are signed, which loses nothing of them.                     *)
LEMMA SignedIs ==
  ASSUME NEW b \in 0 .. 255, NEW c \in 0 .. 255
  PROVE  /\ Memory!Signed(b) \in Int /\ Memory!Signed(b) < 128
         /\ Memory!Signed(b) = Memory!Signed(c) <=> b = c
         /\ Memory!Signed(b) = 0 <=> b = 0
BY DEF Memory!Signed

-----------------------------------------------------------------------------
(* A loop that looks for a place of a set, from k on, and what it answers. *)
IsFirst(w, k, S) == w \in S /\ k <= w /\ \A u \in S : k <= u => w <= u

(* A loop over lo .. hi that answers res where it meets S.                 *)
Searches(g, lo, hi, S, res) ==
  g = [k \in lo .. hi |-> IF k \in S THEN res[k] ELSE g[k + 1]]

(* There is a first place, and only one.                                   *)
LEMMA FirstIs ==
  ASSUME NEW S \in SUBSET Int, NEW k \in Nat, NEW u \in S, k <= u
  PROVE  \E w \in S : IsFirst(w, k, S)
<1> DEFINE T == {v \in S : k <= v}
<1>1. T \in SUBSET Nat /\ T # {}
  <2>1. \A v \in S : k <= v => v \in Nat
    OBVIOUS
  <2> QED BY <2>1
<1> HIDE DEF T
<1>2. PICK w \in T : \A v \in T : w <= v
  BY <1>1, Least
<1> QED BY <1>2 DEF T, IsFirst

LEMMA FirstOnly ==
  ASSUME NEW S \in SUBSET Int, NEW k \in Int, NEW u, NEW w,
         IsFirst(u, k, S), IsFirst(w, k, S)
  PROVE  u = w
BY DEF IsFirst

(* A loop that meets S at its last place answers wherever it starts,       *)
LEMMA Searching ==
  ASSUME NEW lo \in Nat, NEW hi \in Nat, NEW S \in SUBSET (lo .. hi), hi \in S, NEW res
  PROVE  \E g : Searches(g, lo, hi, S, res)
<1> DEFINE F(k) == CHOOSE w : IsFirst(w, k, S)
           g == [k \in lo .. hi |-> res[F(k)]]
<1>1. \A k \in lo .. hi : IsFirst(F(k), k, S)
  <2> TAKE k \in lo .. hi
  <2>1. \E w : IsFirst(w, k, S)
    BY FirstIs
  <2> QED BY <2>1
<1>2. ASSUME NEW k \in lo .. hi, k \in S PROVE F(k) = k
  <2>1. IsFirst(k, k, S)
    BY <1>2 DEF IsFirst
  <2> QED BY <1>1, <2>1, FirstOnly
<1>3. ASSUME NEW k \in lo .. hi, k \notin S PROVE F(k) = F(k + 1) /\ k + 1 \in lo .. hi
  <2>1. k + 1 \in lo .. hi
    BY <1>3
  <2>2. IsFirst(F(k + 1), k + 1, S)
    BY <1>1, <2>1
  <2>3. ASSUME NEW w, IsFirst(w, k + 1, S) PROVE IsFirst(w, k, S)
    BY <1>3, <2>3 DEF IsFirst
  <2>4. IsFirst(F(k + 1), k, S)
    BY <2>2, <2>3
  <2> QED BY <1>1, <2>1, <2>4, FirstOnly
<1> HIDE DEF F
<1>4. Searches(g, lo, hi, S, res)
  BY <1>2, <1>3 DEF Searches
<1> HIDE DEF g
<1> QED BY <1>4

(* and answers what belongs to the first place from there on.              *)
LEMMA Searched ==
  ASSUME NEW lo \in Nat, NEW hi \in Nat, NEW S \in SUBSET (lo .. hi), hi \in S, NEW res,
         NEW g, Searches(g, lo, hi, S, res), NEW k \in lo .. hi
  PROVE  \E w \in k .. hi : IsFirst(w, k, S) /\ g[k] = res[w]
<1>1. PICK w \in S : IsFirst(w, k, S)
  BY FirstIs
<1>2. w \in k .. hi
  BY <1>1 DEF IsFirst
<1> DEFINE n == w - k
           T == {u \in Nat : g[w - u] = res[w]}
<1>3. n \in Nat /\ 0 \in T
  BY <1>1, <1>2 DEF Searches
<1>4. ASSUME NEW u \in 1 .. n, u - 1 \in T PROVE u \in T
  <2>1. w - u \in lo .. hi /\ w - u \notin S /\ (w - u) + 1 = w - (u - 1)
    BY <1>1, <1>2 DEF IsFirst
  <2>2. g[w - u] = g[(w - u) + 1]
    BY <2>1 DEF Searches
  <2> QED BY <1>4, <2>1, <2>2
<1>5. n \in T
  <2> HIDE DEF n, T
  <2>1. \A u \in 0 .. n : u \in T
    BY <1>3, <1>4, UpTo
  <2> QED BY <1>3, <2>1
<1>6. w - n = k
  BY <1>2
<1> QED BY <1>1, <1>2, <1>5, <1>6
-----------------------------------------------------------------------------
(* Where a run of some bytes ends.                                         *)
LEMMA BehindIs ==
  ASSUME NEW m \in Window, NEW p \in 0 .. Size + 1, NEW bytes, 0 \notin bytes
  PROVE  /\ Memory!Behind(m, p, bytes) \in p .. Size + 1
         /\ Memory!At(m, Memory!Behind(m, p, bytes)) \notin bytes
         /\ \A k \in p .. Memory!Behind(m, p, bytes) - 1 : Memory!At(m, k) \in bytes
<1> DEFINE hi == Size + 1
           S == {k \in p .. hi : Memory!At(m, k) \notin bytes}
           res == [k \in p .. hi |-> k]
           g == CHOOSE f : f = [k \in p .. hi |->
                  IF Memory!At(m, k) \in bytes THEN f[k + 1] ELSE k]
<1>1. hi \in S /\ p \in Nat /\ hi \in Nat /\ p \in p .. hi /\ S \in SUBSET (p .. hi)
  BY MemoryAssumption, AtType DEF Memory!Cells
<1>2. PICK h : Searches(h, p, hi, S, res)
  <2> HIDE DEF hi, S, res
  <2> QED BY <1>1, Searching
<1>3. ASSUME NEW f
      PROVE  [k \in p .. hi |-> IF k \in S THEN res[k] ELSE f[k + 1]] =
             [k \in p .. hi |-> IF Memory!At(m, k) \in bytes THEN f[k + 1] ELSE k]
  OBVIOUS
<1>4. g = [k \in p .. hi |-> IF Memory!At(m, k) \in bytes THEN g[k + 1] ELSE k]
  <2> HIDE DEF hi, S, res
  <2>1. h = [k \in p .. hi |-> IF Memory!At(m, k) \in bytes THEN h[k + 1] ELSE k]
    BY <1>2, <1>3 DEF Searches
  <2> QED BY <2>1, Zenon
<1>5. Memory!Behind(m, p, bytes) = g[p]
  BY DEF Memory!Behind
<1> HIDE DEF g
<1>6. Searches(g, p, hi, S, res)
  BY <1>3, <1>4 DEF Searches
<1>7. PICK w \in p .. hi : IsFirst(w, p, S) /\ g[p] = res[w]
  <2> HIDE DEF hi, S, res
  <2>1. \A k \in p .. hi : \E w \in k .. hi : IsFirst(w, k, S) /\ g[k] = res[w]
    BY <1>1, <1>6, Searched
  <2> QED BY <1>1, <2>1
<1> QED BY <1>1, <1>5, <1>7 DEF IsFirst

(* Where a string ends.                                                    *)
LEMMA EndIs ==
  ASSUME NEW m \in Window, NEW p \in 0 .. Size + 1
  PROVE  /\ Memory!End(m, p) \in p .. Size + 1
         /\ Memory!At(m, Memory!End(m, p)) = 0
         /\ \A k \in p .. Memory!End(m, p) - 1 : Memory!At(m, k) # 0
<1> DEFINE e == Memory!Behind(m, p, 1 .. 255)
<1>1. /\ e \in p .. Size + 1 /\ Memory!At(m, e) \notin 1 .. 255
      /\ \A k \in p .. e - 1 : Memory!At(m, k) \in 1 .. 255
  BY BehindIs
<1>2. Memory!At(m, e) \in 0 .. 255
  <2> HIDE DEF e
  <2>1. e \in Int
    BY <1>1, MemoryAssumption
  <2> QED BY <2>1, AtType
<1> HIDE DEF e
<1> QED BY <1>1, <1>2 DEF e, Memory!End

(* A string is what lies between its start and the first zero.             *)
LEMMA StringIs ==
  ASSUME NEW m \in Window, NEW p \in 0 .. Size + 1
  PROVE  /\ Memory!strlen(m, p) \in Nat
         /\ p + Memory!strlen(m, p) <= Size + 1
         /\ Memory!End(m, p) = p + Memory!strlen(m, p)
         /\ Memory!At(m, p + Memory!strlen(m, p)) = 0
         /\ \A k \in 0 .. Memory!strlen(m, p) - 1 : Memory!At(m, p + k) \in 1 .. 255
         /\ Memory!String(m, p) =
              [k \in 1 .. Memory!strlen(m, p) |-> Memory!At(m, p + k - 1)]
         /\ Memory!String(m, p) \in Seq(1 .. 255)
         /\ Len(Memory!String(m, p)) = Memory!strlen(m, p)
<1> DEFINE n == Memory!strlen(m, p)
<1>1. /\ Memory!End(m, p) \in p .. Size + 1 /\ n = Memory!End(m, p) - p
      /\ Memory!At(m, Memory!End(m, p)) = 0
      /\ \A k \in p .. Memory!End(m, p) - 1 : Memory!At(m, k) # 0
  BY EndIs DEF Memory!strlen
<1> HIDE DEF n
<1>2. n \in Nat /\ p + n <= Size + 1 /\ Memory!End(m, p) = p + n
  BY <1>1, MemoryAssumption
<1>3. \A k \in 0 .. n - 1 : Memory!At(m, p + k) \in 1 .. 255
  <2> TAKE k \in 0 .. n - 1
  <2>1. p + k \in p .. Memory!End(m, p) - 1 /\ p + k \in Int
    BY <1>2
  <2>2. Memory!At(m, p + k) # 0 /\ Memory!At(m, p + k) \in 0 .. 255
    BY <1>1, <2>1, AtType
  <2> QED BY <2>2
<1>4. Memory!String(m, p) = [k \in 1 .. n |-> Memory!At(m, p + k - 1)]
  BY DEF Memory!String, n
<1>5. \A k \in 1 .. n : Memory!At(m, p + k - 1) \in 1 .. 255
  <2> TAKE k \in 1 .. n
  <2>1. k - 1 \in 0 .. n - 1 /\ p + (k - 1) = p + k - 1
    BY <1>2
  <2> QED BY <1>3, <2>1
<1>6. Memory!String(m, p) \in Seq(1 .. 255) /\ Len(Memory!String(m, p)) = n
  BY <1>2, <1>4, <1>5, IsASeq, LenProperties
<1> QED BY <1>1, <1>2, <1>3, <1>4, <1>6 DEF n

(* x is the string at p, of n characters.                                  *)
StringAt(m, p, n, x) ==
  /\ n \in Nat /\ p + n <= Size + 1
  /\ Memory!End(m, p) = p + n /\ Memory!At(m, p + n) = 0
  /\ \A k \in 0 .. n - 1 : Memory!At(m, p + k) \in 1 .. 255
  /\ x = [k \in 1 .. n |-> Memory!At(m, p + k - 1)]
  /\ x \in Seq(1 .. 255) /\ Len(x) = n

LEMMA StringFound ==
  ASSUME NEW m \in Window, NEW p \in 0 .. Size + 1
  PROVE  StringAt(m, p, Memory!strlen(m, p), Memory!String(m, p))
<1> DEFINE n == Memory!strlen(m, p)
<1> DEFINE x == Memory!String(m, p)
<1>1. /\ n \in Nat /\ p + n <= Size + 1
      /\ Memory!End(m, p) = p + n /\ Memory!At(m, p + n) = 0
      /\ \A k \in 0 .. n - 1 : Memory!At(m, p + k) \in 1 .. 255
      /\ x = [k \in 1 .. n |-> Memory!At(m, p + k - 1)]
      /\ x \in Seq(1 .. 255) /\ Len(x) = n
  BY StringIs
<1> HIDE DEF n, x
<1>2. StringAt(m, p, n, x)
  BY ONLY <1>1 DEF StringAt
<1> QED BY <1>2 DEF n, x

(* What strings are: characters, none of them zero.                        *)
Text == Seq(1 .. 255)

LEMMA TextIs ==
  ASSUME NEW x \in Text
  PROVE  /\ Len(x) \in Nat /\ DOMAIN x = 1 .. Len(x)
         /\ \A k \in 1 .. Len(x) : x[k] \in 1 .. 255
BY LenProperties, ElementOfSeq DEF Text

(* The first n characters of a text.                                       *)
LEMMA CutIs ==
  ASSUME NEW x \in Text, NEW n \in Int
  PROVE  LET t == IF n < 0 THEN 0 ELSE IF n < Len(x) THEN n ELSE Len(x)
         IN /\ Memory!Cut(x, n) \in Text /\ Len(Memory!Cut(x, n)) = t
            /\ \A k \in 1 .. t : Memory!Cut(x, n)[k] = x[k]
<1> DEFINE t == IF n < 0 THEN 0 ELSE IF n < Len(x) THEN n ELSE Len(x)
<1>1. t \in Nat /\ t <= Len(x)
  BY TextIs
<1>2. {k \in DOMAIN x : k <= n} = 1 .. t
  BY TextIs
<1>3. Memory!Cut(x, n) = [k \in 1 .. t |-> x[k]]
  BY <1>2 DEF Memory!Cut
<1>4. \A k \in 1 .. t : x[k] \in 1 .. 255
  BY <1>1, TextIs
<1> HIDE DEF t
<1>5. Memory!Cut(x, n) \in Text /\ Len(Memory!Cut(x, n)) = t
  BY <1>1, <1>3, <1>4, IsASeq, LenProperties DEF Text
<1>6. \A k \in 1 .. t : Memory!Cut(x, n)[k] = x[k]
  BY <1>3
<1> QED BY <1>5, <1>6 DEF t

(* Beginnings are the same when their characters are.                      *)
LEMMA CutsEqual ==
  ASSUME NEW x \in Text, NEW y \in Text, NEW n \in 0 .. Len(x)
  PROVE  Memory!Cut(x, n) = Memory!Cut(y, n)
           <=> n <= Len(y) /\ \A k \in 1 .. n : x[k] = y[k]
<1> DEFINE t == IF n < Len(y) THEN n ELSE Len(y)
<1>1. Len(x) \in Nat /\ Len(y) \in Nat
  BY TextIs
<1>2. /\ Memory!Cut(x, n) \in Text /\ Len(Memory!Cut(x, n)) = n
      /\ \A k \in 1 .. n : Memory!Cut(x, n)[k] = x[k]
  BY <1>1, CutIs
<1>3. /\ Memory!Cut(y, n) \in Text /\ Len(Memory!Cut(y, n)) = t
      /\ \A k \in 1 .. t : Memory!Cut(y, n)[k] = y[k]
  BY <1>1, CutIs
<1>4. ASSUME Memory!Cut(x, n) = Memory!Cut(y, n)
      PROVE  n <= Len(y) /\ \A k \in 1 .. n : x[k] = y[k]
  <2>1. n = t
    BY <1>2, <1>3, <1>4
  <2> QED BY <1>1, <1>2, <1>3, <1>4, <2>1
<1>5. ASSUME n <= Len(y), \A k \in 1 .. n : x[k] = y[k]
      PROVE  Memory!Cut(x, n) = Memory!Cut(y, n)
  <2>1. t = n
    BY <1>1, <1>5
  <2> HIDE DEF t
  <2>2. \A k \in 1 .. n : Memory!Cut(x, n)[k] = Memory!Cut(y, n)[k]
    BY <1>2, <1>3, <1>5, <2>1
  <2> DEFINE u == Memory!Cut(x, n)
             v == Memory!Cut(y, n)
  <2>3. u \in Seq(1 .. 255) /\ v \in Seq(1 .. 255) /\ Len(u) = Len(v)
        /\ \A k \in 1 .. Len(u) : u[k] = v[k]
    BY <1>2, <1>3, <2>1, <2>2 DEF Text
  <2> HIDE DEF u, v
  <2>4. u = v
    BY <2>3, SeqEqual
  <2> QED BY <2>4 DEF u, v
<1> QED BY <1>4, <1>5

(* What a character is as a signed one.                                    *)
LEMMA LetterSigned ==
  ASSUME NEW b \in 1 .. 255
  PROVE  b \in 0 .. 255 /\ Memory!Signed(b) \in Int /\ Memory!Signed(b) < 128 /\ Memory!Signed(b) # 0
BY DEF Memory!Signed

(* A text has its characters at their places, and a zero behind them.      *)
LEMMA CharsAt ==
  ASSUME NEW x \in Text, NEW k \in Nat, 1 <= k, k <= Len(x) + 1
  PROVE  /\ Memory!CharAt(x, k) \in Int
         /\ k <= Len(x) => Memory!CharAt(x, k) = Memory!Signed(x[k])
                           /\ Memory!CharAt(x, k) # 0
         /\ k = Len(x) + 1 => Memory!CharAt(x, k) = 0
<1>1. CASE k <= Len(x)
  <2>1. k \in DOMAIN x
    BY <1>1, TextIs
  <2>5. x[k] \in 1 .. 255
    BY <1>1, TextIs
  <2>3. Memory!Signed(x[k]) \in Int /\ Memory!Signed(x[k]) # 0
    BY <2>5, LetterSigned
  <2>4. Memory!CharAt(x, k) = Memory!Signed(x[k])
    BY <2>1 DEF Memory!CharAt
  <2> QED BY <1>1, <2>3, <2>4, TextIs
<1>2. CASE k = Len(x) + 1
  <2>1. k \notin DOMAIN x /\ ~(k <= Len(x))
    BY <1>2, TextIs
  <2>2. Memory!CharAt(x, k) = 0
    BY <2>1 DEF Memory!CharAt
  <2>3. 0 \in Int
    OBVIOUS
  <2>4. Memory!CharAt(x, k) \in Int
    BY <2>2, <2>3, Zenon
  <2> QED BY <2>1, <2>2, <2>4
<1> QED BY <1>1, <1>2, TextIs

(* x and y are equal in their first w characters, and then not, if they go *)
(* on.                                                                     *)
Agree(x, y, w) ==
  /\ x \in Text /\ y \in Text /\ w \in 0 .. Len(x) /\ w <= Len(y)
  /\ \A k \in 1 .. w : x[k] = y[k]
  /\ (w = Len(x) /\ w = Len(y)) \/ Memory!CharAt(x, w + 1) # Memory!CharAt(y, w + 1)

(* Texts agree in one place only: no longer beginnings are the same,       *)
LEMMA AgreeOnly ==
  ASSUME NEW x, NEW y, NEW w, Agree(x, y, w),
         NEW n \in 0 .. Len(x), Memory!Cut(x, n) = Memory!Cut(y, n)
  PROVE  n <= w
<1> SUFFICES ASSUME n > w PROVE FALSE
  BY TextIs DEF Agree
<1>1. Len(x) \in Nat /\ Len(y) \in Nat /\ w \in Nat
  BY TextIs DEF Agree
<1>2. n <= Len(y) /\ \A k \in 1 .. n : x[k] = y[k]
  BY CutsEqual DEF Agree
<1>3. w + 1 \in 1 .. n /\ w + 1 \in 1 .. Len(x) + 1 /\ w + 1 \in 1 .. Len(y) + 1
  BY <1>1, <1>2
<1>4. x[w + 1] = y[w + 1]
  BY <1>2, <1>3
<1> DEFINE u == w + 1
<1>5. /\ x \in Text /\ y \in Text /\ u \in Nat /\ 1 <= u
      /\ u <= Len(x) /\ u <= Len(y) /\ u <= Len(x) + 1 /\ u <= Len(y) + 1
  BY <1>1, <1>2, <1>3 DEF Agree
<1> HIDE DEF u
<1>6. /\ Memory!CharAt(x, u) = Memory!Signed(x[u])
      /\ Memory!CharAt(y, u) = Memory!Signed(y[u])
  BY <1>5, CharsAt
<1>7. Memory!CharAt(x, u) = Memory!CharAt(y, u)
  BY <1>4, <1>6 DEF u
<1> QED BY <1>1, <1>5, <1>7 DEF Agree, u

(* what they have in common ends there,                                    *)
LEMMA AgreeCommon ==
  ASSUME NEW x, NEW y, NEW w, Agree(x, y, w)
  PROVE  Memory!Common(x, y) = w
<1> DEFINE P(n) == /\ n <= Len(y) /\ Memory!Cut(x, n) = Memory!Cut(y, n)
                   /\ n = Len(x) \/ n = Len(y) \/ x[n + 1] # y[n + 1]
<1>1. Len(x) \in Nat /\ Len(y) \in Nat /\ w \in 0 .. Len(x) /\ x \in Text /\ y \in Text
  BY TextIs DEF Agree
<1>2. P(w)
  <2>1. Memory!Cut(x, w) = Memory!Cut(y, w)
    BY CutsEqual DEF Agree
  <2>2. ASSUME w # Len(x), w # Len(y) PROVE x[w + 1] # y[w + 1]
    <3>1. /\ w + 1 \in 1 .. Len(x) + 1 /\ w + 1 \in 1 .. Len(y) + 1
          /\ w + 1 <= Len(x) /\ w + 1 <= Len(y)
      BY <1>1, <2>2 DEF Agree
    <3>2. /\ Memory!CharAt(x, w + 1) = Memory!Signed(x[w + 1])
          /\ Memory!CharAt(y, w + 1) = Memory!Signed(y[w + 1])
      BY <1>1, <3>1, CharsAt
    <3> QED BY <2>2, <3>2 DEF Agree
  <2> QED BY <2>1, <2>2 DEF Agree
<1>3. ASSUME NEW n \in 0 .. Len(x), P(n) PROVE n = w
  <2>1. n <= w
    BY <1>3, AgreeOnly
  <2>2. ASSUME n < w PROVE FALSE
    <3>1. n + 1 \in 1 .. w
      BY <1>1, <2>2
    <3>2. x[n + 1] = y[n + 1] /\ n # Len(x) /\ n # Len(y)
      BY <1>1, <2>2, <3>1 DEF Agree
    <3> QED BY <1>3, <3>2
  <2> QED BY <1>1, <2>1, <2>2
<1>4. Memory!Common(x, y) = CHOOSE n \in 0 .. Len(x) : P(n)
  BY DEF Memory!Common
<1> HIDE DEF P
<1> QED BY <1>1, <1>2, <1>3, <1>4

(* they are the same when they are the same there,                         *)
LEMMA AgreeEqual ==
  ASSUME NEW x, NEW y, NEW w, Agree(x, y, w)
  PROVE  x = y <=> Memory!CharAt(x, w + 1) = Memory!CharAt(y, w + 1)
<1>1. Len(x) \in Nat /\ Len(y) \in Nat
  BY TextIs DEF Agree
<1>2. ASSUME Memory!CharAt(x, w + 1) = Memory!CharAt(y, w + 1) PROVE x = y
  <2>1. w = Len(x) /\ w = Len(y)
    BY <1>2 DEF Agree
  <2>2. x \in Seq(1 .. 255) /\ y \in Seq(1 .. 255) /\ \A k \in 1 .. Len(x) : x[k] = y[k]
    BY <2>1 DEF Agree, Text
  <2> QED BY <2>1, <2>2, SeqEqual
<1> QED BY <1>2

(* and that place tells which of them comes first.                         *)
LEMMA AgreePrecedes ==
  ASSUME NEW x, NEW y, NEW w, Agree(x, y, w)
  PROVE  Memory!Precedes(x, y) <=> Memory!CharAt(x, w + 1) < Memory!CharAt(y, w + 1)
<1>1. Len(x) \in Nat /\ Len(y) \in Nat /\ w \in 0 .. Len(x) /\ x \in Text /\ y \in Text
  BY TextIs DEF Agree
<1>2. ASSUME Memory!CharAt(x, w + 1) < Memory!CharAt(y, w + 1) PROVE Memory!Precedes(x, y)
  <2>1. Memory!Cut(x, w) = Memory!Cut(y, w)
    BY CutsEqual DEF Agree
  <2> QED BY <1>1, <1>2, <2>1 DEF Memory!Precedes
<1>3. ASSUME NEW n \in 0 .. Len(x), Memory!Cut(x, n) = Memory!Cut(y, n),
             Memory!CharAt(x, n + 1) < Memory!CharAt(y, n + 1)
      PROVE  Memory!CharAt(x, w + 1) < Memory!CharAt(y, w + 1)
  <2>1. n <= w
    BY <1>3, AgreeOnly
  <2>2. CASE n = w
    BY <1>3, <2>2
  <2>3. CASE n < w
    <3>1. /\ n + 1 \in 1 .. w /\ n + 1 <= Len(x) /\ n + 1 <= Len(y)
          /\ n + 1 \in 1 .. Len(x) + 1 /\ n + 1 \in 1 .. Len(y) + 1
      BY <1>1, <2>3 DEF Agree
    <3>2. x[n + 1] = y[n + 1]
      BY <3>1 DEF Agree
    <3>3. /\ Memory!CharAt(x, n + 1) = Memory!Signed(x[n + 1])
          /\ Memory!CharAt(y, n + 1) = Memory!Signed(y[n + 1])
      BY <1>1, <3>1, CharsAt
    <3>4. Memory!CharAt(x, n + 1) \in Int
      BY <1>1, <3>1, CharsAt
    <3> QED BY <1>3, <3>2, <3>3, <3>4
  <2> QED BY <1>1, <2>1, <2>2, <2>3
<1> QED BY <1>2, <1>3 DEF Memory!Precedes

(* Up to w, the strings at p and q are the same.                           *)
Same(m, p, q, w) ==
  \A k \in 0 .. w - 1 :
    Memory!At(m, p + k) = Memory!At(m, q + k) /\ Memory!At(m, p + k) # 0

(* Cells that are not zero belong to the string that starts before them.   *)
LEMMA StringReaches ==
  ASSUME NEW m \in Window, NEW p \in Memory!Cells, NEW w \in Nat,
         \A k \in 0 .. w - 1 : Memory!At(m, p + k) # 0
  PROVE  /\ Memory!String(m, p) \in Text /\ w <= Len(Memory!String(m, p))
         /\ \A k \in 1 .. w : Memory!String(m, p)[k] = Memory!At(m, p + k - 1)
         /\ Memory!CharAt(Memory!String(m, p), w + 1) = Memory!Signed(Memory!At(m, p + w))
<1> DEFINE n == Memory!strlen(m, p)
           x == Memory!String(m, p)
<1>1. p \in 0 .. Size + 1
  BY MemoryAssumption DEF Memory!Cells
<1>2. /\ n \in Nat /\ Memory!At(m, p + n) = 0
      /\ x = [k \in 1 .. n |-> Memory!At(m, p + k - 1)]
      /\ x \in Seq(1 .. 255) /\ Len(x) = n
  BY <1>1, StringIs
<1>3. x \in Text
  BY <1>2 DEF Text
<1> HIDE DEF n, x
<1>4. w <= n
  <2> SUFFICES ASSUME n < w PROVE FALSE
    BY <1>2
  <2>1. n \in 0 .. w - 1
    BY <1>2
  <2> QED BY <1>2, <2>1
<1>5. \A k \in 1 .. w : x[k] = Memory!At(m, p + k - 1)
  BY <1>2, <1>4
<1>6. Memory!CharAt(x, w + 1) = Memory!Signed(Memory!At(m, p + w))
  <2>1. CASE w = n
    <3>1. Memory!CharAt(x, w + 1) = 0
      BY <1>2, <1>3, <2>1, CharsAt
    <3>2. Memory!Signed(0) = 0
      BY DEF Memory!Signed
    <3> QED BY <1>2, <2>1, <3>1, <3>2
  <2>2. CASE w < n
    <3>1. w + 1 \in 1 .. n /\ p + (w + 1) - 1 = p + w
      BY <1>1, <1>2, <2>2
    <3>2. x[w + 1] = Memory!At(m, p + w)
      BY <1>2, <3>1
    <3>3. Memory!CharAt(x, w + 1) = Memory!Signed(x[w + 1])
      BY <1>2, <1>3, <3>1, CharsAt
    <3> QED BY <3>2, <3>3
  <2> QED BY <1>2, <1>4, <2>1, <2>2
<1> QED BY <1>2, <1>3, <1>4, <1>5, <1>6 DEF x, n

(* The same of two strings.                                                *)
LEMMA StringsReach ==
  ASSUME NEW m \in Window, NEW p \in Memory!Cells, NEW q \in Memory!Cells,
         NEW w \in Nat, Same(m, p, q, w)
  PROVE  LET x == Memory!String(m, p)
             y == Memory!String(m, q)
         IN /\ x \in Text /\ y \in Text /\ w <= Len(x) /\ w <= Len(y)
            /\ \A k \in 1 .. w : x[k] = y[k]
            /\ Memory!CharAt(x, w + 1) = Memory!Signed(Memory!At(m, p + w))
            /\ Memory!CharAt(y, w + 1) = Memory!Signed(Memory!At(m, q + w))
<1>1. p \in Nat /\ q \in Nat
  BY DEF Memory!Cells
<1> DEFINE x == Memory!String(m, p)
           y == Memory!String(m, q)
<1>2. /\ x \in Text /\ w <= Len(x)
      /\ \A k \in 1 .. w : x[k] = Memory!At(m, p + k - 1)
      /\ Memory!CharAt(x, w + 1) = Memory!Signed(Memory!At(m, p + w))
  BY StringReaches DEF Same
<1>3. /\ y \in Text /\ w <= Len(y)
      /\ \A k \in 1 .. w : y[k] = Memory!At(m, q + k - 1)
      /\ Memory!CharAt(y, w + 1) = Memory!Signed(Memory!At(m, q + w))
  <2>1. \A k \in 0 .. w - 1 : Memory!At(m, q + k) # 0
    BY DEF Same
  <2> QED BY <2>1, StringReaches
<1> HIDE DEF x, y
<1>4. ASSUME NEW k \in 1 .. w PROVE x[k] = y[k]
  <2>1. k - 1 \in 0 .. w - 1 /\ p + (k - 1) = p + k - 1 /\ q + (k - 1) = q + k - 1
    BY <1>1
  <2>2. Memory!At(m, p + (k - 1)) = Memory!At(m, q + (k - 1))
    BY <2>1 DEF Same
  <2> QED BY <1>2, <1>3, <2>1, <2>2
<1> QED BY <1>2, <1>3, <1>4 DEF x, y

(* Where the strings differ, or end.                                       *)
Differ(m, p, q, w) ==
  Memory!At(m, p + w) # Memory!At(m, q + w) \/ Memory!At(m, p + w) = 0

(* Strings agree where memory says they do.                                *)
LEMMA StringsAgree ==
  ASSUME NEW m \in Window, NEW p \in Memory!Cells, NEW q \in Memory!Cells,
         NEW w \in Nat, Same(m, p, q, w), Differ(m, p, q, w)
  PROVE  Agree(Memory!String(m, p), Memory!String(m, q), w)
<1> DEFINE x == Memory!String(m, p)
           y == Memory!String(m, q)
           b == Memory!At(m, p + w)
           c == Memory!At(m, q + w)
<1>1. /\ x \in Text /\ y \in Text /\ w <= Len(x) /\ w <= Len(y)
      /\ \A k \in 1 .. w : x[k] = y[k]
      /\ Memory!CharAt(x, w + 1) = Memory!Signed(b)
      /\ Memory!CharAt(y, w + 1) = Memory!Signed(c)
  BY StringsReach
<1>2. b \in 0 .. 255 /\ c \in 0 .. 255 /\ (b # c \/ b = 0)
  <2>1. p + w \in Int /\ q + w \in Int
    BY DEF Memory!Cells
  <2> QED BY <2>1, AtType DEF Differ
<1> HIDE DEF x, y, b, c
<1>3. Len(x) \in Nat /\ Len(y) \in Nat
  BY <1>1, TextIs
<1>4. CASE b # c
  <2>1. Memory!Signed(b) # Memory!Signed(c)
    BY <1>2, <1>4, SignedIs
  <2> QED BY <1>1, <1>3, <2>1 DEF Agree, x, y
<1>5. CASE b = c
  <2>1. Memory!CharAt(x, w + 1) = 0 /\ Memory!CharAt(y, w + 1) = 0
    BY <1>1, <1>2, <1>5, SignedIs
  <2>2. w = Len(x) /\ w = Len(y)
    BY <1>1, <1>3, <2>1, CharsAt
  <2> QED BY <1>1, <1>3, <2>2 DEF Agree, x, y
<1> QED BY <1>4, <1>5

(* strcmp stops at the first place where its strings differ or end.        *)
LEMMA ComparedIs ==
  ASSUME NEW m \in Window, NEW p \in Memory!Cells, NEW q \in Memory!Cells
  PROVE  \E w \in 0 .. Size :
           /\ Same(m, p, q, w) /\ Differ(m, p, q, w)
           /\ Memory!strcmp(m, p, q) =
                IF Memory!At(m, p + w) # Memory!At(m, q + w)
                THEN [v0 |-> Memory!Signed(Memory!At(m, p + w))
                               - Memory!Signed(Memory!At(m, q + w)),
                      v1 |-> w, moved |-> w]
                ELSE [v0 |-> 0, v1 |-> w, moved |-> w + 1]
<1> DEFINE X(k) == Memory!At(m, p + k)
           Y(k) == Memory!At(m, q + k)
           S == {k \in 0 .. Size : Differ(m, p, q, k)}
           one(k) == [v0 |-> Memory!Signed(X(k)) - Memory!Signed(Y(k)),
                      v1 |-> k, moved |-> k]
           two(k) == [v0 |-> 0, v1 |-> k, moved |-> k + 1]
           res == [k \in 0 .. Size |-> IF X(k) # Y(k) THEN one(k) ELSE two(k)]
           g == CHOOSE f : f = [k \in 0 .. Size |->
                  IF X(k) # Y(k) THEN one(k) ELSE IF X(k) = 0 THEN two(k) ELSE f[k + 1]]
<1>0. Size \in Nat
  BY MemoryAssumption
<1>1. /\ Size \in S /\ 0 \in Nat /\ 0 \in 0 .. Size /\ S \in SUBSET (0 .. Size)
  <2>1. p + Size \in Int /\ p + Size \notin Memory!Cells
    BY <1>0 DEF Memory!Cells
  <2>2. Memory!At(m, p + Size) = 0
    BY <2>1, AtType
  <2> QED BY <1>0, <2>2 DEF Differ
<1>2. PICK h : Searches(h, 0, Size, S, res)
  <2> HIDE DEF S, res
  <2> QED BY <1>0, <1>1, Searching
<1> HIDE DEF one, two
<1>3. ASSUME NEW f
      PROVE  [k \in 0 .. Size |-> IF k \in S THEN res[k] ELSE f[k + 1]] =
             [k \in 0 .. Size |->
                IF X(k) # Y(k) THEN one(k) ELSE IF X(k) = 0 THEN two(k) ELSE f[k + 1]]
  <2>1. ASSUME NEW k \in 0 .. Size
        PROVE  (IF k \in S THEN res[k] ELSE f[k + 1]) =
               (IF X(k) # Y(k) THEN one(k) ELSE IF X(k) = 0 THEN two(k) ELSE f[k + 1])
    BY DEF Differ
  <2> QED BY <2>1
<1>4. g = [k \in 0 .. Size |->
             IF X(k) # Y(k) THEN one(k) ELSE IF X(k) = 0 THEN two(k) ELSE g[k + 1]]
  <2> HIDE DEF S, res, X, Y
  <2>1. h = [k \in 0 .. Size |->
               IF X(k) # Y(k) THEN one(k) ELSE IF X(k) = 0 THEN two(k) ELSE h[k + 1]]
    BY <1>2, <1>3 DEF Searches
  <2> QED BY <2>1, Zenon
<1>5. Memory!strcmp(m, p, q) = g[0]
  <2>1. p # 0 /\ q # 0
    BY DEF Memory!Cells
  <2> QED BY <2>1 DEF Memory!strcmp, Memory!Compared, one, two
<1> HIDE DEF g
<1>6. Searches(g, 0, Size, S, res)
  <2> HIDE DEF S, res, X, Y
  <2> QED BY <1>3, <1>4 DEF Searches
<1>7. PICK w \in 0 .. Size : IsFirst(w, 0, S) /\ g[0] = res[w]
  <2> HIDE DEF S, res
  <2> QED BY <1>0, <1>1, <1>6, Searched
<1>8. Differ(m, p, q, w)
  BY <1>7 DEF IsFirst
<1>9. Same(m, p, q, w)
  <2> SUFFICES ASSUME NEW k \in 0 .. w - 1 PROVE X(k) = Y(k) /\ X(k) # 0
    BY DEF Same
  <2>1. k \in 0 .. Size /\ k \notin S
    BY <1>0, <1>7 DEF IsFirst
  <2> QED BY <2>1 DEF Differ
<1> QED BY <1>5, <1>7, <1>8, <1>9 DEF one, two

(* strncmp stops there, or when its count is used up.                      *)
LEMMA FirstComparedIs ==
  ASSUME NEW m \in Window, NEW p \in Memory!Cells, NEW q \in Memory!Cells, NEW n \in Int
  PROVE  \E w \in 0 .. Size :
           /\ Same(m, p, q, w)
           /\ n - w - 1 < 0 \/ Differ(m, p, q, w)
           /\ \A k \in 0 .. w - 1 : ~(n - k - 1 < 0)
           /\ Memory!strncmp(m, p, q, n).moved = w
           /\ Memory!strncmp(m, p, q, n).v0 =
                IF ~(n - w - 1 < 0) /\ Memory!At(m, p + w) # Memory!At(m, q + w)
                THEN Memory!Signed(Memory!At(m, p + w)) - Memory!Signed(Memory!At(m, q + w))
                ELSE 0
<1> DEFINE X(k) == Memory!At(m, p + k)
           Y(k) == Memory!At(m, q + k)
           S == {k \in 0 .. Size : n - k - 1 < 0 \/ Differ(m, p, q, k)}
           same(k) == [v0 |-> 0, v1 |-> n - k - 1 + 1, moved |-> k, a2 |-> n - k - 1]
           other(k) == [same(k) EXCEPT !.v0 = Memory!Signed(X(k)) - Memory!Signed(Y(k))]
           res == [k \in 0 .. Size |->
                     IF n - k - 1 < 0 THEN same(k) ELSE IF X(k) # Y(k) THEN other(k) ELSE same(k)]
           g == CHOOSE f : f = [k \in 0 .. Size |->
                  IF n - k - 1 < 0 THEN same(k)
                  ELSE IF X(k) # Y(k) THEN other(k)
                  ELSE IF X(k) = 0 THEN same(k) ELSE f[k + 1]]
<1>0. Size \in Nat
  BY MemoryAssumption
<1>1. /\ Size \in S /\ 0 \in Nat /\ 0 \in 0 .. Size /\ S \in SUBSET (0 .. Size)
  <2>1. p + Size \in Int /\ p + Size \notin Memory!Cells
    BY <1>0 DEF Memory!Cells
  <2>2. Memory!At(m, p + Size) = 0
    BY <2>1, AtType
  <2> QED BY <1>0, <2>2 DEF Differ
<1>2. PICK h : Searches(h, 0, Size, S, res)
  <2> HIDE DEF S, res
  <2> QED BY <1>0, <1>1, Searching
<1>10. \A k : /\ same(k).moved = k /\ same(k).v0 = 0
              /\ other(k).moved = k
              /\ other(k).v0 = Memory!Signed(X(k)) - Memory!Signed(Y(k))
  OBVIOUS
<1> HIDE DEF same, other
<1>3. ASSUME NEW f
      PROVE  [k \in 0 .. Size |-> IF k \in S THEN res[k] ELSE f[k + 1]] =
             [k \in 0 .. Size |->
                  IF n - k - 1 < 0 THEN same(k)
                  ELSE IF X(k) # Y(k) THEN other(k)
                  ELSE IF X(k) = 0 THEN same(k) ELSE f[k + 1]]
  <2>1. ASSUME NEW k \in 0 .. Size
        PROVE  (IF k \in S THEN res[k] ELSE f[k + 1]) =
               (IF n - k - 1 < 0 THEN same(k)
                ELSE IF X(k) # Y(k) THEN other(k)
                ELSE IF X(k) = 0 THEN same(k) ELSE f[k + 1])
    BY DEF Differ
  <2> QED BY <2>1
<1>4. g = [k \in 0 .. Size |->
             IF n - k - 1 < 0 THEN same(k)
             ELSE IF X(k) # Y(k) THEN other(k)
             ELSE IF X(k) = 0 THEN same(k) ELSE g[k + 1]]
  <2> HIDE DEF S, res, X, Y
  <2>1. h = [k \in 0 .. Size |->
               IF n - k - 1 < 0 THEN same(k)
               ELSE IF X(k) # Y(k) THEN other(k)
               ELSE IF X(k) = 0 THEN same(k) ELSE h[k + 1]]
    BY <1>2, <1>3 DEF Searches
  <2> QED BY <2>1, Zenon
<1>5. Memory!strncmp(m, p, q, n) = g[0]
  <2>1. p # 0 /\ q # 0
    BY DEF Memory!Cells
  <2> QED BY <2>1, Zenon DEF Memory!strncmp, Memory!FirstCompared, same, other
<1> HIDE DEF g
<1>6. Searches(g, 0, Size, S, res)
  <2> HIDE DEF S, res, X, Y
  <2> QED BY <1>3, <1>4 DEF Searches
<1>7. PICK w \in 0 .. Size : IsFirst(w, 0, S) /\ g[0] = res[w]
  <2> HIDE DEF S, res
  <2> QED BY <1>0, <1>1, <1>6, Searched
<1>8. n - w - 1 < 0 \/ Differ(m, p, q, w)
  BY <1>7 DEF IsFirst
<1>9. ASSUME NEW k \in 0 .. w - 1
      PROVE  ~(n - k - 1 < 0) /\ X(k) = Y(k) /\ X(k) # 0
  <2>1. k \in 0 .. Size /\ k \notin S
    BY <1>0, <1>7 DEF IsFirst
  <2> QED BY <2>1 DEF Differ
<1>11. Same(m, p, q, w)
  BY <1>9 DEF Same
<1>12. res[w] = IF n - w - 1 < 0 THEN same(w) ELSE IF X(w) # Y(w) THEN other(w) ELSE same(w)
  OBVIOUS
<1>13. /\ res[w].moved = w
       /\ res[w].v0 = IF ~(n - w - 1 < 0) /\ X(w) # Y(w)
                      THEN Memory!Signed(X(w)) - Memory!Signed(Y(w)) ELSE 0
  <2> HIDE DEF res, X, Y
  <2>1. CASE n - w - 1 < 0
    BY <1>10, <1>12, <2>1, Zenon
  <2>2. CASE ~(n - w - 1 < 0) /\ X(w) # Y(w)
    BY <1>10, <1>12, <2>2, Zenon
  <2>3. CASE ~(n - w - 1 < 0) /\ X(w) = Y(w)
    BY <1>10, <1>12, <2>3, Zenon
  <2> QED BY <2>1, <2>2, <2>3
<1> HIDE DEF res
<1> QED BY <1>5, <1>7, <1>8, <1>9, <1>11, <1>13

(* When bcmp says so, blocks differ in some place.                         *)
LEMMA BlocksDiffer ==
  ASSUME NEW m \in Window, NEW p \in Memory!Cells, NEW q \in Memory!Cells, NEW n \in Int,
         Memory!bcmp(m, p, q, n) # 0
  PROVE  \E k \in 0 .. n - 1 : Memory!At(m, p + k) # Memory!At(m, q + k)
<1> DEFINE X(k) == Memory!At(m, p + k)
           Y(k) == Memory!At(m, q + k)
           diff(k) == Memory!Signed(Memory!At(m, p + k + 1))
                        - Memory!Signed(Memory!At(m, q + k + 1))
           S == {k \in 0 .. n : k = n \/ X(k) # Y(k)}
           res == [k \in 0 .. n |-> IF k = n THEN 0 ELSE diff(k)]
           g == CHOOSE f : f = [k \in 0 .. n |->
                  IF k = n THEN 0 ELSE IF X(k) # Y(k) THEN diff(k) ELSE f[k + 1]]
<1>0. /\ n \in Nat /\ n > 0 /\ 0 \in 0 .. n
      /\ Memory!bcmp(m, p, q, n) = g[0]
  <2>1. p # 0 /\ q # 0
    BY DEF Memory!Cells
  <2>2. ~(n <= 0)
    BY DEF Memory!bcmp
  <2>3. Memory!bcmp(m, p, q, n) = g[0]
    BY <2>1, <2>2, Zenon DEF Memory!bcmp
  <2> HIDE DEF g
  <2> QED BY <2>2, <2>3
<1>1. n \in S /\ S \in SUBSET (0 .. n) /\ 0 \in Nat
  BY <1>0
<1>2. PICK h : Searches(h, 0, n, S, res)
  <2> HIDE DEF S, res
  <2> QED BY <1>0, <1>1, Searching
<1> HIDE DEF diff
<1>3. ASSUME NEW f
      PROVE  [k \in 0 .. n |-> IF k \in S THEN res[k] ELSE f[k + 1]] =
             [k \in 0 .. n |-> IF k = n THEN 0 ELSE IF X(k) # Y(k) THEN diff(k) ELSE f[k + 1]]
  OBVIOUS
<1>4. g = [k \in 0 .. n |-> IF k = n THEN 0 ELSE IF X(k) # Y(k) THEN diff(k) ELSE g[k + 1]]
  <2> HIDE DEF S, res, X, Y
  <2>1. h = [k \in 0 .. n |-> IF k = n THEN 0 ELSE IF X(k) # Y(k) THEN diff(k) ELSE h[k + 1]]
    BY <1>2, <1>3 DEF Searches
  <2> QED BY <2>1, Zenon
<1> HIDE DEF g
<1>6. Searches(g, 0, n, S, res)
  <2> HIDE DEF S, res, X, Y
  <2> QED BY <1>3, <1>4 DEF Searches
<1>7. PICK w \in 0 .. n : IsFirst(w, 0, S) /\ g[0] = res[w]
  <2> HIDE DEF S, res
  <2> QED BY <1>0, <1>1, <1>6, Searched
<1>8. w # n
  BY <1>0, <1>7
<1>9. w \in 0 .. n - 1 /\ X(w) # Y(w)
  BY <1>0, <1>7, <1>8 DEF IsFirst
<1> QED BY <1>9

(* Of texts that agree, what is cut from them does.                        *)
LEMMA CutsAgree ==
  ASSUME NEW x \in Text, NEW y \in Text, NEW w \in Nat, NEW n \in Int,
         w <= Len(x), w <= Len(y), \A k \in 1 .. w : x[k] = y[k],
         \A k \in 0 .. w - 1 : ~(n - k - 1 < 0),
         n - w - 1 < 0 \/ Agree(x, y, w)
  PROVE  /\ Agree(Memory!Cut(x, n), Memory!Cut(y, n), w)
         /\ n - w - 1 < 0 =>
              Memory!CharAt(Memory!Cut(x, n), w + 1) = Memory!CharAt(Memory!Cut(y, n), w + 1)
         /\ ~(n - w - 1 < 0) =>
              /\ Memory!CharAt(Memory!Cut(x, n), w + 1) = Memory!CharAt(x, w + 1)
              /\ Memory!CharAt(Memory!Cut(y, n), w + 1) = Memory!CharAt(y, w + 1)
<1> DEFINE X == Memory!Cut(x, n)
           Y == Memory!Cut(y, n)
<1>1. /\ X \in Text /\ Len(X) = (IF n < 0 THEN 0 ELSE IF n < Len(x) THEN n ELSE Len(x))
      /\ \A k \in 1 .. Len(X) : X[k] = x[k]
  BY CutIs
<1>2. /\ Y \in Text /\ Len(Y) = (IF n < 0 THEN 0 ELSE IF n < Len(y) THEN n ELSE Len(y))
      /\ \A k \in 1 .. Len(Y) : Y[k] = y[k]
  BY CutIs
<1>3. Len(x) \in Nat /\ Len(y) \in Nat
  BY TextIs
<1>4. w = 0 \/ w <= n
  <2> SUFFICES ASSUME w # 0 PROVE w <= n
    OBVIOUS
  <2>1. w - 1 \in 0 .. w - 1
    OBVIOUS
  <2> QED BY <2>1
<1> HIDE DEF X, Y
<1>5. w <= Len(X) /\ w <= Len(Y)
  BY <1>1, <1>2, <1>3, <1>4
<1>6. \A k \in 1 .. w : X[k] = Y[k]
  BY <1>1, <1>2, <1>3, <1>5
<1>7. CASE n - w - 1 < 0
  <2>1. w = Len(X) /\ w = Len(Y)
    BY <1>1, <1>2, <1>3, <1>4, <1>7
  <2>2. Memory!CharAt(X, w + 1) = 0 /\ Memory!CharAt(Y, w + 1) = 0
    BY <1>1, <1>2, <2>1, CharsAt
  <2>3. Agree(X, Y, w)
    BY <1>1, <1>2, <1>6, <2>1 DEF Agree
  <2> QED BY <1>7, <2>2, <2>3 DEF X, Y
<1>8. CASE ~(n - w - 1 < 0)
  <2>1. n >= w + 1
    BY <1>8
  <2>2. Memory!CharAt(X, w + 1) = Memory!CharAt(x, w + 1)
    <3>1. CASE w < Len(x)
      <4>1. w + 1 <= Len(X) /\ w + 1 \in 1 .. Len(X)
        BY <1>1, <1>3, <2>1, <3>1
      <4>2. Memory!CharAt(X, w + 1) = Memory!Signed(X[w + 1])
        BY <1>1, <1>3, <4>1, CharsAt
      <4>3. Memory!CharAt(x, w + 1) = Memory!Signed(x[w + 1])
        BY <1>3, <3>1, CharsAt
      <4> QED BY <1>1, <4>1, <4>2, <4>3
    <3>2. CASE w = Len(x)
      <4>1. w = Len(X)
        BY <1>1, <1>3, <2>1, <3>2
      <4>2. Memory!CharAt(X, w + 1) = 0
        BY <1>1, <4>1, CharsAt
      <4>3. Memory!CharAt(x, w + 1) = 0
        BY <3>2, CharsAt
      <4> QED BY <4>2, <4>3
    <3> QED BY <1>3, <3>1, <3>2
  <2>3. Memory!CharAt(Y, w + 1) = Memory!CharAt(y, w + 1)
    <3>1. CASE w < Len(y)
      <4>1. w + 1 <= Len(Y) /\ w + 1 \in 1 .. Len(Y)
        BY <1>2, <1>3, <2>1, <3>1
      <4>2. Memory!CharAt(Y, w + 1) = Memory!Signed(Y[w + 1])
        BY <1>2, <1>3, <4>1, CharsAt
      <4>3. Memory!CharAt(y, w + 1) = Memory!Signed(y[w + 1])
        BY <1>3, <3>1, CharsAt
      <4> QED BY <1>2, <4>1, <4>2, <4>3
    <3>2. CASE w = Len(y)
      <4>1. w = Len(Y)
        BY <1>2, <1>3, <2>1, <3>2
      <4>2. Memory!CharAt(Y, w + 1) = 0
        BY <1>2, <4>1, CharsAt
      <4>3. Memory!CharAt(y, w + 1) = 0
        BY <3>2, CharsAt
      <4> QED BY <4>2, <4>3
    <3> QED BY <1>3, <3>1, <3>2
  <2>4. Agree(X, Y, w)
    <3>1. \/ w = Len(x) /\ w = Len(y)
          \/ Memory!CharAt(x, w + 1) # Memory!CharAt(y, w + 1)
      BY <1>8 DEF Agree
    <3>2. w = Len(x) /\ w = Len(y) => w = Len(X) /\ w = Len(Y)
      BY <1>1, <1>2, <1>3, <2>1
    <3> QED BY <1>1, <1>2, <1>5, <1>6, <2>2, <2>3, <3>1, <3>2 DEF Agree
  <2> QED BY <1>8, <2>2, <2>3, <2>4 DEF X, Y
<1> QED BY <1>7, <1>8

(* The hypotheses of CutsAgree, and what it concludes.                     *)
CutsMeet(x, y, w, n) ==
  /\ x \in Text /\ y \in Text /\ w \in Nat /\ n \in Int
  /\ w <= Len(x) /\ w <= Len(y) /\ \A k \in 1 .. w : x[k] = y[k]
  /\ \A k \in 0 .. w - 1 : ~(n - k - 1 < 0)
  /\ n - w - 1 < 0 \/ Agree(x, y, w)

CutsMeeting(x, y, w, n) ==
  /\ Agree(Memory!Cut(x, n), Memory!Cut(y, n), w)
  /\ n - w - 1 < 0 =>
       Memory!CharAt(Memory!Cut(x, n), w + 1) = Memory!CharAt(Memory!Cut(y, n), w + 1)
  /\ ~(n - w - 1 < 0) =>
       /\ Memory!CharAt(Memory!Cut(x, n), w + 1) = Memory!CharAt(x, w + 1)
       /\ Memory!CharAt(Memory!Cut(y, n), w + 1) = Memory!CharAt(y, w + 1)

LEMMA CutsMeetIn ==
  ASSUME NEW x, NEW y, NEW w, NEW n, CutsMeet(x, y, w, n)
  PROVE  CutsMeeting(x, y, w, n)
BY CutsAgree DEF CutsMeet, CutsMeeting

(* The comparisons answer as the order of strings has it.                  *)
LEMMA OrderCompared == ASSUME Memory!TypeOK PROVE Memory!CompareIsOrder
<1>0. ram \in Window
  BY MemoryAssumption DEF Memory!TypeOK, Window
<1> SUFFICES ASSUME NEW p \in Memory!Cells, NEW q \in Memory!Cells
             PROVE  LET x == Memory!String(ram, p)
                        y == Memory!String(ram, q)
                        whole == Memory!strcmp(ram, p, q)
                    IN /\ whole.v0 = 0 <=> x = y
                       /\ whole.v0 < 0 <=> Memory!Precedes(x, y)
                       /\ whole.v1 = Memory!Common(x, y)
                       /\ x # y => Memory!At(ram, p + whole.moved) # Memory!At(ram, q + whole.moved)
                       /\ \A n \in Memory!Counts :
                            LET first == Memory!strncmp(ram, p, q, n)
                            IN /\ Memory!bcmp(ram, p, q, n) # 0 =>
                                    \E k \in 0 .. n - 1 : Memory!At(ram, p + k) # Memory!At(ram, q + k)
                               /\ first.v0 = 0 <=> Memory!Cut(x, n) = Memory!Cut(y, n)
                               /\ first.v0 < 0 <=> Memory!Precedes(Memory!Cut(x, n), Memory!Cut(y, n))
                               /\ first.moved = IF n < 0 THEN 0
                                                ELSE Memory!Common(Memory!Cut(x, n), Memory!Cut(y, n))
  BY DEF Memory!CompareIsOrder
<1> DEFINE x == Memory!String(ram, p)
           y == Memory!String(ram, q)
           whole == Memory!strcmp(ram, p, q)
<1>p. p \in Nat /\ q \in Nat
  BY DEF Memory!Cells
<1>1. /\ whole.v0 = 0 <=> x = y
      /\ whole.v0 < 0 <=> Memory!Precedes(x, y)
      /\ whole.v1 = Memory!Common(x, y)
      /\ x # y => Memory!At(ram, p + whole.moved) # Memory!At(ram, q + whole.moved)
  <2>1. PICK w \in 0 .. Size :
           /\ Same(ram, p, q, w) /\ Differ(ram, p, q, w)
           /\ whole =
                IF Memory!At(ram, p + w) # Memory!At(ram, q + w)
                THEN [v0 |-> Memory!Signed(Memory!At(ram, p + w))
                               - Memory!Signed(Memory!At(ram, q + w)),
                      v1 |-> w, moved |-> w]
                ELSE [v0 |-> 0, v1 |-> w, moved |-> w + 1]
    BY <1>0, ComparedIs
  <2> DEFINE b == Memory!At(ram, p + w)
             c == Memory!At(ram, q + w)
  <2>2. w \in Nat
    BY MemoryAssumption
  <2>3. Agree(x, y, w)
    BY <1>0, <2>1, <2>2, StringsAgree
  <2>4. /\ Memory!CharAt(x, w + 1) = Memory!Signed(b)
        /\ Memory!CharAt(y, w + 1) = Memory!Signed(c)
    BY <1>0, <2>1, <2>2, StringsReach
  <2>5. b \in 0 .. 255 /\ c \in 0 .. 255
    BY <1>0, <1>p, <2>2, AtType
  <2>6. /\ Memory!Signed(b) \in Int /\ Memory!Signed(c) \in Int
        /\ Memory!Signed(b) = Memory!Signed(c) <=> b = c
    BY <2>5, SignedIs
  <2>7. /\ x = y <=> Memory!Signed(b) = Memory!Signed(c)
        /\ Memory!Precedes(x, y) <=> Memory!Signed(b) < Memory!Signed(c)
        /\ Memory!Common(x, y) = w
    BY <2>3, <2>4, AgreeEqual, AgreePrecedes, AgreeCommon
  <2>8. /\ whole.v1 = w
        /\ b # c => whole.v0 = Memory!Signed(b) - Memory!Signed(c) /\ whole.moved = w
        /\ b = c => whole.v0 = 0
    BY <2>1
  <2> HIDE DEF x, y, whole
  <2>9. x # y => Memory!At(ram, p + whole.moved) # Memory!At(ram, q + whole.moved)
    <3> SUFFICES ASSUME b # c PROVE Memory!At(ram, p + whole.moved) # Memory!At(ram, q + whole.moved)
      BY <2>6, <2>7
    <3>1. whole.moved = w
      BY <2>8
    <3> QED BY <3>1
  <2> HIDE DEF b, c
  <2> QED BY <2>6, <2>7, <2>8, <2>9
<1>2. ASSUME NEW n \in Memory!Counts
      PROVE  LET first == Memory!strncmp(ram, p, q, n)
             IN /\ first.v0 = 0 <=> Memory!Cut(x, n) = Memory!Cut(y, n)
                /\ first.v0 < 0 <=> Memory!Precedes(Memory!Cut(x, n), Memory!Cut(y, n))
                /\ first.moved = IF n < 0 THEN 0
                                 ELSE Memory!Common(Memory!Cut(x, n), Memory!Cut(y, n))
  <2> DEFINE first == Memory!strncmp(ram, p, q, n)
             X == Memory!Cut(x, n)
             Y == Memory!Cut(y, n)
  <2>0. n \in Int
    BY DEF Memory!Counts
  <2>1. PICK w \in 0 .. Size :
           /\ Same(ram, p, q, w)
           /\ n - w - 1 < 0 \/ Differ(ram, p, q, w)
           /\ \A k \in 0 .. w - 1 : ~(n - k - 1 < 0)
           /\ first.moved = w
           /\ first.v0 =
                IF ~(n - w - 1 < 0) /\ Memory!At(ram, p + w) # Memory!At(ram, q + w)
                THEN Memory!Signed(Memory!At(ram, p + w)) - Memory!Signed(Memory!At(ram, q + w))
                ELSE 0
    BY <1>0, <2>0, FirstComparedIs
  <2> DEFINE b == Memory!At(ram, p + w)
             c == Memory!At(ram, q + w)
  <2>2. w \in Nat
    BY MemoryAssumption
  <2>3. /\ x \in Text /\ y \in Text /\ w <= Len(x) /\ w <= Len(y)
        /\ \A k \in 1 .. w : x[k] = y[k]
        /\ Memory!CharAt(x, w + 1) = Memory!Signed(b)
        /\ Memory!CharAt(y, w + 1) = Memory!Signed(c)
    BY <1>0, <2>1, <2>2, StringsReach
  <2>4. n - w - 1 < 0 \/ Agree(x, y, w)
    BY <1>0, <2>1, <2>2, StringsAgree
  <2>5. b \in 0 .. 255 /\ c \in 0 .. 255
    BY <1>0, <1>p, <2>2, AtType
  <2>6. /\ Memory!Signed(b) \in Int /\ Memory!Signed(c) \in Int
        /\ Memory!Signed(b) = Memory!Signed(c) <=> b = c
    <3> HIDE DEF b, c
    <3> QED BY <2>5, SignedIs
  <2> HIDE DEF x, y
  <2>7. /\ Agree(X, Y, w)
        /\ n - w - 1 < 0 => Memory!CharAt(X, w + 1) = Memory!CharAt(Y, w + 1)
        /\ ~(n - w - 1 < 0) =>
              /\ Memory!CharAt(X, w + 1) = Memory!CharAt(x, w + 1)
              /\ Memory!CharAt(Y, w + 1) = Memory!CharAt(y, w + 1)
    <3>1. CutsMeet(x, y, w, n)
      BY <2>0, <2>1, <2>2, <2>3, <2>4 DEF CutsMeet
    <3> QED BY <3>1, CutsMeetIn DEF CutsMeeting
  <2>8. /\ X = Y <=> Memory!CharAt(X, w + 1) = Memory!CharAt(Y, w + 1)
        /\ Memory!Precedes(X, Y) <=> Memory!CharAt(X, w + 1) < Memory!CharAt(Y, w + 1)
        /\ Memory!Common(X, Y) = w
    BY <2>7, AgreeEqual, AgreePrecedes, AgreeCommon
  <2>9. n < 0 => w = 0
    <3> SUFFICES ASSUME n < 0, w # 0 PROVE FALSE
      OBVIOUS
    <3>1. 0 \in 0 .. w - 1
      BY <2>2
    <3> QED BY <2>0, <2>1, <3>1
  <2> HIDE DEF first, X, Y, b, c
  <2>10. CASE n - w - 1 < 0
    <3>1. X \in Text /\ w \in 0 .. Len(X)
      BY <2>7 DEF Agree
    <3>2. Memory!CharAt(X, w + 1) \in Int
      BY <2>2, <3>1, TextIs, CharsAt
    <3>3. ~(Memory!CharAt(X, w + 1) < Memory!CharAt(Y, w + 1))
      BY <2>7, <2>10, <3>2
    <3>4. first.v0 = 0
      BY <2>1, <2>10
    <3> QED BY <2>1, <2>7, <2>8, <2>9, <2>10, <3>3, <3>4 DEF first, X, Y
  <2>11. CASE ~(n - w - 1 < 0)
    <3>1. Memory!CharAt(X, w + 1) = Memory!Signed(b) /\ Memory!CharAt(Y, w + 1) = Memory!Signed(c)
      BY <2>3, <2>7, <2>11
    <3>2. first.v0 = IF b # c THEN Memory!Signed(b) - Memory!Signed(c) ELSE 0
      BY <2>1, <2>11 DEF b, c
    <3>3. /\ first.v0 = 0 <=> b = c
          /\ first.v0 < 0 <=> Memory!Signed(b) < Memory!Signed(c)
      BY <2>6, <3>2
    <3> QED BY <2>1, <2>6, <2>8, <2>9, <3>1, <3>3 DEF first, X, Y
  <2> QED BY <2>10, <2>11
<1>3. ASSUME NEW n \in Memory!Counts, Memory!bcmp(ram, p, q, n) # 0
      PROVE  \E k \in 0 .. n - 1 : Memory!At(ram, p + k) # Memory!At(ram, q + k)
  <2>1. n \in Int
    BY DEF Memory!Counts
  <2> QED BY <1>0, <1>3, <2>1, BlocksDiffer
<1> HIDE DEF x, y, whole
<1> QED BY <1>1, <1>2, <1>3, Zenon DEF x, y, whole

(* The least and the greatest of a set are what they are.                  *)
LEMMA LeastIs ==
  ASSUME NEW S \in SUBSET Int, NEW w \in S, \A u \in S : w <= u
  PROVE  Memory!Least(S) = w
<1>1. \A v \in S : (\A u \in S : v <= u) => v = w
  OBVIOUS
<1> QED BY <1>1 DEF Memory!Least

LEMMA GreatestIs ==
  ASSUME NEW S \in SUBSET Int, NEW w \in S, \A u \in S : u <= w
  PROVE  Memory!Greatest(S) = w
<1>1. \A v \in S : (\A u \in S : u <= v) => v = w
  OBVIOUS
<1> QED BY <1>1 DEF Memory!Greatest

(* The places of character c in the string at p, its end included.         *)
PlacesOf(m, p, c) == {k \in p .. Memory!End(m, p) : Memory!Signed(Memory!At(m, k)) = c}

(* index finds the first place of a character,                             *)
LEMMA IndexIs ==
  ASSUME NEW m \in Window, NEW p \in Memory!Cells, NEW c
  PROVE  Memory!index(m, p, c) = Memory!Least(PlacesOf(m, p, c))
<1> DEFINE X(k) == Memory!At(m, k)
           s(k) == Memory!Signed(X(k))
           hi == Size + 1
           e == Memory!End(m, p)
           S == {k \in p .. hi : s(k) = c \/ X(k) = 0}
           res == [k \in p .. hi |-> IF s(k) = c THEN k ELSE 0]
           g == CHOOSE f : f = [k \in p .. hi |->
                  IF s(k) = c THEN k ELSE IF X(k) = 0 THEN 0 ELSE f[k + 1]]
<1>0. /\ hi \in Nat /\ p \in Nat /\ p \in p .. hi /\ p # 0
      /\ e \in p .. hi /\ X(e) = 0 /\ \A k \in p .. e - 1 : X(k) # 0
  <2>1. Size \in Nat /\ p \in 0 .. Size + 1 /\ p # 0 /\ p \in Nat
    BY MemoryAssumption DEF Memory!Cells
  <2> QED BY <2>1, EndIs
<1>1. hi \in S /\ S \in SUBSET (p .. hi)
  <2>1. hi \notin Memory!Cells
    BY MemoryAssumption DEF Memory!Cells
  <2>2. X(hi) = 0
    BY <1>0, <2>1, AtType
  <2> QED BY <1>0, <2>2
<1>2. PICK h : Searches(h, p, hi, S, res)
  <2> HIDE DEF hi, S, res
  <2> QED BY <1>0, <1>1, Searching
<1>3. ASSUME NEW f
      PROVE  [k \in p .. hi |-> IF k \in S THEN res[k] ELSE f[k + 1]] =
             [k \in p .. hi |-> IF s(k) = c THEN k ELSE IF X(k) = 0 THEN 0 ELSE f[k + 1]]
  OBVIOUS
<1>4. g = [k \in p .. hi |-> IF s(k) = c THEN k ELSE IF X(k) = 0 THEN 0 ELSE g[k + 1]]
  <2> HIDE DEF hi, S, res, s, X
  <2>1. h = [k \in p .. hi |-> IF s(k) = c THEN k ELSE IF X(k) = 0 THEN 0 ELSE h[k + 1]]
    BY <1>2, <1>3 DEF Searches
  <2> QED BY <2>1, Zenon
<1>5. Memory!index(m, p, c) = g[p]
  BY <1>0 DEF Memory!index
<1> HIDE DEF g
<1>6. Searches(g, p, hi, S, res)
  <2> HIDE DEF hi, S, res, s, X
  <2> QED BY <1>3, <1>4 DEF Searches
<1>7. PICK w \in p .. hi : IsFirst(w, p, S) /\ g[p] = res[w]
  <2> HIDE DEF hi, S, res
  <2> QED BY <1>0, <1>1, <1>6, Searched
<1>8. w \in S /\ \A k \in p .. hi : k < w => s(k) # c /\ X(k) # 0
  BY <1>7 DEF IsFirst
<1> DEFINE places == PlacesOf(m, p, c)
<1>9. places \in SUBSET Int /\ \A k : k \in places <=> k \in p .. e /\ s(k) = c
  BY <1>0 DEF PlacesOf
<1> HIDE DEF e, places
<1>10. w <= e
  BY <1>0, <1>7, <1>8
<1>11. CASE s(w) = c
  <2>1. w \in places
    BY <1>0, <1>9, <1>10, <1>11
  <2>2. \A k \in places : w <= k
    BY <1>0, <1>7, <1>8, <1>9
  <2>3. Memory!Least(places) = w
    BY <1>9, <2>1, <2>2, LeastIs
  <2> QED BY <1>5, <1>7, <1>11, <2>3 DEF places
<1>12. CASE s(w) # c
  <2>1. X(w) = 0
    BY <1>8, <1>12
  <2>2. w = e
    BY <1>0, <1>7, <1>10, <2>1
  <2>3. places = {}
    <3> SUFFICES ASSUME NEW k \in places PROVE FALSE
      OBVIOUS
    <3>1. k \in p .. e /\ s(k) = c
      BY <1>9
    <3>2. k < w
      BY <1>0, <1>12, <2>2, <3>1
    <3> QED BY <1>0, <1>8, <3>1, <3>2
  <2>4. Memory!Least(places) = 0
    BY <2>3 DEF Memory!Least
  <2> QED BY <1>5, <1>7, <1>12, <2>4 DEF places
<1> QED BY <1>11, <1>12

(* rindex the last one,                                                    *)
LEMMA LastIndexIs ==
  ASSUME NEW m \in Window, NEW p \in Memory!Cells, NEW c
  PROVE  Memory!rindex(m, p, c) = Memory!Greatest(PlacesOf(m, p, c))
<1> DEFINE s(k) == Memory!Signed(Memory!At(m, k))
           n == Memory!strlen(m, p) + 1
           g == CHOOSE f : f = [k \in 0 .. n |->
                  IF k = 0 THEN 0 ELSE IF s(p + k - 1) = c THEN p + k - 1 ELSE f[k - 1]]
           op == [k \in 1 .. n |-> [v \in Nat |-> IF s(p + k - 1) = c THEN p + k - 1 ELSE v]]
           Q(k) == {u \in p .. p + k - 1 : s(u) = c}
<1>0. /\ n \in Nat /\ p \in Nat /\ p # 0 /\ Memory!End(m, p) = p + n - 1
  <2>1. p \in 0 .. Size + 1 /\ p # 0 /\ p \in Nat
    BY MemoryAssumption DEF Memory!Cells
  <2>2. Memory!strlen(m, p) \in Nat /\ Memory!End(m, p) = p + Memory!strlen(m, p)
    BY <2>1, StringIs
  <2> QED BY <2>1, <2>2
<1>5. Memory!rindex(m, p, c) = g[n]
  BY <1>0 DEF Memory!rindex
<1> HIDE DEF n
<1>1. op \in [1 .. n -> [Nat -> Nat]]
  BY <1>0
<1>2. PICK h : Unfolds(h, n, Nat, 0, op)
  <2> HIDE DEF op
  <2> QED BY <1>0, <1>1, Unfolding
<1>3. h = [k \in 0 .. n |-> IF k = 0 THEN 0 ELSE IF s(p + k - 1) = c THEN p + k - 1 ELSE h[k - 1]]
  <2>1. \A k \in 1 .. n : h[k - 1] \in Nat
    <3>1. \A k \in 1 .. n : k - 1 \in 0 .. n
      BY <1>0
    <3> HIDE DEF op
    <3> QED BY <1>2, <3>1 DEF Unfolds
  <2>2. \A k \in 1 .. n : op[k][h[k - 1]] = IF s(p + k - 1) = c THEN p + k - 1 ELSE h[k - 1]
    BY <1>0, <2>1
  <2>3. \A k \in 0 .. n : k = 0 \/ k \in 1 .. n
    BY <1>0
  <2> HIDE DEF op, s
  <2>4. [k \in 0 .. n |-> IF k = 0 THEN 0 ELSE op[k][h[k - 1]]] =
        [k \in 0 .. n |-> IF k = 0 THEN 0 ELSE IF s(p + k - 1) = c THEN p + k - 1 ELSE h[k - 1]]
    BY <2>2, <2>3
  <2> QED BY <1>2, <2>4 DEF Unfolds
<1>4. g = [k \in 0 .. n |-> IF k = 0 THEN 0 ELSE IF s(p + k - 1) = c THEN p + k - 1 ELSE g[k - 1]]
  <2> HIDE DEF s
  <2> QED BY <1>3, Zenon
<1> HIDE DEF g, s
<1> DEFINE T == {k \in Nat : g[k] = Memory!Greatest(Q(k))}
<1>6. 0 \in T
  <2>1. Q(0) = {}
    BY <1>0
  <2>2. g[0] = 0
    BY <1>0, <1>4
  <2> QED BY <2>1, <2>2 DEF Memory!Greatest
<1>7. ASSUME NEW k \in 1 .. n, k - 1 \in T PROVE k \in T
  <2>1. g[k] = IF s(p + k - 1) = c THEN p + k - 1 ELSE g[k - 1]
    <3>1. k \in 0 .. n /\ k # 0
      BY <1>0
    <3> QED BY <1>4, <3>1
  <2>2. CASE s(p + k - 1) = c
    <3>1. p + k - 1 \in Q(k) /\ Q(k) \in SUBSET Int /\ \A u \in Q(k) : u <= p + k - 1
      BY <1>0, <2>2
    <3>2. Memory!Greatest(Q(k)) = p + k - 1
      <4> HIDE DEF Q
      <4> QED BY <3>1, GreatestIs
    <3> QED BY <2>1, <2>2, <3>2
  <2>3. CASE s(p + k - 1) # c
    <3>1. Q(k) = Q(k - 1)
      BY <1>0, <2>3
    <3> QED BY <1>7, <2>1, <2>3, <3>1
  <2> QED BY <2>2, <2>3
<1>8. n \in T
  <2> HIDE DEF T
  <2>1. \A k \in 0 .. n : k \in T
    BY <1>0, <1>6, <1>7, UpTo
  <2> QED BY <1>0, <2>1
<1>9. Q(n) = PlacesOf(m, p, c)
  BY <1>0 DEF PlacesOf, s
<1> QED BY <1>5, <1>8, <1>9

(* and memchr the first one of a block.                                    *)
LEMMA BlockIndexIs ==
  ASSUME NEW m \in Window, NEW p \in Memory!Cells, NEW c \in Int, NEW n \in Nat
  PROVE  Memory!memchr(m, p, c, n)
           = Memory!Least({k \in p .. p + n - 1 : Memory!At(m, k) = c % 256})
<1> DEFINE s(k) == Memory!Signed(Memory!At(m, p + k))
           t == Memory!Signed(c % 256)
           S == {k \in 0 .. n : k = n \/ s(k) = t}
           res == [k \in 0 .. n |-> IF k = n THEN 0 ELSE p + k]
           g == CHOOSE f : f = [k \in 0 .. n |->
                  IF k = n THEN 0 ELSE IF s(k) = t THEN p + k ELSE f[k + 1]]
           Q == {k \in p .. p + n - 1 : Memory!At(m, k) = c % 256}
<1>0. p \in Nat /\ p # 0 /\ ~(n < 0) /\ 0 \in 0 .. n /\ 0 \in Nat
  BY DEF Memory!Cells
<1>5. Memory!memchr(m, p, c, n) = g[0]
  BY <1>0 DEF Memory!memchr
<1>1. n \in S /\ S \in SUBSET (0 .. n)
  BY <1>0
<1>2. PICK h : Searches(h, 0, n, S, res)
  <2> HIDE DEF S, res
  <2> QED BY <1>0, <1>1, Searching
<1>3. ASSUME NEW f
      PROVE  [k \in 0 .. n |-> IF k \in S THEN res[k] ELSE f[k + 1]] =
             [k \in 0 .. n |-> IF k = n THEN 0 ELSE IF s(k) = t THEN p + k ELSE f[k + 1]]
  <2> HIDE DEF s, t
  <2> QED OBVIOUS
<1>4. g = [k \in 0 .. n |-> IF k = n THEN 0 ELSE IF s(k) = t THEN p + k ELSE g[k + 1]]
  <2> HIDE DEF S, res, s, t
  <2>1. h = [k \in 0 .. n |-> IF k = n THEN 0 ELSE IF s(k) = t THEN p + k ELSE h[k + 1]]
    BY <1>2, <1>3 DEF Searches
  <2> QED BY <2>1, Zenon
<1> HIDE DEF g
<1>6. Searches(g, 0, n, S, res)
  <2> HIDE DEF S, res, s, t
  <2> QED BY <1>3, <1>4 DEF Searches
<1>7. PICK w \in 0 .. n : IsFirst(w, 0, S) /\ g[0] = res[w]
  <2> HIDE DEF S, res, s, t
  <2>1. \A k \in 0 .. n : \E w \in k .. n : IsFirst(w, k, S) /\ g[k] = res[w]
    BY <1>0, <1>1, <1>6, Searched
  <2> QED BY <1>0, <2>1
<1>8. ASSUME NEW k \in 0 .. n - 1 PROVE s(k) = t <=> p + k \in Q
  <2>1. Memory!At(m, p + k) \in 0 .. 255 /\ c % 256 \in 0 .. 255
    BY <1>0, AtType
  <2>2. s(k) = t <=> Memory!At(m, p + k) = c % 256
    <3> DEFINE b == Memory!At(m, p + k)
               d == c % 256
    <3>1. b \in 0 .. 255 /\ d \in 0 .. 255
      BY <2>1
    <3> HIDE DEF b, d
    <3>2. Memory!Signed(b) = Memory!Signed(d) <=> b = d
      BY <3>1, SignedIs
    <3> QED BY <3>2 DEF b, d
  <2>3. p + k \in p .. p + n - 1
    BY <1>0
  <2> QED BY <2>2, <2>3
<1>9. \A u \in Q : u - p \in 0 .. n - 1 /\ p + (u - p) = u
  BY <1>0
<1>10. Q \in SUBSET Int
  BY <1>0
<1> HIDE DEF s, t, Q
<1>11. \A u \in Q : w <= u - p
  <2> TAKE u \in Q
  <2>1. u - p \in 0 .. n /\ s(u - p) = t
    BY <1>0, <1>8, <1>9
  <2> QED BY <1>0, <1>7, <2>1 DEF IsFirst
<1>12. CASE w = n
  <2>1. Q = {}
    BY <1>0, <1>9, <1>11, <1>12
  <2> QED BY <1>5, <1>7, <1>12, <2>1 DEF Memory!Least, Q
<1>13. CASE w # n
  <2>1. w \in 0 .. n - 1 /\ s(w) = t
    BY <1>7, <1>13 DEF IsFirst
  <2>2. p + w \in Q
    BY <1>8, <2>1
  <2>3. \A u \in Q : p + w <= u
    BY <1>0, <1>9, <1>10, <1>11
  <2>4. Memory!Least(Q) = p + w
    BY <1>10, <2>2, <2>3, LeastIs
  <2> QED BY <1>5, <1>7, <1>13, <2>4 DEF Q
<1> QED BY <1>12, <1>13

(* The characters of a text.                                               *)
CharsOf(y) == {y[k] : k \in DOMAIN y}

(* A list of characters is read as those of its string.                    *)
LEMMA CharactersAre ==
  ASSUME NEW m \in Window, NEW q \in Memory!Cells
  PROVE  /\ Memory!Characters(m, q) = CharsOf(Memory!String(m, q))
         /\ Memory!Characters(m, q) \subseteq 1 .. 255
<1> DEFINE n == Memory!strlen(m, q)
           y == Memory!String(m, q)
<1>1. /\ n \in Nat /\ q \in Nat /\ Memory!End(m, q) = q + n
      /\ \A k \in 0 .. n - 1 : Memory!At(m, q + k) \in 1 .. 255
      /\ y = [k \in 1 .. n |-> Memory!At(m, q + k - 1)]
  <2>1. q \in 0 .. Size + 1 /\ q \in Nat
    BY MemoryAssumption DEF Memory!Cells
  <2>2. StringAt(m, q, n, y)
    BY <2>1, StringFound
  <2> HIDE DEF n, y
  <2> QED BY <2>1, <2>2 DEF StringAt
<1> HIDE DEF n, y
<1>2. ASSUME NEW k \in q .. Memory!End(m, q) - 1
      PROVE  /\ k - q + 1 \in 1 .. n /\ q + (k - q + 1) - 1 = k
             /\ k - q \in 0 .. n - 1 /\ q + (k - q) = k
  BY <1>1
<1>3. ASSUME NEW k \in 1 .. n
      PROVE  q + k - 1 \in q .. Memory!End(m, q) - 1
  BY <1>1
<1>4. Memory!Characters(m, q) \subseteq CharsOf(y)
  <2> SUFFICES ASSUME NEW k \in q .. Memory!End(m, q) - 1
               PROVE  Memory!At(m, k) \in CharsOf(y)
    BY DEF Memory!Characters
  <2>1. k - q + 1 \in DOMAIN y /\ y[k - q + 1] = Memory!At(m, k)
    BY <1>1, <1>2
  <2> QED BY <2>1 DEF CharsOf
<1>5. CharsOf(y) \subseteq Memory!Characters(m, q)
  <2> SUFFICES ASSUME NEW k \in DOMAIN y PROVE y[k] \in Memory!Characters(m, q)
    BY DEF CharsOf
  <2>1. k \in 1 .. n /\ y[k] = Memory!At(m, q + k - 1)
    BY <1>1
  <2> QED BY <1>3, <2>1 DEF Memory!Characters
<1>6. Memory!Characters(m, q) \subseteq 1 .. 255
  <2> SUFFICES ASSUME NEW k \in q .. Memory!End(m, q) - 1
               PROVE  Memory!At(m, k) \in 1 .. 255
    BY DEF Memory!Characters
  <2>1. Memory!At(m, q + (k - q)) \in 1 .. 255
    BY <1>1, <1>2
  <2> QED BY <1>2, <2>1
<1> QED BY <1>4, <1>5, <1>6 DEF y

(* A run of some bytes ends in the string or where that ends.              *)
LEMMA SpanIs ==
  ASSUME NEW m \in Window, NEW p \in Memory!Cells, NEW bytes, 0 \notin bytes
  PROVE  LET x == Memory!String(m, p)
         IN /\ x \in Text
            /\ \E w \in 1 .. Len(x) + 1 :
                 /\ Memory!Behind(m, p, bytes) = p + w - 1
                 /\ \A k \in 1 .. w - 1 : x[k] \in bytes
                 /\ w <= Len(x) => x[w] \notin bytes /\ x[w] = Memory!At(m, p + w - 1)
                                   /\ Memory!At(m, p + w - 1) # 0
                 /\ w = Len(x) + 1 => Memory!At(m, p + w - 1) = 0
<1> DEFINE x == Memory!String(m, p)
           n == Memory!strlen(m, p)
           b == Memory!Behind(m, p, bytes)
           w == b - p + 1
<1>0. p \in 0 .. Size + 1 /\ p \in Nat /\ Size + 1 \in Nat
  BY MemoryAssumption DEF Memory!Cells
<1>1. /\ b \in p .. Size + 1 /\ Memory!At(m, b) \notin bytes
      /\ \A k \in p .. b - 1 : Memory!At(m, k) \in bytes
  BY <1>0, BehindIs
<1>2. /\ n \in Nat /\ Memory!At(m, p + n) = 0
      /\ \A k \in 0 .. n - 1 : Memory!At(m, p + k) \in 1 .. 255
      /\ x = [k \in 1 .. n |-> Memory!At(m, p + k - 1)]
      /\ x \in Seq(1 .. 255) /\ Len(x) = n
  <2>1. StringAt(m, p, n, x)
    BY <1>0, StringFound
  <2> HIDE DEF n, x
  <2> QED BY <2>1 DEF StringAt
<1> HIDE DEF x, n, b
<1>3. b <= p + n
  <2> SUFFICES ASSUME p + n < b PROVE FALSE
    BY <1>0, <1>1, <1>2
  <2>1. p + n \in p .. b - 1
    BY <1>0, <1>1, <1>2
  <2> QED BY <1>1, <1>2, <2>1
<1>4. w \in 1 .. n + 1 /\ b = p + w - 1 /\ b \in Nat
  BY <1>0, <1>1, <1>2, <1>3
<1>5. ASSUME NEW k \in 1 .. w - 1 PROVE x[k] \in bytes
  <2>1. k \in 1 .. n /\ p + k - 1 \in p .. b - 1
    BY <1>0, <1>2, <1>4
  <2> QED BY <1>1, <1>2, <2>1
<1>6. ASSUME w <= n
      PROVE  x[w] \notin bytes /\ x[w] = Memory!At(m, p + w - 1) /\ Memory!At(m, p + w - 1) # 0
  <2>1. w \in 1 .. n /\ w - 1 \in 0 .. n - 1 /\ p + (w - 1) = p + w - 1
    BY <1>0, <1>2, <1>4, <1>6
  <2>2. x[w] = Memory!At(m, p + w - 1)
    BY <1>2, <2>1
  <2>3. Memory!At(m, p + (w - 1)) \in 1 .. 255
    BY <1>2, <2>1
  <2> QED BY <1>1, <1>4, <2>1, <2>2, <2>3
<1>7. w = n + 1 => Memory!At(m, p + w - 1) = 0
  <2> SUFFICES ASSUME w = n + 1 PROVE Memory!At(m, p + w - 1) = 0
    OBVIOUS
  <2>1. p + w - 1 = p + n
    BY <1>0, <1>2, <1>4
  <2> QED BY <1>2, <2>1
<1> HIDE DEF w
<1>8. x \in Text
  BY <1>2 DEF Text
<1>9. w \in 1 .. Len(x) + 1 /\ Len(x) = n
  BY <1>2, <1>4
<1>10. \E u \in 1 .. Len(x) + 1 :
         /\ b = p + u - 1
         /\ \A k \in 1 .. u - 1 : x[k] \in bytes
         /\ u <= Len(x) => x[u] \notin bytes /\ x[u] = Memory!At(m, p + u - 1)
                           /\ Memory!At(m, p + u - 1) # 0
         /\ u = Len(x) + 1 => Memory!At(m, p + u - 1) = 0
  BY <1>4, <1>5, <1>6, <1>7, <1>9
<1> QED BY <1>8, <1>10 DEF x, b

(* Where the strings at p and q are the same as far as that at q goes.     *)
LEMMA PrefixIs ==
  ASSUME NEW m \in Window, NEW p \in Memory!Cells, NEW q \in Memory!Cells
  PROVE  Memory!Prefix(m, p, q)
           <=> Memory!Cut(Memory!String(m, p), Len(Memory!String(m, q))) = Memory!String(m, q)
<1> DEFINE X(k) == Memory!At(m, p + k)
           Y(k) == Memory!At(m, q + k)
           S == {k \in 0 .. Size : ~(Y(k) # 0 /\ X(k) = Y(k))}
           res == [k \in 0 .. Size |-> k]
           g == CHOOSE f : f = [k \in 0 .. Size |->
                  IF Y(k) # 0 /\ X(k) = Y(k) THEN f[k + 1] ELSE k]
<1>0. Size \in Nat /\ p \in Nat /\ q \in Nat
  BY MemoryAssumption DEF Memory!Cells
<1>1. /\ Size \in S /\ 0 \in Nat /\ 0 \in 0 .. Size /\ S \in SUBSET (0 .. Size)
  <2>1. q + Size \in Int /\ q + Size \notin Memory!Cells
    BY <1>0 DEF Memory!Cells
  <2>2. Memory!At(m, q + Size) = 0
    BY <2>1, AtType
  <2> QED BY <1>0, <2>2
<1>2. PICK h : Searches(h, 0, Size, S, res)
  <2> HIDE DEF S, res
  <2> QED BY <1>0, <1>1, Searching
<1>3. ASSUME NEW f
      PROVE  [k \in 0 .. Size |-> IF k \in S THEN res[k] ELSE f[k + 1]] =
             [k \in 0 .. Size |-> IF Y(k) # 0 /\ X(k) = Y(k) THEN f[k + 1] ELSE k]
  <2> HIDE DEF X, Y
  <2> QED OBVIOUS
<1>4. g = [k \in 0 .. Size |-> IF Y(k) # 0 /\ X(k) = Y(k) THEN g[k + 1] ELSE k]
  <2> HIDE DEF S, res, X, Y
  <2>1. h = [k \in 0 .. Size |-> IF Y(k) # 0 /\ X(k) = Y(k) THEN h[k + 1] ELSE k]
    BY <1>2, <1>3 DEF Searches
  <2> QED BY <2>1, Zenon
<1>5. Memory!Prefix(m, p, q) <=> Memory!At(m, q + g[0]) = 0
  BY DEF Memory!Prefix
<1> HIDE DEF g
<1>6. Searches(g, 0, Size, S, res)
  <2> HIDE DEF S, res, X, Y
  <2> QED BY <1>3, <1>4 DEF Searches
<1>7. PICK w \in 0 .. Size : IsFirst(w, 0, S) /\ g[0] = res[w]
  <2> HIDE DEF S, res, X, Y
  <2>1. \A k \in 0 .. Size : \E w \in k .. Size : IsFirst(w, k, S) /\ g[k] = res[w]
    BY <1>0, <1>1, <1>6, Searched
  <2> QED BY <1>1, <2>1
<1>8. w \in Nat /\ g[0] = w
  BY <1>0, <1>7
<1>9. ~(Y(w) # 0 /\ X(w) = Y(w))
  BY <1>7 DEF IsFirst
<1>10. ASSUME NEW k \in 0 .. w - 1 PROVE X(k) = Y(k) /\ Y(k) # 0
  <2>1. k \in 0 .. Size /\ k \notin S
    BY <1>0, <1>7 DEF IsFirst
  <2> QED BY <2>1
<1>11. Same(m, p, q, w)
  BY <1>10 DEF Same
<1> DEFINE z == Memory!String(m, p)
           y == Memory!String(m, q)
<1>12. /\ z \in Text /\ y \in Text /\ w <= Len(z) /\ w <= Len(y)
       /\ \A k \in 1 .. w : z[k] = y[k]
       /\ Memory!CharAt(z, w + 1) = Memory!Signed(X(w))
       /\ Memory!CharAt(y, w + 1) = Memory!Signed(Y(w))
  BY <1>8, <1>11, StringsReach
<1>13. X(w) \in 0 .. 255 /\ Y(w) \in 0 .. 255
  BY <1>0, <1>8, AtType
<1> HIDE DEF X, Y, S, res, z, y
<1>14. Len(z) \in Nat /\ Len(y) \in Nat
  BY <1>12, TextIs
<1>15. CASE Y(w) = 0
  <2>1. w = Len(y)
    <3>0. Memory!Signed(0) = 0
      BY DEF Memory!Signed
    <3>1. Memory!CharAt(y, w + 1) = 0
      BY <1>12, <1>15, <3>0
    <3> QED BY <1>8, <1>12, <1>14, <3>1, CharsAt
  <2> DEFINE c == Memory!Cut(z, w)
  <2>2. c \in Text /\ Len(c) = w /\ \A k \in 1 .. w : c[k] = z[k]
    BY <1>8, <1>12, <1>14, CutIs
  <2> HIDE DEF c
  <2>3. c \in Seq(1 .. 255) /\ y \in Seq(1 .. 255) /\ Len(c) = Len(y)
        /\ \A k \in 1 .. Len(c) : c[k] = y[k]
    BY <1>12, <2>1, <2>2 DEF Text
  <2>4. c = y
    BY <2>3, SeqEqual
  <2> QED BY <1>5, <1>8, <1>15, <2>1, <2>4 DEF c, y, z, Y
<1>16. CASE Y(w) # 0
  <2>1. X(w) # Y(w)
    BY <1>9, <1>16
  <2>2. Memory!CharAt(z, w + 1) # Memory!CharAt(y, w + 1)
    <3> DEFINE b == X(w)
               c == Y(w)
    <3>1. b \in 0 .. 255 /\ c \in 0 .. 255 /\ b # c
      BY <1>13, <2>1
    <3> HIDE DEF b, c
    <3>2. Memory!Signed(b) # Memory!Signed(c)
      BY <3>1, SignedIs
    <3> QED BY <1>12, <3>2 DEF b, c
  <2>3. w < Len(y)
    <3>1. Memory!Signed(Y(w)) # 0
      BY <1>13, <1>16, SignedIs
    <3> SUFFICES ASSUME w = Len(y) PROVE FALSE
      BY <1>8, <1>12, <1>14
    <3>2. Memory!CharAt(y, w + 1) = 0
      BY <1>8, <1>12, CharsAt
    <3> QED BY <1>12, <3>1, <3>2
  <2> DEFINE c == Memory!Cut(z, Len(y))
  <2>4. ASSUME c = y PROVE FALSE
    <3>1. /\ Len(c) = (IF Len(y) < 0 THEN 0 ELSE IF Len(y) < Len(z) THEN Len(y) ELSE Len(z))
          /\ \A k \in 1 .. Len(c) : c[k] = z[k]
      BY <1>12, <1>14, CutIs
    <3> HIDE DEF c
    <3>2. Len(y) <= Len(z) /\ w + 1 \in 1 .. Len(c)
      BY <1>8, <1>14, <2>3, <2>4, <3>1
    <3>3. z[w + 1] = y[w + 1]
      BY <2>4, <3>1, <3>2
    <3>4. Memory!CharAt(z, w + 1) = Memory!Signed(z[w + 1])
      BY <1>8, <1>12, <1>14, <2>3, <3>2, CharsAt
    <3>5. Memory!CharAt(y, w + 1) = Memory!Signed(y[w + 1])
      BY <1>8, <1>12, <1>14, <2>3, CharsAt
    <3> QED BY <2>2, <3>3, <3>4, <3>5
  <2> QED BY <1>5, <1>8, <1>16, <2>4 DEF y, z, Y
<1> QED BY <1>15, <1>16

(* The characters of x that are none of chars.                             *)
OthersIn(x, chars) == {k \in DOMAIN x : x[k] \notin chars}

(* strspn counts the characters up to the first other one.                 *)
LEMMA SpnIs ==
  ASSUME NEW m \in Window, NEW p \in Memory!Cells, NEW q \in Memory!Cells
  PROVE  LET x == Memory!String(m, p)
             others == OthersIn(x, CharsOf(Memory!String(m, q)))
         IN /\ Memory!strspn(m, p, q) = Memory!Least(others \cup {Len(x) + 1}) - 1
            /\ p + Memory!strspn(m, p, q) \in p .. Size + 1
            /\ Memory!At(m, p + Memory!strspn(m, p, q)) = 0 <=> others = {}
            /\ Memory!At(m, p + Memory!strspn(m, p, q)) # 0 =>
                 /\ p + Memory!strspn(m, p, q) = p + Memory!Least(others) - 1
                 /\ Memory!At(m, p + Memory!strspn(m, p, q))
                      \notin CharsOf(Memory!String(m, q))
<1> DEFINE x == Memory!String(m, p)
           chars == Memory!Characters(m, q)
           others == OthersIn(x, chars)
           b == Memory!Behind(m, p, chars)
<1>0. p \in 0 .. Size + 1 /\ p \in Nat /\ Size \in Nat
  BY MemoryAssumption DEF Memory!Cells
<1>1. chars = CharsOf(Memory!String(m, q)) /\ chars \subseteq 1 .. 255 /\ 0 \notin chars
  BY CharactersAre
<1>2. /\ x \in Text
      /\ \E w \in 1 .. Len(x) + 1 :
           /\ b = p + w - 1
           /\ \A k \in 1 .. w - 1 : x[k] \in chars
           /\ w <= Len(x) => x[w] \notin chars /\ x[w] = Memory!At(m, p + w - 1)
                             /\ Memory!At(m, p + w - 1) # 0
           /\ w = Len(x) + 1 => Memory!At(m, p + w - 1) = 0
  BY <1>1, SpanIs
<1>3. PICK w \in 1 .. Len(x) + 1 :
           /\ b = p + w - 1
           /\ \A k \in 1 .. w - 1 : x[k] \in chars
           /\ w <= Len(x) => x[w] \notin chars /\ x[w] = Memory!At(m, p + w - 1)
                             /\ Memory!At(m, p + w - 1) # 0
           /\ w = Len(x) + 1 => Memory!At(m, p + w - 1) = 0
  BY <1>2
<1>4. b \in p .. Size + 1
  BY <1>0, <1>1, BehindIs
<1>5. Memory!strspn(m, p, q) = b - p
  BY DEF Memory!strspn
<1>6. Len(x) \in Nat /\ DOMAIN x = 1 .. Len(x)
  BY <1>2, TextIs
<1>7. others = {k \in 1 .. Len(x) : x[k] \notin chars}
  BY <1>6 DEF OthersIn
<1> HIDE DEF x, chars, others, b
<1>8. w \in Nat /\ b - p = w - 1 /\ p + (b - p) = b
  BY <1>0, <1>3, <1>6
<1>9. Memory!Least(others \cup {Len(x) + 1}) = w
  <2> DEFINE T == others \cup {Len(x) + 1}
  <2>1. T \in SUBSET Int /\ w \in T
    BY <1>3, <1>6, <1>7
  <2>2. \A u \in T : w <= u
    BY <1>3, <1>6, <1>7, <1>8
  <2> HIDE DEF T
  <2>3. Memory!Least(T) = w
    BY <2>1, <2>2, LeastIs
  <2> QED BY <2>3 DEF T
<1>10. CASE w = Len(x) + 1
  <2>1. others = {}
    BY <1>3, <1>6, <1>7, <1>10
  <2>2. Memory!At(m, b) = 0
    BY <1>3, <1>10
  <2> QED BY <1>1, <1>4, <1>5, <1>8, <1>9, <2>1, <2>2 DEF x, others, chars
<1>11. CASE w <= Len(x)
  <2>1. w \in others /\ others \in SUBSET Int /\ \A u \in others : w <= u
    BY <1>3, <1>6, <1>7, <1>8, <1>11
  <2>2. Memory!Least(others) = w
    BY <2>1, LeastIs
  <2>3. Memory!At(m, b) # 0 /\ Memory!At(m, b) \notin chars
    BY <1>3, <1>11
  <2> QED BY <1>1, <1>3, <1>4, <1>5, <1>8, <1>9, <2>1, <2>2, <2>3 DEF x, others, chars
<1> QED BY <1>3, <1>6, <1>8, <1>10, <1>11

(* strpbrk finds the first character of the list, or answers its string.   *)
LEMMA PbrkIs ==
  ASSUME NEW m \in Window, NEW p \in Memory!Cells, NEW q \in Memory!Cells
  PROVE  LET x == Memory!String(m, p)
             others == OthersIn(x, CharsOf(Memory!String(m, q)))
         IN Memory!strpbrk(m, p, q)
              = IF others = DOMAIN x THEN p ELSE p + Memory!Least(DOMAIN x \ others) - 1
<1> DEFINE x == Memory!String(m, p)
           chars == Memory!Characters(m, q)
           bytes == (1 .. 255) \ chars
           others == OthersIn(x, chars)
           b == Memory!Behind(m, p, bytes)
<1>0. p \in 0 .. Size + 1 /\ p \in Nat /\ Size \in Nat
  BY MemoryAssumption DEF Memory!Cells
<1>1. chars = CharsOf(Memory!String(m, q)) /\ 0 \notin bytes
  BY CharactersAre
<1> HIDE DEF bytes
<1>2. /\ x \in Text
      /\ \E w \in 1 .. Len(x) + 1 :
           /\ b = p + w - 1
           /\ \A k \in 1 .. w - 1 : x[k] \in bytes
           /\ w <= Len(x) => x[w] \notin bytes /\ x[w] = Memory!At(m, p + w - 1)
                             /\ Memory!At(m, p + w - 1) # 0
           /\ w = Len(x) + 1 => Memory!At(m, p + w - 1) = 0
  BY <1>1, SpanIs
<1>3. PICK w \in 1 .. Len(x) + 1 :
           /\ b = p + w - 1
           /\ \A k \in 1 .. w - 1 : x[k] \in bytes
           /\ w <= Len(x) => x[w] \notin bytes /\ x[w] = Memory!At(m, p + w - 1)
                             /\ Memory!At(m, p + w - 1) # 0
           /\ w = Len(x) + 1 => Memory!At(m, p + w - 1) = 0
  BY <1>2
<1>4. b \in p .. Size + 1
  BY <1>0, <1>1, BehindIs
<1>5. /\ Len(x) \in Nat /\ DOMAIN x = 1 .. Len(x)
      /\ \A k \in 1 .. Len(x) : x[k] \in 1 .. 255
  BY <1>2, TextIs
<1>6. /\ others \subseteq 1 .. Len(x)
      /\ \A k \in 1 .. Len(x) : k \in others <=> x[k] \in bytes
  <2> HIDE DEF x, chars
  <2>1. others = {k \in 1 .. Len(x) : x[k] \notin chars}
    BY <1>5 DEF OthersIn
  <2> HIDE DEF others
  <2> QED BY <1>5, <2>1 DEF bytes
<1>7. Memory!strpbrk(m, p, q) = IF Memory!At(m, p + (b - p)) = 0 THEN p ELSE p + (b - p)
  BY DEF Memory!strpbrk, Memory!strcspn, bytes
<1> HIDE DEF x, chars, others, b, bytes
<1>8. w \in Nat /\ p + (b - p) = b /\ b \in Nat
  BY <1>0, <1>3, <1>4, <1>5
<1>9. CASE w = Len(x) + 1
  <2>1. others = DOMAIN x
    <3>1. \A k \in 1 .. Len(x) : k \in 1 .. w - 1
      BY <1>5, <1>8, <1>9
    <3> QED BY <1>3, <1>5, <1>6, <3>1
  <2>2. Memory!At(m, b) = 0
    BY <1>3, <1>9
  <2> QED BY <1>1, <1>7, <1>8, <2>1, <2>2 DEF x, others, chars
<1>10. CASE w <= Len(x)
  <2> DEFINE T == DOMAIN x \ others
  <2>1. T \in SUBSET Int /\ w \in T /\ \A u \in T : w <= u
    BY <1>3, <1>5, <1>6, <1>8, <1>10
  <2>2. others # DOMAIN x
    BY <2>1
  <2> HIDE DEF T
  <2>3. Memory!Least(T) = w
    BY <2>1, LeastIs
  <2>4. Memory!At(m, b) # 0
    BY <1>3, <1>10
  <2> QED BY <1>1, <1>3, <1>7, <1>8, <2>2, <2>3, <2>4 DEF x, others, chars, T
<1> QED BY <1>3, <1>5, <1>8, <1>9, <1>10

(* strstr finds the first place where the other string is.                 *)
LEMMA StrstrIs ==
  ASSUME NEW m \in Window, NEW p \in Memory!Cells, NEW q \in Memory!Cells
  PROVE  LET y == Memory!String(m, q)
         IN Memory!strstr(m, p, q)
              = Memory!Least({k \in p .. Memory!End(m, p) - 1 :
                                Memory!Cut(Memory!String(m, k), Len(y)) = y})
<1> DEFINE X(k) == Memory!At(m, k)
           B(k) == Memory!Prefix(m, k, q)
           y == Memory!String(m, q)
           hi == Size + 1
           e == Memory!End(m, p)
           Q == {k \in p .. e - 1 : Memory!Cut(Memory!String(m, k), Len(y)) = y}
           S == {k \in p .. hi : X(k) = 0 \/ B(k)}
           res == [k \in p .. hi |-> IF X(k) = 0 THEN 0 ELSE k]
           g == CHOOSE f : f = [k \in p .. hi |->
                  IF X(k) = 0 THEN 0 ELSE IF B(k) THEN k ELSE f[k + 1]]
<1>0. /\ hi \in Nat /\ p \in Nat /\ p \in p .. hi /\ p # 0
      /\ e \in p .. hi /\ X(e) = 0 /\ \A k \in p .. e - 1 : X(k) # 0
  <2>1. Size \in Nat /\ p \in 0 .. Size + 1 /\ p # 0 /\ p \in Nat
    BY MemoryAssumption DEF Memory!Cells
  <2> QED BY <2>1, EndIs
<1>1. hi \in S /\ S \in SUBSET (p .. hi)
  <2>1. hi \notin Memory!Cells
    BY MemoryAssumption DEF Memory!Cells
  <2>2. X(hi) = 0
    BY <1>0, <2>1, AtType
  <2> QED BY <1>0, <2>2
<1>2. PICK h : Searches(h, p, hi, S, res)
  <2> HIDE DEF hi, S, res
  <2> QED BY <1>0, <1>1, Searching
<1>3. ASSUME NEW f
      PROVE  [k \in p .. hi |-> IF k \in S THEN res[k] ELSE f[k + 1]] =
             [k \in p .. hi |-> IF X(k) = 0 THEN 0 ELSE IF B(k) THEN k ELSE f[k + 1]]
  <2> HIDE DEF X, B, hi
  <2> QED OBVIOUS
<1>4. g = [k \in p .. hi |-> IF X(k) = 0 THEN 0 ELSE IF B(k) THEN k ELSE g[k + 1]]
  <2> HIDE DEF hi, S, res, X, B
  <2>1. h = [k \in p .. hi |-> IF X(k) = 0 THEN 0 ELSE IF B(k) THEN k ELSE h[k + 1]]
    BY <1>2, <1>3 DEF Searches
  <2> QED BY <2>1, Zenon
<1>5. Memory!strstr(m, p, q) = g[p]
  BY DEF Memory!strstr
<1> HIDE DEF g
<1>6. Searches(g, p, hi, S, res)
  <2> HIDE DEF hi, S, res, X, B
  <2> QED BY <1>3, <1>4 DEF Searches
<1>7. PICK w \in p .. hi : IsFirst(w, p, S) /\ g[p] = res[w]
  <2> HIDE DEF hi, S, res
  <2>1. \A k \in p .. hi : \E w \in k .. hi : IsFirst(w, k, S) /\ g[k] = res[w]
    BY <1>0, <1>1, <1>6, Searched
  <2> QED BY <1>0, <2>1
<1>8. X(w) = 0 \/ B(w)
  BY <1>7 DEF IsFirst
<1>9. ASSUME NEW k \in p .. hi, k < w PROVE X(k) # 0 /\ ~B(k)
  BY <1>7, <1>9 DEF IsFirst
<1>10. ASSUME NEW k \in p .. e - 1 PROVE k \in Q <=> B(k)
  <2>1. k \in Memory!Cells
    <3> HIDE DEF e
    <3>1. k \in Int /\ 1 <= k /\ k <= Size
      BY <1>0, MemoryAssumption
    <3> QED BY <3>1, MemoryAssumption DEF Memory!Cells
  <2>2. B(k) <=> Memory!Cut(Memory!String(m, k), Len(y)) = y
    BY <2>1, PrefixIs
  <2> QED BY <2>2
<1>11. Q \subseteq p .. e - 1 /\ Q \in SUBSET Int
  BY <1>0
<1> HIDE DEF Q, B, e
<1>12. w <= e
  BY <1>0, <1>7, <1>9
<1>13. CASE X(w) = 0
  <2>1. w = e
    BY <1>0, <1>7, <1>12, <1>13
  <2>2. Q = {}
    <3> SUFFICES ASSUME NEW k \in Q PROVE FALSE
      OBVIOUS
    <3>1. k \in p .. e - 1 /\ k \in p .. hi /\ k < w
      BY <1>0, <1>11, <2>1
    <3> QED BY <1>9, <1>10, <3>1
  <2>3. Memory!Least(Q) = 0
    BY <2>2 DEF Memory!Least
  <2> QED BY <1>5, <1>7, <1>13, <2>3 DEF Q, e
<1>14. CASE X(w) # 0
  <2>1. w \in p .. e - 1
    BY <1>0, <1>7, <1>12, <1>14
  <2>2. w \in Q
    BY <1>8, <1>10, <1>14, <2>1
  <2>3. \A k \in Q : w <= k
    <3> SUFFICES ASSUME NEW k \in Q, k < w PROVE FALSE
      BY <1>0, <1>11, <2>1
    <3>1. k \in p .. e - 1 /\ k \in p .. hi
      BY <1>0, <1>11
    <3> QED BY <1>9, <1>10, <3>1
  <2>4. Memory!Least(Q) = w
    BY <1>11, <2>2, <2>3, LeastIs
  <2> QED BY <1>5, <1>7, <1>14, <2>4 DEF Q, e
<1> QED BY <1>13, <1>14

(* strtok answers a text without separators, from the first character that *)
(* is none.                                                                *)
LEMMA TokenIs ==
  ASSUME NEW m \in Window, NEW p \in Memory!Cells, NEW q \in Memory!Cells
  PROVE  LET chars == CharsOf(Memory!String(m, q))
             others == OthersIn(Memory!String(m, p), chars)
             token == Memory!strtok(m, p, q)
         IN /\ token.v0 = 0 <=> others = {}
            /\ token.v0 # 0 =>
                 LET u == Memory!String(token.ram, token.v0)
                 IN /\ token.v0 = p + Memory!Least(others) - 1
                    /\ u # <<>> /\ CharsOf(u) \cap chars = {}
<1> DEFINE chars == Memory!Characters(m, q)
           others == OthersIn(Memory!String(m, p), chars)
           token == Memory!strtok(m, p, q)
           f == p + Memory!strspn(m, p, q)
           bytes == (1 .. 255) \ chars
           e == Memory!Behind(m, f, bytes)
           r == IF Memory!At(m, e) = 0 THEN m ELSE Memory!Put(m, e, 0)
           u == Memory!String(r, f)
<1>0. p \in Nat /\ p # 0 /\ Size \in Nat
  BY MemoryAssumption DEF Memory!Cells
<1>1. chars = CharsOf(Memory!String(m, q)) /\ 0 \notin bytes /\ chars \subseteq 1 .. 255
  BY CharactersAre
<1>2. /\ f \in p .. Size + 1
      /\ Memory!At(m, f) = 0 <=> others = {}
      /\ Memory!At(m, f) # 0 => f = p + Memory!Least(others) - 1 /\ Memory!At(m, f) \notin chars
  <2> DEFINE cs == CharsOf(Memory!String(m, q))
             os == OthersIn(Memory!String(m, p), cs)
  <2>1. /\ f \in p .. Size + 1
        /\ Memory!At(m, f) = 0 <=> os = {}
        /\ Memory!At(m, f) # 0 => f = p + Memory!Least(os) - 1 /\ Memory!At(m, f) \notin cs
    BY SpnIs
  <2>2. chars = cs /\ others = os
    BY <1>1
  <2> HIDE DEF cs, os, chars, others, f
  <2> QED BY <2>1, <2>2
<1> HIDE DEF f
<1>3. f \in Nat /\ f # 0 /\ f \in 0 .. Size + 1
  BY <1>0, <1>2
<1>4. token = IF Memory!At(m, f) = 0 THEN [ram |-> m, v0 |-> 0] ELSE [ram |-> r, v0 |-> f]
  <2>1. /\ e \in f .. Size + 1 /\ f + Memory!strcspn(m, f, q) = e
    <3>1. e \in f .. Size + 1
      <4> HIDE DEF bytes
      <4> QED BY <1>1, <1>3, BehindIs
    <3>2. Memory!strcspn(m, f, q) = e - f
      BY DEF Memory!strcspn
    <3> HIDE DEF e
    <3> QED BY <1>0, <1>3, <3>1, <3>2
  <2> HIDE DEF e
  <2> QED BY <1>0, <2>1 DEF Memory!strtok, f
<1>5. CASE Memory!At(m, f) = 0
  <2>1. token.v0 = 0
    BY <1>4, <1>5
  <2> QED BY <1>1, <1>2, <1>5, <2>1
<1>6. CASE Memory!At(m, f) # 0
  <2>0. m \in Window
    OBVIOUS
  <2>1. token.v0 = f /\ token.ram = r
    BY <1>4, <1>6
  <2>2. /\ e \in f .. Size + 1 /\ Memory!At(m, e) \notin bytes
        /\ \A k \in f .. e - 1 : Memory!At(m, k) \in bytes
    <3> HIDE DEF bytes
    <3> QED BY <1>1, <1>3, BehindIs
  <2> DEFINE n == e - f
  <2> HIDE DEF e
  <2>3. /\ e \in Int /\ n \in Nat /\ e = f + n /\ n >= 1
    <3>1. Memory!At(m, f) \in 0 .. 255 /\ f \in Int
      BY <1>3, AtType
    <3>2. Memory!At(m, f) \in bytes
      BY <1>2, <1>6, <3>1
    <3>3. e # f
      BY <2>2, <3>2
    <3> QED BY <1>0, <1>3, <2>2, <3>3
  <2> HIDE DEF bytes
  <2>4. f \in Memory!Cells
    BY <1>3, <1>6, AtType
  <2>5. /\ r \in Window /\ Memory!At(r, e) = 0
        /\ \A k \in f .. e - 1 : Memory!At(r, k) = Memory!At(m, k)
    <3>1. CASE Memory!At(m, e) = 0
      BY <3>1
    <3>2. CASE Memory!At(m, e) # 0
      <4> DEFINE v == Memory!Put(m, e, 0)
      <4>0. e \in Memory!Cells
        BY <2>3, <3>2, AtType
      <4>1. /\ v \in Window
            /\ \A k \in Memory!Cells : v[k] = IF k = e THEN 0 ELSE m[k]
        <5>1. e \in Int /\ 0 \in 0 .. 255
          BY <2>3
        <5> QED BY <2>0, <5>1 DEF Window, Memory!Put
      <4> HIDE DEF v
      <4>2. Memory!At(v, e) = 0
        BY <4>0, <4>1 DEF Memory!At
      <4>3. ASSUME NEW k \in f .. e - 1 PROVE Memory!At(v, k) = Memory!At(m, k)
        <5>1. k \in Int /\ k # e
          BY <1>3, <2>3
        <5> QED BY <4>1, <5>1 DEF Memory!At
      <4>4. r = v
        BY <3>2 DEF v
      <4> HIDE DEF r
      <4> QED BY <4>1, <4>2, <4>3, <4>4
    <3> QED BY <3>1, <3>2
  <2> HIDE DEF r
  <2>6. ASSUME NEW k \in 0 .. n - 1 PROVE Memory!At(r, f + k) \in bytes
    <3>1. f + k \in f .. e - 1
      BY <1>3, <2>3
    <3> QED BY <2>2, <2>5, <3>1
  <2>7. \A k \in 0 .. n - 1 : Memory!At(r, f + k) # 0
    BY <1>1, <2>6
  <2>8. /\ u \in Text /\ n <= Len(u)
        /\ \A k \in 1 .. n : u[k] = Memory!At(r, f + k - 1)
        /\ Memory!CharAt(u, n + 1) = Memory!Signed(Memory!At(r, f + n))
    <3> HIDE DEF n
    <3> QED BY <2>3, <2>4, <2>5, <2>7, StringReaches
  <2> HIDE DEF n, u
  <2>9. Len(u) \in Nat /\ DOMAIN u = 1 .. Len(u)
    BY <2>8, TextIs
  <2>10. Len(u) = n
    <3>1. Memory!Signed(0) = 0
      BY DEF Memory!Signed
    <3>2. Memory!CharAt(u, n + 1) = 0
      BY <2>3, <2>5, <2>8, <3>1
    <3>3. n + 1 \in Nat /\ 1 <= n + 1 /\ n + 1 <= Len(u) + 1
      BY <2>3, <2>8, <2>9
    <3>4. n + 1 <= Len(u) => Memory!CharAt(u, n + 1) # 0
      BY <2>8, <3>3, CharsAt
    <3>5. n <= Len(u) /\ n \in Nat /\ Len(u) \in Nat
      BY <2>3, <2>8, <2>9
    <3> QED BY <3>2, <3>4, <3>5
  <2>11. u # <<>>
    BY <2>3, <2>10
  <2>12. CharsOf(u) \cap chars = {}
    <3> SUFFICES ASSUME NEW k \in 1 .. n PROVE u[k] \notin chars
      BY <2>9, <2>10 DEF CharsOf
    <3>1. k - 1 \in 0 .. n - 1 /\ f + (k - 1) = f + k - 1
      BY <1>3, <2>3
    <3>2. u[k] \in bytes
      BY <2>6, <2>8, <3>1
    <3> QED BY <3>2 DEF bytes
  <2> HIDE DEF chars, others, token
  <2> QED BY <1>1, <1>2, <1>3, <1>6, <2>1, <2>11, <2>12 DEF chars, others, token, u
<1> QED BY <1>5, <1>6

(* Each search finds the first place of what it looks for.                 *)
LEMMA SearchesFind == ASSUME Memory!TypeOK PROVE Memory!FoundFirst
<1>0. ram \in Window
  BY MemoryAssumption DEF Memory!TypeOK, Window
<1>1. ASSUME NEW p \in Memory!Cells,
             NEW c \in Bytes \cup {Memory!Signed(b) : b \in Bytes}
      PROVE  LET places == {k \in p .. Memory!End(ram, p) :
                              Memory!Signed(Memory!At(ram, k)) = c}
             IN /\ Memory!index(ram, p, c) = Memory!Least(places)
                /\ Memory!rindex(ram, p, c) = Memory!Greatest(places)
                /\ c >= 128 => places = {}
                /\ \A n \in 0 .. Size :
                     Memory!memchr(ram, p, c, n)
                       = Memory!Least({k \in p .. p + n - 1 : Memory!At(ram, k) = c % 256})
  <2>1. c \in Int
    <3>1. \A b \in Bytes : b \in 0 .. 255 /\ Memory!Signed(b) \in Int
      BY MemoryAssumption, SignedIs
    <3> QED BY <3>1
  <2>2. /\ Memory!index(ram, p, c) = Memory!Least(PlacesOf(ram, p, c))
        /\ Memory!rindex(ram, p, c) = Memory!Greatest(PlacesOf(ram, p, c))
    BY <1>0, IndexIs, LastIndexIs
  <2>3. ASSUME c >= 128, NEW k \in PlacesOf(ram, p, c) PROVE FALSE
    <3>1. k \in Int /\ Memory!Signed(Memory!At(ram, k)) = c
      BY DEF PlacesOf
    <3>2. Memory!At(ram, k) \in 0 .. 255
      BY <1>0, <3>1, AtType
    <3>3. Memory!Signed(Memory!At(ram, k)) < 128
      BY <3>2, SignedIs
    <3> QED BY <2>1, <2>3, <3>1, <3>3
  <2>4. ASSUME NEW n \in 0 .. Size
        PROVE  Memory!memchr(ram, p, c, n)
                 = Memory!Least({k \in p .. p + n - 1 : Memory!At(ram, k) = c % 256})
    <3>1. n \in Nat
      BY MemoryAssumption
    <3> QED BY <1>0, <2>1, <3>1, BlockIndexIs
  <2> QED BY <2>2, <2>3, <2>4 DEF PlacesOf
<1>2. ASSUME NEW p \in Memory!Cells, NEW q \in Memory!Cells
      PROVE  LET x == Memory!String(ram, p)
                 y == Memory!String(ram, q)
                 chars == {y[k] : k \in DOMAIN y}
                 others == {k \in DOMAIN x : x[k] \notin chars}
                 token == Memory!strtok(ram, p, q)
             IN /\ Memory!strspn(ram, p, q) = Memory!Least(others \cup {Len(x) + 1}) - 1
                /\ Memory!strpbrk(ram, p, q)
                     = IF others = DOMAIN x THEN p ELSE p + Memory!Least(DOMAIN x \ others) - 1
                /\ Memory!strstr(ram, p, q)
                     = Memory!Least({k \in p .. Memory!End(ram, p) - 1 :
                                       Memory!Cut(Memory!String(ram, k), Len(y)) = y})
                /\ token.v0 = 0 <=> others = {}
                /\ token.v0 # 0 =>
                     LET u == Memory!String(token.ram, token.v0)
                     IN /\ token.v0 = p + Memory!Least(others) - 1
                        /\ u # <<>> /\ {u[k] : k \in DOMAIN u} \cap chars = {}
  <2> DEFINE x == Memory!String(ram, p)
             y == Memory!String(ram, q)
             chars == CharsOf(y)
             others == OthersIn(x, chars)
             token == Memory!strtok(ram, p, q)
  <2>1. Memory!strspn(ram, p, q) = Memory!Least(others \cup {Len(x) + 1}) - 1
    BY <1>0, SpnIs
  <2>2. Memory!strpbrk(ram, p, q)
          = IF others = DOMAIN x THEN p ELSE p + Memory!Least(DOMAIN x \ others) - 1
    BY <1>0, PbrkIs
  <2>3. Memory!strstr(ram, p, q)
          = Memory!Least({k \in p .. Memory!End(ram, p) - 1 :
                            Memory!Cut(Memory!String(ram, k), Len(y)) = y})
    BY <1>0, StrstrIs
  <2>4. /\ token.v0 = 0 <=> others = {}
        /\ token.v0 # 0 =>
             LET u == Memory!String(token.ram, token.v0)
             IN /\ token.v0 = p + Memory!Least(others) - 1
                /\ u # <<>> /\ CharsOf(u) \cap chars = {}
    BY <1>0, TokenIs
  <2> QED BY <2>1, <2>2, <2>3, <2>4, Zenon DEF OthersIn, CharsOf
<1> QED BY <1>1, <1>2, Zenon DEF Memory!FoundFirst

(* Division with rest.                                                     *)
LEMMA Divided ==
  ASSUME NEW x \in Nat, NEW r \in Nat, r > 0
  PROVE  x = (r * (x \div r)) + (x % r)
OBVIOUS

(* The rest is less than the divisor.                                      *)
LEMMA RestIn ==
  ASSUME NEW x \in Nat, NEW r \in Nat, r > 0
  PROVE  x \div r \in Nat /\ x % r \in 0 .. r - 1
OBVIOUS

(* There is one rest,                                                      *)
LEMMA RestOnly ==
  ASSUME NEW r \in Nat, r > 0, NEW u \in Int, NEW v \in 0 .. r - 1, NEW w \in 0 .. r - 1,
         (r * u) + v = w
  PROVE  v = w
<1>1. CASE u >= 1
  <2>1. r * u >= r
    BY <1>1
  <2> QED BY <2>1
<1>2. CASE u <= -1
  <2>1. r * u <= -r
    BY <1>2
  <2> QED BY <2>1
<1>3. CASE u = 0
  <2>1. r * u = 0
    BY <1>3
  <2> QED BY <2>1
<1> QED BY <1>1, <1>2, <1>3

(* and taking the divisor away does not change it.                         *)
LEMMA RestAgain ==
  ASSUME NEW x \in Nat, NEW r \in Nat, r > 0, x >= r
  PROVE  x % r = (x - r) % r
<1> DEFINE y == x % r
       z == (x - r) % r
       q == x \div r
       p == (x - r) \div r
<1>1. x = (r * q) + y /\ x - r = (r * p) + z
  BY Divided
<1>2. q \in Nat /\ p \in Nat /\ y \in 0 .. r - 1 /\ z \in 0 .. r - 1
  BY RestIn
<1> HIDE DEF y, z, q, p
<1>3. (r * (q - p - 1)) + y = z
  <2>1. r * (q - p - 1) = (r * q) - (r * p) - r
    BY <1>2
  <2>2. r * q \in Nat /\ r * p \in Nat
    BY <1>2
  <2> QED BY <1>1, <1>2, <2>1, <2>2
<1>4. q - p - 1 \in Int
  BY <1>2
<1> HIDE DEF y, z, q, p
<1>5. y = z
  BY <1>2, <1>3, <1>4, RestOnly
<1> QED BY <1>5 DEF y, z

-----------------------------------------------------------------------------
(* Blocks.  Where cell d + k of a copy forward comes from: a destination   *)
(* behind the source gets what was copied before.                          *)
Source(d, s, k) == s + (IF s < d THEN k % (d - s) ELSE k)

(* k cells of m have been copied forward, and v is what there is now.      *)
Copied(m, v, d, s, k) ==
  /\ v \in Window
  /\ \A c \in Memory!Cells :
       v[c] = IF c \in d .. d + k - 1 THEN Memory!At(m, Source(d, s, c - d)) ELSE m[c]

(* A step of the copy keeps this.                                          *)
LEMMA CopyStep ==
  ASSUME NEW m \in Window, NEW d \in Nat, NEW s \in Nat, NEW k \in Nat, k # 0,
         NEW v, Copied(m, v, d, s, k - 1)
  PROVE  Copied(m, Memory!Put(v, d + k - 1, Memory!At(v, s + k - 1)), d, s, k)
<1> DEFINE b == Memory!At(v, s + k - 1)
           w == Memory!Put(v, d + k - 1, b)
<1>0. v \in Window /\ d + k - 1 \in Int /\ s + k - 1 \in Int /\ k - 1 \in Nat
      /\ Memory!Cells \subseteq Int
  BY DEF Copied, Memory!Cells
<1>1. b \in 0 .. 255
  BY <1>0, AtType
<1>2. /\ w \in Window
      /\ \A c \in Memory!Cells : w[c] = IF c = d + k - 1 THEN b ELSE v[c]
  <2> HIDE DEF b
  <2> QED BY <1>0, <1>1 DEF Window, Memory!Put
<1>3. ASSUME d + k - 1 \in Memory!Cells
      PROVE  b = Memory!At(m, Source(d, s, k - 1))
  <2>1. CASE ~(s < d)
    <3>1. Source(d, s, k - 1) = s + k - 1
      BY <2>1 DEF Source
    <3>2. s + k - 1 \notin d .. d + (k - 1) - 1
      BY <2>1
    <3> QED BY <3>1, <3>2 DEF Copied, Memory!At
  <2>2. CASE s < d /\ s + k - 1 < d
    <3>1. (k - 1) % (d - s) = k - 1
      <4>1. k - 1 \in 0 .. (d - s) - 1 /\ d - s \in Nat /\ d - s > 0
        BY <2>2
      <4> QED BY <4>1
    <3>2. Source(d, s, k - 1) = s + k - 1
      BY <2>2, <3>1 DEF Source
    <3>3. s + k - 1 \notin d .. d + (k - 1) - 1
      BY <2>2
    <3> QED BY <3>2, <3>3 DEF Copied, Memory!At
  <2>3. CASE s < d /\ s + k - 1 >= d
    <3> DEFINE r == d - s
    <3>1. r \in Nat /\ r > 0 /\ k - 1 >= r /\ (s + k - 1) - d = (k - 1) - r
      BY <2>3
    <3>2. s + k - 1 \in Memory!Cells
      BY <1>3, <2>3, MemoryAssumption DEF Memory!Cells
    <3>3. s + k - 1 \in d .. d + (k - 1) - 1
      BY <2>3
    <3>4. b = Memory!At(m, Source(d, s, (s + k - 1) - d))
      BY <3>2, <3>3 DEF Copied, Memory!At
    <3>5. (k - 1) % r = ((k - 1) - r) % r
      <4> HIDE DEF r
      <4> QED BY <1>0, <3>1, RestAgain
    <3>6. Source(d, s, (s + k - 1) - d) = Source(d, s, k - 1)
      BY <2>3, <3>1, <3>5 DEF Source
    <3> QED BY <3>4, <3>6
  <2> QED BY <2>1, <2>2, <2>3
<1> HIDE DEF b, w
<1>4. ASSUME NEW c \in Memory!Cells
      PROVE  w[c] = IF c \in d .. d + k - 1 THEN Memory!At(m, Source(d, s, c - d)) ELSE m[c]
  <2>1. CASE c = d + k - 1
    <3>1. c \in d .. d + k - 1 /\ c - d = k - 1
      BY <2>1
    <3> QED BY <1>2, <1>3, <2>1, <3>1
  <2>2. CASE c # d + k - 1
    <3>1. c \in d .. d + k - 1 <=> c \in d .. d + (k - 1) - 1
      BY <1>0, <2>2
    <3>2. w[c] = v[c]
      BY <1>2, <2>2
    <3>3. v[c] = IF c \in d .. d + (k - 1) - 1 THEN Memory!At(m, Source(d, s, c - d)) ELSE m[c]
      BY DEF Copied
    <3> QED BY <3>1, <3>2, <3>3
  <2> QED BY <2>1, <2>2
<1> QED BY <1>2, <1>4 DEF Copied, w, b

(* A loop that changes memory step by step keeps what each step keeps.     *)
LEMMA Changes ==
  ASSUME NEW m \in Window, NEW n \in Nat, NEW op \in [1 .. n -> [Window -> Window]]
  PROVE  \E g : Unfolds(g, n, Window, m, op)
BY Unfolding

(* Copying n cells forward copies n cells.                                 *)
LEMMA ForwardIs ==
  ASSUME NEW m \in Window, NEW d \in Nat, NEW s \in Nat, NEW n \in Nat
  PROVE  Copied(m, Memory!Forward(m, d, s, n), d, s, n)
<1> DEFINE P(v, k) == Memory!Put(v, d + k - 1, Memory!At(v, s + k - 1))
           op == [k \in 1 .. n |-> [v \in Window |-> P(v, k)]]
           g == CHOOSE f : f = [k \in 0 .. n |-> IF k = 0 THEN m ELSE P(f[k - 1], k)]
<1>1. \A k \in 1 .. n, v \in Window : P(v, k) \in Window
  <2> TAKE k \in 1 .. n, v \in Window
  <2> DEFINE b == Memory!At(v, s + k - 1)
  <2>1. b \in 0 .. 255
    BY AtType
  <2> HIDE DEF b
  <2>2. Memory!Put(v, d + k - 1, b) \in Window
    BY <2>1 DEF Window, Memory!Put
  <2> QED BY <2>2 DEF b
<1> HIDE DEF P
<1>2. op \in [1 .. n -> [Window -> Window]]
  BY <1>1
<1>3. PICK h : Unfolds(h, n, Window, m, op)
  <2> HIDE DEF op
  <2> QED BY <1>2, Changes
<1>4. h = [k \in 0 .. n |-> IF k = 0 THEN m ELSE P(h[k - 1], k)]
  <2>1. ASSUME NEW k \in 0 .. n, k # 0 PROVE op[k][h[k - 1]] = P(h[k - 1], k)
    <3>1. k \in 1 .. n /\ k - 1 \in 0 .. n
      BY <2>1
    <3>2. h[k - 1] \in Window
      BY <1>3, <3>1 DEF Unfolds
    <3> QED BY <3>1, <3>2
  <2> HIDE DEF op
  <2>2. [k \in 0 .. n |-> IF k = 0 THEN m ELSE op[k][h[k - 1]]]
          = [k \in 0 .. n |-> IF k = 0 THEN m ELSE P(h[k - 1], k)]
    BY <2>1
  <2> QED BY <1>3, <2>2 DEF Unfolds
<1>5. g = [k \in 0 .. n |-> IF k = 0 THEN m ELSE P(g[k - 1], k)]
  BY <1>4, Zenon
<1>6. Memory!Forward(m, d, s, n) = g[n]
  BY DEF Memory!Forward, P
<1> HIDE DEF g, op
<1> DEFINE Good == {k \in Nat : Copied(m, g[k], d, s, k)}
<1>7. 0 \in Good
  <2>1. 0 \in 0 .. n
    OBVIOUS
  <2>2. g[0] = m
    BY <1>5, <2>1
  <2>3. Copied(m, m, d, s, 0)
    BY DEF Copied
  <2> QED BY <2>2, <2>3
<1>8. ASSUME NEW k \in 1 .. n, k - 1 \in Good PROVE k \in Good
  <2>1. k \in 0 .. n /\ k \in Nat /\ k # 0
    OBVIOUS
  <2>2. g[k] = P(g[k - 1], k)
    BY <1>5, <2>1
  <2>3. Copied(m, g[k - 1], d, s, k - 1)
    BY <1>8
  <2>4. Copied(m, P(g[k - 1], k), d, s, k)
    BY <2>1, <2>3, CopyStep DEF P
  <2> QED BY <2>1, <2>2, <2>4
<1>9. n \in Good
  <2> HIDE DEF Good
  <2>1. \A k \in 0 .. n : k \in Good
    BY <1>7, <1>8, UpTo
  <2> QED BY <2>1
<1> QED BY <1>6, <1>9

(* From the end, for a source that does not lie behind its destination.    *)
CopiedBack(m, v, d, s, k) ==
  /\ v \in Window
  /\ \A c \in Memory!Cells :
       v[c] = IF c \in d - k .. d - 1 THEN Memory!At(m, s + (c - d)) ELSE m[c]

(* A step of this copy keeps it,                                           *)
LEMMA BackStep ==
  ASSUME NEW m \in Window, NEW d \in Nat, NEW s \in Nat, s <= d, NEW k \in Nat, k # 0,
         NEW v, CopiedBack(m, v, d, s, k - 1)
  PROVE  CopiedBack(m, Memory!Put(v, d - k, Memory!At(v, s - k)), d, s, k)
<1> DEFINE b == Memory!At(v, s - k)
           w == Memory!Put(v, d - k, b)
<1>0. v \in Window /\ d - k \in Int /\ s - k \in Int /\ k - 1 \in Nat
      /\ Memory!Cells \subseteq Int
  BY DEF CopiedBack, Memory!Cells
<1>1. b \in 0 .. 255
  BY <1>0, AtType
<1>2. /\ w \in Window
      /\ \A c \in Memory!Cells : w[c] = IF c = d - k THEN b ELSE v[c]
  <2> HIDE DEF b
  <2> QED BY <1>0, <1>1 DEF Window, Memory!Put
<1>3. b = Memory!At(m, s - k)
  <2>1. s - k \notin d - (k - 1) .. d - 1
    OBVIOUS
  <2> QED BY <2>1 DEF CopiedBack, Memory!At
<1> HIDE DEF b, w
<1>4. ASSUME NEW c \in Memory!Cells
      PROVE  w[c] = IF c \in d - k .. d - 1 THEN Memory!At(m, s + (c - d)) ELSE m[c]
  <2>1. CASE c = d - k
    <3>1. c \in d - k .. d - 1 /\ s + (c - d) = s - k
      BY <2>1
    <3> QED BY <1>2, <1>3, <2>1, <3>1
  <2>2. CASE c # d - k
    <3>1. c \in d - k .. d - 1 <=> c \in d - (k - 1) .. d - 1
      BY <1>0, <2>2
    <3>2. w[c] = v[c]
      BY <1>2, <2>2
    <3>3. v[c] = IF c \in d - (k - 1) .. d - 1 THEN Memory!At(m, s + (c - d)) ELSE m[c]
      BY DEF CopiedBack
    <3> QED BY <3>1, <3>2, <3>3
  <2> QED BY <2>1, <2>2
<1> QED BY <1>2, <1>4 DEF CopiedBack, w, b

(* and copying n cells from the end copies n cells.                        *)
LEMMA BackwardIs ==
  ASSUME NEW m \in Window, NEW d \in Nat, NEW s \in Nat, s <= d, NEW n \in Nat
  PROVE  CopiedBack(m, Memory!Backward(m, d, s, n), d, s, n)
<1> DEFINE P(v, k) == Memory!Put(v, d - k, Memory!At(v, s - k))
           op == [k \in 1 .. n |-> [v \in Window |-> P(v, k)]]
           g == CHOOSE f : f = [k \in 0 .. n |-> IF k = 0 THEN m ELSE P(f[k - 1], k)]
<1>1. \A k \in 1 .. n, v \in Window : P(v, k) \in Window
  <2> TAKE k \in 1 .. n, v \in Window
  <2> DEFINE b == Memory!At(v, s - k)
  <2>1. b \in 0 .. 255
    BY AtType
  <2> HIDE DEF b
  <2>2. Memory!Put(v, d - k, b) \in Window
    BY <2>1 DEF Window, Memory!Put
  <2> QED BY <2>2 DEF b
<1> HIDE DEF P
<1>2. op \in [1 .. n -> [Window -> Window]]
  BY <1>1
<1>3. PICK h : Unfolds(h, n, Window, m, op)
  <2> HIDE DEF op
  <2> QED BY <1>2, Changes
<1>4. h = [k \in 0 .. n |-> IF k = 0 THEN m ELSE P(h[k - 1], k)]
  <2>1. ASSUME NEW k \in 0 .. n, k # 0 PROVE op[k][h[k - 1]] = P(h[k - 1], k)
    <3>1. k \in 1 .. n /\ k - 1 \in 0 .. n
      BY <2>1
    <3>2. h[k - 1] \in Window
      BY <1>3, <3>1 DEF Unfolds
    <3> QED BY <3>1, <3>2
  <2> HIDE DEF op
  <2>2. [k \in 0 .. n |-> IF k = 0 THEN m ELSE op[k][h[k - 1]]]
          = [k \in 0 .. n |-> IF k = 0 THEN m ELSE P(h[k - 1], k)]
    BY <2>1
  <2> QED BY <1>3, <2>2 DEF Unfolds
<1>5. g = [k \in 0 .. n |-> IF k = 0 THEN m ELSE P(g[k - 1], k)]
  BY <1>4, Zenon
<1>6. Memory!Backward(m, d, s, n) = g[n]
  BY DEF Memory!Backward, P
<1> HIDE DEF g, op
<1> DEFINE Good == {k \in Nat : CopiedBack(m, g[k], d, s, k)}
<1>7. 0 \in Good
  <2>1. 0 \in 0 .. n
    OBVIOUS
  <2>2. g[0] = m
    BY <1>5, <2>1
  <2>3. CopiedBack(m, m, d, s, 0)
    BY DEF CopiedBack
  <2> QED BY <2>2, <2>3
<1>8. ASSUME NEW k \in 1 .. n, k - 1 \in Good PROVE k \in Good
  <2>1. k \in 0 .. n /\ k \in Nat /\ k # 0
    OBVIOUS
  <2>2. g[k] = P(g[k - 1], k)
    BY <1>5, <2>1
  <2>3. CopiedBack(m, g[k - 1], d, s, k - 1)
    BY <1>8
  <2>4. CopiedBack(m, P(g[k - 1], k), d, s, k)
    BY <2>1, <2>3, BackStep DEF P
  <2> QED BY <2>1, <2>2, <2>4
<1>9. n \in Good
  <2> HIDE DEF Good
  <2>1. \A k \in 0 .. n : k \in Good
    BY <1>7, <1>8, UpTo
  <2> QED BY <2>1
<1> QED BY <1>6, <1>9

(* The block calls move the whole block.                                   *)
LEMMA BlocksMove == ASSUME Memory!TypeOK PROVE Memory!MovedWhole
<1>0. ram \in Window
  BY MemoryAssumption DEF Memory!TypeOK, Window
<1>1. SUFFICES ASSUME NEW d \in Memory!Cells, NEW s \in Memory!Cells, NEW n \in Memory!Counts
      PROVE  /\ Memory!bcopy(ram, s, d, n) = Memory!memcpy(ram, d, s, n)
             /\ \A k \in Memory!Cells :
                  IF k \in d .. d + n - 1
                  THEN /\ Memory!memmove(ram, d, s, n)[k] = Memory!At(ram, s + k - d)
                       /\ Memory!memcpy(ram, d, s, n)[k]
                            = Memory!At(ram, s + IF (s <= d /\ d < s + n) /\ d # s
                                                 THEN (k - d) % (d - s) ELSE k - d)
                  ELSE /\ Memory!memmove(ram, d, s, n)[k] # ram[k]
                            => (s <= d /\ d < s + n) /\ k = d + n
                       /\ Memory!memcpy(ram, d, s, n)[k] = ram[k]
  BY Zenon DEF Memory!MovedWhole
<1>2. /\ d \in Nat /\ d # 0 /\ s \in Nat /\ s # 0 /\ n \in Int /\ Memory!Cells \subseteq Int
      /\ n < 0 \/ n \in Nat
  BY MemoryAssumption DEF Memory!Cells, Memory!Counts
<1>3. Memory!bcopy(ram, s, d, n) = Memory!memcpy(ram, d, s, n)
  BY <1>2 DEF Memory!bcopy, Memory!memcpy
<1> DEFINE F == Memory!Forward(ram, d, s, n)
           B == Memory!Backward(ram, d + n + 1, s + n + 1, n + 1)
<1>4. CASE n < 0
  <2>1. Memory!memmove(ram, d, s, n) = ram /\ Memory!memcpy(ram, d, s, n) = ram
    BY <1>4 DEF Memory!memmove, Memory!memcpy
  <2>2. \A k \in Memory!Cells : k \notin d .. d + n - 1
    BY <1>2, <1>4
  <2> QED BY <1>3, <2>1, <2>2
<1>5. CASE n \in Nat
  <2>1. Copied(ram, F, d, s, n)
    BY <1>0, <1>2, <1>5, ForwardIs
  <2>2. /\ Memory!memcpy(ram, d, s, n) = F
        /\ Memory!memmove(ram, d, s, n) = IF s <= d /\ s + n > d THEN B ELSE F
    BY <1>2, <1>5 DEF Memory!memmove, Memory!memcpy
  <2>3. ASSUME s <= d PROVE CopiedBack(ram, B, d + n + 1, s + n + 1, n + 1)
    <3>1. d + n + 1 \in Nat /\ s + n + 1 \in Nat /\ n + 1 \in Nat /\ s + n + 1 <= d + n + 1
      BY <1>2, <1>5, <2>3
    <3> QED BY <1>0, <3>1, BackwardIs
  <2> HIDE DEF F, B
  <2>4. ASSUME NEW k \in Memory!Cells, k \in d .. d + n - 1
        PROVE  F[k] = Memory!At(ram, s + IF (s <= d /\ d < s + n) /\ d # s
                                         THEN (k - d) % (d - s) ELSE k - d)
    <3>1. F[k] = Memory!At(ram, Source(d, s, k - d))
      BY <2>1, <2>4 DEF Copied
    <3>2. CASE (s <= d /\ d < s + n) /\ d # s
      <4>1. s < d
        BY <1>2, <3>2
      <4> QED BY <3>1, <3>2, <4>1 DEF Source
    <3>3. CASE ~((s <= d /\ d < s + n) /\ d # s)
      <4>1. CASE s < d
        <5>1. k - d \in 0 .. (d - s) - 1 /\ d - s \in Nat /\ d - s > 0
          BY <1>2, <1>5, <2>4, <3>3, <4>1
        <5>2. (k - d) % (d - s) = k - d
          BY <5>1
        <5> QED BY <3>1, <3>3, <4>1, <5>2 DEF Source
      <4>2. CASE ~(s < d)
        BY <3>1, <3>3, <4>2 DEF Source
      <4> QED BY <4>1, <4>2
    <3> QED BY <3>2, <3>3
  <2>5. ASSUME NEW k \in Memory!Cells, k \notin d .. d + n - 1
        PROVE  F[k] = ram[k]
    BY <2>1, <2>5 DEF Copied
  <2>6. CASE s <= d /\ s + n > d
    <3>1. Memory!memmove(ram, d, s, n) = B
      BY <2>2, <2>6
    <3>2. ASSUME NEW k \in Memory!Cells
          PROVE  B[k] = IF k \in d .. d + n THEN Memory!At(ram, s + k - d) ELSE ram[k]
      <4>1. B[k] = IF k \in (d + n + 1) - (n + 1) .. (d + n + 1) - 1
                   THEN Memory!At(ram, (s + n + 1) + (k - (d + n + 1))) ELSE ram[k]
        BY <2>3, <2>6 DEF CopiedBack
      <4>2. /\ k \in Int /\ (d + n + 1) - (n + 1) = d /\ (d + n + 1) - 1 = d + n
            /\ (s + n + 1) + (k - (d + n + 1)) = s + k - d
        BY <1>2, <1>5
      <4> QED BY <4>1, <4>2
    <3>3. ASSUME NEW k \in Memory!Cells, k \in d .. d + n - 1
          PROVE  B[k] = Memory!At(ram, s + k - d)
      <4>1. k \in d .. d + n
        BY <1>2, <1>5, <3>3
      <4> QED BY <3>2, <4>1
    <3>4. ASSUME NEW k \in Memory!Cells, k \notin d .. d + n - 1, B[k] # ram[k]
          PROVE  k = d + n
      <4>1. k \in d .. d + n
        BY <3>2, <3>4
      <4> QED BY <1>2, <1>5, <3>4, <4>1
    <3>5. s <= d /\ d < s + n
      BY <1>2, <1>5, <2>6
    <3> QED BY <1>3, <2>2, <2>4, <2>5, <3>1, <3>3, <3>4, <3>5
  <2>7. CASE ~(s <= d /\ s + n > d)
    <3>1. Memory!memmove(ram, d, s, n) = F
      BY <2>2, <2>7
    <3>2. ASSUME NEW k \in Memory!Cells, k \in d .. d + n - 1
          PROVE  F[k] = Memory!At(ram, s + k - d)
      <4>1. ~((s <= d /\ d < s + n) /\ d # s)
        BY <1>2, <1>5, <2>7
      <4>2. s + (k - d) = s + k - d
        BY <1>2
      <4> QED BY <2>4, <3>2, <4>1, <4>2
    <3> QED BY <1>3, <2>2, <2>4, <2>5, <3>1, <3>2
  <2> QED BY <2>6, <2>7
<1> QED BY <1>2, <1>4, <1>5

(* Strings built: what a string call has written from e on is text z and   *)
(* an end.                                                                 *)
Written(m, v, e, z) ==
  /\ v \in Window
  /\ \A c \in Memory!Cells :
       v[c] = IF c \in e .. e + Len(z) - 1 THEN z[c - e + 1]
              ELSE IF c = e + Len(z) THEN 0 ELSE m[c]

(* A text and a zero in memory are a string,                               *)
LEMMA StringBuilt ==
  ASSUME NEW m \in Window, NEW d \in Memory!Cells, NEW z \in Text,
         \A k \in 0 .. Len(z) - 1 : Memory!At(m, d + k) = z[k + 1],
         Memory!At(m, d + Len(z)) = 0
  PROVE  Memory!String(m, d) = z
<1> DEFINE x == Memory!String(m, d)
           n == Len(z)
<1>1. n \in Nat /\ \A k \in 1 .. n : z[k] \in 1 .. 255
  BY TextIs
<1>2. \A k \in 0 .. n - 1 : Memory!At(m, d + k) # 0
  <2> TAKE k \in 0 .. n - 1
  <2>1. k + 1 \in 1 .. n
    BY <1>1
  <2>2. z[k + 1] # 0
    <3>1. z[k + 1] \in 1 .. 255
      BY <1>1, <2>1
    <3>2. \A b \in 1 .. 255 : b # 0
      OBVIOUS
    <3> QED BY <3>1, <3>2, Zenon
  <2>3. Memory!At(m, d + k) = z[k + 1]
    OBVIOUS
  <2> QED BY <2>2, <2>3, Zenon
<1>3. /\ x \in Text /\ n <= Len(x)
      /\ \A k \in 1 .. n : x[k] = Memory!At(m, d + k - 1)
      /\ Memory!CharAt(x, n + 1) = Memory!Signed(Memory!At(m, d + n))
  <2> HIDE DEF n
  <2> QED BY <1>1, <1>2, StringReaches
<1>4. d \in Nat
  BY DEF Memory!Cells
<1> HIDE DEF x
<1>5. Len(x) \in Nat
  BY <1>3, TextIs
<1>6. Len(x) = n
  <2>1. Memory!CharAt(x, n + 1) = 0
    BY <1>3 DEF Memory!Signed
  <2>2. n + 1 \in Nat /\ 1 <= n + 1 /\ n + 1 <= Len(x) + 1
    BY <1>1, <1>3, <1>5
  <2>3. n + 1 <= Len(x) => Memory!CharAt(x, n + 1) # 0
    BY <1>3, <2>2, CharsAt
  <2> QED BY <1>1, <1>3, <1>5, <2>1, <2>3
<1>7. ASSUME NEW k \in 1 .. n PROVE x[k] = z[k]
  <2>1. k - 1 \in 0 .. n - 1 /\ d + (k - 1) = d + k - 1 /\ (k - 1) + 1 = k
    BY <1>1, <1>4
  <2>2. Memory!At(m, d + (k - 1)) = z[(k - 1) + 1]
    BY <2>1
  <2> QED BY <1>3, <2>1, <2>2
<1>8. x \in Seq(1 .. 255) /\ z \in Seq(1 .. 255)
  BY <1>3 DEF Text
<1>9. x = z
  BY <1>6, <1>7, <1>8, SeqEqual
<1> QED BY <1>9 DEF x

(* so what was written is one,                                             *)
LEMMA WrittenIs ==
  ASSUME NEW m \in Window, NEW v, NEW d \in Memory!Cells, NEW z \in Text,
         Written(m, v, d, z), d + Len(z) <= Size + 1
  PROVE  Memory!String(v, d) = z
<1>1. Len(z) \in Nat /\ d \in Nat /\ Size \in Nat /\ v \in Window
  BY MemoryAssumption, TextIs DEF Memory!Cells, Written
<1>2. ASSUME NEW k \in 0 .. Len(z) - 1 PROVE Memory!At(v, d + k) = z[k + 1]
  <2>1. /\ d + k \in Memory!Cells /\ d + k \in d .. d + Len(z) - 1
        /\ (d + k) - d + 1 = k + 1
    BY <1>1 DEF Memory!Cells
  <2>2. v[d + k] = z[(d + k) - d + 1]
    BY <2>1 DEF Written
  <2> QED BY <2>1, <2>2 DEF Memory!At
<1>3. Memory!At(v, d + Len(z)) = 0
  <2>1. d + Len(z) \notin d .. d + Len(z) - 1
    BY <1>1
  <2>2. d + Len(z) \in Memory!Cells => v[d + Len(z)] = 0
    BY <2>1 DEF Written
  <2> QED BY <2>2 DEF Memory!At
<1> QED BY <1>1, <1>2, <1>3, StringBuilt

(* and behind another string it goes on with that one.                     *)
LEMMA AppendedIs ==
  ASSUME NEW m \in Window, NEW v, NEW d \in Memory!Cells, NEW z \in Text,
         Written(m, v, d + Len(Memory!String(m, d)), z)
  PROVE  LET x == Memory!String(m, d)
         IN /\ Len(x \o z) = Len(x) + Len(z)
            /\ d + Len(x \o z) <= Size + 1 => Memory!String(v, d) = x \o z
<1> DEFINE x == Memory!String(m, d)
           n == Memory!strlen(m, d)
           t == x \o z
<1>0. d \in 0 .. Size + 1 /\ d \in Nat /\ Size \in Nat
  BY MemoryAssumption DEF Memory!Cells
<1>1. /\ n \in Nat /\ x = [k \in 1 .. n |-> Memory!At(m, d + k - 1)]
      /\ x \in Seq(1 .. 255) /\ Len(x) = n
  BY <1>0, StringIs
<1>2. Written(m, v, d + n, z)
  BY <1>1
<1> HIDE DEF x, n
<1>3. z \in Seq(1 .. 255) /\ Len(z) \in Nat
  BY TextIs DEF Text
<1>4. /\ t \in Seq(1 .. 255) /\ Len(t) = n + Len(z)
      /\ \A k \in 1 .. n + Len(z) : t[k] = IF k <= n THEN x[k] ELSE z[k - n]
  BY <1>1, <1>3, ConcatProperties
<1> HIDE DEF t
<1>5. ASSUME d + Len(t) <= Size + 1 PROVE Memory!String(v, d) = t
  <2>1. ASSUME NEW k \in 0 .. Len(t) - 1 PROVE Memory!At(v, d + k) = t[k + 1]
    <3>1. /\ d + k \in Memory!Cells /\ k + 1 \in 1 .. n + Len(z)
          /\ Memory!At(v, d + k) = v[d + k]
      BY <1>0, <1>1, <1>3, <1>4, <1>5 DEF Memory!Cells, Memory!At
    <3>2. CASE k < n
      <4>1. /\ d + k \notin d + n .. d + n + Len(z) - 1 /\ d + k # d + n + Len(z)
            /\ k + 1 \in 1 .. n /\ d + (k + 1) - 1 = d + k /\ k + 1 <= n
        BY <1>0, <1>1, <1>3, <1>4, <3>2
      <4>2. v[d + k] = m[d + k]
        BY <1>2, <3>1, <4>1 DEF Written
      <4>3. x[k + 1] = Memory!At(m, d + k)
        BY <1>1, <4>1
      <4>4. t[k + 1] = x[k + 1]
        BY <1>4, <3>1, <4>1
      <4> QED BY <3>1, <4>2, <4>3, <4>4 DEF Memory!At
    <3>3. CASE k >= n
      <4>1. /\ d + k \in d + n .. d + n + Len(z) - 1
            /\ (d + k) - (d + n) + 1 = (k + 1) - n /\ ~(k + 1 <= n)
        BY <1>0, <1>1, <1>3, <1>4, <3>3
      <4>2. v[d + k] = z[(d + k) - (d + n) + 1]
        BY <1>2, <3>1, <4>1 DEF Written
      <4>3. t[k + 1] = z[(k + 1) - n]
        BY <1>4, <3>1, <4>1
      <4> QED BY <3>1, <4>1, <4>2, <4>3
    <3> QED BY <1>1, <1>4, <3>2, <3>3
  <2>2. Memory!At(v, d + Len(t)) = 0
    <3>0. d \in Nat /\ n \in Nat /\ Len(z) \in Nat /\ Len(t) = n + Len(z)
      BY <1>0, <1>1, <1>3, <1>4
    <3>1. d + Len(t) = d + n + Len(z) /\ d + n + Len(z) \notin d + n .. d + n + Len(z) - 1
      BY <3>0
    <3>2. d + n + Len(z) \in Memory!Cells => v[d + n + Len(z)] = 0
      BY <1>2, <3>1 DEF Written
    <3> QED BY <3>1, <3>2 DEF Memory!At
  <2>3. v \in Window /\ t \in Text
    BY <1>2, <1>4 DEF Written, Text
  <2> QED BY <2>1, <2>2, <2>3, StringBuilt
<1> QED BY <1>1, <1>4, <1>5 DEF x, t

(* The first t characters of the string at s, and what is behind them.     *)
LEMMA TextCopied ==
  ASSUME NEW m \in Window, NEW e \in Nat, NEW s \in Memory!Cells,
         NEW t \in 0 .. Memory!strlen(m, s), s < e => s + t < e
  PROVE  LET v == Memory!Forward(m, e, s, t + 1)
         IN /\ v \in Window
            /\ \A c \in Memory!Cells :
                 v[c] = IF c \in e .. e + t - 1 THEN Memory!String(m, s)[c - e + 1]
                        ELSE IF c = e + t THEN Memory!At(m, s + t) ELSE m[c]
<1> DEFINE v == Memory!Forward(m, e, s, t + 1)
           y == Memory!String(m, s)
           n == Memory!strlen(m, s)
<1>0. s \in 0 .. Size + 1 /\ s \in Nat /\ s # 0 /\ Memory!Cells \subseteq Int
  BY MemoryAssumption DEF Memory!Cells
<1>1. n \in Nat /\ y = [k \in 1 .. n |-> Memory!At(m, s + k - 1)]
  BY <1>0, StringIs
<1>2. t \in Nat /\ t + 1 \in Nat /\ t <= n
  BY <1>1
<1>3. Copied(m, v, e, s, t + 1)
  BY <1>0, <1>2, ForwardIs
<1> HIDE DEF v, y, n
<1>4. ASSUME NEW k \in 0 .. t PROVE Source(e, s, k) = s + k
  <2>1. CASE s < e
    <3>1. k \in 0 .. (e - s) - 1 /\ e - s \in Nat /\ e - s > 0
      BY <1>0, <1>2, <2>1
    <3>2. k % (e - s) = k
      BY <3>1
    <3> QED BY <2>1, <3>2 DEF Source
  <2>2. CASE ~(s < e)
    BY <2>2 DEF Source
  <2> QED BY <2>1, <2>2
<1>5. ASSUME NEW c \in Memory!Cells
      PROVE  v[c] = IF c \in e .. e + t - 1 THEN y[c - e + 1]
                    ELSE IF c = e + t THEN Memory!At(m, s + t) ELSE m[c]
  <2>1. CASE c \in e .. e + t - 1
    <3>1. /\ c \in e .. e + (t + 1) - 1 /\ c - e \in 0 .. t /\ c - e + 1 \in 1 .. n
          /\ s + (c - e + 1) - 1 = s + (c - e)
      BY <1>0, <1>1, <1>2, <2>1
    <3>2. v[c] = Memory!At(m, s + (c - e))
      BY <1>3, <1>4, <3>1 DEF Copied
    <3> QED BY <1>1, <2>1, <3>1, <3>2
  <2>2. CASE c = e + t
    <3>1. /\ c \in e .. e + (t + 1) - 1 /\ c - e = t /\ t \in 0 .. t
          /\ c \notin e .. e + t - 1
      BY <1>2, <2>2
    <3> QED BY <1>3, <1>4, <2>2, <3>1 DEF Copied
  <2>3. CASE c \notin e .. e + t - 1 /\ c # e + t
    <3>1. c \notin e .. e + (t + 1) - 1
      BY <1>0, <1>2, <2>3
    <3> QED BY <1>3, <2>3, <3>1 DEF Copied
  <2> QED BY <2>1, <2>2, <2>3
<1>6. v \in Window
  BY <1>3 DEF Copied
<1> QED BY <1>5, <1>6 DEF v, y

(* strcpy and strcat write the string they were given.                     *)
LEMMA StringCopiedIs ==
  ASSUME NEW m \in Window, NEW e \in Nat, NEW s \in Memory!Cells,
         s < e => Memory!End(m, s) < e
  PROVE  Written(m, Memory!StringCopied(m, e, s), e, Memory!String(m, s))
<1> DEFINE y == Memory!String(m, s)
           n == Memory!strlen(m, s)
           v == Memory!Forward(m, e, s, n + 1)
<1>0. s \in 0 .. Size + 1 /\ s \in Nat
  BY MemoryAssumption DEF Memory!Cells
<1>1. /\ n \in Nat /\ Len(y) = n /\ Memory!End(m, s) = s + n
      /\ Memory!At(m, s + n) = 0
  BY <1>0, StringIs
<1>2. n \in 0 .. Memory!strlen(m, s) /\ (s < e => s + n < e)
  BY <1>1
<1>3. /\ v \in Window
      /\ \A c \in Memory!Cells :
           v[c] = IF c \in e .. e + n - 1 THEN y[c - e + 1]
                  ELSE IF c = e + n THEN Memory!At(m, s + n) ELSE m[c]
  <2> HIDE DEF n
  <2> QED BY <1>2, TextCopied
<1>4. Memory!StringCopied(m, e, s) = v
  BY DEF Memory!StringCopied
<1> HIDE DEF v, y, n
<1>5. Written(m, v, e, y)
  BY <1>1, <1>3 DEF Written
<1> QED BY <1>4, <1>5 DEF y

(* strncat takes what there is of the source, at most n characters.        *)
LEMMA TakenIs ==
  ASSUME NEW m \in Window, NEW d \in Nat, NEW s \in Memory!Cells, NEW n \in Int
  PROVE  \E t \in 0 .. Memory!strlen(m, s) :
           /\ n \in Nat => t = IF n < Memory!strlen(m, s) THEN n ELSE Memory!strlen(m, s)
           /\ Memory!Appended(m, d, s, n)
                = Memory!Put(Memory!Forward(m, d, s, t + 1), d + t, 0)
<1> DEFINE X(k) == Memory!At(m, s + k)
           L == Memory!strlen(m, s)
           S == {k \in 0 .. Size : X(k) = 0 \/ n - k - 1 < 0}
           res == [k \in 0 .. Size |-> k]
           g == CHOOSE f : f = [k \in 0 .. Size |->
                  IF X(k) = 0 \/ n - k - 1 < 0 THEN k ELSE f[k + 1]]
<1>0. Size \in Nat /\ s \in Nat /\ s # 0 /\ s \in 0 .. Size + 1
  BY MemoryAssumption DEF Memory!Cells
<1>1. /\ Size \in S /\ 0 \in Nat /\ 0 \in 0 .. Size /\ S \in SUBSET (0 .. Size)
  <2>1. s + Size \in Int /\ s + Size \notin Memory!Cells
    BY <1>0 DEF Memory!Cells
  <2>2. X(Size) = 0
    BY <2>1, AtType
  <2> QED BY <1>0, <2>2
<1>2. PICK h : Searches(h, 0, Size, S, res)
  <2> HIDE DEF S, res
  <2> QED BY <1>0, <1>1, Searching
<1>3. ASSUME NEW f
      PROVE  [k \in 0 .. Size |-> IF k \in S THEN res[k] ELSE f[k + 1]] =
             [k \in 0 .. Size |-> IF X(k) = 0 \/ n - k - 1 < 0 THEN k ELSE f[k + 1]]
  <2> HIDE DEF X
  <2> QED OBVIOUS
<1>4. g = [k \in 0 .. Size |-> IF X(k) = 0 \/ n - k - 1 < 0 THEN k ELSE g[k + 1]]
  <2> HIDE DEF S, res, X
  <2>1. h = [k \in 0 .. Size |-> IF X(k) = 0 \/ n - k - 1 < 0 THEN k ELSE h[k + 1]]
    BY <1>2, <1>3 DEF Searches
  <2> QED BY <2>1, Zenon
<1>5. Memory!Appended(m, d, s, n) = Memory!Put(Memory!Forward(m, d, s, g[0] + 1), d + g[0], 0)
  BY DEF Memory!Appended
<1> HIDE DEF g
<1>6. Searches(g, 0, Size, S, res)
  <2> HIDE DEF S, res, X
  <2> QED BY <1>3, <1>4 DEF Searches
<1>7. PICK w \in 0 .. Size : IsFirst(w, 0, S) /\ g[0] = res[w]
  <2> HIDE DEF S, res, X
  <2>1. \A k \in 0 .. Size : \E w \in k .. Size : IsFirst(w, k, S) /\ g[k] = res[w]
    BY <1>0, <1>1, <1>6, Searched
  <2> QED BY <1>1, <2>1
<1>8. w \in Nat /\ g[0] = w
  BY <1>0, <1>7
<1>9. /\ L \in Nat /\ s + L <= Size + 1 /\ X(L) = 0
      /\ \A k \in 0 .. L - 1 : X(k) \in 1 .. 255
  BY <1>0, StringIs
<1> HIDE DEF X, L
<1>10. X(w) = 0 \/ n - w - 1 < 0
  BY <1>7 DEF IsFirst
<1>11. \A k \in 0 .. Size : X(k) = 0 \/ n - k - 1 < 0 => w <= k
  <2> TAKE k \in 0 .. Size
  <2> HAVE X(k) = 0 \/ n - k - 1 < 0
  <2>1. k \in S /\ 0 <= k
    OBVIOUS
  <2> HIDE DEF S
  <2> QED BY <1>7, <2>1 DEF IsFirst
<1>12. w <= L
  <2>1. L \in 0 .. Size
    BY <1>0, <1>9
  <2> QED BY <1>9, <1>11, <2>1
<1>13. ASSUME n \in Nat PROVE w <= n
  <2>1. CASE n \in 0 .. Size
    <3>1. n - n - 1 < 0
      OBVIOUS
    <3> QED BY <1>11, <2>1, <3>1
  <2>2. CASE n > Size
    BY <1>0, <2>2
  <2> QED BY <1>0, <1>13, <2>1, <2>2
<1>14. w = L \/ w >= n
  <2> SUFFICES ASSUME w < L PROVE w >= n
    BY <1>8, <1>9, <1>12
  <2>1. X(w) \in 1 .. 255
    BY <1>8, <1>9
  <2>2. n - w - 1 < 0
    BY <1>10, <2>1
  <2> QED BY <1>8, <2>2
<1>15. w \in 0 .. L /\ (n \in Nat => w = IF n < L THEN n ELSE L)
  BY <1>8, <1>9, <1>12, <1>13, <1>14
<1> HIDE DEF S, res
<1>16. w \in 0 .. Memory!strlen(m, s)
       /\ (n \in Nat => w = IF n < Memory!strlen(m, s) THEN n ELSE Memory!strlen(m, s))
  BY <1>15 DEF L
<1>17. Memory!Appended(m, d, s, n) = Memory!Put(Memory!Forward(m, d, s, w + 1), d + w, 0)
  BY <1>5, <1>8
<1> QED BY <1>16, <1>17

(* strncat writes the first n characters of its string.                    *)
LEMMA AppendedFirst ==
  ASSUME NEW m \in Window, NEW e \in Nat, NEW s \in Memory!Cells, NEW n \in Nat,
         s < e => Memory!End(m, s) < e
  PROVE  /\ Memory!Cut(Memory!String(m, s), n) \in Text
         /\ Written(m, Memory!Appended(m, e, s, n), e, Memory!Cut(Memory!String(m, s), n))
<1> DEFINE y == Memory!String(m, s)
           L == Memory!strlen(m, s)
           z == Memory!Cut(y, n)
<1>0. s \in 0 .. Size + 1 /\ s \in Nat /\ Memory!Cells \subseteq Int
  BY MemoryAssumption DEF Memory!Cells
<1>1. /\ L \in Nat /\ Len(y) = L /\ Memory!End(m, s) = s + L /\ y \in Seq(1 .. 255)
  BY <1>0, StringIs
<1>2. PICK t \in 0 .. L :
        /\ t = IF n < L THEN n ELSE L
        /\ Memory!Appended(m, e, s, n) = Memory!Put(Memory!Forward(m, e, s, t + 1), e + t, 0)
  <2>1. n \in Int
    OBVIOUS
  <2>2. \E t \in 0 .. Memory!strlen(m, s) :
           /\ n \in Nat => t = IF n < Memory!strlen(m, s) THEN n ELSE Memory!strlen(m, s)
           /\ Memory!Appended(m, e, s, n)
                = Memory!Put(Memory!Forward(m, e, s, t + 1), e + t, 0)
    BY <2>1, TakenIs
  <2> QED BY <2>2
<1> HIDE DEF y, L
<1>3. t \in Nat /\ t <= L /\ (s < e => s + t < e)
  <2>1. t \in 0 .. L /\ L \in Nat
    BY <1>1
  <2>2. s < e => s + L < e
    BY <1>1
  <2> QED BY <1>0, <2>1, <2>2
<1> DEFINE v == Memory!Forward(m, e, s, t + 1)
<1>4. /\ v \in Window
      /\ \A c \in Memory!Cells :
           v[c] = IF c \in e .. e + t - 1 THEN y[c - e + 1]
                  ELSE IF c = e + t THEN Memory!At(m, s + t) ELSE m[c]
  <2>1. t \in 0 .. Memory!strlen(m, s)
    BY DEF L
  <2> QED BY <1>3, <2>1, TextCopied DEF y
<1> HIDE DEF v
<1>5. /\ z \in Text /\ Len(z) = t /\ \A k \in 1 .. t : z[k] = y[k]
  <2>1. y \in Text
    BY <1>1 DEF Text
  <2>2. LET u == IF n < 0 THEN 0 ELSE IF n < Len(y) THEN n ELSE Len(y)
        IN /\ z \in Text /\ Len(z) = u
           /\ \A k \in 1 .. u : z[k] = y[k]
    BY <2>1, CutIs
  <2>3. t = IF n < 0 THEN 0 ELSE IF n < Len(y) THEN n ELSE Len(y)
    BY <1>1, <1>2
  <2> HIDE DEF z
  <2> QED BY <2>2, <2>3
<1> DEFINE w == Memory!Put(v, e + t, 0)
<1>6. /\ w \in Window /\ \A c \in Memory!Cells : w[c] = IF c = e + t THEN 0 ELSE v[c]
  BY <1>3, <1>4 DEF Window, Memory!Put
<1> HIDE DEF w, z
<1>7. ASSUME NEW c \in Memory!Cells
      PROVE  w[c] = IF c \in e .. e + Len(z) - 1 THEN z[c - e + 1]
                    ELSE IF c = e + Len(z) THEN 0 ELSE m[c]
  <2>1. CASE c \in e .. e + t - 1
    <3>1. c # e + t /\ c - e + 1 \in 1 .. t
      BY <1>0, <1>3, <2>1
    <3>2. w[c] = v[c] /\ v[c] = y[c - e + 1]
      BY <1>4, <1>6, <2>1, <3>1
    <3> QED BY <1>5, <2>1, <3>1, <3>2
  <2>2. CASE c = e + t
    <3>1. c \notin e .. e + t - 1
      BY <1>3, <2>2
    <3> QED BY <1>5, <1>6, <2>2, <3>1
  <2>3. CASE c \notin e .. e + t - 1 /\ c # e + t
    BY <1>4, <1>5, <1>6, <2>3
  <2> QED BY <2>1, <2>2, <2>3
<1>8. Written(m, w, e, z)
  BY <1>6, <1>7 DEF Written
<1> QED BY <1>2, <1>5, <1>8 DEF z, y, w, v

-----------------------------------------------------------------------------
(* k cells have been filled from the string y, and with zeros behind it.   *)
Filling(m, r, d, y, k) ==
  /\ r.ram \in Window /\ r.ended \in BOOLEAN /\ (r.ended <=> k > Len(y))
  /\ \A c \in Memory!Cells :
       r.ram[c] = IF c \in d .. d + k - 1
                  THEN IF c - d < Len(y) THEN y[c - d + 1] ELSE 0
                  ELSE m[c]

(* A step of strncpy: nothing but zeros once its string has ended.         *)
Fill(r, d, s, k) ==
  LET b == IF r.ended THEN 0 ELSE Memory!At(r.ram, s + k - 1)
  IN [ram |-> Memory!Put(r.ram, d + k - 1, b), ended |-> b = 0]

(* A step of strncpy fills one more cell.                                  *)
LEMMA FillStep ==
  ASSUME NEW m \in Window, NEW d \in Nat, NEW s \in Memory!Cells, NEW k \in Nat, k # 0,
         s <= d => Memory!End(m, s) < d,
         NEW r, Filling(m, r, d, Memory!String(m, s), k - 1)
  PROVE  Filling(m, Fill(r, d, s, k), d, Memory!String(m, s), k)
<1> DEFINE y == Memory!String(m, s)
           n == Memory!strlen(m, s)
           b == IF r.ended THEN 0 ELSE Memory!At(r.ram, s + k - 1)
           w == Memory!Put(r.ram, d + k - 1, b)
<1>0. s \in 0 .. Size + 1 /\ s \in Nat /\ Memory!Cells \subseteq Int /\ k - 1 \in Nat
  BY MemoryAssumption DEF Memory!Cells
<1>1. /\ n \in Nat /\ Len(y) = n /\ Memory!End(m, s) = s + n
      /\ y = [u \in 1 .. n |-> Memory!At(m, s + u - 1)]
      /\ Memory!At(m, s + n) = 0
      /\ \A u \in 0 .. n - 1 : Memory!At(m, s + u) \in 1 .. 255
  <2>1. StringAt(m, s, n, y)
    BY <1>0, StringFound
  <2> HIDE DEF n, y
  <2> QED BY <2>1 DEF StringAt
<1> HIDE DEF y, n
<1>2. /\ r.ram \in Window /\ r.ended \in BOOLEAN /\ (r.ended <=> k - 1 > n)
      /\ \A c \in Memory!Cells :
           r.ram[c] = IF c \in d .. d + (k - 1) - 1
                      THEN IF c - d < n THEN y[c - d + 1] ELSE 0
                      ELSE m[c]
  <2>1. Filling(m, r, d, y, k - 1) /\ Len(y) = n
    BY <1>1 DEF y
  <2> QED BY <2>1 DEF Filling
<1>3. b = (IF k - 1 < n THEN y[k] ELSE 0) /\ (b = 0 <=> k > n) /\ b \in 0 .. 255
  <2>1. CASE k - 1 > n
    <3>1. r.ended
      BY <1>2, <2>1
    <3>2. b = 0
      BY <3>1
    <3> QED BY <1>0, <1>1, <2>1, <3>2
  <2>2. CASE k - 1 <= n
    <3>1. s + k - 1 \in Int /\ s + k - 1 \notin d .. d + (k - 1) - 1
      BY <1>0, <1>1, <2>2
    <3>2. b = Memory!At(m, s + k - 1)
      <4>0. ~r.ended
        BY <1>0, <1>1, <1>2, <2>2
      <4>1. b = Memory!At(r.ram, s + k - 1)
        BY <4>0
      <4> QED BY <1>2, <3>1, <4>1 DEF Memory!At
    <3> HIDE DEF b
    <3>3. CASE k - 1 = n
      <4>1. s + k - 1 = s + n
        BY <1>0, <1>1, <3>3
      <4> QED BY <1>0, <1>1, <3>2, <3>3, <4>1
    <3>4. CASE k - 1 < n
      <4>1. k - 1 \in 0 .. n - 1 /\ k \in 1 .. n /\ s + (k - 1) = s + k - 1
        BY <1>0, <1>1, <3>4
      <4>2. Memory!At(m, s + (k - 1)) \in 1 .. 255
        BY <1>1, <4>1
      <4>3. y[k] = Memory!At(m, s + k - 1)
        BY <1>1, <4>1
      <4>4. b \in 1 .. 255 /\ b = y[k]
        BY <3>2, <4>1, <4>2, <4>3
      <4>5. b # 0 /\ b \in 0 .. 255
        BY <4>4
      <4>6. ~(k > n)
        BY <1>0, <1>1, <3>4
      <4> QED BY <3>4, <4>4, <4>5, <4>6, Zenon
    <3>5. k - 1 = n \/ k - 1 < n
      BY <1>0, <1>1, <2>2
    <3> QED BY <3>3, <3>4, <3>5
  <2>3. k - 1 > n \/ k - 1 <= n
    BY <1>0, <1>1
  <2> QED BY <2>1, <2>2, <2>3
<1> HIDE DEF b
<1>4. /\ w \in Window /\ \A c \in Memory!Cells : w[c] = IF c = d + k - 1 THEN b ELSE r.ram[c]
  BY <1>0, <1>2, <1>3 DEF Window, Memory!Put
<1> HIDE DEF w
<1>5. ASSUME NEW c \in Memory!Cells
      PROVE  w[c] = IF c \in d .. d + k - 1
                    THEN IF c - d < n THEN y[c - d + 1] ELSE 0
                    ELSE m[c]
  <2>1. CASE c = d + k - 1
    <3>1. c \in d .. d + k - 1 /\ c - d = k - 1 /\ c - d + 1 = k
      BY <1>0, <2>1
    <3> QED BY <1>3, <1>4, <2>1, <3>1
  <2>2. CASE c # d + k - 1
    <3>1. c \in d .. d + k - 1 <=> c \in d .. d + (k - 1) - 1
      BY <1>0, <2>2
    <3>2. w[c] = r.ram[c]
      BY <1>4, <2>2
    <3>3. r.ram[c] = IF c \in d .. d + (k - 1) - 1
                     THEN IF c - d < n THEN y[c - d + 1] ELSE 0
                     ELSE m[c]
      BY <1>2
    <3> QED BY <3>1, <3>2, <3>3
  <2> QED BY <2>1, <2>2
<1> DEFINE u == Fill(r, d, s, k)
           z == b = 0
<1>6. u = [ram |-> w, ended |-> z]
  BY DEF Fill, w, b
<1>7. z \in BOOLEAN /\ (z <=> k > Len(y))
  BY <1>1, <1>3
<1> HIDE DEF u, z
<1>8. u.ram = w /\ u.ended \in BOOLEAN /\ (u.ended <=> k > Len(y))
  <2>1. u.ram = w /\ u.ended = z
    BY <1>6
  <2> QED BY <1>7, <2>1, Zenon
<1>9. ASSUME NEW c \in Memory!Cells
      PROVE  u.ram[c] = IF c \in d .. d + k - 1
                        THEN IF c - d < Len(y) THEN y[c - d + 1] ELSE 0
                        ELSE m[c]
  <2>1. w[c] = IF c \in d .. d + k - 1
               THEN IF c - d < Len(y) THEN y[c - d + 1] ELSE 0
               ELSE m[c]
    BY <1>1, <1>5
  <2> QED BY <1>8, <2>1
<1>10. Filling(m, u, d, y, k)
  BY <1>4, <1>8, <1>9 DEF Filling
<1> QED BY <1>10 DEF y, u

(* Memory that holds some bytes only goes on doing so.                     *)
Holds(B) == [Memory!Cells -> B]

(* What is read of such memory are such bytes, and so is what is written.  *)
LEMMA HoldsStill ==
  ASSUME NEW B \in SUBSET (0 .. 255), 0 \in B, NEW m \in Holds(B), NEW p, NEW b \in B
  PROVE  Memory!At(m, p) \in B /\ Memory!Put(m, p, b) \in Holds(B)
BY DEF Holds, Memory!At, Memory!Put

(* The loop of strncpy, and that it is what strncpy does.                  *)
Fills(g, m, d, s, n) ==
  g = [k \in 0 .. n |-> IF k = 0 THEN [ram |-> m, ended |-> FALSE]
                        ELSE Fill(g[k - 1], d, s, k)]

(* What it goes through holds what it may hold, and is what strncpy leaves. *)
FillsTo(g, B, m, d, s, n) ==
  /\ Fills(g, m, d, s, n)
  /\ \A k \in 0 .. n : g[k] \in [ram : Holds(B), ended : BOOLEAN]
  /\ Memory!strncpy(m, d, s, n) = IF n <= 0 THEN m ELSE g[n].ram

(* There is such a loop for every call.                                    *)
LEMMA FillLoop ==
  ASSUME NEW B \in SUBSET (0 .. 255), 0 \in B, NEW m \in Holds(B),
         NEW d, d # 0, NEW s, s # 0, NEW n \in Nat
  PROVE  \E g : FillsTo(g, B, m, d, s, n)
<1> DEFINE base == [ram |-> m, ended |-> FALSE]
           T == [ram : Holds(B), ended : BOOLEAN]
           P(r, k) == Fill(r, d, s, k)
           op == [k \in 1 .. n |-> [r \in T |-> P(r, k)]]
           g == CHOOSE f : f = [k \in 0 .. n |-> IF k = 0 THEN base ELSE P(f[k - 1], k)]
<1>1. \A k \in 1 .. n, r \in T : P(r, k) \in T
  <2> TAKE k \in 1 .. n, r \in T
  <2> DEFINE b == IF r.ended THEN 0 ELSE Memory!At(r.ram, s + k - 1)
             z == b = 0
             w == Memory!Put(r.ram, d + k - 1, b)
  <2>1. r.ram \in Holds(B)
    OBVIOUS
  <2>2. Memory!At(r.ram, s + k - 1) \in B
    BY <2>1, HoldsStill
  <2>3. b \in B
    BY <2>2
  <2>4. P(r, k) = [ram |-> w, ended |-> z]
    BY DEF Fill
  <2>5. z \in BOOLEAN
    OBVIOUS
  <2> HIDE DEF b, z, P
  <2>6. w \in Holds(B)
    BY <2>1, <2>3, HoldsStill
  <2> HIDE DEF w
  <2> QED BY <2>4, <2>5, <2>6
<1> HIDE DEF P
<1>2. op \in [1 .. n -> [T -> T]] /\ base \in T
  BY <1>1
<1>3. PICK h : Unfolds(h, n, T, base, op)
  <2> HIDE DEF op, T, base
  <2> QED BY <1>2, Unfolding
<1>4. h = [k \in 0 .. n |-> IF k = 0 THEN base ELSE P(h[k - 1], k)]
  <2>1. ASSUME NEW k \in 0 .. n, k # 0 PROVE op[k][h[k - 1]] = P(h[k - 1], k)
    <3>1. k \in 1 .. n /\ k - 1 \in 0 .. n
      BY <2>1
    <3>2. h[k - 1] \in T
      BY <1>3, <3>1 DEF Unfolds
    <3> HIDE DEF T
    <3> QED BY <3>1, <3>2
  <2> HIDE DEF op, T, base
  <2>2. [k \in 0 .. n |-> IF k = 0 THEN base ELSE op[k][h[k - 1]]]
          = [k \in 0 .. n |-> IF k = 0 THEN base ELSE P(h[k - 1], k)]
    BY <2>1
  <2> QED BY <1>3, <2>2 DEF Unfolds
<1>5. g = [k \in 0 .. n |-> IF k = 0 THEN base ELSE P(g[k - 1], k)]
  <2> HIDE DEF base, T, op
  <2> QED BY <1>4, Zenon
<1>6. Memory!strncpy(m, d, s, n) = IF n <= 0 THEN m ELSE g[n].ram
  BY DEF Memory!strncpy, P, Fill
<1>7. Fills(g, m, d, s, n)
  <2> HIDE DEF g, T, op
  <2> QED BY <1>5 DEF Fills, P
<1> HIDE DEF g, op
<1> DEFINE Good == {k \in Nat : g[k] \in T}
<1>8. 0 \in Good
  <2>1. 0 \in 0 .. n
    OBVIOUS
  <2> HIDE DEF T, base
  <2> QED BY <1>2, <1>5, <2>1
<1>9. ASSUME NEW k \in 1 .. n, k - 1 \in Good PROVE k \in Good
  <2>1. k \in 0 .. n /\ k \in Nat /\ k # 0
    OBVIOUS
  <2> HIDE DEF T, base
  <2> QED BY <1>1, <1>5, <1>9, <2>1
<1>10. \A k \in 0 .. n : k \in Good
  <2> HIDE DEF Good
  <2> QED BY <1>8, <1>9, UpTo
<1> HIDE DEF T
<1>11. FillsTo(g, B, m, d, s, n)
  BY <1>6, <1>7, <1>10 DEF FillsTo, T
<1> QED BY <1>11

(* strncpy fills n cells with its string and zeros behind it.              *)
LEMMA FilledIs ==
  ASSUME NEW m \in Window, NEW d \in Memory!Cells, NEW s \in Memory!Cells, NEW n \in Nat,
         s <= d => Memory!End(m, s) < d
  PROVE  LET y == Memory!String(m, s)
             v == Memory!strncpy(m, d, s, n)
         IN /\ v \in Window
            /\ \A c \in Memory!Cells :
                 v[c] = IF c \in d .. d + n - 1
                        THEN IF c - d < Len(y) THEN y[c - d + 1] ELSE 0
                        ELSE m[c]
<1> DEFINE y == Memory!String(m, s)
           base == [ram |-> m, ended |-> FALSE]
<1>0. d \in Nat /\ d # 0 /\ s \in Nat /\ s # 0
  BY DEF Memory!Cells
<1>1. PICK g : /\ Fills(g, m, d, s, n)
               /\ Memory!strncpy(m, d, s, n) = IF n <= 0 THEN m ELSE g[n].ram
  <2> DEFINE B == 0 .. 255
  <2>1. m \in Holds(B) /\ B \in SUBSET (0 .. 255) /\ 0 \in B
    BY DEF Window, Holds
  <2> HIDE DEF B
  <2>2. PICK g : FillsTo(g, B, m, d, s, n)
    BY <1>0, <2>1, FillLoop
  <2> QED BY <2>2 DEF FillsTo
<1>5. g = [k \in 0 .. n |-> IF k = 0 THEN base ELSE Fill(g[k - 1], d, s, k)]
  BY <1>1 DEF Fills
<1>6. Memory!strncpy(m, d, s, n) = IF n <= 0 THEN m ELSE g[n].ram
  BY <1>1
<1> DEFINE Good == {k \in Nat : Filling(m, g[k], d, y, k)}
<1>7. 0 \in Good
  <2>1. 0 \in 0 .. n
    OBVIOUS
  <2>2. g[0] = base
    BY <1>5, <2>1
  <2>3. Len(y) \in Nat
    <3>1. s \in 0 .. Size + 1
      BY MemoryAssumption DEF Memory!Cells
    <3> QED BY <3>1, StringIs
  <2> HIDE DEF y
  <2>4. base.ram = m /\ base.ended = FALSE
    OBVIOUS
  <2> HIDE DEF base
  <2>5. Filling(m, base, d, y, 0)
    <3>0. ~(0 > Len(y))
      BY <2>3
    <3>1. base.ended \in BOOLEAN /\ ~base.ended
      BY <2>4, Zenon
    <3>2. \A c \in Memory!Cells : c \notin d .. d + 0 - 1
      BY <1>0
    <3> QED BY <2>4, <3>0, <3>1, <3>2 DEF Filling
  <2> QED BY <2>2, <2>5
<1>8. ASSUME NEW k \in 1 .. n, k - 1 \in Good PROVE k \in Good
  <2>1. k \in 0 .. n /\ k \in Nat /\ k # 0
    OBVIOUS
  <2>2. g[k] = Fill(g[k - 1], d, s, k)
    BY <1>5, <2>1
  <2>3. Filling(m, g[k - 1], d, y, k - 1)
    BY <1>8
  <2>4. Filling(m, Fill(g[k - 1], d, s, k), d, y, k)
    BY <1>0, <2>1, <2>3, FillStep
  <2> QED BY <2>1, <2>2, <2>4
<1>9. n \in Good
  <2> HIDE DEF Good
  <2>1. \A k \in 0 .. n : k \in Good
    BY <1>7, <1>8, UpTo
  <2> QED BY <2>1
<1>10. Filling(m, g[n], d, y, n)
  BY <1>9
<1> DEFINE v == Memory!strncpy(m, d, s, n)
<1>11. v = g[n].ram
  <2>1. CASE n = 0
    <3>1. 0 \in 0 .. n
      OBVIOUS
    <3>2. g[0] = base
      BY <1>5, <3>1
    <3> QED BY <1>6, <2>1, <3>2
  <2>2. CASE n # 0
    BY <1>6, <2>2
  <2> QED BY <2>1, <2>2
<1> HIDE DEF y, v, base, Good
<1>12. /\ v \in Window
       /\ \A c \in Memory!Cells :
            v[c] = IF c \in d .. d + n - 1
                   THEN IF c - d < Len(y) THEN y[c - d + 1] ELSE 0
                   ELSE m[c]
  BY <1>10, <1>11 DEF Filling
<1> QED BY <1>12 DEF y, v

-----------------------------------------------------------------------------
(* The string calls build the strings they promise.                        *)
LEMMA StringsAreBuilt == ASSUME Memory!TypeOK PROVE Memory!StringsBuilt
<1>0. ram \in Window
  BY MemoryAssumption DEF Memory!TypeOK, Window
<1>1. ASSUME NEW d \in Memory!Cells, NEW s \in Memory!Cells, Memory!MayCopy(d, s)
      PROVE  LET x == Memory!String(ram, d)
                 y == Memory!String(ram, s)
                 Writes(m, first, last) == \A k \in Memory!Cells \ (first .. last) : m[k] = ram[k]
                 Builds(m, z) == d + Len(z) <= Size + 1 => Memory!String(m, d) = z
             IN /\ Builds(Memory!strcpy(ram, d, s), y)
                /\ Writes(Memory!strcpy(ram, d, s), d, d + Len(y))
                /\ Builds(Memory!strcat(ram, d, s), x \o y)
                /\ \A n \in 0 .. Size :
                     /\ Builds(Memory!strncat(ram, d, s, n), x \o Memory!Cut(y, n))
                     /\ Writes(Memory!strncat(ram, d, s, n), d + Len(x),
                               d + Len(x \o Memory!Cut(y, n)))
                     /\ Writes(Memory!strncpy(ram, d, s, n), d, d + n - 1)
                     /\ \A k \in Memory!Cells \cap (d .. d + n - 1) :
                          Memory!strncpy(ram, d, s, n)[k]
                            = IF k - d < Len(y) THEN y[k - d + 1] ELSE 0
  <2> DEFINE x == Memory!String(ram, d)
             y == Memory!String(ram, s)
             e == Memory!End(ram, d)
  <2>1. /\ d \in 0 .. Size + 1 /\ d \in Nat /\ d # 0 /\ s \in 0 .. Size + 1 /\ s \in Nat /\ s # 0
        /\ Size \in Nat /\ Memory!Cells \subseteq Int
    BY MemoryAssumption DEF Memory!Cells
  <2>2. /\ Len(x) \in Nat /\ e = d + Len(x) /\ x \in Text
    <3>1. /\ Memory!strlen(ram, d) \in Nat /\ Len(x) = Memory!strlen(ram, d)
          /\ e = d + Memory!strlen(ram, d) /\ x \in Seq(1 .. 255)
      BY <1>0, <2>1, StringIs
    <3> HIDE DEF e, x
    <3> QED BY <3>1 DEF Text
  <2>3. /\ Len(y) \in Nat /\ Memory!End(ram, s) = s + Len(y) /\ y \in Text
    <3>1. /\ Memory!strlen(ram, s) \in Nat /\ Len(y) = Memory!strlen(ram, s)
          /\ Memory!End(ram, s) = s + Memory!strlen(ram, s) /\ y \in Seq(1 .. 255)
      BY <1>0, <2>1, StringIs
    <3> HIDE DEF y
    <3> QED BY <3>1 DEF Text
  <2>4. /\ e \in Nat
        /\ s < d => Memory!End(ram, s) < d
        /\ s <= d => Memory!End(ram, s) < d
        /\ s < e => Memory!End(ram, s) < e
    <3>1. ~(s < e + 1 /\ d <= Memory!End(ram, s))
      BY <1>1, <2>1 DEF Memory!MayCopy
    <3> HIDE DEF e, x, y
    <3> QED BY <2>1, <2>2, <2>3, <3>1
  <2> HIDE DEF e, x, y
  <2>5. Written(ram, Memory!strcpy(ram, d, s), d, y)
    <3>1. Memory!strcpy(ram, d, s) = Memory!StringCopied(ram, d, s)
      BY <2>1 DEF Memory!strcpy
    <3> QED BY <1>0, <2>1, <2>4, <3>1, StringCopiedIs DEF y
  <2>6. Written(ram, Memory!strcat(ram, d, s), d + Len(x), y)
    <3>1. Memory!strcat(ram, d, s) = Memory!StringCopied(ram, e, s)
      BY <2>1 DEF Memory!strcat, e
    <3>2. Written(ram, Memory!StringCopied(ram, e, s), e, y)
      BY <1>0, <2>4, StringCopiedIs DEF y
    <3> QED BY <2>2, <3>1, <3>2
  <2>7. d + Len(y) <= Size + 1 => Memory!String(Memory!strcpy(ram, d, s), d) = y
    BY <1>0, <2>3, <2>5, WrittenIs
  <2>8. \A k \in Memory!Cells \ (d .. d + Len(y)) : Memory!strcpy(ram, d, s)[k] = ram[k]
    <3> TAKE k \in Memory!Cells \ (d .. d + Len(y))
    <3>1. k \in Memory!Cells /\ k \notin d .. d + Len(y) - 1 /\ k # d + Len(y)
      BY <2>1, <2>3
    <3> QED BY <2>5, <3>1 DEF Written
  <2>9. d + Len(x \o y) <= Size + 1 => Memory!String(Memory!strcat(ram, d, s), d) = x \o y
    BY <1>0, <2>3, <2>6, AppendedIs DEF x
  <2>10. ASSUME NEW n \in 0 .. Size
         PROVE  /\ d + Len(x \o Memory!Cut(y, n)) <= Size + 1
                     => Memory!String(Memory!strncat(ram, d, s, n), d) = x \o Memory!Cut(y, n)
                /\ \A k \in Memory!Cells \ (d + Len(x) .. d + Len(x \o Memory!Cut(y, n))) :
                     Memory!strncat(ram, d, s, n)[k] = ram[k]
    <3> DEFINE z == Memory!Cut(y, n)
               v == Memory!strncat(ram, d, s, n)
    <3>1. v = Memory!Appended(ram, e, s, n)
      BY <2>1 DEF Memory!strncat, e
    <3>2. n \in Nat
      BY <2>1
    <3>3. z \in Text /\ Written(ram, Memory!Appended(ram, e, s, n), e, z)
      BY <1>0, <2>4, <3>2, AppendedFirst DEF y
    <3>4. Written(ram, v, d + Len(x), z)
      BY <2>2, <3>1, <3>3
    <3> HIDE DEF z, v
    <3>5. /\ Len(x \o z) = Len(x) + Len(z)
          /\ d + Len(x \o z) <= Size + 1 => Memory!String(v, d) = x \o z
      BY <1>0, <3>3, <3>4, AppendedIs DEF x
    <3>6. Len(z) \in Nat
      BY <3>3, TextIs
    <3>7. \A k \in Memory!Cells \ (d + Len(x) .. d + Len(x \o z)) : v[k] = ram[k]
      <4> TAKE k \in Memory!Cells \ (d + Len(x) .. d + Len(x \o z))
      <4>1. /\ k \in Memory!Cells /\ k \notin d + Len(x) .. d + Len(x) + Len(z) - 1
            /\ k # d + Len(x) + Len(z)
        BY <2>1, <2>2, <3>5, <3>6
      <4> QED BY <3>4, <4>1 DEF Written
    <3> QED BY <3>5, <3>7 DEF z, v
  <2>11. ASSUME NEW n \in 0 .. Size
         PROVE  /\ \A k \in Memory!Cells \ (d .. d + n - 1) :
                     Memory!strncpy(ram, d, s, n)[k] = ram[k]
                /\ \A k \in Memory!Cells \cap (d .. d + n - 1) :
                     Memory!strncpy(ram, d, s, n)[k]
                       = IF k - d < Len(y) THEN y[k - d + 1] ELSE 0
    <3> DEFINE v == Memory!strncpy(ram, d, s, n)
    <3>1. n \in Nat
      BY <2>1
    <3>2. \A c \in Memory!Cells :
            v[c] = IF c \in d .. d + n - 1
                   THEN IF c - d < Len(y) THEN y[c - d + 1] ELSE 0
                   ELSE ram[c]
      BY <1>0, <2>4, <3>1, FilledIs DEF y
    <3> HIDE DEF v
    <3>3. /\ \A k \in Memory!Cells \ (d .. d + n - 1) : v[k] = ram[k]
          /\ \A k \in Memory!Cells \cap (d .. d + n - 1) :
               v[k] = IF k - d < Len(y) THEN y[k - d + 1] ELSE 0
      BY <3>2
    <3> QED BY <3>3 DEF v
  <2> QED BY <2>7, <2>8, <2>9, <2>10, <2>11, Zenon DEF x, y
<1> QED BY <1>1, Zenon DEF Memory!StringsBuilt

(* toupper and tolower undo each other on letters, todigit knows digits    *)
(* and capitals, and abs leaves -128 as the one character with a sign.     *)
LEMMA LettersConvert == Memory!CharactersConverted
<1>1. 2 ^ 7 = 128 /\ 2 ^ 8 = 256 /\ 8 - 1 = 7
  OBVIOUS
<1>2. ASSUME NEW c \in 0 .. 255
      PROVE  /\ Memory!todigit(c) \in 0 .. 35 <=> Memory!IsDigit(c) \/ Memory!IsUpper(c)
             /\ Memory!IsUpper(c) => Memory!toupper(Memory!tolower(c)) = c
             /\ Memory!IsLower(c) => Memory!tolower(Memory!toupper(c)) = c
             /\ Memory!abs(c, 8) < 128 <=> c # 128
  <2>1. Memory!todigit(c) \in 0 .. 35 <=> Memory!IsDigit(c) \/ Memory!IsUpper(c)
    BY DEF Memory!todigit, Memory!IsDigit, Memory!IsUpper, Memory!IsLower, Memory!Digits
  <2>2. Memory!IsUpper(c) => Memory!toupper(Memory!tolower(c)) = c
    BY DEF Memory!IsUpper, Memory!IsLower, Memory!toupper, Memory!tolower
  <2>3. Memory!IsLower(c) => Memory!tolower(Memory!toupper(c)) = c
    BY DEF Memory!IsUpper, Memory!IsLower, Memory!toupper, Memory!tolower
  <2>4. Memory!abs(c, 8) < 128 <=> c # 128
    <3>1. Memory!abs(c, 8) = (IF c >= 128 THEN -c ELSE c) % 256
      BY <1>1 DEF Memory!abs
    <3>2. CASE c >= 128
      <4>1. (-c) % 256 = 256 - c
        BY <3>2
      <4> QED BY <3>1, <3>2, <4>1
    <3>3. CASE c < 128
      <4>1. c % 256 = c
        BY <3>3
      <4> QED BY <3>1, <3>3, <4>1
    <3> QED BY <3>2, <3>3
  <2> QED BY <2>1, <2>2, <2>3, <2>4
<1> QED BY <1>2, Zenon DEF Memory!CharactersConverted

(* A run of some bytes ends at the first other byte.                       *)
LEMMA BehindLeast ==
  ASSUME NEW m \in Window, NEW p \in 0 .. Size + 1, NEW bytes, 0 \notin bytes
  PROVE  Memory!Behind(m, p, bytes)
           = Memory!Least({k \in p .. Size + 1 : Memory!At(m, k) \notin bytes})
<1> DEFINE b == Memory!Behind(m, p, bytes)
           S == {k \in p .. Size + 1 : Memory!At(m, k) \notin bytes}
<1>1. /\ b \in p .. Size + 1 /\ Memory!At(m, b) \notin bytes
      /\ \A k \in p .. b - 1 : Memory!At(m, k) \in bytes
  BY BehindIs
<1> HIDE DEF b
<1>2. S \in SUBSET Int /\ b \in S
  BY <1>1
<1>3. \A u \in S : b <= u
  <2> SUFFICES ASSUME NEW u \in S, u < b PROVE FALSE
    BY <1>1
  <2>1. u \in p .. b - 1
    BY <1>1
  <2> QED BY <1>1, <2>1
<1> HIDE DEF S
<1>4. Memory!Least(S) = b
  BY <1>2, <1>3, LeastIs
<1> QED BY <1>4 DEF S, b

(* The powers of ten.                                                      *)
LEMMA TenIs ==
  /\ Memory!Ten[0] = 1
  /\ \A k \in 0 .. 9 : Memory!Ten[k] \in Nat /\ Memory!Ten[k] > 0
  /\ \A k \in 1 .. 9 : Memory!Ten[k] = 10 * Memory!Ten[k - 1]
<1> DEFINE T == Nat \ {0}
           op == [k \in 1 .. 9 |-> [v \in T |-> 10 * v]]
           g == CHOOSE f : f = [k \in 0 .. 9 |-> IF k = 0 THEN 1 ELSE 10 * f[k - 1]]
<1>1. op \in [1 .. 9 -> [T -> T]] /\ 1 \in T
  OBVIOUS
<1>2. PICK h : Unfolds(h, 9, T, 1, op)
  <2> HIDE DEF op, T
  <2> QED BY <1>1, Unfolding
<1>3. h = [k \in 0 .. 9 |-> IF k = 0 THEN 1 ELSE 10 * h[k - 1]]
  <2>1. ASSUME NEW k \in 0 .. 9, k # 0 PROVE op[k][h[k - 1]] = 10 * h[k - 1]
    <3>1. k \in 1 .. 9 /\ k - 1 \in 0 .. 9
      BY <2>1
    <3>2. h[k - 1] \in T
      BY <1>2, <3>1 DEF Unfolds
    <3> HIDE DEF T
    <3> QED BY <3>1, <3>2
  <2> HIDE DEF op, T
  <2>2. [k \in 0 .. 9 |-> IF k = 0 THEN 1 ELSE op[k][h[k - 1]]]
          = [k \in 0 .. 9 |-> IF k = 0 THEN 1 ELSE 10 * h[k - 1]]
    BY <2>1
  <2> QED BY <1>2, <2>2 DEF Unfolds
<1>4. g = [k \in 0 .. 9 |-> IF k = 0 THEN 1 ELSE 10 * g[k - 1]]
  BY <1>3, Zenon
<1>5. Memory!Ten = g
  BY DEF Memory!Ten
<1> HIDE DEF g, op, T
<1>6. 0 \in 0 .. 9 /\ \A k \in 1 .. 9 : k \in 0 .. 9 /\ k # 0
  OBVIOUS
<1>7. g[0] = 1 /\ \A k \in 1 .. 9 : g[k] = 10 * g[k - 1]
  BY <1>4, <1>6
<1> DEFINE Good == {k \in Nat : g[k] \in Nat /\ g[k] > 0}
<1>8. 0 \in Good /\ \A k \in 1 .. 9 : k - 1 \in Good => k \in Good
  <2>1. 0 \in Good
    BY <1>7
  <2>2. ASSUME NEW k \in 1 .. 9, k - 1 \in Good PROVE k \in Good
    <3>1. g[k] = 10 * g[k - 1] /\ g[k - 1] \in Nat /\ g[k - 1] > 0 /\ k \in Nat
      BY <1>7, <2>2
    <3>2. 10 * g[k - 1] \in Nat /\ 10 * g[k - 1] > 0
      BY <3>1
    <3> QED BY <3>1, <3>2
  <2> QED BY <2>1, <2>2
<1>9. \A k \in 0 .. 9 : k \in Good
  <2> HIDE DEF Good
  <2> QED BY <1>8, UpTo
<1> QED BY <1>5, <1>7, <1>9

(* There is one quotient.                                                  *)
LEMMA DividedOnly ==
  ASSUME NEW x \in Nat, NEW r \in Nat, r > 0, NEW u \in Nat, NEW v \in 0 .. r - 1,
         x = (r * u) + v
  PROVE  x \div r = u
<1> DEFINE q == x \div r
           w == x % r
<1>1. x = (r * q) + w /\ q \in Nat /\ w \in 0 .. r - 1
  BY Divided, RestIn
<1> HIDE DEF q, w
<1>2. (r * (u - q)) + v = w
  <2>1. r * (u - q) = (r * u) - (r * q)
    BY <1>1
  <2>2. r * u \in Nat /\ r * q \in Nat
    BY <1>1
  <2> QED BY <1>1, <2>1, <2>2
<1>3. v = w
  <2> DEFINE z == u - q
  <2>1. z \in Int /\ v \in 0 .. r - 1 /\ w \in 0 .. r - 1 /\ (r * z) + v = w
    BY <1>1, <1>2
  <2> HIDE DEF z
  <2> QED BY <2>1, RestOnly
<1>4. r * (u - q) = 0
  <2>1. r * (u - q) \in Int
    BY <1>1
  <2> QED BY <1>1, <1>2, <1>3, <2>1
<1>5. u = q
  <2>1. CASE u - q >= 1
    <3>1. r * (u - q) >= r
      BY <1>1, <2>1
    <3> QED BY <1>1, <1>4, <3>1
  <2>2. CASE u - q <= -1
    <3>1. r * (u - q) <= -r
      BY <1>1, <2>2
    <3> QED BY <1>1, <1>4, <3>1
  <2> QED BY <1>1, <2>1, <2>2
<1> QED BY <1>5 DEF q

(* A number of n digits, read from the left.                               *)
Reads(g, n, D) ==
  /\ g[0] = 0
  /\ \A k \in 1 .. n : D[k] \in 0 .. 9 /\ g[k] = (10 * g[k - 1]) + D[k]

(* Such a number has the digits it was read from.                          *)
LEMMA NumberIs ==
  ASSUME NEW n \in 0 .. 9, NEW g, NEW D, Reads(g, n, D)
  PROVE  /\ g[n] \in 0 .. Memory!Ten[n] - 1
         /\ \A u \in 0 .. n - 1 : (g[n] \div Memory!Ten[u]) % 10 = D[n - u]
<1> DEFINE t(k) == Memory!Ten[k]
<1>1. /\ t(0) = 1 /\ \A k \in 0 .. 9 : t(k) \in Nat /\ t(k) > 0
      /\ \A k \in 1 .. 9 : t(k) = 10 * t(k - 1)
  BY TenIs
<1> HIDE DEF t
<1> DEFINE Good == {k \in Nat : g[k] \in Nat /\ g[k] < t(k)}
<1>2. 0 \in Good
  BY <1>1 DEF Reads
<1>3. ASSUME NEW k \in 1 .. n, k - 1 \in Good PROVE k \in Good
  <2>1. D[k] \in 0 .. 9 /\ g[k] = (10 * g[k - 1]) + D[k] /\ k \in 1 .. 9 /\ k - 1 \in 0 .. 9
    BY DEF Reads
  <2>2. g[k - 1] \in Nat /\ g[k - 1] < t(k - 1)
    BY <1>3
  <2>3. t(k) = 10 * t(k - 1) /\ t(k - 1) \in Nat
    BY <1>1, <2>1
  <2>4. (10 * g[k - 1]) + D[k] \in Nat /\ (10 * g[k - 1]) + D[k] < 10 * t(k - 1)
    BY <2>1, <2>2, <2>3
  <2> QED BY <2>1, <2>3, <2>4
<1>4. \A k \in 0 .. n : k \in Good
  <2> HIDE DEF Good
  <2> QED BY <1>2, <1>3, UpTo
<1>5. \A k \in 0 .. n : g[k] \in Nat /\ g[k] < t(k)
  BY <1>4
<1> HIDE DEF Good
<1> DEFINE Left == {u \in Nat : \E v \in 0 .. t(u) - 1 : g[n] = (t(u) * g[n - u]) + v}
<1>6. 0 \in Left
  <2>1. n \in 0 .. n /\ n - 0 = n /\ 0 \in 0 .. t(0) - 1
    BY <1>1
  <2>2. g[n] = (t(0) * g[n - 0]) + 0
    BY <1>1, <1>5, <2>1
  <2> QED BY <2>1, <2>2
<1>7. ASSUME NEW u \in 1 .. n, u - 1 \in Left PROVE u \in Left
  <2>1. PICK v \in 0 .. t(u - 1) - 1 : g[n] = (t(u - 1) * g[n - (u - 1)]) + v
    BY <1>7
  <2> DEFINE k == n - (u - 1)
             d == D[k]
             y == g[k - 1]
             r == t(u - 1)
  <2>2. k \in 1 .. n /\ k - 1 \in 0 .. n /\ k - 1 = n - u /\ u \in 1 .. 9 /\ u - 1 \in 0 .. 9
    OBVIOUS
  <2>3. d \in 0 .. 9 /\ g[k] = (10 * y) + d /\ y \in Nat
    BY <1>5, <2>2 DEF Reads
  <2>4. t(u) = 10 * r /\ r \in Nat /\ r > 0
    BY <1>1, <2>2
  <2>5. g[n] = (r * g[k]) + v /\ v \in 0 .. r - 1
    BY <2>1
  <2> HIDE DEF k, d, y, r
  <2> DEFINE w == (r * d) + v
  <2>6. w \in 0 .. (10 * r) - 1
    <3>1. r * d \in Nat /\ r * d <= r * 9
      BY <2>3, <2>4
    <3> QED BY <2>4, <2>5, <3>1
  <2>7. g[n] = ((10 * r) * y) + w
    <3>1. r * ((10 * y) + d) = ((10 * r) * y) + (r * d)
      BY <2>3, <2>4
    <3>2. (10 * r) * y \in Nat /\ r * d \in Nat
      BY <2>3, <2>4
    <3> QED BY <2>3, <2>4, <2>5, <3>1, <3>2
  <2> HIDE DEF w
  <2>8. w \in 0 .. t(u) - 1 /\ g[n] = (t(u) * g[n - u]) + w
    BY <2>2, <2>4, <2>6, <2>7 DEF y
  <2> QED BY <2>8
<1>8. \A u \in 0 .. n : u \in Left
  <2> HIDE DEF Left
  <2> QED BY <1>6, <1>7, UpTo
<1>9. ASSUME NEW u \in 0 .. n - 1 PROVE (g[n] \div t(u)) % 10 = D[n - u]
  <2>1. /\ u \in 0 .. n /\ u \in 0 .. 9 /\ n - u \in 1 .. n /\ n - u \in 0 .. n /\ n \in 0 .. n
        /\ (n - u) - 1 \in 0 .. n
    OBVIOUS
  <2>2. PICK v \in 0 .. t(u) - 1 : g[n] = (t(u) * g[n - u]) + v
    BY <1>8, <2>1
  <2>3. g[n] \in Nat /\ g[n - u] \in Nat /\ t(u) \in Nat /\ t(u) > 0
    BY <1>1, <1>5, <2>1
  <2>4. g[n] \div t(u) = g[n - u]
    BY <2>2, <2>3, DividedOnly
  <2> DEFINE k == n - u
             d == D[k]
             y == g[k - 1]
  <2>5. d \in 0 .. 9 /\ g[k] = (10 * y) + d /\ y \in Nat
    BY <1>5, <2>1 DEF Reads
  <2> HIDE DEF d, y
  <2>6. ((10 * y) + d) % 10 = d
    BY <2>5
  <2>7. g[k] % 10 = d
    BY <2>5, <2>6
  <2> QED BY <2>4, <2>7 DEF d
<1>10. n \in 0 .. n /\ n \in 0 .. 9
  OBVIOUS
<1>11. g[n] \in 0 .. t(n) - 1
  BY <1>1, <1>5, <1>10
<1> QED BY <1>9, <1>11 DEF t

(* atoi reads the digits that are there from the left.                     *)
LEMMA NumberReads ==
  ASSUME NEW m \in Window, NEW f \in 0 .. Size + 1
  PROVE  LET b == Memory!Behind(m, f, Memory!Digits)
         IN \E g, D : /\ Reads(g, b - f, D) /\ Memory!Number(m, f) = g[b - f]
                      /\ \A k \in 1 .. b - f : D[k] = Memory!At(m, f + k - 1) - 48
<1> DEFINE b == Memory!Behind(m, f, Memory!Digits)
           n == b - f
           X(k) == Memory!At(m, f + k - 1)
           D == [k \in 1 .. n |-> X(k) - 48]
           op == [k \in 1 .. n |-> [v \in Int |-> v * 10 + X(k) - 48]]
           g == CHOOSE h : h = [k \in 0 .. n |-> IF k = 0 THEN 0 ELSE h[k - 1] * 10 + X(k) - 48]
<1>0. Size + 1 \in Nat /\ f \in Nat
  BY MemoryAssumption
<1>1. /\ b \in f .. Size + 1
      /\ \A k \in f .. b - 1 : Memory!At(m, k) \in Memory!Digits
  <2>1. 0 \notin Memory!Digits
    BY DEF Memory!Digits
  <2> QED BY <2>1, BehindIs
<1>2. Memory!Number(m, f) = g[n]
  BY DEF Memory!Number
<1> HIDE DEF b, g
<1>3. n \in Nat
  BY <1>0, <1>1
<1>4. ASSUME NEW k \in 1 .. n PROVE X(k) \in Int /\ X(k) - 48 \in 0 .. 9
  <2>1. f + k - 1 \in f .. b - 1
    BY <1>0, <1>1, <1>3
  <2>2. X(k) \in Memory!Digits
    BY <1>1, <2>1
  <2> QED BY <2>2 DEF Memory!Digits
<1> HIDE DEF X, n
<1>5. op \in [1 .. n -> [Int -> Int]] /\ 0 \in Int
  BY <1>4
<1>6. PICK h : Unfolds(h, n, Int, 0, op)
  <2> HIDE DEF op
  <2> QED BY <1>3, <1>5, Unfolding
<1>7. h = [k \in 0 .. n |-> IF k = 0 THEN 0 ELSE h[k - 1] * 10 + X(k) - 48]
  <2>1. ASSUME NEW k \in 0 .. n, k # 0 PROVE op[k][h[k - 1]] = h[k - 1] * 10 + X(k) - 48
    <3>1. k \in 1 .. n /\ k - 1 \in 0 .. n
      BY <1>3, <2>1
    <3>2. h[k - 1] \in Int
      BY <1>6, <3>1 DEF Unfolds
    <3> QED BY <3>1, <3>2
  <2> HIDE DEF op
  <2>2. [k \in 0 .. n |-> IF k = 0 THEN 0 ELSE op[k][h[k - 1]]]
          = [k \in 0 .. n |-> IF k = 0 THEN 0 ELSE h[k - 1] * 10 + X(k) - 48]
    BY <2>1
  <2> QED BY <1>6, <2>2 DEF Unfolds
<1>8. g = [k \in 0 .. n |-> IF k = 0 THEN 0 ELSE g[k - 1] * 10 + X(k) - 48]
  BY <1>7, Zenon DEF g
<1> DEFINE Ints == {k \in Nat : g[k] \in Int}
<1>9. /\ g[0] = 0
      /\ \A k \in 1 .. n : g[k] = g[k - 1] * 10 + X(k) - 48
  <2>1. 0 \in 0 .. n /\ \A k \in 1 .. n : k \in 0 .. n /\ k # 0
    BY <1>3
  <2> HIDE DEF op
  <2> QED BY <1>8, <2>1
<1>10. \A k \in 0 .. n : g[k] \in Int
  <2>1. 0 \in Ints
    BY <1>9
  <2>2. ASSUME NEW k \in 1 .. n, k - 1 \in Ints PROVE k \in Ints
    <3>1. g[k] = g[k - 1] * 10 + X(k) - 48 /\ X(k) \in Int /\ g[k - 1] \in Int /\ k \in Nat
      BY <1>4, <1>9, <2>2
    <3> QED BY <3>1
  <2>3. \A k \in 0 .. n : k \in Ints
    <3> HIDE DEF Ints
    <3> QED BY <1>3, <2>1, <2>2, UpTo
  <2> QED BY <2>3
<1>11. ASSUME NEW k \in 1 .. n
       PROVE  D[k] \in 0 .. 9 /\ g[k] = (10 * g[k - 1]) + D[k]
  <2>1. k - 1 \in 0 .. n
    BY <1>3
  <2>2. g[k - 1] \in Int /\ X(k) \in Int /\ X(k) - 48 \in 0 .. 9 /\ D[k] = X(k) - 48
    BY <1>4, <1>10, <2>1
  <2>3. g[k] = g[k - 1] * 10 + X(k) - 48
    BY <1>9
  <2> HIDE DEF D
  <2> QED BY <2>2, <2>3
<1> HIDE DEF D, op, Ints
<1>12. Reads(g, n, D)
  BY <1>9, <1>11 DEF Reads
<1>13. \A k \in 1 .. n : D[k] = X(k) - 48
  BY DEF D
<1>14. \E u, v : /\ Reads(u, n, v) /\ Memory!Number(m, f) = u[n]
                 /\ \A k \in 1 .. n : v[k] = X(k) - 48
  BY <1>2, <1>12, <1>13
<1> QED BY <1>14 DEF n, b, X

(* atoi answers the number whose digits they are, and its sign.            *)
LEMMA NumbersAreRead == ASSUME Memory!TypeOK PROVE Memory!NumbersRead
<1>0. ram \in Window
  BY MemoryAssumption DEF Memory!TypeOK, Window
<1>1. ASSUME NEW p \in Memory!Cells
      PROVE  LET sign == Memory!Least({k \in p .. Size + 1 :
                                         Memory!At(ram, k) \notin Memory!Blanks})
                 first == IF Memory!At(ram, sign) \in {Memory!Minus, Memory!Plus}
                          THEN sign + 1 ELSE sign
                 behind == Memory!Least({k \in first .. Size + 1 :
                                           ~Memory!IsDigit(Memory!At(ram, k))})
                 value == IF Memory!At(ram, sign) = Memory!Minus
                          THEN -Memory!atoi(ram, p) ELSE Memory!atoi(ram, p)
             IN behind - first <= 9 =>
                  /\ value \in 0 .. Memory!Ten[behind - first] - 1
                  /\ \A k \in first .. behind - 1 :
                       (value \div Memory!Ten[behind - k - 1]) % 10 = Memory!At(ram, k) - 48
  <2> DEFINE sign == Memory!Least({k \in p .. Size + 1 :
                                     Memory!At(ram, k) \notin Memory!Blanks})
             first == IF Memory!At(ram, sign) \in {Memory!Minus, Memory!Plus}
                      THEN sign + 1 ELSE sign
             behind == Memory!Least({k \in first .. Size + 1 :
                                       ~Memory!IsDigit(Memory!At(ram, k))})
             value == IF Memory!At(ram, sign) = Memory!Minus
                      THEN -Memory!atoi(ram, p) ELSE Memory!atoi(ram, p)
  <2>0. p \in 0 .. Size + 1 /\ p \in Nat /\ Size \in Nat
    BY MemoryAssumption DEF Memory!Cells
  <2>1. sign = Memory!Behind(ram, p, Memory!Blanks) /\ sign \in p .. Size + 1
    <3>1. 0 \notin Memory!Blanks
      BY DEF Memory!Blanks
    <3> QED BY <1>0, <2>0, <3>1, BehindIs, BehindLeast
  <2> HIDE DEF sign
  <2>2. first \in 0 .. Size + 1 /\ first \in Nat
    <3>1. CASE Memory!At(ram, sign) \in {Memory!Minus, Memory!Plus}
      <4>1. Memory!At(ram, sign) # 0 /\ sign \in Int
        BY <2>0, <2>1, <3>1 DEF Memory!Minus, Memory!Plus
      <4>2. sign \in Memory!Cells
        BY <1>0, <4>1, AtType
      <4> QED BY <2>0, <3>1, <4>2 DEF Memory!Cells
    <3>2. CASE Memory!At(ram, sign) \notin {Memory!Minus, Memory!Plus}
      BY <2>0, <2>1, <3>2
    <3> QED BY <3>1, <3>2
  <2>3. /\ Memory!At(ram, sign) = Memory!Minus => Memory!atoi(ram, p) = -Memory!Number(ram, first)
        /\ Memory!At(ram, sign) # Memory!Minus => Memory!atoi(ram, p) = Memory!Number(ram, first)
    BY <2>1 DEF Memory!atoi
  <2> HIDE DEF first
  <2>4. behind = Memory!Behind(ram, first, Memory!Digits) /\ behind \in first .. Size + 1
    <3>1. 0 \notin Memory!Digits
      BY DEF Memory!Digits
    <3>2. {k \in first .. Size + 1 : ~Memory!IsDigit(Memory!At(ram, k))}
            = {k \in first .. Size + 1 : Memory!At(ram, k) \notin Memory!Digits}
      BY DEF Memory!IsDigit
    <3> QED BY <1>0, <2>2, <3>1, <3>2, BehindIs, BehindLeast
  <2> HIDE DEF behind
  <2> DEFINE n == behind - first
  <2>5. n \in Nat /\ behind \in Int
    BY <2>0, <2>2, <2>4
  <2>6. PICK g, D : /\ Reads(g, n, D) /\ Memory!Number(ram, first) = g[n]
                    /\ \A k \in 1 .. n : D[k] = Memory!At(ram, first + k - 1) - 48
    BY <1>0, <2>2, <2>4, NumberReads
  <2>7. ASSUME n <= 9
        PROVE  /\ value \in 0 .. Memory!Ten[behind - first] - 1
               /\ \A k \in first .. behind - 1 :
                    (value \div Memory!Ten[behind - k - 1]) % 10 = Memory!At(ram, k) - 48
    <3> HIDE DEF value
    <3>1. n \in 0 .. 9
      BY <2>5, <2>7
    <3>2. /\ g[n] \in 0 .. Memory!Ten[n] - 1
          /\ \A u \in 0 .. n - 1 : (g[n] \div Memory!Ten[u]) % 10 = D[n - u]
      <4> HIDE DEF n
      <4> QED BY <2>6, <3>1, NumberIs
    <3>3. value = g[n]
      <4>1. Memory!Ten[n] \in Nat
        BY <3>1, TenIs
      <4>2. g[n] \in Int
        <5> DEFINE z == Memory!Ten[n]
                   y == g[n]
        <5>1. y \in 0 .. z - 1 /\ z \in Nat
          BY <3>2, <4>1
        <5> HIDE DEF z, y
        <5>2. y \in Int
          BY <5>1
        <5> QED BY <5>2 DEF y
      <4> DEFINE y == g[n]
      <4>3. y \in Int /\ Memory!Number(ram, first) = y
        BY <2>6, <4>2
      <4> HIDE DEF y
      <4>4. -(-y) = y
        BY <4>3
      <4>5. value = y
        BY <2>3, <4>3, <4>4 DEF value
      <4> QED BY <4>5 DEF y
    <3>4. ASSUME NEW k \in first .. behind - 1
          PROVE  (value \div Memory!Ten[behind - k - 1]) % 10 = Memory!At(ram, k) - 48
      <4> DEFINE u == behind - k - 1
      <4>1. u \in 0 .. n - 1 /\ n - u = k - first + 1 /\ k - first + 1 \in 1 .. n
            /\ first + (k - first + 1) - 1 = k
        BY <2>2, <2>5
      <4> HIDE DEF u, n
      <4>2. (g[n] \div Memory!Ten[u]) % 10 = D[n - u]
        BY <3>2, <4>1
      <4>3. D[k - first + 1] = Memory!At(ram, k) - 48
        BY <2>6, <4>1
      <4> QED BY <3>3, <4>1, <4>2, <4>3 DEF u
    <3> QED BY <3>2, <3>3, <3>4
  <2> QED BY <2>7 DEF sign, first, behind
<1> QED BY <1>1, LettersConvert, Zenon DEF Memory!NumbersRead

-----------------------------------------------------------------------------
(* What a call leaves in memory is bytes that were there, zeros and the    *)
(* byte it was given.                                                      *)
LEMMA CopiedHolds ==
  ASSUME NEW B \in SUBSET (0 .. 255), 0 \in B, NEW m \in Holds(B),
         NEW d \in Nat, NEW s \in Nat, NEW n \in Nat
  PROVE  Memory!Forward(m, d, s, n) \in Holds(B)
<1> DEFINE v == Memory!Forward(m, d, s, n)
<1>1. m \in Window
  BY DEF Window, Holds
<1>2. Copied(m, v, d, s, n)
  BY <1>1, ForwardIs
<1> HIDE DEF v
<1>3. v \in Window /\ \A c \in Memory!Cells : v[c] \in B
  <2>1. \A c \in Memory!Cells : m[c] \in B /\ Memory!At(m, Source(d, s, c - d)) \in B
    BY HoldsStill DEF Holds
  <2> QED BY <1>2, <2>1 DEF Copied
<1>4. v \in Holds(B)
  BY <1>3 DEF Window, Holds
<1> QED BY <1>4 DEF v

(* The same of a copy from the end,                                        *)
LEMMA CopiedBackHolds ==
  ASSUME NEW B \in SUBSET (0 .. 255), 0 \in B, NEW m \in Holds(B),
         NEW d \in Nat, NEW s \in Nat, s <= d, NEW n \in Nat
  PROVE  Memory!Backward(m, d, s, n) \in Holds(B)
<1> DEFINE v == Memory!Backward(m, d, s, n)
<1>1. m \in Window
  BY DEF Window, Holds
<1>2. CopiedBack(m, v, d, s, n)
  BY <1>1, BackwardIs
<1> HIDE DEF v
<1>3. v \in Window /\ \A c \in Memory!Cells : v[c] \in B
  <2>1. \A c \in Memory!Cells : m[c] \in B /\ Memory!At(m, s + (c - d)) \in B
    BY HoldsStill DEF Holds
  <2> QED BY <1>2, <2>1 DEF CopiedBack
<1>4. v \in Holds(B)
  BY <1>3 DEF Window, Holds
<1> QED BY <1>4 DEF v

(* and of memset.                                                          *)
LEMMA SetHolds ==
  ASSUME NEW B \in SUBSET (0 .. 255), 0 \in B, NEW m \in Holds(B),
         NEW d, NEW b \in B, NEW n \in Nat
  PROVE  Memory!Filled(m, d, b, n) \in Holds(B)
<1> DEFINE T == Holds(B)
           P(v, k) == Memory!Put(v, d + k - 1, b)
           op == [k \in 1 .. n |-> [v \in T |-> P(v, k)]]
           g == CHOOSE f : f = [k \in 0 .. n |-> IF k = 0 THEN m ELSE P(f[k - 1], k)]
<1>1. \A k \in 1 .. n, v \in T : P(v, k) \in T
  BY HoldsStill
<1> HIDE DEF P, T
<1>2. op \in [1 .. n -> [T -> T]] /\ m \in T
  BY <1>1 DEF T
<1>3. PICK h : Unfolds(h, n, T, m, op)
  <2> HIDE DEF op
  <2> QED BY <1>2, Unfolding
<1>4. h = [k \in 0 .. n |-> IF k = 0 THEN m ELSE P(h[k - 1], k)]
  <2>1. ASSUME NEW k \in 0 .. n, k # 0 PROVE op[k][h[k - 1]] = P(h[k - 1], k)
    <3>1. k \in 1 .. n /\ k - 1 \in 0 .. n
      BY <2>1
    <3>2. h[k - 1] \in T
      BY <1>3, <3>1 DEF Unfolds
    <3> QED BY <3>1, <3>2
  <2> HIDE DEF op
  <2>2. [k \in 0 .. n |-> IF k = 0 THEN m ELSE op[k][h[k - 1]]]
          = [k \in 0 .. n |-> IF k = 0 THEN m ELSE P(h[k - 1], k)]
    BY <2>1
  <2> QED BY <1>3, <2>2 DEF Unfolds
<1>5. g = [k \in 0 .. n |-> IF k = 0 THEN m ELSE P(g[k - 1], k)]
  BY <1>4, Zenon
<1>6. Memory!Filled(m, d, b, n) = g[n]
  BY DEF Memory!Filled, P
<1> HIDE DEF g, op
<1> DEFINE Good == {k \in Nat : g[k] \in T}
<1>7. 0 \in Good
  <2>1. 0 \in 0 .. n
    OBVIOUS
  <2> QED BY <1>2, <1>5, <2>1
<1>8. ASSUME NEW k \in 1 .. n, k - 1 \in Good PROVE k \in Good
  <2>1. k \in 0 .. n /\ k \in Nat /\ k # 0
    OBVIOUS
  <2> QED BY <1>1, <1>5, <1>8, <2>1
<1>9. n \in Good
  <2> HIDE DEF Good
  <2>1. \A k \in 0 .. n : k \in Good
    BY <1>7, <1>8, UpTo
  <2> QED BY <2>1
<1> QED BY <1>6, <1>9 DEF T

(* After each call RAM holds the bytes it may hold.                        *)
LEMMA MemoryHolds ==
  ASSUME Memory!TypeOK, Memory!Next
  PROVE  Memory!TypeOK'
<1> DEFINE B == Bytes
           T == Holds(B)
<1>0. /\ ram \in T /\ B \in SUBSET (0 .. 255) /\ 0 \in B /\ Size \in Nat
      /\ ram \in Window
  BY MemoryAssumption DEF Memory!TypeOK, Holds, Window
<1> SUFFICES ram' \in T
  BY DEF Memory!TypeOK, Holds
<1> HIDE DEF T, B
<1>1. PICK d \in Memory!Pointers :
        \/ \E n \in Memory!Counts : Memory!Bzero(d, n) \/ \E b \in Bytes : Memory!Memset(d, b, n)
        \/ \E s \in Memory!Pointers :
             \/ Memory!Strcpy(d, s) \/ Memory!Strcat(d, s) \/ Memory!Strtok(d, s)
             \/ \E n \in Memory!Counts :
                  \/ Memory!Strncpy(d, s, n) \/ Memory!Strncat(d, s, n)
                  \/ Memory!Memcpy(d, s, n) \/ Memory!Bcopy(s, d, n) \/ Memory!Memmove(d, s, n)
  BY Zenon DEF Memory!Next
<1>2. \A q \in Memory!Pointers : q \in Nat /\ q \in 0 .. Size + 1
  BY <1>0 DEF Memory!Pointers
<1>3. \A n \in Memory!Counts : n \in Int /\ (n < 0 \/ n \in Nat)
  BY <1>0 DEF Memory!Counts
<1>4. ASSUME NEW e \in Nat, NEW s \in Nat, NEW n \in Nat
      PROVE  Memory!Forward(ram, e, s, n) \in T
  BY <1>0, CopiedHolds DEF T
<1>5. ASSUME NEW v \in T, NEW q PROVE Memory!Put(v, q, 0) \in T
  BY <1>0, HoldsStill DEF T
<1>6. ASSUME NEW b \in B, NEW n \in Memory!Counts PROVE Memory!memset(ram, d, b, n) \in T
  <2>1. CASE n <= 0 \/ d = 0
    BY <1>0, <2>1 DEF Memory!memset
  <2>2. CASE ~(n <= 0 \/ d = 0)
    <3>1. n \in Nat
      BY <1>3, <2>2
    <3>2. Memory!memset(ram, d, b, n) = Memory!Filled(ram, d, b, n)
      BY <2>2 DEF Memory!memset
    <3> QED BY <1>0, <3>1, <3>2, SetHolds DEF T
  <2> QED BY <2>1, <2>2
<1>7. ASSUME NEW q \in Memory!Pointers PROVE Memory!End(ram, q) \in Nat
  <2>1. Memory!End(ram, q) \in q .. Size + 1
    BY <1>0, <1>2, EndIs
  <2> QED BY <1>0, <1>2, <2>1
<1>8. ASSUME NEW e \in Nat, NEW s \in Memory!Pointers
      PROVE  Memory!StringCopied(ram, e, s) \in T
  <2>1. Memory!strlen(ram, s) \in Nat
    BY <1>0, <1>2, StringIs
  <2> DEFINE n == Memory!strlen(ram, s) + 1
  <2>2. n \in Nat
    BY <2>1
  <2>3. Memory!StringCopied(ram, e, s) = Memory!Forward(ram, e, s, n)
    BY DEF Memory!StringCopied
  <2> HIDE DEF n
  <2> QED BY <1>2, <1>4, <2>2, <2>3
<1>9. ASSUME NEW n \in Memory!Counts, Memory!Bzero(d, n) PROVE ram' \in T
  BY <1>0, <1>6, <1>9 DEF Memory!Bzero, Memory!bzero
<1>10. ASSUME NEW n \in Memory!Counts, NEW b \in Bytes, Memory!Memset(d, b, n) PROVE ram' \in T
  BY <1>6, <1>10 DEF Memory!Memset, B
<1>11. ASSUME NEW s \in Memory!Pointers, Memory!Strcpy(d, s) PROVE ram' \in T
  BY <1>0, <1>2, <1>8, <1>11 DEF Memory!Strcpy, Memory!strcpy
<1>12. ASSUME NEW s \in Memory!Pointers, Memory!Strcat(d, s) PROVE ram' \in T
  BY <1>0, <1>7, <1>8, <1>12 DEF Memory!Strcat, Memory!strcat
<1>13. ASSUME NEW s \in Memory!Pointers, Memory!Strtok(d, s) PROVE ram' \in T
  <2> DEFINE first == d + Memory!strspn(ram, d, s)
             behind == first + Memory!strcspn(ram, first, s)
  <2>1. ram' = (IF d = 0 \/ Memory!At(ram, first) = 0 THEN [ram |-> ram, v0 |-> 0]
                ELSE [ram |-> IF Memory!At(ram, behind) = 0 THEN ram
                              ELSE Memory!Put(ram, behind, 0), v0 |-> first]).ram
    BY <1>13 DEF Memory!Strtok, Memory!strtok
  <2> HIDE DEF first, behind
  <2>2. ram' = ram \/ ram' = Memory!Put(ram, behind, 0)
    BY <2>1
  <2> QED BY <1>0, <1>5, <2>2
<1>14. ASSUME NEW s \in Memory!Pointers, NEW n \in Memory!Counts, Memory!Strncpy(d, s, n)
       PROVE  ram' \in T
  <2>1. CASE d = 0 \/ s = 0 \/ n <= 0
    BY <1>0, <1>14, <2>1 DEF Memory!Strncpy, Memory!strncpy
  <2>2. CASE ~(d = 0 \/ s = 0 \/ n <= 0)
    <3>1. n \in Nat /\ n \in 0 .. n /\ d # 0 /\ s # 0
      BY <1>3, <2>2
    <3>2. PICK g : /\ \A k \in 0 .. n : g[k] \in [ram : T, ended : BOOLEAN]
                   /\ Memory!strncpy(ram, d, s, n) = IF n <= 0 THEN ram ELSE g[n].ram
      <4>1. PICK g : FillsTo(g, B, ram, d, s, n)
        BY <1>0, <3>1, FillLoop DEF T
      <4> QED BY <4>1 DEF FillsTo, T
    <3>3. g[n].ram \in T
      BY <3>1, <3>2
    <3> QED BY <1>0, <1>14, <3>2, <3>3 DEF Memory!Strncpy
  <2> QED BY <2>1, <2>2
<1>15. ASSUME NEW s \in Memory!Pointers, NEW n \in Memory!Counts, Memory!Strncat(d, s, n)
       PROVE  ram' \in T
  <2>1. CASE d = 0 \/ s = 0
    BY <1>0, <1>15, <2>1 DEF Memory!Strncat, Memory!strncat
  <2>2. CASE ~(d = 0 \/ s = 0)
    <3> DEFINE e == Memory!End(ram, d)
    <3>1. s \in Memory!Cells /\ n \in Int
      BY <1>0, <1>2, <1>3, <2>2 DEF Memory!Pointers, Memory!Cells
    <3>2. ram' = Memory!Appended(ram, e, s, n)
      BY <1>15, <2>2 DEF Memory!Strncat, Memory!strncat
    <3>3. e \in Nat /\ Memory!strlen(ram, s) \in Nat
      BY <1>0, <1>2, <1>7, StringIs
    <3> HIDE DEF e
    <3>4. \E t \in 0 .. Memory!strlen(ram, s) :
            /\ n \in Nat => t = IF n < Memory!strlen(ram, s) THEN n ELSE Memory!strlen(ram, s)
            /\ Memory!Appended(ram, e, s, n)
                 = Memory!Put(Memory!Forward(ram, e, s, t + 1), e + t, 0)
      BY <1>0, <3>1, <3>3, TakenIs
    <3>5. PICK t \in 0 .. Memory!strlen(ram, s) :
            Memory!Appended(ram, e, s, n)
              = Memory!Put(Memory!Forward(ram, e, s, t + 1), e + t, 0)
      BY <3>4
    <3>6. t + 1 \in Nat
      BY <3>3
    <3>7. Memory!Forward(ram, e, s, t + 1) \in T
      BY <1>2, <1>4, <3>3, <3>6
    <3> QED BY <1>5, <3>2, <3>5, <3>7
  <2> QED BY <2>1, <2>2
<1>16. ASSUME NEW s \in Memory!Pointers, NEW n \in Memory!Counts, Memory!Memcpy(d, s, n)
       PROVE  ram' \in T
  BY <1>0, <1>2, <1>3, <1>4, <1>16 DEF Memory!Memcpy, Memory!memcpy
<1>17. ASSUME NEW s \in Memory!Pointers, NEW n \in Memory!Counts, Memory!Bcopy(s, d, n)
       PROVE  ram' \in T
  BY <1>0, <1>2, <1>3, <1>4, <1>17 DEF Memory!Bcopy, Memory!bcopy
<1>18. ASSUME NEW s \in Memory!Pointers, NEW n \in Memory!Counts, Memory!Memmove(d, s, n)
       PROVE  ram' \in T
  <2>1. CASE d = 0 \/ n < 0
    BY <1>0, <1>18, <2>1 DEF Memory!Memmove, Memory!memmove
  <2>2. CASE ~(d = 0 \/ n < 0)
    <3>1. n \in Nat /\ d \in Nat /\ s \in Nat
      BY <1>2, <1>3, <2>2
    <3>2. CASE s <= d /\ s + n > d
      <4> DEFINE f == d + n + 1
                 t == s + n + 1
                 k == n + 1
      <4>1. f \in Nat /\ t \in Nat /\ k \in Nat /\ t <= f
        BY <3>1, <3>2
      <4>2. ram' = Memory!Backward(ram, f, t, k)
        BY <1>18, <2>2, <3>2 DEF Memory!Memmove, Memory!memmove
      <4> HIDE DEF f, t, k
      <4> QED BY <1>0, <4>1, <4>2, CopiedBackHolds DEF T
    <3>3. CASE ~(s <= d /\ s + n > d)
      BY <1>4, <1>18, <2>2, <3>1, <3>3 DEF Memory!Memmove, Memory!memmove
    <3> QED BY <3>2, <3>3
  <2> QED BY <2>1, <2>2
<1> QED BY <1>1, <1>9, <1>10, <1>11, <1>12, <1>13, <1>14, <1>15, <1>16, <1>17, <1>18

(* Whatever the size of RAM and the bytes in it, each comparison is the    *)
(* order of strings, each search finds the first place, memmove moves the  *)
(* whole block (memcpy and bcopy repeat its start where they overtake      *)
(* themselves), the string calls build what they promise of ranges apart,  *)
(* and atoi reads up to nine digits as the number they are.                *)
THEOREM CallsAreAsDefined == Memory!Spec => []MemoryAsDefined
<1>1. Memory!Init => Memory!TypeOK
  BY DEF Memory!Init, Memory!TypeOK
<1>2. Memory!TypeOK /\ [Memory!Next]_ram => Memory!TypeOK'
  <2>1. ASSUME Memory!TypeOK, UNCHANGED ram PROVE Memory!TypeOK'
    BY <2>1 DEF Memory!TypeOK
  <2> QED BY <2>1, MemoryHolds
<1>3. Memory!TypeOK => MemoryAsDefined
  BY OrderCompared, SearchesFind, BlocksMove, StringsAreBuilt, NumbersAreRead, Zenon
     DEF MemoryAsDefined, Memory!MemoryAsDefined
<1> QED BY <1>1, <1>2, <1>3, PTL DEF Memory!Spec
=============================================================================
