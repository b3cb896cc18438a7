---------------------------- MODULE Descriptors -----------------------------
(***************************************************************************)
(* The calls on descriptors (psxbios.cpp, 2101-2270): open, lseek, read,   *)
(* write, getc, putc and close, which look at the descriptor and hand over *)
(* to the card of its port.  CardFiles has what happens on a card; here a  *)
(* card is one file, and the question is which card, and what the call     *)
(* answers.                                                                *)
(*                                                                         *)
(* A descriptor's number is that of its card, 1 or 2, plus 1; 1 is the     *)
(* standard output (see Console).  Where no card is, nothing is read.      *)
(***************************************************************************)
EXTENDS Integers, Sequences

CONSTANTS
  Length,    \* of a file
  Bytes      \* what it may hold, of 0 .. 255

Cards == {1, 2}
Descriptor(mcd) == 1 + mcd
Offsets == 0 .. Length
Error == -1

VARIABLES
  present, \* the cards there are
  data,    \* what the files hold
  fdesc,   \* g_hle->FDesc: offset, asynchronous
  answer,  \* what the last call answered: v0, and the bytes read
  due,     \* history: what it had to answer
  view     \* history, by card: the program's file, its place in it

vars == <<present, data, fdesc, answer, due, view>>

Blank == [k \in 0 .. Length - 1 |-> 0]
Answer(v0, bytes) == [v0 |-> v0, bytes |-> bytes]

Init ==
  /\ present \in SUBSET Cards
  /\ data = [m \in Cards |-> Blank]
  /\ fdesc = [fd \in {2, 3} |-> [offset |-> 0, async |-> FALSE]]
  /\ answer = Answer(0, <<>>) /\ due = answer
  /\ view = [m \in Cards |-> [file |-> Blank, at |-> 0, async |-> FALSE, open |-> FALSE]]
-----------------------------------------------------------------------------
Signed(b) == IF b >= 128 THEN b - 256 ELSE b

Part(file, at, n) == [k \in 1 .. n |-> file[at + k - 1]]

(* The card that read, write, getc and putc take for a descriptor.         *)

(* Mutant: the second case was copied from the first and not changed.      *)
CardCopied(fd) == 1

Card(fd) == CASE fd = 2 -> 1 [] fd = 3 -> 2

(* The program uses a descriptor it got, within the file.                  *)
MayUse(m, at) == view[m].open /\ at \in 0 .. Length

Answers(v0, bytes, dueV0, dueBytes) ==
  answer' = Answer(v0, bytes) /\ due' = Answer(dueV0, dueBytes)

Moves(fd, n) == fdesc' = [fdesc EXCEPT ![fd].offset = @ + n]
Sees(m, file, at) == view' = [view EXCEPT ![m].file = file, ![m].at = at]

(* How many bytes a transfer says it has done, and what then is its place. *)
Done(async, n) == IF async THEN 0 ELSE n
-----------------------------------------------------------------------------
(* By the name's first letters, "bu00" or "bu10"; the file exists.         *)
Open(m, async) ==
  LET fd == Descriptor(m)
  IN IF m \in present
     THEN /\ fdesc' = [fdesc EXCEPT ![fd] = [offset |-> 0, async |-> async]]
          /\ Answers(fd, <<>>, fd, <<>>)
          /\ view' = [view EXCEPT ![m].at = 0, ![m].async = async, ![m].open = TRUE]
          /\ UNCHANGED data
     ELSE Answers(Error, <<>>, Error, <<>>) /\ UNCHANGED <<data, fdesc, view>>

(* The program goes on with the number open answered.                      *)
lseek(m, whence, to) ==
  LET fd == Descriptor(m)
      offset == IF whence = "set" THEN to ELSE fdesc[fd].offset + to
      at == IF whence = "set" THEN to ELSE view[m].at + to
  IN /\ MayUse(m, at)
     /\ fdesc' = [fdesc EXCEPT ![fd].offset = offset]
     /\ Answers(offset, <<>>, at, <<>>) /\ Sees(m, view[m].file, at)
     /\ UNCHANGED data

(* Into the buffer at 0 nothing is read.                                   *)
ReadNowhere(m) ==
  /\ MayUse(m, view[m].at)
  /\ Answers(Error, <<>>, Error, <<>>)
  /\ UNCHANGED <<data, fdesc, view>>

(* An asynchronous read answers 0 and stays where it is.                   *)
read(m, n) ==
  LET mcd == Card(Descriptor(m))
      fd == Descriptor(mcd)
      done == Done(fdesc[fd].async, n)
  IN /\ MayUse(m, view[m].at + n)
     /\ Answers(done, Part(data[mcd], fdesc[fd].offset, n),
                Done(view[m].async, n), Part(view[m].file, view[m].at, n))
     /\ Moves(fd, done)
     /\ Sees(m, view[m].file, view[m].at + Done(view[m].async, n))
     /\ UNCHANGED data

(* The character with its sign; of an asynchronous file, an error.         *)
getc(m) ==
  LET mcd == Card(Descriptor(m))
      fd == Descriptor(mcd)
      Got(async, file, at) == IF async THEN Error ELSE Signed(file[at])
  IN /\ MayUse(m, view[m].at + 1)
     /\ Answers(Got(fdesc[fd].async, data[mcd], fdesc[fd].offset), <<>>,
                Got(view[m].async, view[m].file, view[m].at), <<>>)
     /\ Moves(fd, Done(fdesc[fd].async, 1))
     /\ Sees(m, view[m].file, view[m].at + Done(view[m].async, 1))
     /\ UNCHANGED data

(* write of one byte, and putc; an asynchronous one moves on.              *)
write(m, b) ==
  LET mcd == Card(Descriptor(m))
      fd == Descriptor(mcd)
  IN /\ MayUse(m, view[m].at + 1)
     /\ data' = [data EXCEPT ![mcd][fdesc[fd].offset] = b]
     /\ Answers(Done(fdesc[fd].async, 1), <<>>, Done(view[m].async, 1), <<>>)
     /\ Moves(fd, 1)
     /\ Sees(m, [view[m].file EXCEPT ![view[m].at] = b], view[m].at + 1)

(* The descriptor stays usable.                                            *)
close(m) ==
  /\ MayUse(m, view[m].at)
  /\ Answers(Descriptor(m), <<>>, Descriptor(m), <<>>)
  /\ UNCHANGED <<data, fdesc, view>>

Next ==
  /\ UNCHANGED present
  /\ \E m \in Cards :
       \/ \E async \in BOOLEAN : Open(m, async)
       \/ \E to \in -Length .. Length, whence \in {"set", "cur"} : lseek(m, whence, to)
       \/ ReadNowhere(m) \/ getc(m) \/ close(m)
       \/ \E n \in 1 .. Length : read(m, n)
       \/ \E b \in Bytes : write(m, b)

Spec == Init /\ [][Next]_vars
-----------------------------------------------------------------------------
(* Each call answers what is due from the file its descriptor was opened   *)
(* on: the descriptors of the two cards do not get mixed up, and all the   *)
(* calls agree on where in the file the program is.                        *)
AnswersDue ==
  /\ answer = due
  /\ \A m \in Cards : view[m].open =>
       view[m].at = fdesc[Descriptor(m)].offset /\ view[m].file = data[m]
=============================================================================
