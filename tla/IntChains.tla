------------------------------ MODULE IntChains ------------------------------
(***************************************************************************)
(* The chains of interrupt handlers (psxbios.cpp: SysEnqIntRP,             *)
(* SysDeqIntRP, and the loop over them in psxBiosException80).             *)
(*                                                                         *)
(* An element is three words of the program's own memory: the link to the  *)
(* next one, a handler, a verifier.  An interrupt walks the chains in      *)
(* turn.  It takes the link of an element first, then calls its verifier   *)
(* and, if that answers, its handler: guest code, which may enqueue and    *)
(* dequeue elements while the walk stands on the link it took.             *)
(***************************************************************************)
EXTENDS Integers

CONSTANTS
  Elements,   \* the elements of a program
  Nil,        \* the null pointer
  NumChains,  \* HANDLER_MAX
  Verifiers   \* the elements whose verifier is not null

ASSUME ChainsAssumption ==
  /\ NumChains \in Nat \ {0} /\ Verifiers \subseteq Elements /\ Nil \notin Elements

Chains == 0 .. NumChains - 1

Links == Elements \cup {Nil}

VARIABLES
  heads,   \* the first word of each entry of the table at G_HANDLERS
  next,    \* the first word of each element
  runs,    \* who runs: "program", "kernel" (the walk), "verifier", "handler"
  chain,   \* i: the chain being walked
  head,    \* the element the walk visits next
  owed,    \* history: in the chain since its turn began, not visited yet
  visited   \* history: visited in this turn

walkVars == <<runs, chain, head, visited>>

chainsVars == <<heads, next, owed, walkVars>>
-----------------------------------------------------------------------------
(* The elements one comes to from link h: the least set that holds h and   *)
(* is closed under links.                                                  *)
Closed(nx, S) == \A x \in S : nx[x] \in S \cup {Nil}

Path(nx, h) ==
  {e \in Elements : \A S \in SUBSET Elements : h \in S \cup {Nil} /\ Closed(nx, S) => e \in S}

Enqueued == UNION {Path(next, heads[p]) : p \in Chains}

Ahead == Path(next, head)

GuestRuns == runs # "kernel"

(* Programs enqueue an element that is in no chain, and none the walk has  *)
(* still to come to, even if it was dequeued.                              *)
MayEnqueue(e) == e \notin Enqueued /\ e \notin Ahead

ChainsInit ==
  /\ heads = [p \in Chains |-> Nil] /\ next = [e \in Elements |-> Nil]
  /\ runs = "program" /\ chain = 0 /\ head = Nil
  /\ owed = {} /\ visited = {}
-----------------------------------------------------------------------------
(* Mutant: the new head is stored before the old one is read.              *)
SysEnqIntRPLinksItself(p, e) ==
  /\ GuestRuns /\ MayEnqueue(e)
  /\ heads' = [heads EXCEPT ![p] = e]
  /\ next' = [next EXCEPT ![e] = heads'[p]]
  /\ UNCHANGED <<walkVars, owed>>

SysEnqIntRP(p, e) ==
  /\ GuestRuns /\ MayEnqueue(e)
  /\ heads' = [heads EXCEPT ![p] = e]
  /\ next' = [next EXCEPT ![e] = heads[p]]
  /\ UNCHANGED <<walkVars, owed>>

(* Mutant: the rest of the chain is dropped with the element.              *)
SysDeqIntRPCuts(p, e) ==
  /\ GuestRuns
  /\ heads' = [heads EXCEPT ![p] = IF @ = e THEN next[e] ELSE @]
  /\ next' = [x \in Elements |-> IF x \in Path(next, heads[p]) /\ next[x] = e
                                 THEN Nil ELSE next[x]]
  /\ owed' = IF p = chain THEN owed \ {e} ELSE owed
  /\ UNCHANGED walkVars

(* The element keeps its own link: the walk may stand on it.               *)
SysDeqIntRP(p, e) ==
  /\ GuestRuns
  /\ IF heads[p] = e
     THEN heads' = [heads EXCEPT ![p] = next[e]] /\ UNCHANGED next
     ELSE /\ next' = [x \in Elements |-> IF x \in Path(next, heads[p]) /\ next[x] = e
                                         THEN next[e] ELSE next[x]]
          /\ UNCHANGED heads
  /\ owed' = IF p = chain THEN owed \ {e} ELSE owed
  /\ UNCHANGED walkVars

(* SetConf builds a new table, with empty chains.                          *)
SetConf ==
  /\ runs = "program"
  /\ heads' = [p \in Chains |-> Nil]
  /\ owed' = {}
  /\ UNCHANGED <<next, walkVars>>
-----------------------------------------------------------------------------
(* The walk comes to chain p.                                              *)
Turn(p) ==
  /\ chain' = p /\ head' = heads[p]
  /\ owed' = Path(next, heads[p]) /\ visited' = {}
  /\ runs' = "kernel"
  /\ UNCHANGED <<heads, next>>

WalkStarts == runs = "program" /\ Turn(0)

(* Mutant: an element without a verifier ends the walk of its chain.       *)
VisitStops ==
  /\ runs = "kernel" /\ head # Nil
  /\ head' = IF head \in Verifiers THEN next[head] ELSE Nil
  /\ owed' = owed \ {head} /\ visited' = visited \cup {head}
  /\ runs' = IF head \in Verifiers THEN "verifier" ELSE "kernel"
  /\ UNCHANGED <<heads, next, chain>>

(* The link is taken before the element's verifier is called.              *)
Visit ==
  /\ runs = "kernel" /\ head # Nil
  /\ head' = next[head]
  /\ owed' = owed \ {head} /\ visited' = visited \cup {head}
  /\ runs' = IF head \in Verifiers THEN "verifier" ELSE "kernel"
  /\ UNCHANGED <<heads, next, chain>>

VerifierReturns ==
  /\ runs = "verifier"
  /\ runs' \in {"kernel", "handler"}
  /\ UNCHANGED <<heads, next, chain, head, owed, visited>>

HandlerReturns ==
  /\ runs = "handler"
  /\ runs' = "kernel"
  /\ UNCHANGED <<heads, next, chain, head, owed, visited>>

NextChain ==
  /\ runs = "kernel" /\ head = Nil /\ chain + 1 < NumChains
  /\ Turn(chain + 1)

(* To the entry hook, or back: see Threads.                                *)
Returns ==
  /\ runs = "kernel" /\ head = Nil /\ chain + 1 = NumChains
  /\ runs' = "program"
  /\ UNCHANGED <<heads, next, chain, head, owed, visited>>
-----------------------------------------------------------------------------
ChainsNext ==
  \/ \E p \in Chains, e \in Elements : SysEnqIntRP(p, e) \/ SysDeqIntRP(p, e)
  \/ SetConf \/ WalkStarts
  \/ Visit \/ VerifierReturns \/ HandlerReturns \/ NextChain \/ Returns

ChainsSpec == ChainsInit /\ [][ChainsNext]_chainsVars

(* The kernel does not stop, and guest code called by softCall returns.    *)
ChainsFairness ==
  /\ WF_chainsVars(Visit \/ NextChain \/ Returns)
  /\ WF_chainsVars(VerifierReturns)
  /\ WF_chainsVars(HandlerReturns)

ChainsFairSpec == ChainsSpec /\ ChainsFairness
-----------------------------------------------------------------------------
(* Types; the walk never leaves the table.                                 *)
ChainsTypeOK ==
  /\ heads \in [Chains -> Links] /\ next \in [Elements -> Links]
  /\ runs \in {"program", "kernel", "verifier", "handler"}
  /\ chain \in Chains /\ head \in Links
  /\ owed \subseteq Elements /\ visited \subseteq Elements

(* The chains, and what the walk has ahead, end: no element leads back to  *)
(* itself, so SysDeqIntRP's search ends.  No two chains share elements.    *)
ChainsEnd ==
  /\ \A x \in Enqueued \cup Ahead : x \notin Path(next, next[x])
  /\ \A p, q \in Chains : p # q => Path(next, heads[p]) \cap Path(next, heads[q]) = {}

(* An element that stays in its chain throughout the chain's turn is       *)
(* visited in it, and no element is visited twice: whatever handlers       *)
(* enqueue and dequeue under the walk.                                     *)
OncePerTurn ==
  runs = "kernel" => /\ head \notin visited
                     /\ head = Nil => owed = {}

(* An interrupt returns, although handlers enqueue elements: those join    *)
(* the chain in front of the walk's place.                                 *)
WalkEnds == runs = "kernel" ~> runs = "program"
=============================================================================
