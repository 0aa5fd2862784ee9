------------------------ MODULE InvestigationAgentProofs ------------------------
(***************************************************************************)
(* Machine-checked proofs about InvestigationAgent, for any number of      *)
(* parallel calls, any tools and what they return, and any budgets.        *)
(***************************************************************************)
EXTENDS InvestigationAgent, BoundedInduction, FiniteSetTheorems,
        SequenceTheorems, TLAPS

-----------------------------------------------------------------------------
(* What the invariant adds to the properties. *)

(* The calls that are in `record`, and those that hold a unit of the budget  *)
(* and are not recorded yet.                                                 *)
Recorders(threads) == {c \in Call : threads[c].pc \in Recording}
Holders(threads) == {c \in Call : threads[c].pc \in Granted}

(* Item i was returned to the model by a recorded call. *)
Traced(i) == \E k \in DOMAIN trace : i \in ToSet(ReturnedBy(trace[k]))

(* What TypeOK says of a thread. *)
Thread == [pc : PC, tool : Tool \cup {None}, at : Nat \ {0}, refs : Seq(Alias), index : Nat]

(* A thread works on a tool, and stands at an item of it while it admits one. *)
CallConsistent(c) ==
    LET t == call[c] IN
    /\ t.pc # "idle" => t.tool \in Tool
    /\ t.pc \in {"start", "read"} => t.at = 1
    /\ t.pc = "look" => t.at \in 1 .. Len(Returns[t.tool]) + 1
    /\ t.pc \in {"insert", "number", "alias"} => t.at \in DOMAIN Returns[t.tool]
    /\ t.pc \in {"number", "alias"} => Current(c) \in ToSet(items)
    /\ t.pc = "alias" => t.index \in Alias
    /\ t.pc \in {"index", "append"} => Len(t.refs) = Len(Returns[t.tool])
    /\ t.pc = "refused" => used = MaxToolCalls

CallsConsistent == \A c \in Call : CallConsistent(c)

(* Threads run between two model calls only, and nothing is decided before   *)
(* the run ends.                                                             *)
PhaseConsistent ==
    /\ phase # "tools" => \A c \in Call : call[c].pc = "idle"
    /\ phase # "ended" => report = None /\ error = None /\ artifacts = "none"
    /\ report = None => artifacts = "none"

(* The ledger admits an item once, and names what it admitted. *)
LedgerConsistent ==
    /\ IsInjective(items)
    /\ \A k \in DOMAIN aliases : aliases[k][1] \in ToSet(items)

(* The items with an alias. *)
Named == {aliases[k][1] : k \in DOMAIN aliases}

(* Item i was returned to the model, or belongs to a call that is recording  *)
(* or broke while it was.                                                    *)
Kept(i) ==
    \/ Traced(i)
    \/ \E c \in Call : /\ call[c].pc \in Recording \cup {"broken"}
                       /\ i \in ToSet(Returns[call[c].tool])

(* Until the run ends, an item with an alias can be accounted for. *)
Accounted == phase # "ended" => \A i \in Named : Kept(i)

(* Every granted call took its unit of the budget. *)
Counted == Len(trace) + Cardinality(Holders(call)) <= used

(* What was saved was verified, and loads. *)
SavedIsVerified ==
    /\ artifacts \in {"saved", "loaded"} => Verified
    /\ artifacts # "refused"
    /\ report # None => report.timeline \subseteq ToSet(items)

(* The references are the positions of the items s in the ledger. *)
Names(refs, s) ==
    /\ Len(refs) = Len(s)
    /\ \A j \in DOMAIN s : refs[j] \in DOMAIN items /\ items[refs[j]] = s[j]

(* What a thread has done to the ledger when no other recorded with it. *)
SequentialCall(c) ==
    LET t == call[c]
        s == Returns[t.tool]
    IN  /\ t.pc \in {"look", "insert"} => items = Admitting(Replayed, s)[t.at - 1]
        /\ t.pc \in {"number", "alias"} => items = Admitting(Replayed, s)[t.at]
        /\ t.pc \in {"payload", "index", "append"} => items = Admitting(Replayed, s)[Len(s)]
        /\ t.pc = "insert" => Current(c) \notin ToSet(items)
        /\ t.pc \in {"number", "alias"} =>
              Len(items) = Len(aliases) + 1 /\ items[Len(items)] = Current(c)
        /\ t.pc = "alias" => t.index = Len(items)
        /\ t.pc \in {"index", "append"} => Names(t.refs, s)
        /\ t.pc = "append" => t.index = Len(trace) + 1
        /\ t.pc # "broken"

(* The aliases number the items of the ledger. *)
Numbered == \A k \in DOMAIN aliases : k \in DOMAIN items /\ aliases[k] = <<items[k], k>>

(* The recorded calls are numbered, and their references are positions. *)
TraceNames ==
    \A k \in DOMAIN trace : trace[k].index = k /\ Names(trace[k].refs, ReturnedBy(trace[k]))

(* What the model was shown are positions, of every item it was returned. *)
ShownNames ==
    /\ \A x \in shown : x[1] \in DOMAIN items /\ items[x[1]] = x[2]
    /\ \A i \in Item : Traced(i) => \E x \in shown : x[2] = i

(* The calls record one at a time. *)
Alone == \A c, d \in Recorders(call) : c = d

(* Between two calls the ledger holds what replaying the trace admits, and   *)
(* every item has its alias.                                                 *)
Settled ==
    /\ Recorders(call) = {} => items = Replayed
    /\ (\A c \in Call : call[c].pc \notin {"number", "alias"}) => Len(items) = Len(aliases)

(* What is true when calls were recorded one after another. *)
Sequential ==
    ~overlapped => /\ Alone /\ Settled /\ Numbered /\ TraceNames /\ ShownNames
                   /\ \A c \in Call : SequentialCall(c)

(* The inductive invariant. *)
AgentInvariant ==
    /\ TypeOK /\ CallsConsistent /\ PhaseConsistent /\ LedgerConsistent
    /\ Accounted /\ Counted /\ SavedIsVerified
    /\ BudgetIsKept /\ ClaimsAreAdmitted

(* The inductive invariant of a run whose calls do not overlap. *)
SequentialInvariant == AgentInvariant /\ Sequential /\ SequentialIsFaithful

-----------------------------------------------------------------------------
(* Sequences and aliases. *)

(* Sequence x goes on where seen ends. *)
Continues(x, seen) ==
    DOMAIN seen \subseteq DOMAIN x /\ \A k \in DOMAIN seen : x[k] = seen[k]

(* Admitting an item adds it, and only it, at the end. *)
LEMMA AdmitDescribed ==
    ASSUME NEW seen \in Seq(Item), NEW i \in Item
    PROVE  /\ Admit(seen, i) \in Seq(Item)
           /\ Continues(Admit(seen, i), seen)
           /\ ToSet(Admit(seen, i)) = ToSet(seen) \cup {i}
           /\ IsInjective(seen) => IsInjective(Admit(seen, i))
  <1>1. CASE i \in ToSet(seen)
    BY <1>1 DEF Admit, Continues
  <1>2. CASE i \notin ToSet(seen)
    <2> DEFINE x == Append(seen, i)
    <2>1. Admit(seen, i) = x /\ \A k \in DOMAIN seen : seen[k] # i
      BY <1>2 DEF Admit, ToSet
    <2>2. /\ DOMAIN seen = 1 .. Len(seen) /\ Len(seen) \in Nat
          /\ DOMAIN x = 1 .. Len(seen) + 1
          /\ \A k \in DOMAIN seen : x[k] = seen[k]
          /\ x[Len(seen) + 1] = i
          /\ x \in Seq(Item)
      OBVIOUS
    <2> HIDE DEF x
    <2>3. ToSet(x) = ToSet(seen) \cup {i}
      BY <2>2 DEF ToSet
    <2>4. IsInjective(seen) => IsInjective(x)
      BY <2>1, <2>2 DEF IsInjective
    <2> QED
      BY <2>1, <2>2, <2>3, <2>4 DEF Continues
  <1> QED
    BY <1>1, <1>2

(* An injective sequence over Item has an alias for each of its positions. *)
LEMMA PositionsAreAliases ==
    ASSUME AgentInvariant
    PROVE  /\ Cardinality(Item) \in Nat
           /\ Len(items) <= Cardinality(Item)
  <1>1. Cardinality(Item) \in Nat
    BY AgentAssumption, FS_CardinalityType
  <1>2. items \in Injection(1 .. Len(items), Item)
    <2>1. items \in Seq(Item) /\ IsInjective(items)
      BY DEF AgentInvariant, TypeOK, LedgerConsistent
    <2>2. DOMAIN items = 1 .. Len(items) /\ items \in [1 .. Len(items) -> Item]
      BY ONLY <2>1
    <2> QED
      BY ONLY <2>1, <2>2 DEF Injection, IsInjective
  <1>3. Cardinality(1 .. Len(items)) <= Cardinality(Item)
    BY <1>2, AgentAssumption, FS_Injection
  <1>4. Len(items) \in Nat
    BY DEF AgentInvariant, TypeOK
  <1>5. Cardinality(1 .. Len(items)) = Len(items)
    <2>1. ASSUME NEW n \in Nat PROVE Cardinality(1 .. n) = n
      <3>1. 1 \in Int /\ n \in Int /\ (n = 0 \/ ~(1 > n)) /\ n - 1 + 1 = n
        OBVIOUS
      <3>2. Cardinality(1 .. n) = IF 1 > n THEN 0 ELSE n - 1 + 1
        BY ONLY <3>1, FS_Interval
      <3> QED
        BY ONLY <3>1, <3>2
    <2> QED
      BY ONLY <1>4, <2>1
  <1> QED
    BY <1>1, <1>3, <1>4, <1>5

(* alias_for gives an alias of the item or 0. *)
LEMMA AliasForDescribed ==
    ASSUME AgentInvariant, NEW i
    PROVE  \/ AliasFor(i) = 0 /\ \A k \in DOMAIN aliases : aliases[k][1] # i
           \/ \E k \in DOMAIN aliases :
                 aliases[k][1] = i /\ aliases[k][2] = AliasFor(i) /\ AliasFor(i) \in Alias
  <1>0. aliases \in Seq(Item \X Alias)
    BY DEF AgentInvariant, TypeOK
  <1>1. CASE \E k \in DOMAIN aliases : aliases[k][1] = i
    <2> DEFINE k == CHOOSE k \in DOMAIN aliases : aliases[k][1] = i
    <2>1. k \in DOMAIN aliases /\ aliases[k][1] = i
      BY <1>1
    <2>2. AliasFor(i) = aliases[k][2]
      BY <1>1 DEF AliasFor
    <2> HIDE DEF k
    <2>3. aliases[k][2] \in Alias
      BY <1>0, <2>1
    <2> QED
      BY <2>1, <2>2, <2>3
  <1>2. CASE ~\E k \in DOMAIN aliases : aliases[k][1] = i
    BY <1>2 DEF AliasFor
  <1> QED
    BY <1>1, <1>2

(* Naming an item keeps the other names and their order. *)
LEMMA WithAliasDescribed ==
    ASSUME AgentInvariant, NEW i \in Item, NEW n \in Alias
    PROVE  /\ WithAlias(i, n) \in Seq(Item \X Alias)
           /\ DOMAIN aliases \subseteq DOMAIN WithAlias(i, n)
           /\ \A k \in DOMAIN aliases : WithAlias(i, n)[k][1] = aliases[k][1]
           /\ \A k \in DOMAIN WithAlias(i, n) :
                 \/ WithAlias(i, n)[k][1] = i
                 \/ k \in DOMAIN aliases /\ WithAlias(i, n)[k] = aliases[k]
  <1>0. aliases \in Seq(Item \X Alias)
    BY DEF AgentInvariant, TypeOK
  <1>1. CASE AliasFor(i) # 0
    <2> DEFINE f == [k \in DOMAIN aliases |-> IF aliases[k][1] = i THEN <<i, n>> ELSE aliases[k]]
    <2>1. WithAlias(i, n) = f
      BY <1>1 DEF WithAlias
    <2>2. DOMAIN aliases = 1 .. Len(aliases) /\ Len(aliases) \in Nat
      BY <1>0
    <2>3. f \in [1 .. Len(aliases) -> Item \X Alias]
      BY <1>0, <2>2
    <2>4. f \in Seq(Item \X Alias)
      <3> HIDE DEF f
      <3> QED
        BY <2>2, <2>3, SeqDef
    <2> QED
      BY <2>1, <2>4
  <1>2. CASE AliasFor(i) = 0
    <2>1. WithAlias(i, n) = Append(aliases, <<i, n>>)
      BY <1>2 DEF WithAlias
    <2> QED
      BY <1>0, <2>1
  <1> QED
    BY <1>1, <1>2

(* resolve_alias of a name in use is an item with that name. *)
LEMMA ResolveDescribed ==
    ASSUME AgentInvariant, NEW r, Known(r)
    PROVE  \E k \in DOMAIN aliases : aliases[k] = <<Resolve(r), r>>
  <1>0. aliases \in Seq(Item \X Alias)
    BY DEF AgentInvariant, TypeOK
  <1> DEFINE First(k) == aliases[k][2] = r /\ \A j \in 1 .. k - 1 : aliases[j][2] # r
  <1>1. \E k \in DOMAIN aliases : First(k)
    <2> DEFINE T == {k \in DOMAIN aliases : aliases[k][2] = r}
    <2>1. T \in SUBSET Nat /\ T # {}
      BY <1>0 DEF Known
    <2>2. PICK m \in T : \A k \in T : m <= k
      <3> HIDE DEF T
      <3> QED
        BY <2>1, LeastNatural
    <2>3. m \in DOMAIN aliases /\ aliases[m][2] = r /\ m \in Nat
      BY <1>0
    <2>4. ASSUME NEW j \in 1 .. m - 1 PROVE aliases[j][2] # r
      <3>1. j \in DOMAIN aliases /\ j < m
        BY <1>0, <2>3
      <3> QED
        BY <2>2, <2>3, <3>1
    <2> QED
      BY <2>3, <2>4
  <1> DEFINE k == CHOOSE k \in DOMAIN aliases : First(k)
  <1>2. k \in DOMAIN aliases /\ First(k)
    BY <1>1
  <1>3. Resolve(r) = aliases[k][1]
    BY DEF Resolve
  <1> HIDE DEF k
  <1>4. aliases[k] \in Item \X Alias
    BY <1>0, <1>2
  <1> QED
    BY <1>2, <1>3, <1>4

(* A thread that moves on is a thread. *)
LEMMA ThreadGoes ==
    ASSUME call \in [Call -> Thread], NEW c \in Call, NEW p \in PC
    PROVE  [call EXCEPT ![c].pc = p] \in [Call -> Thread]
  BY DEF Thread

LEMMA ThreadAdvances ==
    ASSUME call \in [Call -> Thread], NEW c \in Call, NEW p \in PC
    PROVE  /\ [call EXCEPT ![c].at = @ + 1] \in [Call -> Thread]
           /\ [call EXCEPT ![c].pc = p, ![c].at = @ + 1] \in [Call -> Thread]
  <1>1. call[c].at + 1 \in Nat \ {0}
    BY DEF Thread
  <1> QED
    BY <1>1 DEF Thread

LEMMA ThreadLearns ==
    ASSUME call \in [Call -> Thread], NEW c \in Call, NEW p \in PC,
           NEW r \in Seq(Alias), NEW n \in Nat
    PROVE  /\ [call EXCEPT ![c].pc = p, ![c].refs = r] \in [Call -> Thread]
           /\ [call EXCEPT ![c].pc = p, ![c].index = n] \in [Call -> Thread]
  BY DEF Thread

LEMMA ThreadsIdle == [c \in Call |-> Idle] \in [Call -> Thread]
  BY DEF Thread, Idle, PC

(* Every step keeps the run well-typed. *)
LEMMA TypeStep == AgentInvariant /\ [Next]_vars => TypeOK'
  <1> SUFFICES ASSUME AgentInvariant, [Next]_vars PROVE TypeOK'
    OBVIOUS
  <1>0. /\ TypeOK /\ call \in [Call -> Thread] /\ CallsConsistent /\ LedgerConsistent
        /\ MaxToolCalls \in Nat /\ MaxIterations \in Nat
    BY AgentAssumption DEF AgentInvariant, TypeOK, Thread
  <1>1. ASSUME NEW c \in Call, Consume(c)
         PROVE  TypeOK'
    <2>0. CallConsistent(c) /\ call[c] \in Thread
      BY <1>0 DEF CallsConsistent
    <2>1. call' \in [Call -> Thread]
      <3>1. [call EXCEPT ![c].pc = "read"] \in [Call -> Thread]
        BY <1>0, ThreadGoes, ThreadAdvances, ZenonT(40) DEF PC, Granted, Recording, Raised
      <3>2. [call EXCEPT ![c].pc = "refused"] \in [Call -> Thread]
        BY <1>0, ThreadGoes, ThreadAdvances DEF PC, Granted, Recording, Raised
      <3> QED
        BY <1>1, <3>1, <3>2 DEF Consume, Goto
    <2> QED
      BY <1>0, <1>1, <2>1, SMTT(30) DEF Consume, Goto, TypeOK, Thread, ledger, outcome,
         NoClaims, Analytical, Operational
  <1>2. ASSUME NEW c \in Call, Look(c)
         PROVE  TypeOK'
    <2>0. CallConsistent(c) /\ call[c] \in Thread
      BY <1>0 DEF CallsConsistent
    <2>1. call' \in [Call -> Thread]
      <3>1. [call EXCEPT ![c].pc = "payload"] \in [Call -> Thread]
        BY <1>0, ThreadGoes, ThreadAdvances, ZenonT(40) DEF PC, Granted, Recording, Raised
      <3>2. [call EXCEPT ![c].pc = "insert"] \in [Call -> Thread]
        BY <1>0, ThreadGoes, ThreadAdvances, ZenonT(40) DEF PC, Granted, Recording, Raised
      <3>3. [call EXCEPT ![c].at = @ + 1] \in [Call -> Thread]
        BY <1>0, ThreadGoes, ThreadAdvances DEF PC, Granted, Recording, Raised
      <3> QED
        BY <1>2, <3>1, <3>2, <3>3 DEF Look, Goto
    <2> QED
      BY <1>0, <1>2, <2>1, SMTT(30) DEF Look, Goto, TypeOK, Thread, ledger, outcome,
         NoClaims, Analytical, Operational
  <1>3. ASSUME NEW c \in Call, Insert(c)
         PROVE  TypeOK'
    <2>0. CallConsistent(c) /\ call[c] \in Thread
      BY <1>0 DEF CallsConsistent
    <2>1. call' \in [Call -> Thread]
      BY <1>0, <1>3, ThreadGoes DEF Insert, Goto, PC, Granted, Recording
    <2>2. items' \in Seq(Item)
      <3>1. Current(c) \in Item
        BY <1>0, <1>3, <2>0, AgentAssumption DEF Insert, CallConsistent, Current
      <3> QED
        BY <1>0, <1>3, <3>1 DEF Insert, Admit, TypeOK
    <2> QED
      BY <1>0, <1>3, <2>1, <2>2 DEF Insert, Goto, TypeOK, Thread, ledger,
         outcome, NoClaims, Analytical, Operational
  <1>19. ASSUME NEW c \in Call, Read(c)
         PROVE  TypeOK'
    <2>1. call' \in [Call -> Thread]
      <3>1. \A pc \in {"look", "unread"} : [call EXCEPT ![c].pc = pc] \in [Call -> Thread]
        BY <1>0, ThreadGoes DEF PC, Granted, Recording, Raised
      <3> QED
        BY <1>19, <3>1 DEF Read, Goto
    <2>2. overlapped' \in BOOLEAN
      BY <1>0, <1>19 DEF Read, TypeOK, Overlap
    <2> QED
      BY <1>0, <1>19, <2>1, <2>2 DEF Read, TypeOK, Thread, ledger, outcome
  <1>20. ASSUME NEW c \in Call, Number(c)
         PROVE  TypeOK'
    <2>1. call' \in [Call -> Thread]
      <3>1. Len(items) \in Nat /\ <<>> \in Seq(Alias)
        BY <1>0 DEF TypeOK
      <3>2. [call EXCEPT ![c].pc = "alias", ![c].index = Len(items)] \in [Call -> Thread]
        BY <1>0, <3>1, ThreadLearns DEF PC, Granted, Recording
      <3> QED
        BY <1>20, <3>2 DEF Number
    <2> QED
      BY <1>0, <1>20, <2>1 DEF Number, TypeOK, Thread, ledger, outcome
  <1>4. ASSUME NEW c \in Call, SetAlias(c)
         PROVE  TypeOK'
    <2>0. CallConsistent(c) /\ call[c] \in Thread
      BY <1>0 DEF CallsConsistent
    <2>1. call' \in [Call -> Thread]
      BY <1>0, <1>4, ThreadAdvances DEF SetAlias, PC, Granted, Recording
    <2>2. aliases' \in Seq(Item \X Alias)
      <3>1. Current(c) \in Item /\ call[c].index \in Alias
        BY <1>0, <1>4, <2>0, AgentAssumption DEF SetAlias, CallConsistent, Current
      <3> QED
        BY <1>4, <3>1, WithAliasDescribed DEF SetAlias
    <2> QED
      BY <1>0, <1>4, <2>1, <2>2 DEF SetAlias, TypeOK, Thread, ledger, outcome,
         NoClaims, Analytical, Operational
  <1>5. ASSUME NEW c \in Call, Payload(c)
         PROVE  TypeOK'
    <2>0. CallConsistent(c) /\ call[c] \in Thread
      BY <1>0 DEF CallsConsistent
    <2> DEFINE refs == [k \in DOMAIN Returns[call[c].tool] |-> AliasFor(Returns[call[c].tool][k])]
    <2>2. CASE 0 \in ToSet(refs)
      <3>1. call' \in [Call -> Thread]
        <4>1. [call EXCEPT ![c].pc = "broken"] \in [Call -> Thread]
          BY <1>0, ThreadGoes DEF PC, Raised
        <4> QED
          BY <1>5, <2>2, <4>1 DEF Payload, Goto
      <3> QED
        BY <1>0, <1>5, <3>1 DEF Payload, TypeOK, Thread, ledger, outcome
    <2>3. CASE 0 \notin ToSet(refs)
      <3>1. Returns[call[c].tool] \in Seq(Item)
        BY <1>5, <2>0, AgentAssumption DEF Payload, CallConsistent
      <3>2. \A k \in DOMAIN refs : refs[k] \in Alias
        BY <2>3, AliasForDescribed DEF ToSet
      <3>3. refs \in Seq(Alias)
        <4>1. Len(Returns[call[c].tool]) \in Nat /\ DOMAIN refs = 1 .. Len(Returns[call[c].tool])
          BY <3>1
        <4>2. refs \in [1 .. Len(Returns[call[c].tool]) -> Alias]
          BY <3>2, <4>1
        <4> HIDE DEF refs
        <4> QED
          BY <4>1, <4>2, SeqDef
      <3>4. call' = [call EXCEPT ![c].pc = "index", ![c].refs = refs]
        BY <1>5, <2>3 DEF Payload
      <3> HIDE DEF refs
      <3>5. call' \in [Call -> Thread]
        BY <1>0, <3>3, <3>4, ThreadLearns DEF PC, Granted, Recording
      <3> QED
        BY <1>0, <1>5, <3>5 DEF Payload, TypeOK, Thread, ledger, outcome
    <2> QED
      BY <2>2, <2>3
  <1>6. ASSUME NEW c \in Call, Index(c)
         PROVE  TypeOK'
    <2>0. CallConsistent(c) /\ call[c] \in Thread
      BY <1>0 DEF CallsConsistent
    <2>1. call' \in [Call -> Thread]
      <3>1. Len(trace) + 1 \in Nat /\ <<>> \in Seq(Alias)
        BY <1>0 DEF TypeOK
      <3>2. [call EXCEPT ![c].pc = "append", ![c].index = Len(trace) + 1] \in [Call -> Thread]
        BY <1>0, <3>1, ThreadLearns DEF PC, Granted, Recording
      <3> QED
        BY <1>6, <3>2 DEF Index
    <2> QED
      BY <1>0, <1>6, <2>1 DEF Index, TypeOK, Thread, ledger, outcome, NoClaims,
         Analytical, Operational
  <1>7. ASSUME NEW c \in Call, AppendTrace(c)
         PROVE  TypeOK'
    <2>0. CallConsistent(c) /\ call[c] \in Thread
      BY <1>0 DEF CallsConsistent
    <2>1. call' \in [Call -> Thread]
      BY <1>0, <1>7, ThreadGoes DEF AppendTrace, Goto, PC
    <2>2. trace' \in Seq([index : Nat, tool : Tool, refs : Seq(Alias)]) /\ shown' \subseteq Alias \X Item
      <3> DEFINE t == call[c].tool
      <3>1. t \in Tool /\ call[c].refs \in Seq(Alias) /\ call[c].index \in Nat /\ Returns[t] \in Seq(Item)
            /\ Len(call[c].refs) = Len(Returns[t])
        BY <1>0, <1>7, <2>0, AgentAssumption DEF AppendTrace, CallConsistent, Thread
      <3>2. \A k \in DOMAIN Returns[t] : <<call[c].refs[k], Returns[t][k]>> \in Alias \X Item
        BY <3>1
      <3>3. [index |-> call[c].index, tool |-> t, refs |-> call[c].refs]
                \in [index : Nat, tool : Tool, refs : Seq(Alias)]
        BY <3>1
      <3> QED
        BY <1>0, <1>7, <3>2, <3>3 DEF AppendTrace, TypeOK
    <2> QED
      BY <1>0, <1>7, <2>1, <2>2 DEF AppendTrace, Goto, TypeOK, Thread, ledger,
         outcome, NoClaims, Analytical, Operational
  <1>8. ASSUME NEW c \in Call, Cancel(c)
         PROVE  TypeOK'
    <2>0. CallConsistent(c) /\ call[c] \in Thread
      BY <1>0 DEF CallsConsistent
    <2>1. call' \in [Call -> Thread]
      BY <1>0, <1>8, ThreadGoes DEF Cancel, Goto, PC
    <2> QED
      BY <1>0, <1>8, <2>1 DEF Cancel, Goto, TypeOK, Thread, ledger, outcome,
         NoClaims, Analytical, Operational
  <1>9. ASSUME ModelLimit
         PROVE  TypeOK'
    <2>1. call' \in [Call -> Thread]
      BY <1>0, <1>9, ThreadsIdle DEF ModelLimit, End
    <2> QED
      BY <1>0, <1>9, <2>1 DEF ModelLimit, End, TypeOK, Thread, ledger, outcome,
         NoClaims, Analytical, Operational
  <1>10. ASSUME ProviderFails
         PROVE  TypeOK'
    <2>1. call' \in [Call -> Thread]
      BY <1>0, <1>10, ThreadsIdle DEF ProviderFails, End
    <2> QED
      BY <1>0, <1>10, <2>1 DEF ProviderFails, MayCallModel, End, TypeOK, Thread,
         ledger, outcome, NoClaims, Analytical, Operational
  <1>11. ASSUME AnswerIsInvalid
         PROVE  TypeOK'
    <2>1. call' \in [Call -> Thread]
      BY <1>0, <1>11, ThreadsIdle DEF AnswerIsInvalid, End
    <2> QED
      BY <1>0, <1>11, <2>1 DEF AnswerIsInvalid, MayCallModel, End, TypeOK,
         Thread, ledger, outcome, NoClaims, Analytical, Operational
  <1>12. ASSUME NEW b \in Batches, CallTools(b)
         PROVE  TypeOK'
    <2>1. call' \in [Call -> Thread]
      <3>1. ASSUME NEW d \in Call
            PROVE  (IF b[d] = None THEN Idle ELSE [Idle EXCEPT !.pc = "start", !.tool = b[d]]) \in Thread
        <4>1. b[d] \in Tool \cup {None} /\ Idle \in Thread
          BY DEF Batches, Idle, Thread, PC
        <4>2. \A s \in Thread, t \in Tool : [s EXCEPT !.pc = "start", !.tool = t] \in Thread
          BY DEF Thread, PC
        <4> QED
          BY <4>1, <4>2
      <3> QED
        BY <1>12, <3>1 DEF CallTools
    <2>2. /\ iterations' = iterations + 1 /\ iterations < MaxIterations /\ phase' = "tools"
          /\ UNCHANGED <<used, items, aliases, trace, report, error, artifacts, shown,
                          overlapped>>
      BY <1>12 DEF CallTools, MayCallModel, ledger, outcome
    <2>3. iterations \in 0 .. MaxIterations
      BY <1>0 DEF TypeOK
    <2>4. iterations' \in 0 .. MaxIterations
      BY <1>0, <2>2, <2>3
    <2> QED
      BY <1>0, <2>1, <2>2, <2>4 DEF TypeOK, Thread
  <1>13. ASSUME NEW o \in Outputs, Answer(o)
         PROVE  TypeOK'
    <2>1. call' \in [Call -> Thread]
      BY <1>0, <1>13, ThreadsIdle DEF Answer, End
    <2>2. report' \in [status : Analytical \cup Operational, claims : SUBSET (Alias \X Item), timeline : SUBSET Item]
      <3>1. \A r : Known(r) => Resolve(r) \in Item /\ r \in Alias
        BY <1>0, ResolveDescribed DEF TypeOK
      <3>2. CASE Grounded(o)
        <4>1. /\ \A r \in o.refs \cup o.timeline : Known(r)
              /\ o.status \in Analytical /\ report' = ReportOf(o)
          BY <1>13, <3>2 DEF Answer, Grounded, Outputs, End
        <4>2. /\ {<<r, Resolve(r)>> : r \in o.refs \cup o.timeline} \subseteq Alias \X Item
              /\ {Resolve(r) : r \in o.timeline} \subseteq Item
          BY <3>1, <4>1
        <4> QED
          BY <4>1, <4>2 DEF ReportOf
      <3>3. CASE ~Grounded(o)
        BY <1>13, <3>3 DEF Answer, End, NoClaims, Operational
      <3> QED
        BY <3>2, <3>3
    <2> QED
      BY <1>0, <1>13, <2>1, <2>2 DEF Answer, MayCallModel, Outputs, End, TypeOK,
         Thread, ledger, outcome, NoClaims, Analytical, Operational
  <1>14. ASSUME ToolsReturn
         PROVE  TypeOK'
    <2>1. call' \in [Call -> Thread]
      BY <1>0, <1>14, ThreadsIdle DEF ToolsReturn
    <2> QED
      BY <1>0, <1>14, <2>1 DEF ToolsReturn, TypeOK, Thread, ledger, outcome,
         NoClaims, Analytical, Operational
  <1>15. ASSUME NEW c \in Call, ToolsRaise(c)
         PROVE  TypeOK'
    <2>1. call' \in [Call -> Thread]
      BY <1>0, <1>15, ThreadsIdle DEF ToolsRaise, End
    <2> QED
      BY <1>0, <1>15, <2>1 DEF ToolsRaise, ErrorOf, End, TypeOK, Thread, ledger, outcome,
         NoClaims, Analytical, Operational
  <1>16. ASSUME Save
         PROVE  TypeOK'
    BY <1>0, <1>16 DEF Save, TypeOK, ledger, outcome, NoClaims, Analytical,
       Operational
  <1>17. ASSUME Load
         PROVE  TypeOK'
    BY <1>0, <1>17 DEF Load, TypeOK, ledger, outcome, NoClaims, Analytical,
       Operational
  <1>18. CASE UNCHANGED vars
    BY <1>0, <1>18 DEF vars, TypeOK, ledger, outcome
  <1> QED
    BY <1>1, <1>2, <1>3, <1>4, <1>5, <1>6, <1>7, <1>8, <1>9, <1>10, <1>11,
       <1>12, <1>13, <1>14, <1>15, <1>16, <1>17, <1>18, <1>19, <1>20 DEF Next, ModelStep,
       ToolStep, CallStep, Persist, Finished

-----------------------------------------------------------------------------
(* What a call does to the rest of the run. *)

LEMMA CallStepDescribed ==
    ASSUME AgentInvariant, NEW c \in Call, CallStep(c)
    PROVE  /\ phase = "tools" /\ UNCHANGED <<phase, iterations, report, error, artifacts>>
           /\ call[c].tool \in Tool /\ Returns[call[c].tool] \in Seq(Item)
           /\ \A d \in Call \ {c} : call'[d] = call[d]
           /\ call'[c].tool = call[c].tool
           /\ call[c].pc \in Granted \cup {"start"}
           /\ call'[c].pc \in Granted \cup Raised \cup {"returned", "cancelled"}
           /\ call[c].pc \in Recording => call'[c].pc \in Recording \cup {"broken", "returned"}
           /\ \/ used' = used /\ (call'[c].pc \in Granted => call[c].pc \in Granted)
              \/ used' = used + 1 /\ call[c].pc = "start" /\ call'[c].pc \in Granted
           /\ \/ trace' = trace /\ call'[c].pc # "returned"
              \/ AppendTrace(c)
           /\ ToSet(items) \subseteq ToSet(items')
  <1> DEFINE Described ==
        /\ \A d \in Call \ {c} : call'[d] = call[d]
        /\ call'[c].tool = call[c].tool
        /\ call[c].pc \in Granted \cup {"start"}
        /\ call'[c].pc \in Granted \cup Raised \cup {"returned", "cancelled"}
        /\ call[c].pc \in Recording => call'[c].pc \in Recording \cup {"broken", "returned"}
        /\ \/ used' = used /\ (call'[c].pc \in Granted => call[c].pc \in Granted)
           \/ used' = used + 1 /\ call[c].pc = "start" /\ call'[c].pc \in Granted
        /\ \/ trace' = trace /\ call'[c].pc # "returned"
           \/ AppendTrace(c)
        /\ UNCHANGED <<phase, iterations, report, error, artifacts>>
  <1>0. call \in [Call -> Thread] /\ items \in Seq(Item) /\ CallConsistent(c)
    BY DEF AgentInvariant, TypeOK, Thread, CallsConsistent
  <1> USE DEF Granted, Recording, Raised, ledger, outcome
  <1>1. ASSUME Consume(c) PROVE Described
    BY <1>0, <1>1 DEF Consume, Goto, Thread
  <1>2. ASSUME Look(c) PROVE Described
    BY <1>0, <1>2 DEF Look, Goto, Thread
  <1>3. ASSUME Insert(c) PROVE Described
    BY <1>0, <1>3 DEF Insert, Goto, Thread
  <1>4. ASSUME SetAlias(c) PROVE Described
    BY <1>0, <1>4 DEF SetAlias, Thread
  <1>5. ASSUME Payload(c) PROVE Described
    BY <1>0, <1>5 DEF Payload, Goto, Thread
  <1>6. ASSUME Index(c) PROVE Described
    BY <1>0, <1>6 DEF Index, Thread
  <1>7. ASSUME AppendTrace(c) PROVE Described
    BY <1>0, <1>7 DEF AppendTrace, Goto, Thread
  <1>8. ASSUME Cancel(c) PROVE Described
    BY <1>0, <1>8 DEF Cancel, Goto, Thread
  <1>13. ASSUME Read(c) PROVE Described
    BY <1>0, <1>13 DEF Read, Goto, Thread
  <1>14. ASSUME Number(c) PROVE Described
    BY <1>0, <1>14 DEF Number, Thread
  <1>9. Described
    BY <1>1, <1>2, <1>3, <1>4, <1>5, <1>6, <1>7, <1>8, <1>13, <1>14 DEF CallStep
  <1>10. call[c].pc # "idle"
    BY <1>9
  <1>11. phase = "tools" /\ call[c].tool \in Tool
    BY <1>0, <1>10 DEF AgentInvariant, PhaseConsistent, CallConsistent
  <1>12. ToSet(items) \subseteq ToSet(items')
    <2>1. CASE items' = items
      BY <2>1
    <2>2. CASE Insert(c)
      <3>1. items' = items \/ items' = Append(items, Current(c))
        BY <2>2 DEF Insert, Admit
      <3> QED
        BY <1>0, <3>1 DEF ToSet
    <2> QED
      BY <2>1, <2>2
        DEF CallStep, Consume, Read, Look, Number, SetAlias, Payload, Index, AppendTrace, Cancel
  <1> QED
    BY <1>9, <1>11, <1>12, AgentAssumption

(* What everything else does to the calls and the ledger. *)
LEMMA RunStepDescribed ==
    ASSUME [Next]_vars, \A c \in Call : ~CallStep(c)
    PROVE  /\ UNCHANGED <<used, ledger, shown, overlapped>>
           /\ \/ call' = call /\ phase' = phase
              \/ call' = [c \in Call |-> Idle] /\ phase' \in {"model", "ended"}
              \/ \E b \in Batches : CallTools(b)
  <1> USE DEF ledger, outcome
  <1>1. CASE UNCHANGED vars
    BY <1>1 DEF vars
  <1>2. CASE ModelLimit \/ ProviderFails \/ AnswerIsInvalid
    BY <1>2 DEF ModelLimit, ProviderFails, AnswerIsInvalid, End
  <1>3. ASSUME NEW b \in Batches, CallTools(b) PROVE UNCHANGED <<used, ledger, shown, overlapped>>
    BY <1>3 DEF CallTools
  <1>4. CASE \E o \in Outputs : Answer(o)
    BY <1>4 DEF Answer, End
  <1>5. CASE ToolsReturn
    BY <1>5 DEF ToolsReturn
  <1>6. CASE \E c \in Call : ToolsRaise(c)
    BY <1>6 DEF ToolsRaise, End
  <1>7. CASE Save \/ Load
    BY <1>7 DEF Save, Load
  <1> QED
    BY <1>1, <1>2, <1>3, <1>4, <1>5, <1>6, <1>7
      DEF Next, ModelStep, ToolStep, Persist, Finished

(* Threads start with a batch and are gone when it is over. *)
LEMMA PhaseStep == AgentInvariant /\ [Next]_vars => PhaseConsistent'
  <1> SUFFICES ASSUME AgentInvariant, [Next]_vars PROVE PhaseConsistent'
    OBVIOUS
  <1>0. PhaseConsistent
    BY DEF AgentInvariant
  <1>1. ASSUME NEW c \in Call, CallStep(c) PROVE PhaseConsistent'
    BY <1>0, <1>1, CallStepDescribed DEF PhaseConsistent
  <1>2. CASE \A c \in Call : ~CallStep(c)
    <2>1. phase' # "tools" => \A c \in Call : call'[c].pc = "idle"
      <3>1. CASE call' = call /\ phase' = phase
        BY <1>0, <3>1 DEF PhaseConsistent
      <3>2. CASE call' = [c \in Call |-> Idle]
        BY <3>2 DEF Idle
      <3>3. CASE \E b \in Batches : CallTools(b)
        BY <3>3 DEF CallTools
      <3> QED
        BY <1>2, <3>1, <3>2, <3>3, RunStepDescribed
    <2>2. /\ phase' # "ended" => report' = None /\ error' = None /\ artifacts' = "none"
          /\ report' = None => artifacts' = "none"
      BY <1>0, <1>2
        DEF PhaseConsistent, Next, ModelStep, ToolStep, Persist, Finished, ModelLimit,
            ProviderFails, AnswerIsInvalid, CallTools, MayCallModel, Answer, ToolsReturn,
            ToolsRaise, End, Save, Load, vars, ledger, outcome
    <2> QED
      BY <2>1, <2>2 DEF PhaseConsistent
  <1> QED
    BY <1>1, <1>2

(* What a thread has established no other takes away. *)
LEMMA CallsStep == AgentInvariant /\ [Next]_vars => CallsConsistent'
  <1> SUFFICES ASSUME AgentInvariant, [Next]_vars, NEW d \in Call PROVE CallConsistent(d)'
    BY DEF CallsConsistent
  <1>0. /\ CallConsistent(d) /\ used \in 0 .. MaxToolCalls /\ used' \in 0 .. MaxToolCalls
        /\ call[d] \in Thread /\ MaxToolCalls \in Nat /\ call \in [Call -> Thread]
    BY TypeStep, AgentAssumption DEF AgentInvariant, CallsConsistent, TypeOK, Thread
  <1>1. ASSUME NEW c \in Call, CallStep(c), d # c PROVE CallConsistent(d)'
    <2>1. /\ call'[d] = call[d] /\ used' \in {used, used + 1} /\ ToSet(items) \subseteq ToSet(items')
      BY <1>1, CallStepDescribed
    <2> QED
      BY <1>0, <2>1 DEF CallConsistent, Current
  <1>2. CASE CallStep(d)
    <2>0. /\ call'[d].tool = call[d].tool /\ call[d].tool \in Tool /\ Returns[call[d].tool] \in Seq(Item)
          /\ ToSet(items) \subseteq ToSet(items')
      BY <1>2, CallStepDescribed
    <2> USE DEF CallConsistent, Current
    <2>1. CASE Consume(d)
      <3>1. call'[d].pc = "read" \/ (call'[d].pc = "refused" /\ used' = used /\ ~(used < MaxToolCalls))
        BY <1>0, <2>1 DEF Consume, Goto, Thread
      <3>2. call'[d].pc = "refused" => used' = MaxToolCalls
        BY <1>0, <3>1
      <3>3. call'[d].at = call[d].at /\ call[d].at = 1
        <4>1. call'[d].at = call[d].at /\ call[d].pc = "start"
          BY <1>0, <2>1 DEF Consume, Goto, Thread
        <4> QED
          BY <1>0, <2>0, <4>1
      <3> QED
        BY <1>0, <2>0, <3>1, <3>2, <3>3
    <2>9. CASE Read(d)
      <3>1. call'[d].pc \in {"look", "unread"} /\ call'[d].at = call[d].at /\ call[d].pc = "read"
        BY <1>0, <2>9 DEF Read, Goto, Thread
      <3>2. call[d].at = 1 /\ 1 \in 1 .. Len(Returns[call[d].tool]) + 1
        BY <1>0, <2>0, <3>1
      <3> QED
        BY <1>0, <2>0, <3>1, <3>2
    <2>2. CASE Look(d)
      <3>1. /\ call'[d].pc \in {"look", "insert", "payload"}
            /\ call'[d].pc = "insert" => call'[d].at = call[d].at /\ ~(call[d].at > Len(Returns[call[d].tool]))
            /\ call'[d].pc = "look" => call'[d].at = call[d].at + 1 /\ ~(call[d].at > Len(Returns[call[d].tool]))
        BY <1>0, <2>2 DEF Look, Goto, Thread
      <3>2. call[d].at \in Nat \ {0} /\ Len(Returns[call[d].tool]) \in Nat
        BY <1>0, <2>0 DEF Thread
      <3>3. /\ call'[d].pc = "insert" => call'[d].at \in DOMAIN Returns[call[d].tool]
            /\ call'[d].pc = "look" => call'[d].at \in 1 .. Len(Returns[call[d].tool]) + 1
        BY <2>0, <3>1, <3>2
      <3> QED
        BY <1>0, <2>0, <3>1, <3>3
    <2>3. CASE Insert(d)
      <3>1. /\ call'[d].pc = "number" /\ call'[d].at = call[d].at /\ call[d].pc = "insert"
            /\ items' = Admit(items, Current(d))
        BY <1>0, <2>3 DEF Insert, Goto, Thread
      <3>2. Current(d) \in Item /\ items \in Seq(Item)
        BY <1>0, <2>0, <3>1 DEF AgentInvariant, TypeOK
      <3>3. Current(d) \in ToSet(items')
        BY <3>1, <3>2, AdmitDescribed
      <3> QED
        BY <1>0, <2>0, <3>1, <3>3
    <2>10. CASE Number(d)
      <3>1. /\ call'[d].pc = "alias" /\ call'[d].at = call[d].at /\ call[d].pc = "number"
            /\ call'[d].index = Len(items) /\ items' = items
        BY <1>0, <2>10 DEF Number, Thread, ledger
      <3>2. Current(d) \in ToSet(items) /\ items \in Seq(Item)
        BY <1>0, <3>1 DEF AgentInvariant, TypeOK
      <3>3. Len(items) \in Alias
        BY <3>2, PositionsAreAliases DEF ToSet, Alias
      <3> QED
        BY <1>0, <2>0, <3>1, <3>2, <3>3
    <2>4. CASE SetAlias(d)
      BY <1>0, <2>0, <2>4 DEF SetAlias, Thread
    <2>5. CASE Payload(d)
      <3> DEFINE refs == [k \in DOMAIN Returns[call[d].tool] |-> AliasFor(Returns[call[d].tool][k])]
      <3>1. \/ call'[d].pc = "broken"
            \/ call'[d].pc = "index" /\ call'[d].refs = refs
        BY <1>0, <2>5 DEF Payload, Goto, Thread
      <3>2. call' \in [Call -> Thread]
        BY TypeStep DEF TypeOK, Thread
      <3>3. DOMAIN refs = 1 .. Len(Returns[call[d].tool]) /\ Len(Returns[call[d].tool]) \in Nat
        BY <2>0
      <3>4. call'[d].refs = refs => Len(call'[d].refs) = Len(Returns[call[d].tool])
        <4>1. call'[d].refs \in Seq(Alias)
          BY <3>2 DEF Thread
        <4>2. DOMAIN call'[d].refs = 1 .. Len(call'[d].refs) /\ Len(call'[d].refs) \in Nat
          BY <4>1
        <4> QED
          BY <3>3, <4>2
      <3> QED
        BY <1>0, <2>0, <3>1, <3>4
    <2>6. CASE Index(d)
      BY <1>0, <2>0, <2>6 DEF Index, Thread
    <2>7. CASE AppendTrace(d)
      BY <1>0, <2>0, <2>7 DEF AppendTrace, Goto
    <2>8. CASE Cancel(d)
      BY <1>0, <2>0, <2>8 DEF Cancel, Goto
    <2> QED
      BY <1>2, <2>1, <2>2, <2>3, <2>4, <2>5, <2>6, <2>7, <2>8, <2>9, <2>10 DEF CallStep
  <1>3. CASE \A c \in Call : ~CallStep(c)
    <2>1. \/ call'[d] = call[d]
          \/ call'[d] = Idle
          \/ call'[d].pc = "start" /\ call'[d].tool \in Tool /\ call'[d].at = 1
      <3>1. ASSUME NEW b \in Batches, CallTools(b)
            PROVE  \/ call'[d] = Idle
                   \/ call'[d].pc = "start" /\ call'[d].tool \in Tool /\ call'[d].at = 1
        <4>1. b[d] \in Tool \cup {None}
          BY DEF Batches
        <4> QED
          BY <3>1, <4>1 DEF CallTools, Idle
      <3> QED
        BY <1>3, <3>1, RunStepDescribed
    <2>2. UNCHANGED <<used, items>>
      BY <1>3, RunStepDescribed DEF ledger
    <2> QED
      BY <1>0, <2>1, <2>2 DEF CallConsistent, Current, Idle
  <1> QED
    BY <1>1, <1>2, <1>3

(* Admitting an item the ledger does not hold keeps its items distinct. *)
LEMMA LedgerStep == AgentInvariant /\ [Next]_vars => LedgerConsistent'
  <1> SUFFICES ASSUME AgentInvariant, [Next]_vars PROVE LedgerConsistent'
    OBVIOUS
  <1>0. /\ LedgerConsistent /\ CallsConsistent
        /\ items \in Seq(Item) /\ aliases \in Seq(Item \X Alias)
    BY DEF AgentInvariant, TypeOK
  <1>1. ASSUME NEW c \in Call, Insert(c) PROVE LedgerConsistent'
    <2>1. aliases' = aliases
      BY <1>1 DEF Insert, Admit
    <2>2. Current(c) \in Item /\ items' = Admit(items, Current(c))
      BY <1>0, <1>1, AgentAssumption DEF Insert, CallsConsistent, CallConsistent, Current
    <2>3. IsInjective(items') /\ ToSet(items) \subseteq ToSet(items')
      BY <1>0, <2>2, AdmitDescribed DEF LedgerConsistent
    <2> QED
      BY <1>0, <2>1, <2>3 DEF LedgerConsistent
  <1>2. ASSUME NEW c \in Call, SetAlias(c) PROVE LedgerConsistent'
    <2>1. items' = items /\ aliases' = WithAlias(Current(c), call[c].index)
      BY <1>2 DEF SetAlias
    <2>2. Current(c) \in ToSet(items)
      BY <1>0, <1>2 DEF CallsConsistent, CallConsistent, SetAlias
    <2>3. Current(c) \in Item /\ call[c].index \in Alias
      BY <1>0, <1>2, <2>2 DEF CallsConsistent, CallConsistent, SetAlias, ToSet
    <2>4. \A k \in DOMAIN aliases' :
             \/ aliases'[k][1] = Current(c)
             \/ k \in DOMAIN aliases /\ aliases'[k] = aliases[k]
      BY <2>1, <2>3, WithAliasDescribed
    <2> QED
      BY <1>0, <2>1, <2>2, <2>4 DEF LedgerConsistent
  <1>3. CASE \A c \in Call : ~Insert(c) /\ ~SetAlias(c)
    <2>1. UNCHANGED <<items, aliases>>
      <3>1. CASE \E c \in Call : CallStep(c)
        BY <1>3, <3>1
          DEF CallStep, Consume, Read, Look, Number, Payload, Index, AppendTrace, Cancel, ledger
      <3>2. CASE \A c \in Call : ~CallStep(c)
        BY <3>2, RunStepDescribed DEF ledger
      <3> QED
        BY <3>1, <3>2
    <2> QED
      BY <1>0, <2>1 DEF LedgerConsistent
  <1> QED
    BY <1>1, <1>2, <1>3

(* What a recorded call returned stays on record. *)
LEMMA TraceGrows ==
    ASSUME AgentInvariant, [Next]_vars
    PROVE  \A i : Traced(i) => Traced(i)'
  <1>0. trace \in Seq([index : Nat, tool : Tool, refs : Seq(Alias)])
    BY DEF AgentInvariant, TypeOK
  <1>1. CASE trace' = trace
    BY <1>1 DEF Traced
  <1>2. ASSUME NEW e, trace' = Append(trace, e) PROVE \A i : Traced(i) => Traced(i)'
    <2>1. /\ DOMAIN trace = 1 .. Len(trace) /\ Len(trace) \in Nat
          /\ DOMAIN trace' = 1 .. Len(trace) + 1
          /\ \A k \in 1 .. Len(trace) : trace'[k] = trace[k]
      BY <1>0, <1>2
    <2> QED
      BY <2>1 DEF Traced, ReturnedBy
  <1>3. trace' = trace \/ \E e : trace' = Append(trace, e)
    <2>1. CASE \E c \in Call : CallStep(c)
      BY <2>1, CallStepDescribed DEF AppendTrace
    <2>2. CASE \A c \in Call : ~CallStep(c)
      BY <2>2, RunStepDescribed DEF ledger
    <2> QED
      BY <2>1, <2>2
  <1> QED
    BY <1>1, <1>2, <1>3

(* A call that ends hands what it returned over to the trace. *)
LEMMA RecordedIsTraced ==
    ASSUME AgentInvariant, [Next]_vars, NEW c \in Call, AppendTrace(c)
    PROVE  \A i \in ToSet(Returns[call[c].tool]) : Traced(i)'
  <1> DEFINE e == [index |-> call[c].index, tool |-> call[c].tool, refs |-> call[c].refs]
  <1>1. trace \in Seq([index : Nat, tool : Tool, refs : Seq(Alias)])
    BY DEF AgentInvariant, TypeOK
  <1>2. trace' = Append(trace, e)
    BY DEF AppendTrace
  <1>3. e.tool = call[c].tool
    OBVIOUS
  <1> HIDE DEF e
  <1>4. Len(trace) + 1 \in DOMAIN trace' /\ trace'[Len(trace) + 1] = e
    BY <1>1, <1>2
  <1> QED
    BY <1>3, <1>4 DEF Traced, ReturnedBy

(* An item gets its alias from a call that is recording, which is recorded   *)
(* or breaks the run before the run can end with an answer.                  *)
LEMMA AccountedStep == AgentInvariant /\ [Next]_vars => Accounted'
  <1> SUFFICES ASSUME AgentInvariant, [Next]_vars, (phase # "ended")'
               PROVE  Accounted'
    BY DEF Accounted
  <1>0. /\ LedgerConsistent /\ CallsConsistent /\ PhaseConsistent /\ Accounted
        /\ items \in Seq(Item) /\ aliases \in Seq(Item \X Alias)
    BY DEF AgentInvariant, TypeOK
  <1>1. ASSUME NEW c \in Call, CallStep(c) PROVE Accounted'
    <2>1. phase # "ended"
      BY <1>1, CallStepDescribed
    <2>2. ASSUME NEW i, Kept(i) PROVE Kept(i)'
      <3>1. CASE Traced(i)
        BY <3>1, TraceGrows DEF Kept
      <3>2. ASSUME NEW d \in Call, call[d].pc \in Recording \cup {"broken"},
                   i \in ToSet(Returns[call[d].tool])
            PROVE  Kept(i)'
        <4>1. CASE d # c
          BY <1>1, <3>2, <4>1, CallStepDescribed DEF Kept
        <4>2. CASE d = c /\ ~AppendTrace(c)
          <5>1. call[c].pc \in Recording /\ trace' = trace /\ call'[c].pc # "returned"
            BY <1>1, <3>2, <4>2, CallStepDescribed DEF Granted, Recording
          <5>2. call'[c].pc \in Recording \cup {"broken"} /\ call'[c].tool = call[c].tool
            BY <1>1, <5>1, CallStepDescribed
          <5> QED
            BY <3>2, <4>2, <5>2 DEF Kept
        <4>3. CASE d = c /\ AppendTrace(c)
          BY <3>2, <4>3, RecordedIsTraced DEF Kept
        <4> QED
          BY <4>1, <4>2, <4>3
      <3> QED
        BY <2>2, <3>1, <3>2 DEF Kept
    <2>3. CASE aliases' = aliases
      <3>1. Named' = Named
        BY <2>3 DEF Named
      <3> QED
        BY <1>0, <2>1, <2>2, <3>1 DEF Accounted
    <2>4. CASE SetAlias(c)
      <3>1. /\ aliases' = WithAlias(Current(c), call[c].index) /\ call[c].pc = "alias"
            /\ call'[c].pc = "look"
        BY <1>0, <2>4 DEF SetAlias, AgentInvariant, TypeOK
      <3>2. Current(c) \in ToSet(items) /\ Current(c) \in ToSet(Returns[call[c].tool])
        BY <1>0, <3>1 DEF CallsConsistent, CallConsistent, Current, ToSet
      <3>3. Current(c) \in Item /\ call[c].index \in Alias
        BY <1>0, <3>1, <3>2 DEF CallsConsistent, CallConsistent, ToSet
      <3>4. \A i : i \in ToSet(Returns[call[c].tool]) => Kept(i)'
        BY <1>1, <3>1, CallStepDescribed DEF Kept, Recording
      <3>5. ASSUME NEW i \in Named' PROVE i = Current(c) \/ i \in Named
        <4>1. PICK k \in DOMAIN aliases' : i = aliases'[k][1]
          BY DEF Named
        <4>2. \/ aliases'[k][1] = Current(c)
              \/ k \in DOMAIN aliases /\ aliases'[k] = aliases[k]
          BY <3>1, <3>3, WithAliasDescribed
        <4> QED
          BY <4>1, <4>2 DEF Named
      <3> QED
        BY <1>0, <2>1, <2>2, <3>2, <3>4, <3>5 DEF Accounted
    <2> QED
      BY <1>1, <2>3, <2>4
        DEF CallStep, Consume, Read, Look, Insert, Number, Payload, Index, AppendTrace, Cancel,
            ledger
  <1>2. CASE \A c \in Call : ~CallStep(c)
    <2>1. aliases' = aliases /\ trace' = trace /\ phase # "ended"
      <3>1. phase # "ended"
        BY <1>2 DEF Next, ModelStep, ToolStep, Persist, Finished, ModelLimit, ProviderFails,
          AnswerIsInvalid, CallTools, MayCallModel, Answer, ToolsReturn, ToolsRaise, End, Save, Load, vars
      <3> QED
        BY <1>2, <3>1, RunStepDescribed DEF ledger
    <2>2. CASE call' = call
      BY <1>0, <2>1, <2>2 DEF Accounted, Named, Kept, Traced, ReturnedBy
    <2>3. CASE \A c \in Call : call[c].pc \notin Recording \cup {"broken"}
      BY <1>0, <2>1, <2>3 DEF Accounted, Named, Kept, Traced, ReturnedBy
    <2>4. call' = call \/ \A c \in Call : call[c].pc \notin Recording \cup {"broken"}
      <3>1. phase = "model" => \A c \in Call : call[c].pc = "idle"
        BY <1>0 DEF PhaseConsistent
      <3>2. CASE ToolsReturn
        BY <3>2 DEF ToolsReturn, Quiet, Raised, Recording
      <3>3. call' = call \/ phase = "model" \/ ToolsReturn
        BY <1>2, <2>1
          DEF Next, ModelStep, ToolStep, Persist, Finished, ModelLimit, ProviderFails,
              AnswerIsInvalid, CallTools, MayCallModel, Answer, ToolsRaise, End, Save, Load,
              vars
      <3> QED
        BY <3>1, <3>2, <3>3 DEF Recording
    <2> QED
      BY <2>2, <2>3, <2>4
  <1> QED
    BY <1>1, <1>2

(* Nothing but the artifacts changes after the end of a run. *)
LEMMA EndedStep ==
    ASSUME AgentInvariant, [Next]_vars, phase = "ended"
    PROVE  /\ UNCHANGED <<phase, iterations, used, ledger, call, report, error, shown, overlapped>>
           /\ artifacts' = artifacts \/ Save \/ Load
  <1>1. \A c \in Call : ~CallStep(c)
    BY CallStepDescribed
  <1> QED
    BY <1>1
      DEF Next, ModelStep, ToolStep, Persist, Finished, ModelLimit, ProviderFails,
          AnswerIsInvalid, CallTools, MayCallModel, Answer, ToolsReturn, ToolsRaise, Save,
          Load, vars, outcome

(* A report is made by one of the ways a run ends. *)
LEMMA ReportDescribed ==
    ASSUME AgentInvariant, [Next]_vars, phase # "ended", report' # None
    PROVE  \/ report' = NoClaims("BUDGET_EXHAUSTED") /\ iterations' = MaxIterations
           \/ report' = NoClaims("BUDGET_EXHAUSTED") /\ used' = MaxToolCalls
           \/ report' = NoClaims("FAILED")
           \/ \E o \in Outputs : MayCallModel /\ Grounded(o) /\ report' = ReportOf(o)
  <1>0. /\ PhaseConsistent /\ CallsConsistent /\ report = None
        /\ iterations \in 0 .. MaxIterations /\ MaxIterations \in Nat
    BY AgentAssumption DEF AgentInvariant, TypeOK, PhaseConsistent
  <1>1. CASE ModelLimit
    <2>1. iterations' = iterations /\ iterations >= MaxIterations /\ report' = NoClaims("BUDGET_EXHAUSTED")
      BY <1>1 DEF ModelLimit, End
    <2> QED
      BY <1>0, <2>1
  <1>2. CASE ProviderFails
    BY <1>2 DEF ProviderFails, End
  <1>3. CASE AnswerIsInvalid
    BY <1>3 DEF AnswerIsInvalid, End
  <1>4. CASE \E b \in Batches : CallTools(b)
    BY <1>0, <1>4 DEF CallTools, outcome
  <1>5. CASE \E o \in Outputs : Answer(o)
    BY <1>5 DEF Answer, End
  <1>6. CASE \E c \in Call : CallStep(c)
    BY <1>0, <1>6, CallStepDescribed
  <1>7. CASE ToolsReturn
    BY <1>0, <1>7 DEF ToolsReturn, outcome
  <1>8. ASSUME NEW c \in Call, ToolsRaise(c)
        PROVE  report' = NoClaims("BUDGET_EXHAUSTED") /\ used' = MaxToolCalls
    <2>1. used' = used /\ (call[c].pc = "refused" => report' = NoClaims("BUDGET_EXHAUSTED"))
      BY <1>8 DEF ToolsRaise, End
    <2>2. call[c].pc = "refused"
      BY <1>8 DEF ToolsRaise, End
    <2>3. used = MaxToolCalls
      BY <1>0, <2>2 DEF CallsConsistent, CallConsistent
    <2> QED
      BY <2>1, <2>2, <2>3
  <1>9. CASE Save \/ Load
    BY <1>0, <1>9 DEF Save, Load
  <1>10. CASE UNCHANGED vars
    BY <1>0, <1>10 DEF vars, outcome
  <1> QED
    BY <1>1, <1>2, <1>3, <1>4, <1>5, <1>6, <1>7, <1>8, <1>9, <1>10
      DEF Next, ModelStep, ToolStep, Persist, Finished

(* A call is granted once: it takes its unit before it reads any evidence. *)
LEMMA CountedStep == AgentInvariant /\ [Next]_vars => Counted'
  <1> SUFFICES ASSUME AgentInvariant, [Next]_vars PROVE Counted'
    OBVIOUS
  <1> DEFINE R == Holders(call)
  <1>0. /\ R \subseteq Call /\ IsFiniteSet(R) /\ Cardinality(R) \in Nat
        /\ Len(trace) \in Nat /\ used \in Nat /\ Len(trace) + Cardinality(R) <= used
    <2>1. R \subseteq Call
      BY DEF Holders
    <2> QED
      BY <2>1, AgentAssumption, FS_Subset, FS_CardinalityType
        DEF AgentInvariant, TypeOK, Counted
  <1>1. ASSUME NEW c \in Call, CallStep(c) PROVE Counted'
    <2>0. \A d \in Call \ {c} : d \in Holders(call)' <=> d \in R
      BY <1>1, CallStepDescribed DEF Holders
    <2>1. CASE /\ used' = used + 1 /\ trace' = trace
      <3>1. Holders(call)' \subseteq R \cup {c}
        BY <1>0, <2>0 DEF Holders
      <3> HIDE DEF R
      <3>2. Cardinality(R \cup {c}) <= Cardinality(R) + 1 /\ IsFiniteSet(R \cup {c})
        <4>1. /\ IsFiniteSet(R \cup {c})
              /\ Cardinality(R \cup {c}) = IF c \in R THEN Cardinality(R) ELSE Cardinality(R) + 1
          BY <1>0, FS_AddElement
        <4> QED
          BY <1>0, <4>1
      <3>3. Cardinality(Holders(call)') <= Cardinality(R \cup {c}) /\ Cardinality(Holders(call)') \in Nat
            /\ Cardinality(R \cup {c}) \in Nat
        BY <3>1, <3>2, FS_Subset, FS_CardinalityType
      <3> QED
        BY <1>0, <2>1, <3>2, <3>3 DEF Counted
    <2>2. CASE used' = used /\ trace' = trace /\ (call'[c].pc \in Granted => call[c].pc \in Granted)
      <3>1. Holders(call)' \subseteq R
        BY <1>0, <2>0, <2>2 DEF Holders
      <3>2. Cardinality(Holders(call)') <= Cardinality(R) /\ Cardinality(Holders(call)') \in Nat
        BY <1>0, <3>1, FS_Subset, FS_CardinalityType
      <3> QED
        BY <1>0, <2>2, <3>2 DEF Counted
    <2>3. CASE AppendTrace(c)
      <3>0. call[c].pc = "append" /\ call'[c].pc = "returned" /\ used' = used
        BY <1>1, <2>3 DEF AppendTrace, Goto, AgentInvariant, TypeOK
      <3>1. c \in R /\ Holders(call)' \subseteq R \ {c}
        BY <2>0, <3>0 DEF Holders, Granted, Recording
      <3>2. Cardinality(R \ {c}) = Cardinality(R) - 1 /\ IsFiniteSet(R \ {c})
        BY <1>0, <3>1, FS_RemoveElement
      <3>3. Cardinality(Holders(call)') <= Cardinality(R \ {c}) /\ Cardinality(Holders(call)') \in Nat
        BY <3>1, <3>2, FS_Subset, FS_CardinalityType
      <3>4. Len(trace') = Len(trace) + 1
        BY <2>3 DEF AppendTrace, AgentInvariant, TypeOK
      <3> QED
        BY <1>0, <3>0, <3>2, <3>3, <3>4 DEF Counted
    <2> QED
      BY <1>1, <2>1, <2>2, <2>3, CallStepDescribed
  <1>2. CASE \A c \in Call : ~CallStep(c)
    <2>1. UNCHANGED <<used, trace>>
      BY <1>2, RunStepDescribed DEF ledger
    <2>2. call' = call \/ Holders(call)' = {}
      <3>1. ASSUME NEW b \in Batches, CallTools(b) PROVE \A c \in Call : call'[c].pc \in {"idle", "start"}
        BY <3>1 DEF CallTools, Idle
      <3>2. call' = call \/ \A c \in Call : call'[c].pc \in {"idle", "start"}
        BY <1>2, <3>1, RunStepDescribed DEF Idle
      <3> QED
        BY <3>2 DEF Holders, Granted, Recording
    <2>3. Cardinality(Holders(call)') <= Cardinality(R) /\ Cardinality(Holders(call)') \in Nat
      <3>1. CASE call' = call
        <4>1. Holders(call)' = R
          BY <3>1 DEF Holders
        <4> QED
          BY <1>0, <4>1
      <3>2. CASE Holders(call)' = {}
        <4>1. Cardinality({}) = 0
          BY FS_EmptySet
        <4> QED
          BY <1>0, <3>2, <4>1
      <3> QED
        BY <2>2, <3>1, <3>2
    <2> QED
      BY <1>0, <2>1, <2>3 DEF Counted
  <1> QED
    BY <1>1, <1>2

(* Both budgets bound what they say they bound. *)
LEMMA BudgetStep == AgentInvariant /\ [Next]_vars => BudgetIsKept'
  <1> SUFFICES ASSUME AgentInvariant, [Next]_vars PROVE BudgetIsKept'
    OBVIOUS
  <1>1. Len(trace') + Cardinality({c \in Call : call'[c].pc \in Granted}) <= MaxToolCalls
    <2>1. used' \in 0 .. MaxToolCalls /\ Len(trace') \in Nat /\ MaxToolCalls \in Nat
      BY TypeStep, AgentAssumption DEF TypeOK
    <2>2. Len(trace') + Cardinality({c \in Call : call'[c].pc \in Granted}) <= used'
      BY CountedStep DEF Counted, Holders
    <2>3. Cardinality({c \in Call : call'[c].pc \in Granted}) \in Nat
      BY AgentAssumption, FS_Subset, FS_CardinalityType
    <2> QED
      BY <2>1, <2>2, <2>3
  <1>2. (report' # None /\ report'.status = "BUDGET_EXHAUSTED") =>
            used' = MaxToolCalls \/ iterations' = MaxIterations
    <2>1. CASE phase = "ended"
      BY <2>1, EndedStep DEF AgentInvariant, BudgetIsKept
    <2>2. CASE phase # "ended"
      BY <2>2, ReportDescribed DEF NoClaims, ReportOf, Outputs, Analytical
    <2> QED
      BY <2>1, <2>2
  <1> QED
    BY <1>1, <1>2 DEF BudgetIsKept

(* A report made from an answer claims admitted items only. *)
LEMMA AnswerDescribed ==
    ASSUME AgentInvariant, NEW o \in Outputs, MayCallModel, Grounded(o)
    PROVE  /\ \A claim \in ReportOf(o).claims : Traced(claim[2])
           /\ ReportOf(o).timeline \subseteq {claim[2] : claim \in ReportOf(o).claims} \cap TimelineItem
           /\ ReportOf(o).timeline \subseteq ToSet(items)
           /\ ReportOf(o).status \in Analytical
  <1>1. \A i \in Named : Traced(i) /\ i \in ToSet(items)
    <2>1. phase = "model" /\ \A c \in Call : call[c].pc = "idle"
      BY DEF AgentInvariant, PhaseConsistent, MayCallModel
    <2>2. \A i \in Named : Kept(i) /\ i \in ToSet(items)
      BY <2>1 DEF AgentInvariant, Accounted, LedgerConsistent, Named
    <2> QED
      BY <2>1, <2>2 DEF Kept, Recording
  <1>2. \A r \in o.refs \cup o.timeline : Resolve(r) \in Named
    <2>1. ASSUME NEW r \in o.refs \cup o.timeline PROVE Resolve(r) \in Named
      <3>1. PICK k \in DOMAIN aliases : aliases[k] = <<Resolve(r), r>>
        BY ResolveDescribed DEF Grounded
      <3>2. aliases[k][1] = Resolve(r)
        BY <3>1
      <3> QED
        BY <3>2 DEF Named
    <2> QED
      BY <2>1
  <1>3. \A r \in o.timeline : Resolve(r) \in TimelineItem
    BY DEF Grounded
  <1>4. /\ ReportOf(o).claims = {<<r, Resolve(r)>> : r \in o.refs \cup o.timeline}
        /\ ReportOf(o).timeline = {Resolve(r) : r \in o.timeline}
        /\ ReportOf(o).status = o.status
    BY DEF ReportOf
  <1>5. ASSUME NEW i \in ReportOf(o).timeline
        PROVE  i \in {claim[2] : claim \in ReportOf(o).claims} /\ i \in TimelineItem /\ i \in ToSet(items)
    <2>1. PICK r \in o.timeline : i = Resolve(r)
      BY <1>4
    <2>2. <<r, i>> \in ReportOf(o).claims /\ <<r, i>>[2] = i
      BY <1>4, <2>1
    <2> QED
      BY <1>1, <1>2, <1>3, <2>1, <2>2
  <1>6. \A claim \in ReportOf(o).claims : Traced(claim[2])
    BY <1>1, <1>2, <1>4
  <1>7. o.status \in Analytical
    BY DEF Outputs
  <1> QED
    BY <1>4, <1>5, <1>6, <1>7

(* A report, once made, stays; the one just made claims what is admitted. *)
LEMMA ClaimsStep == AgentInvariant /\ [Next]_vars => ClaimsAreAdmitted'
  <1> SUFFICES ASSUME AgentInvariant, [Next]_vars, report' # None PROVE ClaimsAreAdmitted'
    BY DEF ClaimsAreAdmitted
  <1>1. CASE phase = "ended"
    <2>1. UNCHANGED <<report, trace>>
      BY <1>1, EndedStep DEF ledger
    <2> QED
      BY <2>1 DEF AgentInvariant, ClaimsAreAdmitted, ReturnedBy
  <1>2. CASE phase # "ended"
    <2>1. ASSUME NEW s \in Operational, report' = NoClaims(s) PROVE ClaimsAreAdmitted'
      BY <2>1 DEF ClaimsAreAdmitted, NoClaims
    <2>2. ASSUME NEW o \in Outputs, MayCallModel, Grounded(o), report' = ReportOf(o)
          PROVE  ClaimsAreAdmitted'
      <3>1. \A claim \in ReportOf(o).claims : Traced(claim[2])'
        BY <2>2, AnswerDescribed, TraceGrows
      <3>2. ReportOf(o).status \notin Operational
        BY <2>2, AnswerDescribed DEF Analytical, Operational
      <3>3. ReportOf(o).timeline \subseteq {claim[2] : claim \in ReportOf(o).claims} \cap TimelineItem
        BY <2>2, AnswerDescribed
      <3> HIDE DEF ReportOf
      <3> QED
        BY <2>2, <3>1, <3>2, <3>3 DEF ClaimsAreAdmitted, Traced
    <2> QED
      BY <1>2, <2>1, <2>2, ReportDescribed DEF Operational
  <1> QED
    BY <1>1, <1>2

(* What was verified stays verified: the ledger no longer changes. *)
LEMMA SavedStep == AgentInvariant /\ [Next]_vars => SavedIsVerified'
  <1> SUFFICES ASSUME AgentInvariant, [Next]_vars PROVE SavedIsVerified'
    OBVIOUS
  <1>0. SavedIsVerified /\ PhaseConsistent /\ ClaimsAreAdmitted
    BY DEF AgentInvariant
  <1>1. CASE phase = "ended"
    <2>1. UNCHANGED <<report, items, trace>>
      BY <1>1, EndedStep DEF ledger
    <2>2. Verified' <=> Verified
      BY <2>1 DEF Verified, Replayed
    <2>3. CASE artifacts' = artifacts
      BY <1>0, <2>1, <2>2, <2>3 DEF SavedIsVerified
    <2>4. CASE Save
      BY <1>0, <2>1, <2>2, <2>4 DEF SavedIsVerified, Save
    <2>5. CASE Load
      <3>1. Verified /\ report # None
        BY <1>0, <2>5 DEF Load, SavedIsVerified, PhaseConsistent
      <3>2. report.timeline \subseteq TimelineItem \cap ToSet(items)
        BY <1>0, <3>1 DEF SavedIsVerified, ClaimsAreAdmitted
      <3>3. artifacts' = "loaded"
        BY <2>5, <3>1, <3>2 DEF Load
      <3> QED
        BY <1>0, <2>1, <2>2, <3>1, <3>3 DEF SavedIsVerified
    <2> QED
      BY <1>1, <2>3, <2>4, <2>5, EndedStep
  <1>2. CASE phase # "ended"
    <2>1. artifacts' = "none"
      <3>1. CASE \E c \in Call : CallStep(c)
        BY <1>0, <1>2, <3>1, CallStepDescribed DEF PhaseConsistent
      <3>2. CASE \A c \in Call : ~CallStep(c)
        BY <1>0, <1>2, <3>2
          DEF PhaseConsistent, Next, ModelStep, ToolStep, Persist, Finished, ModelLimit,
              ProviderFails, AnswerIsInvalid, CallTools, Answer, ToolsReturn, ToolsRaise,
              End, Save, Load, vars, outcome
      <3> QED
        BY <3>1, <3>2
    <2>2. ASSUME report' # None PROVE report'.timeline \subseteq ToSet(items')
      <3>1. CASE \E s : report' = NoClaims(s)
        BY <3>1 DEF NoClaims
      <3>2. ASSUME NEW o \in Outputs, MayCallModel, Grounded(o), report' = ReportOf(o)
            PROVE  report'.timeline \subseteq ToSet(items')
        <4>1. report'.timeline \subseteq ToSet(items)
          BY <3>2, AnswerDescribed
        <4>2. items' = items
          <5>1. \A c \in Call : ~CallStep(c)
            BY <3>2, CallStepDescribed DEF MayCallModel
          <5> QED
            BY <5>1, RunStepDescribed DEF ledger
        <4> QED
          BY <4>1, <4>2
      <3> QED
        BY <1>2, <2>2, <3>1, <3>2, ReportDescribed
    <2> QED
      BY <2>1, <2>2 DEF SavedIsVerified
  <1> QED
    BY <1>1, <1>2

-----------------------------------------------------------------------------
(* Recording the trace again. *)

(* The recursion of Admitting, unfolded. *)
LEMMA AdmittingUnfolds ==
    ASSUME NEW seen \in Seq(Item), NEW s \in Seq(Item)
    PROVE  /\ Admitting(seen, s) \in [0 .. Len(s) -> Seq(Item)]
           /\ Admitting(seen, s)[0] = seen
           /\ \A n \in 1 .. Len(s) : Admitting(seen, s)[n] = Admit(Admitting(seen, s)[n - 1], s[n])
  <1> DEFINE G == [n \in 1 .. Len(s) |-> [x \in Seq(Item) |-> Admit(x, s[n])]]
             Is(f) == f = [n \in 0 .. Len(s) |-> IF n = 0 THEN seen ELSE Admit(f[n - 1], s[n])]
  <1>1. Admitting(seen, s) = CHOOSE f : Is(f)
    BY DEF Admitting
  <1>2. Len(s) \in Nat /\ \A n \in 1 .. Len(s) : s[n] \in Item
    OBVIOUS
  <1>3. \A n \in 1 .. Len(s), x \in Seq(Item) : Admit(x, s[n]) \in Seq(Item)
    BY <1>2, AdmitDescribed
  <1>4. PICK g \in [0 .. Len(s) -> Seq(Item)] :
           g[0] = seen /\ \A n \in 1 .. Len(s) : g[n] = G[n][g[n - 1]]
    <2>1. G \in [1 .. Len(s) -> [Seq(Item) -> Seq(Item)]]
      BY <1>3
    <2> DEFINE N == Len(s)
               S == Seq(Item)
    <2>2. N \in Nat /\ seen \in S /\ G \in [1 .. N -> [S -> S]]
      BY <1>2, <2>1
    <2> HIDE DEF G, N, S
    <2>3. \E f \in [0 .. N -> S] : Follows(f, N, seen, G)
      BY <2>2, Recursion
    <2> QED
      BY <2>3 DEF N, S, Follows
  <1>5. ASSUME NEW n \in 1 .. Len(s) PROVE g[n] = Admit(g[n - 1], s[n])
    <2>1. g[n - 1] \in Seq(Item)
      BY <1>2
    <2> QED
      BY <1>4, <2>1
  <1>6. Is(g)
    <2>1. \A n \in 0 .. Len(s) : g[n] = IF n = 0 THEN seen ELSE Admit(g[n - 1], s[n])
      BY <1>2, <1>4, <1>5
    <2> QED
      BY <2>1
  <1>7. Is(Admitting(seen, s))
    <2> HIDE DEF Is
    <2> QED
      BY <1>1, <1>6
  <1> DEFINE f == Admitting(seen, s)
  <1>8. f[0] = seen /\ \A n \in 1 .. Len(s) : f[n] = Admit(f[n - 1], s[n])
    <2>1. f = [n \in 0 .. Len(s) |-> IF n = 0 THEN seen ELSE Admit(f[n - 1], s[n])]
      BY <1>7
    <2> HIDE DEF f
    <2> QED
      BY <1>2, <2>1
  <1>9. DOMAIN f = 0 .. Len(s)
    BY <1>7
  <1>10. \A n \in 0 .. Len(s) : f[n] \in Seq(Item)
    <2> HIDE DEF f
    <2> DEFINE U == {n \in 0 .. Len(s) : f[n] \in Seq(Item)}
    <2>1. 0 \in U
      <3>1. f[0] \in Seq(Item)
        BY <1>8
      <3> QED
        BY <1>2, <3>1
    <2>2. ASSUME NEW n \in 1 .. Len(s), n - 1 \in U PROVE n \in U
      <3>1. f[n - 1] \in Seq(Item) /\ f[n] = Admit(f[n - 1], s[n]) /\ n \in 0 .. Len(s)
        BY <1>2, <1>8, <2>2
      <3> QED
        BY <1>3, <3>1
    <2> HIDE DEF U
    <2>3. 0 .. Len(s) \subseteq U
      BY <1>2, <2>1, <2>2, Induction
    <2> QED
      BY <2>3 DEF U
  <1>11. f \in [0 .. Len(s) -> Seq(Item)]
    <2>1. f = [n \in 0 .. Len(s) |-> f[n]]
      <3>1. Is(f)
        BY <1>7
      <3> HIDE DEF f
      <3> QED
        BY <3>1
    <2> HIDE DEF f
    <2> QED
      BY <1>10, <2>1
  <1> QED
    BY <1>8, <1>11
(* Recording items goes on from what the ledger holds, and adds them. *)
LEMMA AdmittingDescribed ==
    ASSUME NEW seen \in Seq(Item), NEW s \in Seq(Item), NEW n \in 0 .. Len(s)
    PROVE  /\ Admitting(seen, s)[n] \in Seq(Item)
           /\ Continues(Admitting(seen, s)[n], seen)
           /\ ToSet(Admitting(seen, s)[n]) = ToSet(seen) \cup {s[m] : m \in 1 .. n}
           /\ IsInjective(seen) => IsInjective(Admitting(seen, s)[n])
  <1> DEFINE f == Admitting(seen, s)
             Good(k) == /\ Continues(f[k], seen)
                        /\ ToSet(f[k]) = ToSet(seen) \cup {s[m] : m \in 1 .. k}
                        /\ IsInjective(seen) => IsInjective(f[k])
             U == {k \in 0 .. Len(s) : Good(k)}
  <1>1. Len(s) \in Nat /\ \A k \in 1 .. Len(s) : s[k] \in Item
    OBVIOUS
  <1>2. /\ \A k \in 0 .. Len(s) : f[k] \in Seq(Item)
        /\ f[0] = seen /\ \A k \in 1 .. Len(s) : f[k] = Admit(f[k - 1], s[k])
    BY AdmittingUnfolds
  <1> HIDE DEF f
  <1>3. 0 \in U
    <2>1. Continues(seen, seen) /\ {s[m] : m \in 1 .. 0} = {}
      BY DEF Continues
    <2> QED
      BY <1>1, <1>2, <2>1
  <1>4. ASSUME NEW k \in 1 .. Len(s), k - 1 \in U PROVE k \in U
    <2>1. /\ f[k - 1] \in Seq(Item) /\ s[k] \in Item /\ f[k] = Admit(f[k - 1], s[k])
          /\ k - 1 \in 0 .. Len(s) /\ k \in 0 .. Len(s)
      BY <1>1, <1>2
    <2>2. /\ Continues(f[k], f[k - 1]) /\ ToSet(f[k]) = ToSet(f[k - 1]) \cup {s[k]}
          /\ IsInjective(f[k - 1]) => IsInjective(f[k])
      BY <2>1, AdmitDescribed
    <2>3. Good(k - 1)
      BY <1>4
    <2>4. Continues(f[k], seen)
      BY <2>2, <2>3 DEF Continues
    <2>5. ToSet(f[k]) = ToSet(seen) \cup {s[m] : m \in 1 .. k}
      <3>1. {s[m] : m \in 1 .. k} = {s[m] : m \in 1 .. k - 1} \cup {s[k]}
        OBVIOUS
      <3> QED
        BY <2>2, <2>3, <3>1
    <2> QED
      BY <2>1, <2>2, <2>3, <2>4, <2>5
  <1>5. Good(n)
    <2> HIDE DEF U
    <2>1. 0 .. Len(s) \subseteq U
      BY <1>1, <1>3, <1>4, Induction
    <2> QED
      BY <2>1 DEF U
  <1> QED
    BY <1>2, <1>5 DEF f

(* What the trace holds. *)
TracedCall == [index : Nat, tool : Tool, refs : Seq(Alias)]

(* The recursion of Replaying, unfolded. *)
LEMMA ReplayingUnfolds ==
    ASSUME NEW calls \in Seq(TracedCall)
    PROVE  /\ Replaying(calls) \in [0 .. Len(calls) -> Seq(Item)]
           /\ Replaying(calls)[0] = <<>>
           /\ \A n \in 1 .. Len(calls) :
                 Replaying(calls)[n] = Admitting(Replaying(calls)[n - 1], ReturnedBy(calls[n]))
                                         [Len(ReturnedBy(calls[n]))]
  <1> DEFINE Again(x, n) == Admitting(x, ReturnedBy(calls[n]))[Len(ReturnedBy(calls[n]))]
             G == [n \in 1 .. Len(calls) |-> [x \in Seq(Item) |-> Again(x, n)]]
             Is(f) == f = [n \in 0 .. Len(calls) |-> IF n = 0 THEN <<>> ELSE Again(f[n - 1], n)]
  <1>1. Replaying(calls) = CHOOSE f : Is(f)
    BY DEF Replaying
  <1>2. Len(calls) \in Nat /\ \A n \in 1 .. Len(calls) : ReturnedBy(calls[n]) \in Seq(Item)
    <2>1. \A n \in 1 .. Len(calls) : calls[n] \in TracedCall
      OBVIOUS
    <2> QED
      BY <2>1, AgentAssumption DEF ReturnedBy, TracedCall
  <1>3. ASSUME NEW n \in 1 .. Len(calls), NEW x \in Seq(Item) PROVE Again(x, n) \in Seq(Item)
    <2>1. ReturnedBy(calls[n]) \in Seq(Item)
      BY <1>2
    <2>2. Len(ReturnedBy(calls[n])) \in 0 .. Len(ReturnedBy(calls[n]))
      BY <2>1
    <2> QED
      BY <2>1, <2>2, AdmittingUnfolds
  <1> HIDE DEF Again
  <1>4. PICK g \in [0 .. Len(calls) -> Seq(Item)] :
           g[0] = <<>> /\ \A n \in 1 .. Len(calls) : g[n] = G[n][g[n - 1]]
    <2>1. G \in [1 .. Len(calls) -> [Seq(Item) -> Seq(Item)]]
      BY <1>3
    <2> DEFINE N == Len(calls)
               S == Seq(Item)
    <2>2. N \in Nat /\ <<>> \in S /\ G \in [1 .. N -> [S -> S]]
      BY <1>2, <2>1
    <2> HIDE DEF G, N, S
    <2>3. \E f \in [0 .. N -> S] : Follows(f, N, <<>>, G)
      BY <2>2, Recursion
    <2> QED
      BY <2>3 DEF N, S, Follows
  <1>5. ASSUME NEW n \in 1 .. Len(calls) PROVE g[n] = Again(g[n - 1], n)
    <2>1. g[n - 1] \in Seq(Item)
      BY <1>2
    <2> QED
      BY <1>4, <2>1
  <1>6. Is(g)
    <2>1. \A n \in 0 .. Len(calls) : g[n] = IF n = 0 THEN <<>> ELSE Again(g[n - 1], n)
      BY <1>2, <1>4, <1>5
    <2> QED
      BY <2>1
  <1>7. Is(Replaying(calls))
    <2> HIDE DEF Is
    <2> QED
      BY <1>1, <1>6
  <1> DEFINE f == Replaying(calls)
  <1>8. f[0] = <<>> /\ \A n \in 1 .. Len(calls) : f[n] = Again(f[n - 1], n)
    <2>1. f = [n \in 0 .. Len(calls) |-> IF n = 0 THEN <<>> ELSE Again(f[n - 1], n)]
      BY <1>7
    <2> HIDE DEF f
    <2> QED
      BY <1>2, <2>1
  <1>9. DOMAIN f = 0 .. Len(calls)
    BY <1>7
  <1>10. \A n \in 0 .. Len(calls) : f[n] \in Seq(Item)
    <2> HIDE DEF f
    <2> DEFINE U == {n \in 0 .. Len(calls) : f[n] \in Seq(Item)}
    <2>1. 0 \in U
      <3>1. f[0] \in Seq(Item)
        BY <1>8
      <3> QED
        BY <1>2, <3>1
    <2>2. \A n \in 1 .. Len(calls) : n - 1 \in U => n \in U
      BY <1>2, <1>3, <1>8
    <2> HIDE DEF U
    <2>3. 0 .. Len(calls) \subseteq U
      BY <1>2, <2>1, <2>2, Induction
    <2> QED
      BY <2>3 DEF U
  <1>11. f \in [0 .. Len(calls) -> Seq(Item)]
    <2>1. f = [n \in 0 .. Len(calls) |-> f[n]]
      <3>1. Is(f)
        BY <1>7
      <3> HIDE DEF f
      <3> QED
        BY <3>1
    <2> HIDE DEF f
    <2> QED
      BY <1>10, <2>1
  <1> QED
    BY <1>8, <1>11 DEF Again

(* What the ledger holds after recording n of the traced calls again: their  *)
(* items, each once, in the order in which they were first returned.         *)
LEMMA ReplayingDescribed ==
    ASSUME NEW calls \in Seq(TracedCall), NEW n \in 0 .. Len(calls)
    PROVE  LET x == Replaying(calls)[n] IN
           /\ x \in Seq(Item)
           /\ IsInjective(x)
           /\ ToSet(x) = UNION {ToSet(ReturnedBy(calls[k])) : k \in 1 .. n}
           /\ \A i, j \in DOMAIN x :
                i < j => \E k \in 1 .. n :
                           /\ x[i] \in ToSet(ReturnedBy(calls[k]))
                           /\ \A m \in 1 .. k - 1 : x[j] \notin ToSet(ReturnedBy(calls[m]))
  <1> DEFINE f == Replaying(calls)
             Of(k) == ToSet(ReturnedBy(calls[k]))
             Up(k) == UNION {Of(m) : m \in 1 .. k}
             Ordered(k) == \A i, j \in DOMAIN f[k] :
                             i < j => \E l \in 1 .. k :
                                        /\ f[k][i] \in Of(l)
                                        /\ \A m \in 1 .. l - 1 : f[k][j] \notin Of(m)
             U == {k \in 0 .. Len(calls) : IsInjective(f[k]) /\ ToSet(f[k]) = Up(k) /\ Ordered(k)}
  <1>1. Len(calls) \in Nat /\ \A k \in 1 .. Len(calls) : ReturnedBy(calls[k]) \in Seq(Item)
    <2>1. \A k \in 1 .. Len(calls) : calls[k] \in TracedCall
      OBVIOUS
    <2> QED
      BY <2>1, AgentAssumption DEF ReturnedBy, TracedCall
  <1>2. /\ \A k \in 0 .. Len(calls) : f[k] \in Seq(Item)
        /\ f[0] = <<>>
        /\ \A k \in 1 .. Len(calls) :
              f[k] = Admitting(f[k - 1], ReturnedBy(calls[k]))[Len(ReturnedBy(calls[k]))]
    BY ReplayingUnfolds
  <1> HIDE DEF f
  <1>3. 0 \in U
    <2>1. ToSet(<<>>) = {} /\ Up(0) = {} /\ DOMAIN <<>> = {}
      BY DEF ToSet
    <2>2. IsInjective(f[0]) /\ ToSet(f[0]) = Up(0) /\ Ordered(0)
      BY <1>2, <2>1 DEF IsInjective
    <2> QED
      BY <1>1, <2>2
  <1>4. ASSUME NEW k \in 1 .. Len(calls), k - 1 \in U PROVE k \in U
    <2> DEFINE y == f[k - 1]
               x == f[k]
               s == ReturnedBy(calls[k])
    <2>0. k \in Nat /\ k - 1 \in 0 .. Len(calls) /\ k \in 0 .. Len(calls)
      BY <1>1
    <2>1. y \in Seq(Item) /\ s \in Seq(Item) /\ Len(s) \in 0 .. Len(s) /\ x = Admitting(y, s)[Len(s)]
          /\ x \in Seq(Item)
      BY <1>1, <1>2, <2>0
    <2>2. IsInjective(y) /\ ToSet(y) = Up(k - 1) /\ Ordered(k - 1)
      BY <1>4
    <2>3. Continues(x, y) /\ ToSet(x) = ToSet(y) \cup {s[m] : m \in 1 .. Len(s)}
          /\ (IsInjective(y) => IsInjective(x))
      <3> HIDE DEF x, y, s
      <3> QED
        BY <2>1, AdmittingDescribed, ZenonT(40)
    <2>4. {s[m] : m \in 1 .. Len(s)} = Of(k)
      BY <2>1 DEF ToSet
    <2>5. Up(k) = Up(k - 1) \cup Of(k)
      <3>1. 1 .. k = (1 .. k - 1) \cup {k}
        BY <2>0
      <3> HIDE DEF Of
      <3> QED
        BY <3>1
    <2>6. Ordered(k)
      <3> SUFFICES ASSUME NEW i \in DOMAIN x, NEW j \in DOMAIN x, i < j
                   PROVE  \E l \in 1 .. k :
                            x[i] \in Of(l) /\ \A m \in 1 .. l - 1 : x[j] \notin Of(m)
        OBVIOUS
      <3>0. /\ DOMAIN y = 1 .. Len(y) /\ Len(y) \in Nat /\ i \in Nat /\ j \in Nat
            /\ DOMAIN x = 1 .. Len(x) /\ Len(x) \in Nat /\ 1 <= i
        BY <2>1
      <3>1. CASE j \in DOMAIN y
        <4>1. i \in DOMAIN y /\ x[i] = y[i] /\ x[j] = y[j]
          BY <2>3, <3>0, <3>1 DEF Continues
        <4>2. \E l \in 1 .. k - 1 : y[i] \in Of(l) /\ \A m \in 1 .. l - 1 : y[j] \notin Of(m)
          BY <2>2, <3>1, <4>1
        <4> HIDE DEF x, y, Of
        <4> QED
          BY <2>0, <4>1, <4>2
      <3>2. CASE j \notin DOMAIN y
        <4>1. x[j] \notin ToSet(y)
          <5>1. \A l \in DOMAIN y : x[l] = y[l] /\ l # j /\ l \in DOMAIN x
            BY <2>3, <3>2 DEF Continues
          <5> HIDE DEF x, y
          <5>2. \A l \in DOMAIN y : y[l] # x[j]
            BY <2>2, <2>3, <5>1 DEF IsInjective
          <5> QED
            BY <5>2 DEF ToSet
        <4>2. \A m \in 1 .. k - 1 : x[j] \notin Of(m)
          <5> HIDE DEF x, y, Of
          <5> QED
            BY <2>2, <4>1
        <4>3. x[i] \in ToSet(x)
          BY DEF ToSet
        <4>4. CASE x[i] \in Of(k)
          <5> HIDE DEF x, y, Of
          <5> QED
            BY <2>0, <4>2, <4>4
        <4>5. CASE x[i] \in ToSet(y)
          <5> HIDE DEF x, y, Of
          <5>1. PICK l \in 1 .. k - 1 : x[i] \in Of(l)
            BY <2>2, <4>5
          <5>2. l \in 1 .. k /\ \A m \in 1 .. l - 1 : m \in 1 .. k - 1
            BY <2>0
          <5> QED
            BY <4>2, <5>1, <5>2
        <4> HIDE DEF x, y, Of
        <4> QED
          BY <2>3, <2>4, <4>3, <4>4, <4>5
      <3> QED
        BY <3>1, <3>2
    <2> HIDE DEF x, y, Ordered, Up, Of
    <2>7. IsInjective(f[k]) /\ ToSet(f[k]) = Up(k)
      BY <2>2, <2>3, <2>4, <2>5 DEF x, y
    <2> QED
      BY <2>0, <2>6, <2>7
  <1>5. n \in U
    <2> HIDE DEF U
    <2>1. 0 .. Len(calls) \subseteq U
      BY <1>1, <1>3, <1>4, Induction
    <2> QED
      BY <2>1
  <1> QED
    BY <1>2, <1>5 DEF f

(* A replay of a longer trace starts as that of the shorter one. *)
LEMMA ReplayingAppends ==
    ASSUME NEW calls \in Seq(TracedCall), NEW t \in TracedCall
    PROVE  LET s == ReturnedBy(t) IN
           Replaying(Append(calls, t))[Len(calls) + 1] =
               Admitting(Replaying(calls)[Len(calls)], s)[Len(s)]
  <1> DEFINE f == Replaying(calls)
             g == Replaying(Append(calls, t))
             U == {k \in 0 .. Len(calls) : g[k] = f[k]}
             N == Len(calls)
             longer == Append(calls, t)
  <1>1. /\ N \in Nat /\ longer \in Seq(TracedCall) /\ Len(longer) = N + 1
        /\ longer[N + 1] = t /\ \A k \in 1 .. N : longer[k] = calls[k]
    OBVIOUS
  <1>2. /\ f[0] = <<>> /\ g[0] = <<>>
        /\ \A k \in 1 .. N :
             f[k] = Admitting(f[k - 1], ReturnedBy(calls[k]))[Len(ReturnedBy(calls[k]))]
    BY ReplayingUnfolds, <1>1
  <1>3. \A k \in 1 .. N + 1 :
             g[k] = Admitting(g[k - 1], ReturnedBy(longer[k]))[Len(ReturnedBy(longer[k]))]
    <2> HIDE DEF longer
    <2>1. \A k \in 1 .. Len(longer) :
             Replaying(longer)[k] = Admitting(Replaying(longer)[k - 1], ReturnedBy(longer[k]))
                                         [Len(ReturnedBy(longer[k]))]
      BY <1>1, ReplayingUnfolds
    <2> QED
      BY <1>1, <2>1 DEF longer
  <1> HIDE DEF f, g, N, longer
  <1>4. 0 \in U
    BY <1>1, <1>2 DEF N
  <1>5. ASSUME NEW k \in 1 .. N, k - 1 \in U PROVE k \in U
    <2>1. g[k - 1] = f[k - 1] /\ longer[k] = calls[k] /\ k \in 1 .. N + 1 /\ k \in 0 .. N
      BY <1>1, <1>5
    <2>2. g[k] = f[k]
      BY <1>2, <1>3, <2>1
    <2> QED
      BY <2>1, <2>2 DEF N
  <1>6. g[N] = f[N]
    <2> HIDE DEF U
    <2>1. 0 .. N \subseteq U
      BY <1>1, <1>4, <1>5, Induction
    <2> QED
      BY <1>1, <2>1 DEF U
  <1>7. g[N + 1] = Admitting(g[N], ReturnedBy(t))[Len(ReturnedBy(t))]
    <2>1. N + 1 \in 1 .. N + 1 /\ (N + 1) - 1 = N
      BY <1>1
    <2> QED
      BY <1>1, <1>3, <2>1
  <1> QED
    BY <1>6, <1>7 DEF f, g, N, longer

(* A verified ledger is reproduced by its trace. *)
LEMMA VerifiedIsReproduced ==
    ASSUME AgentInvariant, Verified
    PROVE  /\ ToSet(items) = UNION {ToSet(ReturnedBy(trace[k])) : k \in DOMAIN trace}
           /\ \A i, j \in DOMAIN items :
                i < j => \E k \in DOMAIN trace :
                           /\ items[i] \in ToSet(ReturnedBy(trace[k]))
                           /\ \A m \in 1 .. k - 1 : items[j] \notin ToSet(ReturnedBy(trace[m]))
  <1>1. trace \in Seq(TracedCall) /\ Len(trace) \in Nat /\ DOMAIN trace = 1 .. Len(trace)
    BY DEF AgentInvariant, TypeOK, TracedCall
  <1>2. items = Replaying(trace)[Len(trace)] /\ Len(trace) \in 0 .. Len(trace)
    BY <1>1 DEF Verified, Replayed
  <1> DEFINE x == Replaying(trace)[Len(trace)]
  <1>3. /\ ToSet(x) = UNION {ToSet(ReturnedBy(trace[k])) : k \in 1 .. Len(trace)}
        /\ \A i, j \in DOMAIN x :
             i < j => \E k \in 1 .. Len(trace) :
                        /\ x[i] \in ToSet(ReturnedBy(trace[k]))
                        /\ \A m \in 1 .. k - 1 : x[j] \notin ToSet(ReturnedBy(trace[m]))
    BY <1>1, <1>2, ReplayingDescribed
  <1>4. x = items /\ 1 .. Len(trace) = DOMAIN trace
    BY <1>1, <1>2
  <1> HIDE DEF x
  <1> QED
    BY <1>3, <1>4, Zenon

-----------------------------------------------------------------------------
(* Calls that are recorded one after another. *)

(* References are good as long as the ledger goes on from where it was. *)
LEMMA NamesKept ==
    ASSUME NEW refs, NEW s, Continues(items', items), Names(refs, s)
    PROVE  Names(refs, s)'
  BY DEF Names, Continues

(* The ledger never loses or moves an item. *)
LEMMA ItemsContinue ==
    ASSUME AgentInvariant, [Next]_vars
    PROVE  Continues(items', items)
  <1>0. items \in Seq(Item) /\ CallsConsistent
    BY DEF AgentInvariant, TypeOK
  <1>1. ASSUME NEW c \in Call, Insert(c) PROVE Continues(items', items)
    <2>1. Current(c) \in Item /\ items' = Admit(items, Current(c))
      BY <1>0, <1>1, AgentAssumption DEF Insert, CallsConsistent, CallConsistent, Current
    <2> QED
      BY <1>0, <2>1, AdmitDescribed
  <1>2. CASE items' = items
    BY <1>2 DEF Continues
  <1>3. items' = items \/ \E c \in Call : Insert(c)
    <2>1. CASE \E c \in Call : CallStep(c)
      BY <2>1
        DEF CallStep, Consume, Read, Look, Number, SetAlias, Payload, Index, AppendTrace, Cancel,
            ledger
    <2>2. CASE \A c \in Call : ~CallStep(c)
      BY <2>2, RunStepDescribed DEF ledger
    <2> QED
      BY <2>1, <2>2
  <1> QED
    BY <1>1, <1>2, <1>3

(* Threads that do not overlap record one at a time. *)
LEMMA NoOverlapAlone ==
    ASSUME NEW threads, ~Overlap(threads)
    PROVE  \A c, d \in Recorders(threads) : c = d
  <1> SUFFICES ASSUME NEW c \in Recorders(threads), NEW d \in Recorders(threads), c # d
               PROVE  FALSE
    OBVIOUS
  <1>1. IsFiniteSet(Recorders(threads)) /\ {c, d} \subseteq Recorders(threads)
    BY AgentAssumption, FS_Subset DEF Recorders
  <1>2. Cardinality({c, d}) <= Cardinality(Recorders(threads))
    BY <1>1, FS_Subset
  <1>3. Cardinality({c, d}) = 2
    <2>1. IsFiniteSet({c}) /\ Cardinality({c}) = 1
      BY FS_Singleton
    <2>2. Cardinality({c} \cup {d}) = Cardinality({c}) + 1
      BY <2>1, FS_AddElement
    <2>3. {c} \cup {d} = {c, d}
      OBVIOUS
    <2> QED
      BY <2>1, <2>2, <2>3
  <1>4. Cardinality(Recorders(threads)) \in Nat /\ ~(Cardinality(Recorders(threads)) > 1)
    BY <1>1, FS_CardinalityType DEF Overlap, Recorders
  <1> QED
    BY <1>2, <1>3, <1>4

(* While a call records, no other does, before and after its step. *)
LEMMA OthersStay ==
    ASSUME AgentInvariant, Sequential, ~overlapped,
           NEW c \in Call, CallStep(c), call[c].pc \in Recording
    PROVE  /\ Alone'
           /\ \A d \in Call \ {c} : SequentialCall(d)' /\ call'[d].pc \notin Recording
           /\ \A d \in Call \ {c} : call[d].pc \notin Recording
  <1>1. \A d \in Call \ {c} : call'[d] = call[d]
    BY CallStepDescribed
  <1>2. \A d \in Call \ {c} : call[d].pc \notin Recording
    BY DEF Sequential, Alone, Recorders
  <1>3. \A d \in Call \ {c} : call[d].pc # "broken"
    BY DEF Sequential, SequentialCall
  <1>4. \A d \in Call \ {c} : SequentialCall(d)'
    BY <1>1, <1>2, <1>3 DEF SequentialCall, Recording
  <1>5. Alone'
    BY <1>1, <1>2 DEF Alone, Recorders
  <1> QED
    BY <1>1, <1>2, <1>4, <1>5

(* A step of the recorder that leaves the ledger alone. *)
LEMMA RecorderReads ==
    ASSUME AgentInvariant, [Next]_vars, Sequential, ~overlapped,
           NEW c \in Call, CallStep(c), call[c].pc \in Recording \ {"number", "alias"},
           UNCHANGED <<items, aliases, trace, shown>>,
           call'[c].pc \in Recording, SequentialCall(c)'
    PROVE  Sequential'
  <1>1. Alone' /\ \A d \in Call : SequentialCall(d)'
    BY OthersStay
  <1>2. Numbered' /\ TraceNames' /\ ShownNames'
    BY DEF Sequential, Numbered, TraceNames, ShownNames, Names, Traced, ReturnedBy
  <1>3. Settled'
    <2>1. \A d \in Call : call[d].pc \notin {"number", "alias"}
      BY OthersStay DEF Recording
    <2>2. Len(items) = Len(aliases)
      BY <2>1 DEF Sequential, Settled
    <2>3. c \in Recorders(call)'
      BY DEF Recorders
    <2> QED
      BY <2>2, <2>3 DEF Settled
  <1> QED
    BY <1>1, <1>2, <1>3 DEF Sequential

(* A step of a call that neither records nor starts to. *)
LEMMA BystanderStep ==
    ASSUME AgentInvariant, [Next]_vars, Sequential, ~overlapped,
           NEW c \in Call, CallStep(c), call[c].pc \notin Recording,
           UNCHANGED <<items, aliases, trace, shown>>,
           call'[c].pc \notin Recording \cup {"broken"}
    PROVE  Sequential'
  <1>0. \A d \in Call \ {c} : call'[d] = call[d]
    BY CallStepDescribed
  <1>1. Recorders(call)' = Recorders(call)
    BY <1>0 DEF Recorders
  <1>2. Numbered' /\ TraceNames' /\ ShownNames' /\ Replayed' = Replayed
    BY DEF Sequential, Numbered, TraceNames, ShownNames, Names, Traced, ReturnedBy, Replayed
  <1>3. Alone' /\ Settled'
    <2>1. (\A d \in Call : call'[d].pc \notin {"number", "alias"}) => \A d \in Call : call[d].pc \notin {"number", "alias"}
      BY <1>0 DEF Recording
    <2> QED
      BY <1>1, <1>2, <2>1 DEF Sequential, Alone, Settled
  <1>4. SequentialCall(c)'
    BY DEF SequentialCall, Recording
  <1>5. ASSUME NEW d \in Call \ {c} PROVE SequentialCall(d)'
    <2>1. SequentialCall(d) /\ call'[d] = call[d]
      BY <1>0 DEF Sequential
    <2> QED
      BY <1>2, <2>1 DEF SequentialCall, Names, Current
  <1> QED
    BY <1>2, <1>3, <1>4, <1>5 DEF Sequential

(* The state of the ledger and of the acting call, typed. *)
LEMMA RecorderTyped ==
    ASSUME AgentInvariant, NEW c \in Call, CallStep(c)
    PROVE  /\ call \in [Call -> Thread] /\ call[c] \in Thread /\ items \in Seq(Item)
           /\ aliases \in Seq(Item \X Alias) /\ trace \in Seq(TracedCall)
           /\ call[c].tool \in Tool /\ Returns[call[c].tool] \in Seq(Item)
           /\ Len(Returns[call[c].tool]) \in Nat /\ CallConsistent(c)
           /\ Replayed \in Seq(Item)
  <1>1. /\ call \in [Call -> Thread] /\ items \in Seq(Item) /\ CallConsistent(c)
        /\ aliases \in Seq(Item \X Alias) /\ trace \in Seq(TracedCall)
    BY DEF AgentInvariant, TypeOK, Thread, TracedCall, CallsConsistent
  <1>2. call[c].tool \in Tool /\ Returns[call[c].tool] \in Seq(Item)
    BY CallStepDescribed
  <1>3. Replayed \in Seq(Item)
    <2>1. Len(trace) \in 0 .. Len(trace)
      BY <1>1
    <2> QED
      BY <1>1, <2>1, ReplayingUnfolds DEF Replayed
  <1> QED
    BY <1>1, <1>2, <1>3

(* A granted call whose evidence was read starts to record when no other     *)
(* does.                                                                     *)
LEMMA SequentialRead ==
    ASSUME AgentInvariant, [Next]_vars, Sequential, ~overlapped', NEW c \in Call, Read(c)
    PROVE  Sequential'
  <1>0. ~overlapped /\ ~Overlap(call') /\ CallStep(c) /\ call[c].pc = "read"
        /\ UNCHANGED <<items, aliases, trace, shown>>
    BY DEF Read, CallStep, ledger
  <1>1. call'[c].pc = "unread" \/ (call'[c].pc = "look" /\ call'[c].at = call[c].at)
    <2>1. call \in [Call -> Thread] /\ call[c] \in Thread
      BY <1>0, RecorderTyped
    <2>2. PICK pc \in {"look", "unread"} : call' = [call EXCEPT ![c].pc = pc]
      BY DEF Read, Goto
    <2>3. call'[c] = [call[c] EXCEPT !.pc = pc]
      BY ONLY <2>1, <2>2, c \in Call
    <2> QED
      BY ONLY <2>1, <2>2, <2>3 DEF Thread
  <1>2. CASE call'[c].pc = "unread"
    BY <1>0, <1>2, BystanderStep DEF Recording
  <1>3. CASE call'[c].pc = "look" /\ call'[c].at = call[c].at
    <2>0. /\ \A d \in Call \ {c} : call'[d] = call[d]
          /\ call'[c].tool = call[c].tool
      BY <1>0, CallStepDescribed
    <2>1. Alone'
      BY <1>0, NoOverlapAlone DEF Alone
    <2>2. c \in Recorders(call)'
      BY <1>3 DEF Recorders, Recording
    <2>3. Recorders(call) = {}
      <3> SUFFICES ASSUME NEW d \in Recorders(call) PROVE FALSE
        OBVIOUS
      <3>1. d # c
        BY <1>0 DEF Recorders, Recording
      <3>2. d \in Recorders(call)'
        BY <2>0, <3>1 DEF Recorders
      <3> QED
        BY <2>1, <2>2, <3>1, <3>2 DEF Alone
    <2>4. items = Replayed /\ Replayed' = Replayed /\ \A d \in Call : call[d].pc \notin Recording
      BY <1>0, <2>3 DEF Sequential, Settled, Recorders, Replayed
    <2>5. SequentialCall(c)'
      <3> DEFINE s == Returns[call[c].tool]
      <3>1. call[c].at = 1 /\ Admitting(Replayed, s)[0] = Replayed
        BY <1>0, RecorderTyped, AdmittingUnfolds DEF CallConsistent
      <3>2. items' = Admitting(Replayed', Returns[call'[c].tool])[call'[c].at - 1]
        BY <1>0, <1>3, <2>0, <2>4, <3>1
      <3> QED
        BY <1>3, <3>2 DEF SequentialCall
    <2>6. ASSUME NEW d \in Call \ {c} PROVE SequentialCall(d)'
      <3>1. call'[d] = call[d] /\ call[d].pc \notin Recording /\ call[d].pc # "broken"
        BY <1>0, <2>0, <2>4 DEF Sequential, SequentialCall
      <3> QED
        BY <3>1 DEF SequentialCall, Recording
    <2>7. Numbered' /\ TraceNames' /\ ShownNames'
      BY <1>0 DEF Sequential, Numbered, TraceNames, ShownNames, Names, Traced, ReturnedBy
    <2>8. Settled'
      <3>1. Len(items) = Len(aliases)
        BY <1>0, <2>4 DEF Sequential, Settled, Recording
      <3> QED
        BY <1>0, <2>2, <3>1 DEF Settled
    <2> QED
      BY <2>1, <2>5, <2>6, <2>7, <2>8 DEF Sequential
  <1> QED
    BY <1>1, <1>2, <1>3

(* Looking at an item that is there is what recording it again does. *)
LEMMA SequentialLook ==
    ASSUME AgentInvariant, [Next]_vars, Sequential, ~overlapped, NEW c \in Call, Look(c)
    PROVE  Sequential'
  <1> DEFINE s == Returns[call[c].tool]
             f == Admitting(Replayed, s)
  <1>0. /\ CallStep(c) /\ call[c].pc = "look" /\ UNCHANGED <<items, aliases, trace, shown>>
        /\ Replayed' = Replayed
    BY DEF Look, CallStep, ledger, Replayed
  <1>1. /\ call'[c].tool = call[c].tool
        /\ \/ call'[c].pc = "payload" /\ call[c].at > Len(s)
           \/ /\ call'[c].pc = "look" /\ call'[c].at = call[c].at + 1
              /\ Current(c) \in ToSet(items) /\ ~(call[c].at > Len(s))
           \/ /\ call'[c].pc = "insert" /\ call'[c].at = call[c].at
              /\ Current(c) \notin ToSet(items)
    BY <1>0, RecorderTyped, ZenonT(40) DEF Look, Goto, Thread
  <1>2. /\ items = f[call[c].at - 1] /\ call[c].at \in 1 .. Len(s) + 1 /\ Len(s) \in Nat
        /\ \A n \in 1 .. Len(s) : f[n] = Admit(f[n - 1], s[n])
    <2>1. SequentialCall(c) /\ CallConsistent(c)
      BY <1>0, RecorderTyped DEF Sequential
    <2>2. items = f[call[c].at - 1] /\ call[c].at \in 1 .. Len(s) + 1
      BY <1>0, <2>1 DEF SequentialCall, CallConsistent
    <2> QED
      BY <1>0, <2>2, RecorderTyped, AdmittingUnfolds
  <1> HIDE DEF f
  <1>3. SequentialCall(c)'
    <2>1. CASE call'[c].pc = "payload" /\ call[c].at > Len(s)
      <3>1. call[c].at - 1 = Len(s)
        BY <1>2, <2>1, SMTT(30)
      <3>2. items' = Admitting(Replayed', Returns[call'[c].tool])[Len(Returns[call'[c].tool])]
        BY <1>0, <1>1, <1>2, <3>1 DEF f
      <3> QED
        BY <2>1, <3>2 DEF SequentialCall
    <2>2. CASE /\ call'[c].pc = "look" /\ call'[c].at = call[c].at + 1
               /\ Current(c) \in ToSet(items) /\ ~(call[c].at > Len(s))
      <3>1. call[c].at \in 1 .. Len(s) /\ call'[c].at - 1 = call[c].at
        BY <1>2, <2>2
      <3>2. f[call[c].at] = items
        BY <1>2, <2>2, <3>1 DEF Admit, Current
      <3>3. items' = Admitting(Replayed', Returns[call'[c].tool])[call'[c].at - 1]
        BY <1>0, <1>1, <3>1, <3>2 DEF f
      <3> QED
        BY <2>2, <3>3 DEF SequentialCall
    <2>3. CASE call'[c].pc = "insert" /\ call'[c].at = call[c].at /\ Current(c) \notin ToSet(items)
      <3>1. items' = Admitting(Replayed', Returns[call'[c].tool])[call'[c].at - 1]
        BY <1>0, <1>1, <1>2, <2>3 DEF f
      <3>2. Current(c)' \notin ToSet(items')
        BY <1>0, <1>1, <2>3 DEF Current
      <3> QED
        BY <2>3, <3>1, <3>2 DEF SequentialCall
    <2> QED
      BY <1>1, <2>1, <2>2, <2>3
  <1>4. call[c].pc \in Recording \ {"number", "alias"} /\ call'[c].pc \in Recording
    BY <1>0, <1>1 DEF Recording
  <1> QED
    BY <1>0, <1>3, <1>4, RecorderReads

(* The alias of every item a call asks for is there, and is its position. *)
LEMMA SequentialPayload ==
    ASSUME AgentInvariant, [Next]_vars, Sequential, ~overlapped, NEW c \in Call, Payload(c)
    PROVE  Sequential'
  <1> DEFINE s == Returns[call[c].tool]
             refs == [k \in DOMAIN s |-> AliasFor(s[k])]
  <1>0. /\ CallStep(c) /\ call[c].pc = "payload" /\ UNCHANGED <<items, aliases, trace, shown>>
        /\ Replayed' = Replayed /\ call'[c].tool = call[c].tool
    BY CallStepDescribed DEF Payload, CallStep, ledger, Replayed
  <1>1. /\ s \in Seq(Item) /\ Len(s) \in Nat /\ items = Admitting(Replayed, s)[Len(s)]
        /\ items \in Seq(Item) /\ aliases \in Seq(Item \X Alias)
    BY <1>0, RecorderTyped DEF Sequential, SequentialCall
  <1>2. \A k \in DOMAIN s : s[k] \in ToSet(items)
    <2>1. Len(s) \in 0 .. Len(s) /\ Replayed \in Seq(Item)
      BY <1>0, <1>1, RecorderTyped
    <2>2. ToSet(items) = ToSet(Replayed) \cup {s[m] : m \in 1 .. Len(s)}
      BY <1>1, <2>1, AdmittingDescribed, ZenonT(40)
    <2> QED
      BY <1>1, <2>2
  <1>3. /\ DOMAIN aliases = DOMAIN items
        /\ \A k \in DOMAIN aliases : aliases[k] = <<items[k], k>>
    <2>1. \A d \in Call : call[d].pc \notin {"number", "alias"}
      BY <1>0, OthersStay DEF Recording
    <2>2. Len(items) = Len(aliases)
      BY <2>1 DEF Sequential, Settled
    <2> QED
      BY <1>1, <2>2 DEF Sequential, Numbered
  <1>4. ASSUME NEW k \in DOMAIN s
        PROVE  AliasFor(s[k]) # 0 /\ AliasFor(s[k]) \in DOMAIN items /\ items[AliasFor(s[k])] = s[k]
    <2>1. PICK m \in DOMAIN items : items[m] = s[k]
      BY <1>2 DEF ToSet
    <2>2. aliases[m][1] = s[k]
      BY <1>3, <2>1
    <2>3. PICK n \in DOMAIN aliases : aliases[n][1] = s[k] /\ aliases[n][2] = AliasFor(s[k])
      BY <1>3, <2>1, <2>2, AliasForDescribed
    <2>4. n = AliasFor(s[k]) /\ items[n] = s[k] /\ n \in DOMAIN items
      BY <1>3, <2>3
    <2> QED
      BY <1>1, <2>4
  <1>5. 0 \notin ToSet(refs)
    BY <1>4 DEF ToSet
  <1>6. call' = [call EXCEPT ![c].pc = "index", ![c].refs = refs]
    BY <1>5 DEF Payload
  <1> HIDE DEF refs
  <1>7. call'[c].pc = "index" /\ call'[c].refs = refs
    BY <1>0, <1>6, RecorderTyped DEF Thread
  <1>8. Names(refs, s)
    <2>1. Len(refs) = Len(s)
      <3>1. DOMAIN refs = 1 .. Len(s)
        BY <1>1 DEF refs
      <3>2. refs \in Seq(Nat)
        <4>1. \A k \in 1 .. Len(s) : refs[k] \in Nat
          BY <1>1, <1>4 DEF refs
        <4>2. refs \in [1 .. Len(s) -> Nat]
          BY <3>1, <4>1 DEF refs
        <4>3. Len(s) \in Nat
          BY <1>1
        <4> QED
          BY <4>2, <4>3, SeqDef
      <3> QED
        BY <1>1, <3>1, <3>2
    <2> QED
      BY <1>4, <2>1 DEF Names, refs
  <1>9. SequentialCall(c)'
    <2>1. items' = Admitting(Replayed', Returns[call'[c].tool])[Len(Returns[call'[c].tool])]
      BY <1>0, <1>1
    <2>2. Names(call[c].refs, Returns[call[c].tool])'
      BY <1>0, <1>7, <1>8 DEF Names
    <2> QED
      BY <1>7, <2>1, <2>2 DEF SequentialCall
  <1>10. call[c].pc \in Recording \ {"number", "alias"} /\ call'[c].pc \in Recording
    BY <1>0, <1>7 DEF Recording
  <1> QED
    BY <1>0, <1>9, <1>10, RecorderReads

(* The index of a call is its place in the trace. *)
LEMMA SequentialIndex ==
    ASSUME AgentInvariant, [Next]_vars, Sequential, ~overlapped, NEW c \in Call, Index(c)
    PROVE  Sequential'
  <1>0. /\ CallStep(c) /\ call[c].pc = "index" /\ UNCHANGED <<items, aliases, trace, shown>>
        /\ Replayed' = Replayed /\ call'[c].tool = call[c].tool
    BY CallStepDescribed DEF Index, CallStep, ledger, Replayed
  <1>1. call'[c].pc = "append" /\ call'[c].refs = call[c].refs /\ call'[c].index = Len(trace) + 1
    BY <1>0, RecorderTyped DEF Index, Thread
  <1>2. SequentialCall(c)'
    <2>1. SequentialCall(c)
      BY DEF Sequential
    <2>2. items' = Admitting(Replayed', Returns[call'[c].tool])[Len(Returns[call'[c].tool])]
      BY <1>0, <2>1 DEF SequentialCall
    <2>3. Names(call[c].refs, Returns[call[c].tool])'
      BY <1>0, <1>1, <2>1 DEF SequentialCall, Names
    <2> QED
      BY <1>0, <1>1, <2>2, <2>3 DEF SequentialCall
  <1>3. call[c].pc \in Recording \ {"number", "alias"} /\ call'[c].pc \in Recording
    BY <1>0, <1>1 DEF Recording
  <1> QED
    BY <1>0, <1>2, <1>3, RecorderReads

(* Inserting an item is what recording it again does. *)
LEMMA SequentialInsert ==
    ASSUME AgentInvariant, [Next]_vars, Sequential, ~overlapped, NEW c \in Call, Insert(c)
    PROVE  Sequential'
  <1> DEFINE s == Returns[call[c].tool]
             f == Admitting(Replayed, s)
  <1>0. /\ CallStep(c) /\ call[c].pc = "insert" /\ UNCHANGED <<aliases, trace, shown>>
        /\ Replayed' = Replayed /\ call'[c].tool = call[c].tool
        /\ items' = Admit(items, Current(c))
    BY CallStepDescribed DEF Insert, CallStep, ledger, Replayed
  <1>1. call'[c].pc = "number" /\ call'[c].at = call[c].at
    BY <1>0, RecorderTyped DEF Insert, Goto, Thread
  <1>2. /\ items = f[call[c].at - 1] /\ call[c].at \in 1 .. Len(s) /\ Current(c) \notin ToSet(items)
        /\ items \in Seq(Item) /\ Current(c) = s[call[c].at]
    <2>1. SequentialCall(c) /\ CallConsistent(c) /\ DOMAIN s = 1 .. Len(s) /\ items \in Seq(Item)
      BY <1>0, RecorderTyped, SMTT(30) DEF Sequential
    <2> QED
      BY <1>0, <2>1 DEF SequentialCall, CallConsistent, Current
  <1>3. items' = Append(items, Current(c))
    BY <1>0, <1>2, ZenonT(40) DEF Admit
  <1>4. Len(items') = Len(items) + 1 /\ items'[Len(items')] = Current(c)
    <2>1. Current(c) \in Item
      BY <1>0, <1>2, RecorderTyped
    <2> QED
      BY <1>2, <1>3, <2>1, SMTT(30)
  <1>5. Len(items) = Len(aliases)
    <2>1. \A d \in Call : call[d].pc \notin {"number", "alias"}
      BY <1>0, OthersStay DEF Recording
    <2> QED
      BY <2>1 DEF Sequential, Settled
  <1>6. SequentialCall(c)'
    <2>1. f[call[c].at] = Admit(f[call[c].at - 1], s[call[c].at])
      BY <1>0, <1>2, RecorderTyped, AdmittingUnfolds
    <2>2. items' = Admitting(Replayed', Returns[call'[c].tool])[call'[c].at]
      BY <1>0, <1>1, <1>2, <2>1
    <2>3. Current(c)' = Current(c)
      BY <1>0, <1>1 DEF Current
    <2> QED
      BY <1>0, <1>1, <1>4, <1>5, <2>2, <2>3 DEF SequentialCall
  <1>7. Continues(items', items)
    BY ItemsContinue
  <1>8. Numbered'
    BY <1>0, <1>7 DEF Sequential, Numbered, Continues
  <1>9. TraceNames'
    BY <1>0, <1>7, NamesKept DEF Sequential, TraceNames, ReturnedBy
  <1>10. ShownNames'
    BY <1>0, <1>7 DEF Sequential, ShownNames, Continues, Traced, ReturnedBy
  <1>11. Alone' /\ \A d \in Call : SequentialCall(d)'
    BY <1>0, <1>6, OthersStay DEF Recording
  <1>12. Settled'
    BY <1>1 DEF Settled, Recorders, Recording
  <1> QED
    BY <1>8, <1>9, <1>10, <1>11, <1>12 DEF Sequential

(* The number a call computes for an item it inserted is its position. *)
LEMMA SequentialNumber ==
    ASSUME AgentInvariant, [Next]_vars, Sequential, ~overlapped, NEW c \in Call, Number(c)
    PROVE  Sequential'
  <1>0. /\ CallStep(c) /\ call[c].pc = "number" /\ UNCHANGED <<items, aliases, trace, shown>>
        /\ Replayed' = Replayed /\ call'[c].tool = call[c].tool
    BY CallStepDescribed DEF Number, CallStep, ledger, Replayed
  <1>1. call'[c].pc = "alias" /\ call'[c].at = call[c].at /\ call'[c].index = Len(items)
    BY <1>0, RecorderTyped DEF Number, Thread
  <1>2. SequentialCall(c)'
    <2>1. SequentialCall(c)
      BY DEF Sequential
    <2>2. items' = Admitting(Replayed', Returns[call'[c].tool])[call'[c].at]
      BY <1>0, <1>1, <2>1 DEF SequentialCall
    <2>3. Len(items') = Len(aliases') + 1 /\ items'[Len(items')] = Current(c)'
      BY <1>0, <1>1, <2>1 DEF SequentialCall, Current
    <2> QED
      BY <1>0, <1>1, <2>2, <2>3 DEF SequentialCall
  <1>3. Alone' /\ \A d \in Call : SequentialCall(d)'
    BY <1>0, <1>2, OthersStay DEF Recording
  <1>4. Numbered' /\ TraceNames' /\ ShownNames'
    BY <1>0 DEF Sequential, Numbered, TraceNames, ShownNames, Names, Traced, ReturnedBy
  <1>5. Settled'
    BY <1>1 DEF Settled, Recorders, Recording
  <1> QED
    BY <1>3, <1>4, <1>5 DEF Sequential

(* The alias of an inserted item is its position. *)
LEMMA SequentialSetAlias ==
    ASSUME AgentInvariant, [Next]_vars, Sequential, ~overlapped, NEW c \in Call, SetAlias(c)
    PROVE  Sequential'
  <1> DEFINE s == Returns[call[c].tool]
             f == Admitting(Replayed, s)
  <1>0. /\ CallStep(c) /\ call[c].pc = "alias" /\ UNCHANGED <<items, trace, shown>>
        /\ Replayed' = Replayed /\ call'[c].tool = call[c].tool
        /\ aliases' = WithAlias(Current(c), call[c].index) /\ call[c].index = Len(items)
    BY CallStepDescribed DEF SetAlias, CallStep, ledger, Replayed, Sequential, SequentialCall
  <1>1. call'[c].pc = "look" /\ call'[c].at = call[c].at + 1 /\ call[c].at \in Nat
    BY <1>0, RecorderTyped DEF SetAlias, Thread
  <1>2. /\ items = f[call[c].at] /\ Len(items) = Len(aliases) + 1 /\ items[Len(items)] = Current(c)
        /\ items \in Seq(Item) /\ aliases \in Seq(Item \X Alias)
    BY <1>0, RecorderTyped DEF Sequential, SequentialCall
  <1>3. /\ DOMAIN items = 1 .. Len(items) /\ DOMAIN aliases = 1 .. Len(aliases) /\ Len(aliases) \in Nat
        /\ \A k \in DOMAIN aliases : k \in DOMAIN items /\ aliases[k] = <<items[k], k>>
        /\ IsInjective(items)
    BY <1>2 DEF Sequential, Numbered, AgentInvariant, LedgerConsistent
  <1>4. \A k \in DOMAIN aliases : aliases[k][1] # Current(c)
    <2> SUFFICES ASSUME NEW k \in DOMAIN aliases, aliases[k][1] = Current(c) PROVE FALSE
      OBVIOUS
    <2>1. items[k] = items[Len(items)] /\ k \in DOMAIN items /\ Len(items) \in DOMAIN items
      BY <1>2, <1>3
    <2>2. k = Len(items)
      BY <1>3, <2>1 DEF IsInjective
    <2> QED
      BY <1>2, <1>3, <2>2
  <1>5. aliases' = Append(aliases, <<Current(c), Len(items)>>)
    <2>1. AliasFor(Current(c)) = 0
      BY <1>4 DEF AliasFor
    <2> QED
      BY <1>0, <2>1 DEF WithAlias
  <1>6. /\ Len(aliases') = Len(items) /\ DOMAIN aliases' = 1 .. Len(items)
        /\ \A k \in 1 .. Len(aliases) : aliases'[k] = aliases[k]
        /\ aliases'[Len(items)] = <<items[Len(items)], Len(items)>>
    BY <1>2, <1>5, SMTT(30)
  <1>7. Numbered'
    <2> SUFFICES ASSUME NEW k \in 1 .. Len(items)
                 PROVE  k \in DOMAIN items /\ aliases'[k] = <<items[k], k>>
      BY <1>0, <1>6 DEF Numbered
    <2>1. k \in 1 .. Len(aliases) \/ k = Len(items)
      BY <1>2, <1>3
    <2> QED
      BY <1>3, <1>6, <2>1
  <1>8. SequentialCall(c)'
    <2>1. call'[c].at - 1 = call[c].at
      BY <1>1
    <2>2. items' = Admitting(Replayed', Returns[call'[c].tool])[call'[c].at - 1]
      BY <1>0, <1>2, <2>1
    <2> QED
      BY <1>1, <2>2 DEF SequentialCall
  <1>9. TraceNames' /\ ShownNames'
    BY <1>0 DEF Sequential, TraceNames, ShownNames, Names, Traced, ReturnedBy
  <1>10. Alone' /\ \A d \in Call : SequentialCall(d)'
    BY <1>0, <1>8, OthersStay DEF Recording
  <1>11. Settled'
    <2>1. c \in Recorders(call)'
      BY <1>1 DEF Recorders, Recording
    <2> QED
      BY <1>0, <1>6, <2>1 DEF Settled
  <1> QED
    BY <1>7, <1>8, <1>9, <1>10, <1>11 DEF Sequential

(* A recorded call is replayed last, and what it shows are positions. *)
LEMMA SequentialAppend ==
    ASSUME AgentInvariant, [Next]_vars, Sequential, ~overlapped, NEW c \in Call, AppendTrace(c)
    PROVE  Sequential'
  <1> DEFINE s == Returns[call[c].tool]
             r == call[c].refs
             new == [index |-> call[c].index, tool |-> call[c].tool, refs |-> call[c].refs]
  <1>0. /\ CallStep(c) /\ call[c].pc = "append" /\ UNCHANGED <<items, aliases>>
        /\ trace' = Append(trace, new)
        /\ shown' = shown \cup {<<r[k], s[k]>> : k \in DOMAIN s}
    BY DEF AppendTrace, CallStep, ledger
  <1>1. call'[c].pc = "returned"
    BY <1>0, RecorderTyped DEF AppendTrace, Goto, Thread
  <1>2. /\ items = Admitting(Replayed, s)[Len(s)] /\ call[c].index = Len(trace) + 1
        /\ Names(r, s)
    BY <1>0 DEF Sequential, SequentialCall
  <1>3. /\ new \in TracedCall /\ ReturnedBy(new) = s /\ new.index = Len(trace) + 1 /\ new.refs = r
        /\ trace \in Seq(TracedCall)
    <2>1. call[c].tool \in Tool /\ call[c].refs \in Seq(Alias) /\ call[c].index \in Nat
      BY <1>0, RecorderTyped DEF Thread
    <2> QED
      BY <1>0, <1>2, <2>1, RecorderTyped DEF TracedCall, ReturnedBy
  <1> HIDE DEF new
  <1>4. /\ Len(trace) \in Nat /\ DOMAIN trace = 1 .. Len(trace) /\ DOMAIN trace' = 1 .. Len(trace) + 1
        /\ \A k \in 1 .. Len(trace) : trace'[k] = trace[k]
        /\ trace'[Len(trace) + 1] = new /\ Len(trace') = Len(trace) + 1
    BY <1>0, <1>3
  <1>5. items' = Replayed'
    <2>1. Replayed' = Replaying(Append(trace, new))[Len(trace) + 1]
      BY <1>0, <1>4 DEF Replayed
    <2>2. Replaying(Append(trace, new))[Len(trace) + 1] = Admitting(Replaying(trace)[Len(trace)], s)[Len(s)]
      BY <1>3, ReplayingAppends
    <2> QED
      BY <1>0, <1>2, <2>1, <2>2 DEF Replayed
  <1>6. TraceNames'
    <2> SUFFICES ASSUME NEW k \in DOMAIN trace'
                 PROVE  trace'[k].index = k /\ Names(trace[k].refs, ReturnedBy(trace[k]))'
      BY DEF TraceNames
    <2>1. CASE k \in 1 .. Len(trace)
      <3>1. trace[k].index = k /\ Names(trace[k].refs, ReturnedBy(trace[k])) /\ trace'[k] = trace[k]
        BY <1>4, <2>1 DEF Sequential, TraceNames
      <3> QED
        BY <1>0, <3>1 DEF Names, ReturnedBy
    <2>2. CASE k = Len(trace) + 1
      BY <1>0, <1>2, <1>3, <1>4, <2>2 DEF Names, ReturnedBy
    <2> QED
      BY <1>4, <2>1, <2>2
  <1>7. ShownNames'
    <2>1. ASSUME NEW x \in shown' PROVE x[1] \in DOMAIN items /\ items[x[1]] = x[2]
      <3>1. CASE x \in shown
        BY <3>1 DEF Sequential, ShownNames
      <3>2. ASSUME NEW k \in DOMAIN s, x = <<r[k], s[k]>>
            PROVE  x[1] \in DOMAIN items /\ items[x[1]] = x[2]
        BY <1>2, <3>2 DEF Names
      <3> QED
        BY <1>0, <3>1, <3>2
    <2>2. ASSUME NEW i \in Item, Traced(i)' PROVE \E x \in shown' : x[2] = i
      <3>1. PICK k \in DOMAIN trace' : i \in ToSet(Returns[trace'[k].tool])
        BY <2>2 DEF Traced, ReturnedBy
      <3>2. CASE k \in 1 .. Len(trace)
        <4>1. Traced(i)
          BY <1>4, <3>1, <3>2 DEF Traced, ReturnedBy
        <4> QED
          BY <1>0, <4>1 DEF Sequential, ShownNames
      <3>3. CASE k = Len(trace) + 1
        <4>1. i \in ToSet(s)
          BY <1>3, <1>4, <3>1, <3>3 DEF ReturnedBy
        <4>2. PICK j \in DOMAIN s : i = s[j]
          BY <4>1 DEF ToSet
        <4>3. <<r[j], s[j]>> \in shown' /\ <<r[j], s[j]>>[2] = i
          BY <1>0, <4>2
        <4> QED
          BY <4>3
      <3> QED
        BY <1>4, <3>1, <3>2, <3>3
    <2> QED
      BY <1>0, <2>1, <2>2 DEF ShownNames
  <1>8. Alone' /\ \A d \in Call \ {c} : SequentialCall(d)' /\ call[d].pc \notin Recording
    BY <1>0, OthersStay DEF Recording
  <1>9. SequentialCall(c)'
    BY <1>1 DEF SequentialCall
  <1>10. Numbered'
    BY <1>0 DEF Sequential, Numbered
  <1>11. Settled'
    <2>1. Len(items) = Len(aliases)
      <3>1. \A d \in Call : call[d].pc \notin {"number", "alias"}
        BY <1>0, <1>8 DEF Recording
      <3> QED
        BY <3>1 DEF Sequential, Settled
    <2> QED
      BY <1>0, <1>5, <2>1 DEF Settled
  <1> QED
    BY <1>6, <1>7, <1>8, <1>9, <1>10, <1>11 DEF Sequential

(* Between two model calls the ledger is settled. *)
LEMMA SequentialRun ==
    ASSUME AgentInvariant, [Next]_vars, Sequential, ~overlapped, \A c \in Call : ~CallStep(c)
    PROVE  Sequential'
  <1>0. UNCHANGED <<items, aliases, trace, shown>> /\ Replayed' = Replayed
    BY RunStepDescribed DEF ledger, Replayed
  <1>1. Numbered' /\ TraceNames' /\ ShownNames'
    BY <1>0 DEF Sequential, Numbered, TraceNames, ShownNames, Names, Traced, ReturnedBy
  <1>2. CASE call' = call
    <2>1. \A c \in Call : SequentialCall(c)'
      BY <1>0, <1>2 DEF Sequential, SequentialCall, Names, Current
    <2>2. Alone' /\ Settled'
      BY <1>0, <1>2 DEF Sequential, Alone, Settled, Recorders
    <2> QED
      BY <1>1, <2>1, <2>2 DEF Sequential
  <1>3. CASE call' # call
    <2>1. \A c \in Call : call[c].pc \notin Recording
      <3>1. phase = "model" => \A c \in Call : call[c].pc = "idle"
        BY DEF AgentInvariant, PhaseConsistent
      <3>2. CASE Quiet
        BY <3>2 DEF Quiet, Raised, Recording
      <3>3. phase = "model" \/ Quiet
        BY <1>3
          DEF Next, ModelStep, ToolStep, Persist, Finished, ModelLimit, ProviderFails,
              AnswerIsInvalid, CallTools, MayCallModel, Answer, ToolsReturn, ToolsRaise,
              Save, Load, vars
      <3> QED
        BY <3>1, <3>2, <3>3 DEF Recording
    <2>2. \A c \in Call : call'[c].pc \in {"idle", "start"}
      <3>1. ASSUME NEW b \in Batches, CallTools(b) PROVE \A c \in Call : call'[c].pc \in {"idle", "start"}
        BY <3>1 DEF CallTools, Idle
      <3> QED
        BY <1>3, <3>1, RunStepDescribed DEF Idle
    <2>3. \A c \in Call : SequentialCall(c)'
      BY <2>2 DEF SequentialCall
    <2>4. Recorders(call)' = {} /\ Recorders(call) = {}
      BY <2>1, <2>2 DEF Recorders, Recording
    <2>5. items = Replayed /\ Len(items) = Len(aliases)
      BY <2>1, <2>4 DEF Sequential, Settled, Recording
    <2>6. Alone' /\ Settled'
      BY <1>0, <2>4, <2>5 DEF Alone, Settled
    <2> QED
      BY <1>1, <2>3, <2>6 DEF Sequential
  <1> QED
    BY <1>2, <1>3

(* Calls that were never in `record` at once leave the ledger in order. *)
LEMMA SequentialStep == AgentInvariant /\ [Next]_vars /\ Sequential => Sequential'
  <1> SUFFICES ASSUME AgentInvariant, [Next]_vars, Sequential, ~overlapped' PROVE Sequential'
    BY DEF Sequential
  <1>1. ~overlapped
    <2>1. CASE \E c \in Call : CallStep(c)
      BY <2>1
        DEF CallStep, Consume, Read, Look, Insert, Number, SetAlias, Payload, Index, AppendTrace,
            Cancel
    <2>2. CASE \A c \in Call : ~CallStep(c)
      BY <2>2, RunStepDescribed
    <2> QED
      BY <2>1, <2>2
  <1>2. ASSUME NEW c \in Call, Cancel(c) PROVE Sequential'
    <2>1. /\ CallStep(c) /\ call[c].pc = "start" /\ UNCHANGED <<items, aliases, trace, shown>>
      BY <1>2 DEF Cancel, CallStep, ledger
    <2>2. call'[c].pc = "cancelled"
      BY <1>2, <2>1, RecorderTyped DEF Cancel, Goto, Thread
    <2> QED
      BY <1>1, <2>1, <2>2, BystanderStep DEF Recording
  <1>5. ASSUME NEW c \in Call, Consume(c) PROVE Sequential'
    <2>1. /\ CallStep(c) /\ call[c].pc = "start" /\ UNCHANGED <<items, aliases, trace, shown>>
      BY <1>5 DEF Consume, CallStep, ledger
    <2>2. call'[c].pc \in {"read", "refused"}
      BY <1>5, <2>1, RecorderTyped DEF Consume, Goto, Thread
    <2> QED
      BY <1>1, <2>1, <2>2, BystanderStep DEF Recording
  <1>3. CASE \E c \in Call : CallStep(c)
    BY <1>1, <1>2, <1>3, <1>5, SequentialRead, SequentialLook, SequentialInsert,
       SequentialNumber, SequentialSetAlias, SequentialPayload, SequentialIndex, SequentialAppend
      DEF CallStep
  <1>4. CASE \A c \in Call : ~CallStep(c)
    BY <1>1, <1>4, SequentialRun
  <1> QED
    BY <1>3, <1>4

(* References that are positions of a call's items are as many as these. *)
LEMMA NamesCount ==
    ASSUME AgentInvariant, NEW s \in Seq(Item), NEW refs \in Seq(Alias), Names(refs, s)
    PROVE  Cardinality(ToSet(refs)) = Cardinality(ToSet(s)) /\ ToSet(s) \subseteq ToSet(items)
  <1> DEFINE f == [n \in ToSet(refs) |-> items[n]]
  <1>1. DOMAIN refs = DOMAIN s /\ \A j \in DOMAIN s : refs[j] \in DOMAIN items /\ items[refs[j]] = s[j]
    BY DEF Names
  <1>2. ToSet(s) \subseteq ToSet(items)
    BY <1>1 DEF ToSet
  <1>3. f \in [ToSet(refs) -> ToSet(s)]
    BY <1>1 DEF ToSet
  <1>4. f \in Injection(ToSet(refs), ToSet(s))
    <2>1. \A m, n \in ToSet(refs) : items[m] = items[n] => m = n
      BY <1>1 DEF AgentInvariant, LedgerConsistent, IsInjective, ToSet
    <2> QED
      BY <1>3, <2>1 DEF Injection, IsInjective
  <1>5. f \in Surjection(ToSet(refs), ToSet(s))
    <2>1. ASSUME NEW i \in ToSet(s) PROVE \E n \in ToSet(refs) : f[n] = i
      <3>1. PICK j \in DOMAIN s : s[j] = i
        BY DEF ToSet
      <3>2. refs[j] \in ToSet(refs) /\ f[refs[j]] = i
        BY <1>1, <3>1 DEF ToSet
      <3> QED
        BY <3>2
    <2> QED
      BY <1>3, <2>1 DEF Surjection
  <1>6. IsFiniteSet(ToSet(s))
    <2>1. ToSet(s) \subseteq Item
      BY DEF ToSet
    <2> QED
      BY <2>1, AgentAssumption, FS_Subset
  <1> HIDE DEF f
  <1>7. Cardinality(ToSet(refs)) = Cardinality(ToSet(s))
    BY <1>4, <1>5, <1>6, FS_Injection
  <1> QED
    BY <1>2, <1>7

(* A run whose calls did not overlap is accepted. *)
LEMMA SequentialVerified ==
    ASSUME AgentInvariant, Sequential, ~overlapped, phase = "ended"
    PROVE  Verified
  <1>1. \A c \in Call : call[c].pc = "idle"
    BY DEF AgentInvariant, PhaseConsistent
  <1>2. items = Replayed
    BY <1>1 DEF Sequential, Settled, Recorders, Recording
  <1>3. ASSUME NEW k \in DOMAIN trace
        PROVE  /\ trace[k].index = k
               /\ ToSet(ReturnedBy(trace[k])) \subseteq ToSet(items)
               /\ Cardinality(ToSet(trace[k].refs)) = Cardinality(ToSet(ReturnedBy(trace[k])))
    <2>1. trace[k] \in TracedCall
      <3>1. trace \in Seq(TracedCall)
        BY DEF AgentInvariant, TypeOK, TracedCall
      <3> QED
        BY <3>1
    <2>2. trace[k].refs \in Seq(Alias) /\ ReturnedBy(trace[k]) \in Seq(Item)
      BY <2>1, AgentAssumption DEF TracedCall, ReturnedBy
    <2>3. trace[k].index = k /\ Names(trace[k].refs, ReturnedBy(trace[k]))
      BY DEF Sequential, TraceNames
    <2> QED
      BY <2>2, <2>3, NamesCount
  <1> QED
    BY <1>2, <1>3 DEF Verified

(* A claim of an answer is a reference the model was shown, with its item. *)
LEMMA SequentialAnswer ==
    ASSUME AgentInvariant, Sequential, ~overlapped, NEW o \in Outputs, MayCallModel, Grounded(o)
    PROVE  ReportOf(o).claims \subseteq shown
  <1> SUFFICES ASSUME NEW r \in o.refs \cup o.timeline PROVE <<r, Resolve(r)>> \in shown
    BY DEF ReportOf
  <1>1. PICK k \in DOMAIN aliases : aliases[k] = <<Resolve(r), r>>
    BY ResolveDescribed DEF Grounded
  <1>2. k = r /\ items[r] = Resolve(r) /\ r \in DOMAIN items
    BY <1>1 DEF Sequential, Numbered
  <1>3. Traced(Resolve(r)) /\ Resolve(r) \in Item
    <2>1. <<r, Resolve(r)>> \in ReportOf(o).claims /\ <<r, Resolve(r)>>[2] = Resolve(r)
      BY DEF ReportOf
    <2>2. aliases[k] \in Item \X Alias
      BY DEF AgentInvariant, TypeOK
    <2> QED
      BY <1>1, <2>1, <2>2, AnswerDescribed
  <1>4. PICK x \in shown : x[2] = Resolve(r)
    BY <1>3 DEF Sequential, ShownNames
  <1>5. x[1] \in DOMAIN items /\ items[x[1]] = x[2] /\ x \in Alias \X Item
    BY DEF Sequential, ShownNames, AgentInvariant, TypeOK
  <1>6. x[1] = r
    BY <1>2, <1>4, <1>5 DEF AgentInvariant, LedgerConsistent, IsInjective
  <1>7. x = <<r, Resolve(r)>>
    BY <1>4, <1>5, <1>6
  <1> QED
    BY <1>7

(* What a run without overlap shows and claims is faithful. *)
LEMMA FaithfulStep ==
    AgentInvariant /\ AgentInvariant' /\ [Next]_vars /\ Sequential /\ SequentialIsFaithful
        => SequentialIsFaithful'
  <1> SUFFICES ASSUME AgentInvariant, AgentInvariant', [Next]_vars, Sequential, SequentialIsFaithful,
                      ~overlapped'
               PROVE  SequentialIsFaithful'
    BY DEF SequentialIsFaithful
  <1>0. Sequential' /\ ~overlapped
    <2>1. Sequential'
      BY SequentialStep
    <2>2. ~overlapped
      <3>1. CASE \E c \in Call : CallStep(c)
        BY <3>1
          DEF CallStep, Consume, Read, Look, Insert, Number, SetAlias, Payload, Index, AppendTrace,
              Cancel
      <3>2. CASE \A c \in Call : ~CallStep(c)
        BY <3>2, RunStepDescribed
      <3> QED
        BY <3>1, <3>2
    <2> QED
      BY <2>1, <2>2
  <1>1. (aliases = [k \in DOMAIN aliases |-> <<items[k], k>>])'
    <2>1. aliases' \in Seq(Item \X Alias) /\ Numbered'
      BY <1>0 DEF Sequential, AgentInvariant, TypeOK
    <2> QED
      BY <2>1 DEF Numbered
  <1>2. (\A x, y \in shown : x[1] = y[1] <=> x[2] = y[2])'
    BY <1>0 DEF Sequential, ShownNames, AgentInvariant, LedgerConsistent, IsInjective
  <1>3. shown \subseteq shown'
    <2>1. CASE \E c \in Call : CallStep(c)
      BY <2>1
        DEF CallStep, Consume, Read, Look, Insert, Number, SetAlias, Payload, Index, AppendTrace,
              Cancel
    <2>2. CASE \A c \in Call : ~CallStep(c)
      BY <2>2, RunStepDescribed
    <2> QED
      BY <2>1, <2>2
  <1>4. (report # None => report.claims \subseteq shown)'
    <2> SUFFICES ASSUME report' # None PROVE report'.claims \subseteq shown'
      OBVIOUS
    <2>1. CASE phase = "ended"
      BY <1>0, <1>3, <2>1, EndedStep DEF SequentialIsFaithful
    <2>2. CASE \E s : report' = NoClaims(s)
      BY <2>2 DEF NoClaims
    <2>3. CASE \E o \in Outputs : MayCallModel /\ Grounded(o) /\ report' = ReportOf(o)
      BY <1>0, <1>3, <2>3, SequentialAnswer
    <2> QED
      BY <2>1, <2>2, <2>3, ReportDescribed
  <1>5. artifacts' # "rejected"
    <2>1. artifacts # "rejected"
      BY <1>0 DEF SequentialIsFaithful
    <2>2. CASE phase = "ended"
      BY <1>0, <2>1, <2>2, EndedStep, SequentialVerified DEF Save, Load
    <2>3. CASE phase # "ended"
      <3>1. CASE \E c \in Call : CallStep(c)
        BY <2>1, <3>1, CallStepDescribed
      <3>2. CASE \A c \in Call : ~CallStep(c)
        BY <2>1, <2>3, <3>2
          DEF Next, ModelStep, ToolStep, Persist, Finished, ModelLimit, ProviderFails,
              AnswerIsInvalid, CallTools, Answer, ToolsReturn, ToolsRaise, End, Save, Load,
              vars, outcome, AgentInvariant, PhaseConsistent
      <3> QED
        BY <3>1, <3>2
    <2> QED
      BY <2>2, <2>3
  <1>6. error' # "ledger"
    <2>1. error # "ledger" /\ None # "ledger"
      BY <1>0, AgentAssumption DEF SequentialIsFaithful
    <2>2. ASSUME NEW c \in Call, ToolsRaise(c) PROVE error' \in {None, "service"}
      <3>1. call[c].pc \in {"refused", "unread"}
        BY <1>0, <2>2 DEF ToolsRaise, Raised, Sequential, SequentialCall
      <3> QED
        BY <2>2, <3>1 DEF ToolsRaise, ErrorOf, End
    <2>3. CASE \E c \in Call : CallStep(c)
      BY <2>1, <2>3, CallStepDescribed
    <2>4. CASE (\A c \in Call : ~CallStep(c)) /\ ~\E c \in Call : ToolsRaise(c)
      BY <2>1, <2>4
        DEF Next, ModelStep, ToolStep, Persist, Finished, ModelLimit, ProviderFails,
            AnswerIsInvalid, CallTools, Answer, ToolsReturn, End, Save, Load, vars, outcome
    <2> QED
      BY <2>1, <2>2, <2>3, <2>4
  <1> QED
    BY <1>1, <1>2, <1>4, <1>5, <1>6 DEF SequentialIsFaithful

-----------------------------------------------------------------------------
(* The theorems. *)

(* A run starts with nothing admitted, nothing used and no report. *)
LEMMA InitInvariant == Init => AgentInvariant
  <1> SUFFICES ASSUME Init PROVE AgentInvariant
    OBVIOUS
  <1> USE DEF Init
  <1>1. /\ MaxToolCalls \in Nat /\ MaxIterations \in Nat /\ call \in [Call -> Thread]
        /\ \A c \in Call : call[c] = Idle
    BY AgentAssumption, ThreadsIdle
  <1>2. TypeOK
    <2>1. /\ items \in Seq(Item) /\ aliases \in Seq(Item \X Alias)
          /\ trace \in Seq([index : Nat, tool : Tool, refs : Seq(Alias)])
      OBVIOUS
    <2>2. iterations \in 0 .. MaxIterations /\ used \in 0 .. MaxToolCalls
      BY <1>1
    <2> QED
      BY <1>1, <2>1, <2>2 DEF TypeOK, Thread
  <1>3. CallsConsistent /\ PhaseConsistent /\ LedgerConsistent /\ Accounted
    BY <1>1
      DEF CallsConsistent, CallConsistent, PhaseConsistent, LedgerConsistent, IsInjective,
          Accounted, Named, Idle
  <1>4. Holders(call) = {} /\ {c \in Call : call[c].pc \in Granted} = {}
    BY <1>1 DEF Holders, Granted, Recording, Idle
  <1>5. Counted /\ BudgetIsKept
    <2>1. Cardinality({}) = 0 /\ Len(trace) = 0 /\ used = 0 /\ report = None
      BY FS_EmptySet
    <2> HIDE DEF Init
    <2>2. Counted
      BY <1>4, <2>1 DEF Counted
    <2>3. Len(trace) + Cardinality(Holders(call)) <= MaxToolCalls
      BY <1>1, <1>4, <2>1
    <2> QED
      BY <2>1, <2>2, <2>3 DEF BudgetIsKept, Holders
  <1>6. SavedIsVerified /\ ClaimsAreAdmitted
    BY DEF SavedIsVerified, ClaimsAreAdmitted
  <1> QED
    BY <1>2, <1>3, <1>5, <1>6 DEF AgentInvariant

(* The invariant holds in every reachable state, whatever the model answers  *)
(* and however its parallel calls interleave.                                *)
THEOREM InvariantHolds == Spec => []AgentInvariant
  <1>1. Init => AgentInvariant
    BY InitInvariant
  <1>2. AgentInvariant /\ [Next]_vars => AgentInvariant'
    BY TypeStep, CallsStep, PhaseStep, LedgerStep, AccountedStep, CountedStep, SavedStep,
       BudgetStep, ClaimsStep
      DEF AgentInvariant
  <1> QED
    BY <1>1, <1>2, PTL DEF Spec

(* Every variable of a run keeps its type, and every alias the ledger gives  *)
(* is one of E001 to the number of items.                                    *)
THEOREM TypeCorrect == Spec => []TypeOK
  <1>1. AgentInvariant => TypeOK
    BY DEF AgentInvariant
  <1> QED
    BY <1>1, InvariantHolds, PTL

(* InvestigationToolBudget.consume bounds the calls that read evidence, and  *)
(* a run is reported as exhausted only when it is.                           *)
THEOREM BudgetHolds == Spec => []BudgetIsKept
  <1>1. AgentInvariant => BudgetIsKept
    BY DEF AgentInvariant
  <1> QED
    BY <1>1, InvariantHolds, PTL

(* validate_report_grounding: a claim of a report is an item that a recorded *)
(* call returned to the model.                                               *)
THEOREM ClaimsHold == Spec => []ClaimsAreAdmitted
  <1>1. AgentInvariant => ClaimsAreAdmitted
    BY DEF AgentInvariant
  <1> QED
    BY <1>1, InvariantHolds, PTL

(* EvidenceLedger.from_snapshot: what was accepted loads, and its ledger is  *)
(* what its recorded calls first returned, in that order.                    *)
THEOREM SavedReproduces == Spec => []SavedIsReproducible
  <1>1. AgentInvariant => SavedIsReproducible
    <2> SUFFICES ASSUME AgentInvariant, artifacts \notin {"none", "rejected"}
                 PROVE  SavedIsReproducible
      BY DEF SavedIsReproducible
    <2>1. artifacts # "refused" /\ Verified
      BY DEF AgentInvariant, SavedIsVerified, TypeOK
    <2> QED
      BY <2>1, VerifiedIsReproduced DEF SavedIsReproducible
  <1> QED
    BY <1>1, InvariantHolds, PTL

(* A run whose calls were recorded one after another shows, claims and       *)
(* persists what it recorded: `record` is right when it is not raced.        *)
THEOREM SequentialHolds == Spec => []SequentialIsFaithful
  <1>1. Init => Sequential /\ SequentialIsFaithful
    <2> SUFFICES ASSUME Init PROVE Sequential /\ SequentialIsFaithful
      OBVIOUS
    <2>0. /\ \A c \in Call : call[c] = Idle
          /\ items = <<>> /\ aliases = <<>> /\ trace = <<>> /\ shown = {}
          /\ report = None /\ error = None /\ artifacts = "none"
      BY DEF Init
    <2>1. items = Replayed
      <3>1. trace \in Seq(TracedCall) /\ Len(trace) = 0
        BY <2>0
      <3> QED
        BY <2>0, <3>1, ReplayingUnfolds DEF Replayed
    <2>2. Alone /\ Settled /\ \A c \in Call : SequentialCall(c)
      BY <2>0, <2>1 DEF Alone, Settled, Recorders, Recording, SequentialCall, Idle
    <2>3. Numbered /\ TraceNames /\ ShownNames
      <3>1. DOMAIN aliases = {} /\ DOMAIN trace = {}
        BY <2>0
      <3>2. \A i : ~Traced(i)
        BY <3>1 DEF Traced
      <3> QED
        BY <2>0, <3>1, <3>2 DEF Numbered, TraceNames, ShownNames
    <2>4. SequentialIsFaithful
      BY <2>0, AgentAssumption DEF SequentialIsFaithful
    <2> QED
      BY <2>2, <2>3, <2>4 DEF Sequential
  <1>2. AgentInvariant /\ AgentInvariant' /\ [Next]_vars /\ Sequential /\ SequentialIsFaithful
           => Sequential' /\ SequentialIsFaithful'
    BY SequentialStep, FaithfulStep
  <1> QED
    BY <1>1, <1>2, InvariantHolds, PTL DEF Spec

=============================================================================
