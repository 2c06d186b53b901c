------------------------ MODULE CommissionSQLProofs ------------------------
(***************************************************************************)
(* What is proved of the SQL store for any tables, requests and clients.   *)
(***************************************************************************)
EXTENDS CommissionSQL, FiniteSetTheorems, WellFoundedInduction, TLAPS

-----------------------------------------------------------------------------
(* Orders.                                                                 *)

\* A nonempty finite set has a minimal element for any strict order R.
LEMMA MinimalElement ==
    ASSUME NEW S, IsFiniteSet(S), S # {}, NEW R,
           \A x \in S : <<x, x>> \notin R,
           \A x, y, z \in S : <<x, y>> \in R /\ <<y, z>> \in R => <<x, z>> \in R
    PROVE  \E x \in S : \A y \in S : <<y, x>> \notin R
<1> DEFINE Below(x) == {y \in S : <<y, x>> \in R}
           T == {Below(x) : x \in S}
<1>1. T # {} /\ T \subseteq FiniteSubsetsOf(S)
  <2>1. ASSUME NEW x \in S PROVE Below(x) \in FiniteSubsetsOf(S)
    BY FS_Subset DEF FiniteSubsetsOf
  <2>2. PICK x \in S : TRUE
    OBVIOUS
  <2>3. Below(x) \in T
    OBVIOUS
  <2>4. T # {}
    BY <2>3
  <2>5. T \subseteq FiniteSubsetsOf(S)
    BY <2>1
  <2> QED BY <2>4, <2>5
<1>2. IsWellFoundedOn(StrictSubsetOrdering(S), FiniteSubsetsOf(S))
  BY FS_StrictSubsetOrderingWellFounded
<1>3. PICK B \in T : \A C \in T : <<C, B>> \notin StrictSubsetOrdering(S)
  <2> HIDE DEF T
  <2> QED BY <1>1, <1>2, WFMin
<1>4. PICK x \in S : B = Below(x)
  BY <1>3
<1>5. ASSUME NEW y \in S, <<y, x>> \in R PROVE FALSE
  <2>1. Below(y) \subseteq Below(x) /\ y \in Below(x) /\ y \notin Below(y)
    BY <1>5
  <2>2. <<Below(y), Below(x)>> \in StrictSubsetOrdering(S)
    BY <2>1 DEF StrictSubsetOrdering
  <2> QED BY <1>3, <1>4, <2>2
<1> QED BY <1>5

\* A nonempty set of natural numbers has a least element.
LEMMA Least ==
    ASSUME NEW S, S \subseteq Nat, S # {}
    PROVE  \E x \in S : \A y \in S : x <= y
<1>1. PICK t \in S : TRUE
  OBVIOUS
<1> DEFINE T == {x \in S : x <= t}
           R == {p \in Nat \X Nat : p[1] < p[2]}
<1>2. IsFiniteSet(T) /\ T # {}
  BY <1>1, FS_BoundedSetOfNaturals
<1>a. \A x, y \in Nat : <<x, y>> \in R <=> x < y
  OBVIOUS
<1>b. T \subseteq Nat
  OBVIOUS
<1>3. /\ \A x \in T : <<x, x>> \notin R
      /\ \A x, y, z \in T : <<x, y>> \in R /\ <<y, z>> \in R => <<x, z>> \in R
  <2> HIDE DEF T, R
  <2> QED BY <1>a, <1>b
<1>4. PICK x \in T : \A y \in T : <<y, x>> \notin R
  <2> HIDE DEF T, R
  <2> QED BY <1>2, <1>3, MinimalElement
<1>5. \A y \in T : x <= y
  <2> HIDE DEF T, R
  <2>1. SUFFICES ASSUME NEW y \in T PROVE x <= y
    OBVIOUS
  <2>2. <<y, x>> \notin R /\ x \in Nat /\ y \in Nat
    BY <1>4, <1>b
  <2>3. ~(y < x)
    BY <2>2, <1>a
  <2> QED BY <2>2, <2>3
<1> QED BY <1>5

\* Ranks are distinct and smaller than the number of elements.
LEMMA Ranks ==
    ASSUME NEW S, IsFiniteSet(S), S \subseteq Nat, NEW key \in [S -> Nat]
    PROVE  /\ \A e \in S : Cardinality(Before(S, key, e)) \in 0..(Cardinality(S) - 1)
           /\ \A e, f \in S : f \in Before(S, key, e) =>
                 Cardinality(Before(S, key, f)) < Cardinality(Before(S, key, e))
           /\ \A e, f \in S : e # f =>
                 Cardinality(Before(S, key, f)) # Cardinality(Before(S, key, e))
<1>1. Cardinality(S) \in Nat
  BY FS_CardinalityType
<1>2. ASSUME NEW e \in S
      PROVE  /\ Before(S, key, e) \subseteq S /\ e \notin Before(S, key, e)
             /\ IsFiniteSet(Before(S, key, e)) /\ Cardinality(Before(S, key, e)) \in Nat
             /\ Cardinality(Before(S, key, e)) < Cardinality(S)
  <2>1. Before(S, key, e) \subseteq S /\ e \notin Before(S, key, e)
    BY DEF Before
  <2>2. Before(S, key, e) # S
    BY <2>1
  <2>3. IsFiniteSet(Before(S, key, e)) /\ Cardinality(Before(S, key, e)) \in Nat
    BY <2>1, FS_Subset, FS_CardinalityType
  <2>4. Cardinality(Before(S, key, e)) <= Cardinality(S) /\ Cardinality(Before(S, key, e)) # Cardinality(S)
    BY <2>1, <2>2, FS_Subset
  <2> QED BY <1>1, <2>1, <2>3, <2>4
<1>3. ASSUME NEW e \in S, NEW f \in S, f \in Before(S, key, e)
      PROVE  Cardinality(Before(S, key, f)) < Cardinality(Before(S, key, e))
  <2>1. Before(S, key, f) \subseteq Before(S, key, e)
    <3>1. SUFFICES ASSUME NEW g \in Before(S, key, f) PROVE g \in Before(S, key, e)
      OBVIOUS
    <3>2. /\ g \in S /\ g \in Nat /\ f \in Nat /\ e \in Nat
          /\ key[g] \in Nat /\ key[f] \in Nat /\ key[e] \in Nat
      BY <3>1 DEF Before
    <3> QED BY <1>3, <3>1, <3>2 DEF Before
  <2>2. Before(S, key, f) # Before(S, key, e)
    BY <1>3, <1>2
  <2>3. /\ Cardinality(Before(S, key, f)) <= Cardinality(Before(S, key, e))
        /\ Cardinality(Before(S, key, f)) # Cardinality(Before(S, key, e))
    BY <2>1, <2>2, <1>2, FS_Subset
  <2> QED BY <2>3, <1>2
<1>4. ASSUME NEW e \in S, NEW f \in S, e # f
      PROVE  f \in Before(S, key, e) \/ e \in Before(S, key, f)
  BY <1>4 DEF Before
<1>5. ASSUME NEW e \in S, NEW f \in S, e # f
      PROVE  Cardinality(Before(S, key, f)) # Cardinality(Before(S, key, e))
  BY <1>2, <1>3, <1>4, <1>5
<1> QED BY <1>1, <1>2, <1>3, <1>5

\* Ordered lists every element of S once, by key and then by number; the element
\* at a place is the one with as many elements before it.
LEMMA OrderedLists ==
    ASSUME NEW S, IsFiniteSet(S), S \subseteq Nat, NEW key \in [S -> Nat]
    PROVE  /\ Cardinality(S) \in Nat
           /\ Ordered(S, key) = [i \in 1..Cardinality(S) |-> Ordered(S, key)[i]]
           /\ \A i \in 1..Cardinality(S) :
                 /\ Ordered(S, key)[i] \in S
                 /\ Cardinality(Before(S, key, Ordered(S, key)[i])) = i - 1
           /\ \A e \in S : \E i \in 1..Cardinality(S) : Ordered(S, key)[i] = e
           /\ \A i, j \in 1..Cardinality(S) : i < j =>
                 Ordered(S, key)[i] \in Before(S, key, Ordered(S, key)[j])
<1> DEFINE n == Cardinality(S)
           rank == [e \in S |-> Cardinality(Before(S, key, e))]
<1>1. n \in Nat
  BY FS_CardinalityType
<1>a. /\ \A e \in S : Cardinality(Before(S, key, e)) \in 0..(n - 1)
      /\ \A e, f \in S : f \in Before(S, key, e) =>
            Cardinality(Before(S, key, f)) < Cardinality(Before(S, key, e))
      /\ \A e, f \in S : e # f =>
            Cardinality(Before(S, key, f)) # Cardinality(Before(S, key, e))
  BY Ranks
<1>2. rank \in Injection(S, 0..(n - 1))
  <2> HIDE DEF n
  <2>1. rank \in [S -> 0..(n - 1)]
    BY <1>a
  <2>2. \A e, f \in S : rank[e] = rank[f] => e = f
    BY <1>a
  <2> QED BY <2>1, <2>2 DEF Injection, IsInjective
<1>3. IsFiniteSet(0..(n - 1)) /\ Cardinality(0..(n - 1)) = n
  <2>1. 0 \in Int /\ n - 1 \in Int
    BY <1>1
  <2>2. IsFiniteSet(0..(n - 1)) /\ Cardinality(0..(n - 1)) = IF 0 > n - 1 THEN 0 ELSE (n - 1) - 0 + 1
    <3> HIDE DEF n
    <3> QED BY <2>1, FS_Interval
  <2> QED BY <2>2, <1>1
<1>4. rank \in Surjection(S, 0..(n - 1))
  BY <1>2, <1>3, FS_Injection
<1>5. \A i \in 1..n : \E e \in S : Cardinality(Before(S, key, e)) = i - 1
  <2>1. SUFFICES ASSUME NEW i \in 1..n PROVE \E e \in S : Cardinality(Before(S, key, e)) = i - 1
    OBVIOUS
  <2>2. i - 1 \in 0..(n - 1)
    BY <1>1
  <2> QED BY <1>4, <2>2 DEF Surjection
<1>6. \A i \in 1..n : /\ Ordered(S, key)[i] \in S
                      /\ Cardinality(Before(S, key, Ordered(S, key)[i])) = i - 1
  BY <1>5 DEF Ordered
<1>7. ASSUME NEW e \in S PROVE \E i \in 1..n : Ordered(S, key)[i] = e
  <2> DEFINE i == Cardinality(Before(S, key, e)) + 1
  <2>1. i \in 1..n /\ i - 1 = Cardinality(Before(S, key, e))
    <3> HIDE DEF n
    <3>1. Cardinality(Before(S, key, e)) \in 0..(n - 1)
      BY <1>a
    <3> QED BY <1>1, <3>1
  <2>2. Ordered(S, key)[i] = e
    <3> HIDE DEF i
    <3> QED BY <2>1, <1>6, <1>a
  <2> QED BY <2>1, <2>2
<1>8. ASSUME NEW i \in 1..n, NEW j \in 1..n, i < j
      PROVE  Ordered(S, key)[i] \in Before(S, key, Ordered(S, key)[j])
  <2> DEFINE e == Ordered(S, key)[i]
             f == Ordered(S, key)[j]
  <2>1. e \in S /\ f \in S /\ Cardinality(Before(S, key, e)) = i - 1 /\ Cardinality(Before(S, key, f)) = j - 1
    BY <1>6
  <2>2. e # f
    BY <2>1, <1>8, <1>1
  <2>3. e \in Before(S, key, f) \/ f \in Before(S, key, e)
    <3> HIDE DEF e, f
    <3> QED BY <2>1, <2>2 DEF Before
  <2>4. f \notin Before(S, key, e)
    <3> HIDE DEF e, f
    <3>1. ~(j - 1 < i - 1)
      BY <1>8, <1>1
    <3> QED BY <2>1, <3>1, <1>a
  <2> QED BY <2>3, <2>4
<1> QED BY <1>1, <1>6, <1>7, <1>8 DEF Ordered

-----------------------------------------------------------------------------
(* The definitions for each kind of request.                               *)

LEMMA StatementsOf ==
    ASSUME NEW d, NEW op
    PROVE  /\ op.kind = "TransitionTemplate" => Statements(d, op) = TransitionTemplate(d, op)
           /\ op.kind = "CreateProgram" => Statements(d, op) = CreateProgram(d, op)
           /\ op.kind = "TransitionProgram" => Statements(d, op) = TransitionProgram(d, op)
           /\ op.kind = "SetAttribution" => Statements(d, op) = SetAttribution(d, op)
           /\ op.kind = "CommitEvent" => Statements(d, op) = CommitEvent(d, op)
           /\ op.kind = "TransitionEarning" => Statements(d, op) = TransitionEarning(d, op)
           /\ op.kind = "MakeAvailableDue" => Statements(d, op) = MakeAvailableDue(d, op)
           /\ op.kind = "StartSettlement" => Statements(d, op) = StartSettlement(d, op)
           /\ op.kind = "FinishSettlement" => Statements(d, op) = FinishSettlement(d, op)
           /\ op.kind = "MarkOutboxPublished" => Statements(d, op) = MarkOutboxPublished(d, op)
BY DEF Statements

LEMMA OutcomeOf ==
    ASSUME NEW d, NEW op
    PROVE  /\ op.kind = "CreateTemplate" => Store!Outcome(d, op) = Store!CreateTemplate(d, op)
           /\ op.kind = "TransitionTemplate" => Store!Outcome(d, op) = Store!TransitionTemplate(d, op)
           /\ op.kind = "CreateProgram" => Store!Outcome(d, op) = Store!CreateProgram(d, op)
           /\ op.kind = "TransitionProgram" => Store!Outcome(d, op) = Store!TransitionProgram(d, op)
           /\ op.kind = "SetAttribution" => Store!Outcome(d, op) = Store!SetAttribution(d, op)
           /\ op.kind = "CommitEvent" => Store!Outcome(d, op) = Store!CommitEvent(d, op)
           /\ op.kind = "TransitionEarning" => Store!Outcome(d, op) = Store!TransitionEarning(d, op)
           /\ op.kind = "MakeAvailableDue" => Store!Outcome(d, op) = Store!MakeAvailableDue(d, op)
           /\ op.kind = "StartSettlement" => Store!Outcome(d, op) = Store!StartSettlement(d, op)
           /\ op.kind = "FinishSettlement" => Store!Outcome(d, op) = Store!FinishSettlement(d, op)
           /\ op.kind = "MarkOutboxPublished" => Store!Outcome(d, op) = Store!MarkOutboxPublished(d, op)
BY DEF Store!Outcome

\* The contract is written with the same tables.
LEMMA SameTables ==
    ASSUME NEW d, NEW op, NEW S, NEW action, NEW b, NEW outcome, NEW reference
    PROVE  /\ Store!Recorded(d, op) = Recorded(d, op)
           /\ Store!Transitioned(d, S, action) = Transitioned(d, S, action)
           /\ Store!Moved(d, b, action) = Moved(d, b, action)
           /\ Store!Claimed(d, b, S) = Claimed(d, b, S)
           /\ Store!Concluded(d, b, outcome, reference) = Concluded(d, b, outcome, reference)
           /\ Store!EarningsOf(d, b) = EarningsOf(d, b)
           /\ Store!Matches(d, op) = Matches(d, op)
BY DEF Store!Recorded, Recorded, Store!Transitioned, Transitioned, Store!Moved, Moved, Store!Claimed,
       Claimed, Store!Concluded, Concluded, Store!EarningsOf, EarningsOf, Store!Matches, Matches,
       Store!StoredEarnings, StoredEarnings, Store!Accruals, Accruals, Store!Messages, Messages,
       Store!MovedAll, MovedAll, Store!Message, Message, Store!NextStatus, NextStatus,
       Store!JournalKind, JournalKind, Store!NewBatch, NewBatch, Store!NoEarning, NoEarning

LEMMA SameCardinality == \A X : Store!Cardinality(X) = Cardinality(X)
BY DEF Store!Cardinality, Cardinality

\* Rows of different kinds differ, and rows of one kind by what they name.
LEMMA RowNames ==
    ASSUME NEW x, NEW y
    PROVE  /\ Template # Program /\ Template # DueRange /\ Program # DueRange
           /\ <<"attribution", x>> \notin {Template, Program, DueRange}
           /\ <<"event", x>> \notin {Template, Program, DueRange}
           /\ <<"earning", x>> \notin {Template, Program, DueRange}
           /\ <<"settlement", x>> \notin {Template, Program, DueRange}
           /\ <<"message", x>> \notin {Template, Program, DueRange}
           /\ <<"attribution", x>> \notin {<<"event", y>>, <<"earning", y>>, <<"settlement", y>>, <<"message", y>>}
           /\ <<"event", x>> \notin {<<"earning", y>>, <<"settlement", y>>, <<"message", y>>}
           /\ <<"earning", x>> \notin {<<"settlement", y>>, <<"message", y>>}
           /\ <<"settlement", x>> # <<"message", y>>
           /\ <<"attribution", x>> = <<"attribution", y>> => x = y
           /\ <<"event", x>> = <<"event", y>> => x = y
           /\ <<"earning", x>> = <<"earning", y>> => x = y
           /\ <<"settlement", x>> = <<"settlement", y>> => x = y
           /\ <<"message", x>> = <<"message", y>> => x = y
BY DEF Template, Program, DueRange

LEMMA PresentRows ==
    ASSUME NEW d, NEW x
    PROVE  /\ Present(d, Template) <=> d.template # "absent"
           /\ Present(d, Program) <=> d.program.status # "absent"
           /\ ~Present(d, DueRange)
           /\ Present(d, <<"attribution", x>>) <=> d.attributions[x] # NoAttribution
           /\ Present(d, <<"event", x>>) <=> d.events[x] # NoFacts
           /\ Present(d, <<"earning", x>>) <=> d.earnings[x] # NoEarning
           /\ Present(d, <<"settlement", x>>) <=> d.settlements[x] # NoBatch
           /\ Present(d, <<"message", x>>) <=> x \in d.outbox
<1>1. Present(d, Template) <=> d.template # "absent"
  BY DEF Present, Template, Program, DueRange
<1>2. Present(d, Program) <=> d.program.status # "absent"
  BY DEF Present, Template, Program, DueRange
<1>3. ~Present(d, DueRange)
  BY DEF Present, Template, Program, DueRange
<1>4. Present(d, <<"attribution", x>>) <=> d.attributions[x] # NoAttribution
  BY DEF Present, Template, Program, DueRange
<1>5. Present(d, <<"event", x>>) <=> d.events[x] # NoFacts
  BY DEF Present, Template, Program, DueRange
<1>6. Present(d, <<"earning", x>>) <=> d.earnings[x] # NoEarning
  BY DEF Present, Template, Program, DueRange
<1>7. Present(d, <<"settlement", x>>) <=> d.settlements[x] # NoBatch
  BY DEF Present, Template, Program, DueRange
<1>8. Present(d, <<"message", x>>) <=> x \in d.outbox
  BY DEF Present, Template, Program, DueRange
<1> QED BY <1>1, <1>2, <1>3, <1>4, <1>5, <1>6, <1>7, <1>8

-----------------------------------------------------------------------------
(* What the statements of an operation tell of its outcome.                *)

\* The first n statements go on; the rows they read.
Passed(d, op, n) ==
    /\ n \in 0..Len(Statements(d, op))
    /\ \A i \in 1..n : Statements(d, op)[i].verdict = Continue
RowsRead(d, op, n) == {Statements(d, op)[i].row : i \in 1..n}

\* A transaction has locked all its rows, the missing ones or not.
HoldsAll(d, k) ==
    LET read == RowsRead(d, k.op, Len(Statements(d, k.op)))
    IN {r \in read : Present(d, r)} \subseteq k.held /\ k.held \subseteq read

\* An event keeps its earnings, and gets no other.
SamePresence(d, d2, e) == d2.earnings[e] = NoEarning <=> d.earnings[e] = NoEarning

\* The tables d became d2, and what was locked is the same unless it is in T.
Changes(d, d2, T) ==
    /\ d.template # "absent" /\ Template \notin T => d2.template = d.template
    /\ Program \notin T => d2.program = d.program
    /\ \A s \in Slots : <<"attribution", s>> \notin T => d2.attributions[s] = d.attributions[s]
    /\ \A x \in Sources : <<"event", x>> \notin T => d2.events[x] = d.events[x]
    /\ \A x \in Sources : d.events[x] # NoFacts => d2.events[x] = d.events[x]
    /\ \A x \in Earnings :
          d.earnings[x] # NoEarning /\ <<"earning", x>> \notin T => d2.earnings[x] = d.earnings[x]
    /\ DueRange \notin T =>
          \A x \in Earnings : d2.earnings[x].status = "pending" => d2.earnings[x] = d.earnings[x]
    /\ \A e \in Earnings : d.events[SourceOf[e]] # NoFacts => SamePresence(d, d2, e)
    /\ \A b \in Settlements : <<"settlement", b>> \notin T => d2.settlements[b] = d.settlements[b]
    /\ d.outbox \subseteq d2.outbox
    /\ \A m \in d.outbox : <<"message", m>> \notin T => (m \in d2.published <=> m \in d.published)

\* The first statement that does not go on has the answer of the contract.
RefusesAsContract(d, op) ==
    LET S == Statements(d, op) IN
    \A i \in 1..Len(S) :
        S[i].verdict # Continue /\ (\A j \in 1..(i - 1) : S[j].verdict = Continue) =>
            S[i].verdict # Unknown /\ Store!Outcome(d, op) = [db |-> d, answer |-> S[i].verdict]

\* When all statements go on, the writes are those of the contract.
WritesAsContract(d, k) ==
    Passed(d, k.op, Len(Statements(d, k.op))) /\ HoldsAll(d, k) =>
        LET d2 == Writes(d, k) IN
        /\ Store!Outcome(d, k.op) = [db |-> d2, answer |-> Ok(Saved(d2, k))]
        /\ d2 \in TableSets /\ Consistent(d2)
        /\ Changes(d, d2, Inserts(k.op) \cup Updates(k))

\* Statements that went on are not affected by changes of other rows.
KeepsStatements(d, d2, T, op, n) ==
    Changes(d, d2, T) /\ Passed(d, op, n) /\ RowsRead(d, op, n) \cap T = {} =>
        /\ Passed(d2, op, n)
        /\ \A i \in 1..n : /\ Statements(d2, op)[i].row = Statements(d, op)[i].row
                           /\ Present(d2, Statements(d, op)[i].row) <=> Present(d, Statements(d, op)[i].row)
        /\ n = Len(Statements(d, op)) => n = Len(Statements(d2, op))

LEMMA Verdicts ==
    /\ Continue # Unknown
    /\ \A e : (e # "continue" => Error(e) # Continue) /\ (e # "unknown" => Error(e) # Unknown)
    /\ \A e : Store!Error(e) = Error(e)
    /\ \A rows : Ok(rows) # Unknown /\ Ok(rows) # Continue
    /\ Store!Continue = Continue
    /\ \A rows : Store!Ok(rows) = Ok(rows)
    /\ \A d, rows : Store!Reply(d, rows) = [db |-> d, answer |-> Ok(rows)]
BY DEF Continue, Unknown, Ok, Error, Store!Continue, Store!Ok, Store!Error, Store!Reply

LEMMA PassedRows ==
    ASSUME NEW d, NEW op, NEW n, Passed(d, op, n), NEW i \in 1..n
    PROVE  Statements(d, op)[i].verdict = Continue /\ Statements(d, op)[i].row \in RowsRead(d, op, n)
BY DEF Passed, RowsRead

LEMMA HeldRows ==
    ASSUME NEW d, NEW k, HoldsAll(d, k), NEW i \in 1..Len(Statements(d, k.op)),
           Present(d, Statements(d, k.op)[i].row)
    PROVE  Statements(d, k.op)[i].row \in k.held
BY DEF HoldsAll, RowsRead

\* The first n statements go on and read no row of T; they are the same in d2.
Untouched(d, op, n, T) ==
    /\ n \in 1..Len(Statements(d, op))
    /\ \A i \in 1..n : /\ Statements(d, op)[i].verdict = Continue
                       /\ Statements(d, op)[i].row \notin T
SameStatements(d, d2, op, n) ==
    /\ n <= Len(Statements(d2, op))
    /\ \A i \in 1..n :
          /\ Statements(d2, op)[i].verdict = Continue
          /\ Statements(d2, op)[i].row = Statements(d, op)[i].row
          /\ Present(d2, Statements(d, op)[i].row) <=> Present(d, Statements(d, op)[i].row)
    /\ n = Len(Statements(d, op)) => n = Len(Statements(d2, op))

\* Nothing is to be shown before the first statement.
LEMMA KeepsSome ==
    ASSUME NEW d, NEW d2, NEW T, NEW op, NEW n,
           Len(Statements(d, op)) \in Nat \ {0}, Len(Statements(d2, op)) \in Nat,
           Changes(d, d2, T) /\ Untouched(d, op, n, T) => SameStatements(d, d2, op, n)
    PROVE  KeepsStatements(d, d2, T, op, n)
<1>1. SUFFICES ASSUME Changes(d, d2, T), Passed(d, op, n), RowsRead(d, op, n) \cap T = {}
               PROVE  /\ Passed(d2, op, n)
                      /\ \A i \in 1..n :
                            /\ Statements(d2, op)[i].row = Statements(d, op)[i].row
                            /\ Present(d2, Statements(d, op)[i].row) <=> Present(d, Statements(d, op)[i].row)
                      /\ n = Len(Statements(d, op)) => n = Len(Statements(d2, op))
  BY DEF KeepsStatements
<1>2. CASE n = 0
  BY <1>1, <1>2 DEF Passed
<1>3. CASE n # 0
  <2>1. n \in 1..Len(Statements(d, op))
    BY <1>1, <1>3 DEF Passed
  <2>2. \A i \in 1..n : /\ Statements(d, op)[i].verdict = Continue
                        /\ Statements(d, op)[i].row \notin T
    BY <1>1 DEF Passed, RowsRead
  <2>3. SameStatements(d, d2, op, n)
    BY <1>1, <2>1, <2>2 DEF Untouched
  <2> QED BY <2>1, <2>3 DEF Passed, SameStatements
<1> QED BY <1>2, <1>3

\* Statements are kept one by one when the first one decides what the others read.
KeepsEach(d, d2, T, op) ==
    LET S == Statements(d, op)
        S2 == Statements(d2, op)
    IN Changes(d, d2, T) /\ S[1].verdict = Continue /\ S[1].row \notin T =>
         /\ Len(S2) = Len(S)
         /\ \A i \in 1..Len(S) :
               /\ S2[i].row = S[i].row
               /\ S[i].verdict = Continue /\ S[i].row \notin T =>
                     S2[i].verdict = Continue /\ (Present(d2, S[i].row) <=> Present(d, S[i].row))

LEMMA KeepsPrefix ==
    ASSUME NEW d, NEW d2, NEW T, NEW op, NEW n,
           Len(Statements(d, op)) \in Nat \ {0}, Len(Statements(d2, op)) \in Nat,
           KeepsEach(d, d2, T, op)
    PROVE  KeepsStatements(d, d2, T, op, n)
<1>1. ASSUME Changes(d, d2, T), Untouched(d, op, n, T) PROVE SameStatements(d, d2, op, n)
  <2>1. /\ n \in 1..Len(Statements(d, op))
        /\ \A i \in 1..n : /\ Statements(d, op)[i].verdict = Continue
                           /\ Statements(d, op)[i].row \notin T
    BY <1>1 DEF Untouched
  <2>2. Statements(d, op)[1].verdict = Continue /\ Statements(d, op)[1].row \notin T
    BY <2>1
  <2>3. \A i \in 1..n : i \in 1..Len(Statements(d, op))
    BY <2>1
  <2> QED BY <1>1, <2>1, <2>2, <2>3 DEF KeepsEach, SameStatements
<1> QED BY <1>1, KeepsSome

LEMMA TransitionTemplateRefuses ==
    ASSUME NEW d, NEW op, op.kind = "TransitionTemplate"
    PROVE  RefusesAsContract(d, op)
<1> DEFINE S == Statements(d, op)
<1>1. S = TransitionTemplate(d, op) /\ Store!Outcome(d, op) = Store!TransitionTemplate(d, op)
  BY StatementsOf, OutcomeOf
<1>2. Len(S) = 1 /\ S[1].verdict = Refuse(d.template = "absent", "template_not_found",
         Refuse(<<d.template, op.next>> \notin TemplateSteps, "invalid_transition", Continue))
  BY <1>1 DEF TransitionTemplate, Statement
<1>3. S[1].verdict # Continue => S[1].verdict # Unknown /\ Store!Outcome(d, op) = [db |-> d, answer |-> S[1].verdict]
  <2> HIDE DEF S
  <2> QED BY <1>1, <1>2, Verdicts DEF Store!TransitionTemplate, Store!Answered, Refuse, Error, Continue, Unknown, Store!TemplateSteps, TemplateSteps,
         Store!Refuse, Store!Error
<1> QED BY <1>2, <1>3 DEF RefusesAsContract

LEMMA TransitionTemplateWrites ==
    ASSUME NEW d, NEW k, d \in TableSets, Consistent(d), k.op.kind = "TransitionTemplate"
    PROVE  WritesAsContract(d, k)
<1> DEFINE op == k.op
           S == Statements(d, op)
           d2 == Writes(d, k)
<1>1. S = TransitionTemplate(d, op) /\ Store!Outcome(d, op) = Store!TransitionTemplate(d, op)
  BY StatementsOf, OutcomeOf
<1>2. Len(S) = 1 /\ S[1].row = Template /\ S[1].verdict = Refuse(d.template = "absent", "template_not_found",
         Refuse(<<d.template, op.next>> \notin TemplateSteps, "invalid_transition", Continue))
  BY <1>1 DEF TransitionTemplate, Statement
<1>3. SUFFICES ASSUME Passed(d, op, Len(S)), HoldsAll(d, k)
               PROVE  /\ Store!Outcome(d, op) = [db |-> d2, answer |-> Ok(Saved(d2, k))]
                      /\ d2 \in TableSets /\ Consistent(d2)
                      /\ Changes(d, d2, Inserts(op) \cup Updates(k))
  BY DEF WritesAsContract
<1>5. d.template # "absent" /\ <<d.template, op.next>> \in TemplateSteps
  <2>1. S[1].verdict = Continue
    BY <1>2, <1>3, PassedRows
  <2> QED BY <1>2, <2>1 DEF Refuse, Error, Continue
<1>4. Template \in k.held
  <2>1. Present(d, Template)
    BY <1>5, PresentRows
  <2>2. 1 \in 1..Len(S) /\ Present(d, S[1].row)
    BY <1>2, <2>1
  <2> QED BY <1>2, <1>3, <2>2, HeldRows
<1>6. d2 = [d EXCEPT !.template = op.next] /\ Saved(d2, k) = {[status |-> d2.template]} /\ Updates(k) = k.held
  BY DEF Writes, Saved, Updates
<1>7. op.next \in TemplateRows
  BY <1>5 DEF TemplateSteps, TemplateRows
<1>8. d2 \in TableSets /\ Consistent(d2) /\ d2.template = op.next
  <2> HIDE DEF d2
  <2> QED BY <1>6, <1>7 DEF TableSets, Consistent
<1>9. Store!Outcome(d, op) = [db |-> d2, answer |-> Ok(Saved(d2, k))]
  BY <1>1, <1>5, <1>6, <1>8, Verdicts DEF Store!TransitionTemplate, Store!Answered, Store!Refuse, Store!TemplateSteps, TemplateSteps
<1>10. Changes(d, d2, Inserts(op) \cup Updates(k))
  <2> HIDE DEF d2
  <2> QED BY <1>6, <1>4 DEF TableSets, Changes, SamePresence
<1> QED BY <1>8, <1>9, <1>10

LEMMA TransitionTemplateKeeps ==
    ASSUME NEW d, NEW d2, NEW T, NEW op, NEW n, op.kind = "TransitionTemplate"
    PROVE  KeepsStatements(d, d2, T, op, n)
<1>1. Statements(d, op) = TransitionTemplate(d, op) /\ Statements(d2, op) = TransitionTemplate(d2, op)
  BY StatementsOf
<1>2. ASSUME NEW t \in {d, d2}
      PROVE  /\ Len(Statements(t, op)) = 1 /\ Statements(t, op)[1].row = Template
             /\ Statements(t, op)[1].verdict = Refuse(t.template = "absent", "template_not_found",
                  Refuse(<<t.template, op.next>> \notin TemplateSteps, "invalid_transition", Continue))
  BY <1>1 DEF TransitionTemplate, Statement
<1>3. ASSUME Changes(d, d2, T), Statements(d, op)[1].verdict = Continue, Template \notin T
      PROVE  /\ Statements(d2, op)[1].verdict = Continue
             /\ Present(d2, Template) <=> Present(d, Template)
  <2>1. d.template # "absent"
    BY <1>2, <1>3, Verdicts DEF Refuse
  <2>2. d2.template = d.template
    BY <1>3, <2>1 DEF Changes
  <2> QED BY <1>2, <1>3, <2>2, PresentRows DEF Refuse
<1>4. KeepsEach(d, d2, T, op)
  BY <1>2, <1>3 DEF KeepsEach
<1>5. Len(Statements(d, op)) \in Nat \ {0} /\ Len(Statements(d2, op)) \in Nat
  BY <1>2
<1> QED BY <1>4, <1>5, KeepsPrefix

LEMMA CreateProgramRefuses ==
    ASSUME NEW d, NEW op, op.kind = "CreateProgram"
    PROVE  RefusesAsContract(d, op)
<1> DEFINE S == Statements(d, op)
<1>1. S = CreateProgram(d, op) /\ Store!Outcome(d, op) = Store!CreateProgram(d, op)
  BY StatementsOf, OutcomeOf
<1>2. /\ Len(S) = 2
      /\ S[1].verdict = Refuse(d.program.status # "absent", "program_exists", Continue)
      /\ S[2].verdict = Refuse(d.template = "absent", "template_not_found", Continue)
  BY <1>1 DEF CreateProgram, Statement
<1>3. S[1].verdict # Continue => S[1].verdict # Unknown /\ Store!Outcome(d, op) = [db |-> d, answer |-> S[1].verdict]
  <2> HIDE DEF S
  <2> QED BY <1>1, <1>2, Verdicts DEF Store!CreateProgram, Store!Answered, Store!Refuse, Refuse
<1>4. S[1].verdict = Continue /\ S[2].verdict # Continue =>
         S[2].verdict # Unknown /\ Store!Outcome(d, op) = [db |-> d, answer |-> S[2].verdict]
  <2> HIDE DEF S
  <2> QED BY <1>1, <1>2, Verdicts DEF Store!CreateProgram, Store!Answered, Store!Refuse, Refuse
<1> QED BY <1>2, <1>3, <1>4 DEF RefusesAsContract

LEMMA CreateProgramWrites ==
    ASSUME NEW d, NEW k, d \in TableSets, Consistent(d), k.op.kind = "CreateProgram"
    PROVE  WritesAsContract(d, k)
<1> DEFINE op == k.op
           S == Statements(d, op)
           d2 == Writes(d, k)
<1>1. S = CreateProgram(d, op) /\ Store!Outcome(d, op) = Store!CreateProgram(d, op)
  BY StatementsOf, OutcomeOf
<1>2. /\ Len(S) = 2
      /\ S[1].verdict = Refuse(d.program.status # "absent", "program_exists", Continue)
      /\ S[2].verdict = Refuse(d.template = "absent", "template_not_found", Continue)
  BY <1>1 DEF CreateProgram, Statement
<1>3. SUFFICES ASSUME Passed(d, op, Len(S)), HoldsAll(d, k)
               PROVE  /\ Store!Outcome(d, op) = [db |-> d2, answer |-> Ok(Saved(d2, k))]
                      /\ d2 \in TableSets /\ Consistent(d2)
                      /\ Changes(d, d2, Inserts(op) \cup Updates(k))
  BY DEF WritesAsContract
<1>4. d.program.status = "absent" /\ d.template # "absent"
  <2>1. S[1].verdict = Continue /\ S[2].verdict = Continue
    BY <1>2, <1>3, PassedRows
  <2> QED BY <1>2, <2>1, Verdicts DEF Refuse
<1>5. d2 = [d EXCEPT !.program = NewProgram] /\ Saved(d2, k) = {} /\ Inserts(op) = {Program}
  BY DEF Writes, Saved, Inserts
<1>6. d2 \in TableSets /\ Consistent(d2)
  <2> HIDE DEF d2
  <2> QED BY <1>5 DEF TableSets, Consistent, ProgramRows, NewProgram
<1>7. Store!Outcome(d, op) = [db |-> d2, answer |-> Ok(Saved(d2, k))]
  BY <1>1, <1>4, <1>5, Verdicts DEF Store!CreateProgram, Store!Answered, Store!Refuse, Store!NewProgram,
                                    NewProgram
<1>8. Changes(d, d2, Inserts(op) \cup Updates(k))
  <2> HIDE DEF d2
  <2> QED BY <1>5 DEF TableSets, Changes, SamePresence
<1> QED BY <1>6, <1>7, <1>8

LEMMA CreateProgramKeeps ==
    ASSUME NEW d, NEW d2, NEW T, NEW op, NEW n, op.kind = "CreateProgram"
    PROVE  KeepsStatements(d, d2, T, op, n)
<1>1. Statements(d, op) = CreateProgram(d, op) /\ Statements(d2, op) = CreateProgram(d2, op)
  BY StatementsOf
<1>2. ASSUME NEW t \in {d, d2}
      PROVE  /\ Len(Statements(t, op)) = 2
             /\ Statements(t, op)[1].row = Program /\ Statements(t, op)[2].row = Template
             /\ Statements(t, op)[1].verdict = Refuse(t.program.status # "absent", "program_exists", Continue)
             /\ Statements(t, op)[2].verdict = Refuse(t.template = "absent", "template_not_found", Continue)
  BY <1>1 DEF CreateProgram, Statement
<1>3. ASSUME Changes(d, d2, T), Program \notin T
      PROVE  /\ Statements(d2, op)[1].verdict = Statements(d, op)[1].verdict
             /\ Present(d2, Program) <=> Present(d, Program)
  <2>1. d2.program = d.program
    BY <1>3 DEF Changes
  <2> QED BY <1>2, <2>1, PresentRows DEF Refuse
<1>4. ASSUME Changes(d, d2, T), Statements(d, op)[2].verdict = Continue, Template \notin T
      PROVE  /\ Statements(d2, op)[2].verdict = Continue
             /\ Present(d2, Template) <=> Present(d, Template)
  <2>1. d.template # "absent"
    BY <1>2, <1>4, Verdicts DEF Refuse
  <2>2. d2.template = d.template
    BY <1>4, <2>1 DEF Changes
  <2> QED BY <1>2, <1>4, <2>2, PresentRows DEF Refuse
<1>5. KeepsEach(d, d2, T, op)
  <2>1. 1..2 = {1, 2}
    OBVIOUS
  <2> QED BY <1>2, <1>3, <1>4, <2>1 DEF KeepsEach
<1>6. Len(Statements(d, op)) \in Nat \ {0} /\ Len(Statements(d2, op)) \in Nat
  BY <1>2
<1> QED BY <1>5, <1>6, KeepsPrefix

LEMMA TransitionProgramShape ==
    ASSUME NEW d, NEW op, op.kind = "TransitionProgram"
    PROVE  LET S == Statements(d, op) IN
           /\ Len(S) \in {1, 2} /\ (Len(S) = 2 <=> op.next = "active")
           /\ S[1].row = Program
           /\ S[1].verdict = Refuse(d.program.status = "absent", "program_not_found",
                Refuse(d.program.version # op.expected, "version_conflict",
                Refuse(<<d.program.status, op.next>> \notin ProgramSteps, "invalid_transition", Continue)))
           /\ Len(S) = 2 => /\ S[2].row = Template
                            /\ S[2].verdict = Refuse(d.template # "active", "template_not_active", Continue)
<1>1. Statements(d, op) = TransitionProgram(d, op)
  BY StatementsOf
<1>2. CASE op.next = "active"
  BY <1>1, <1>2 DEF TransitionProgram, Statement
<1>3. CASE op.next # "active"
  BY <1>1, <1>3 DEF TransitionProgram, Statement
<1> QED BY <1>2, <1>3

LEMMA TransitionProgramRefuses ==
    ASSUME NEW d, NEW op, op.kind = "TransitionProgram"
    PROVE  RefusesAsContract(d, op)
<1> DEFINE S == Statements(d, op)
<1>1. Store!Outcome(d, op) = Store!TransitionProgram(d, op)
  BY OutcomeOf
<1>2. S[1].verdict # Continue => S[1].verdict # Unknown /\ Store!Outcome(d, op) = [db |-> d, answer |-> S[1].verdict]
  BY <1>1, TransitionProgramShape, Verdicts DEF Store!TransitionProgram, Store!Answered, Store!Refuse, Refuse,
       Store!ProgramSteps, ProgramSteps
<1>3. Len(S) = 2 /\ S[1].verdict = Continue /\ S[2].verdict # Continue =>
         S[2].verdict # Unknown /\ Store!Outcome(d, op) = [db |-> d, answer |-> S[2].verdict]
  BY <1>1, TransitionProgramShape, Verdicts DEF Store!TransitionProgram, Store!Answered, Store!Refuse, Refuse,
       Store!ProgramSteps, ProgramSteps
<1>4. Len(S) \in {1, 2}
  BY TransitionProgramShape
<1> QED
  <2> HIDE DEF S
  <2>1. 1..1 = {1} /\ 1..2 = {1, 2} /\ 1..(2 - 1) = {1}
    OBVIOUS
  <2>2. ASSUME NEW i \in 1..Len(S), S[i].verdict # Continue, \A j \in 1..(i - 1) : S[j].verdict = Continue
        PROVE  S[i].verdict # Unknown /\ Store!Outcome(d, op) = [db |-> d, answer |-> S[i].verdict]
    BY <1>2, <1>3, <1>4, <2>1, <2>2
  <2> QED BY <2>2 DEF RefusesAsContract, S

LEMMA TransitionProgramWrites ==
    ASSUME NEW d, NEW k, d \in TableSets, Consistent(d), k.op.kind = "TransitionProgram", ValidRequest(k.op)
    PROVE  WritesAsContract(d, k)
<1> DEFINE op == k.op
           S == Statements(d, op)
           d2 == Writes(d, k)
<1>1. Store!Outcome(d, op) = Store!TransitionProgram(d, op)
  BY OutcomeOf
<1>2. SUFFICES ASSUME Passed(d, op, Len(S)), HoldsAll(d, k)
               PROVE  /\ Store!Outcome(d, op) = [db |-> d2, answer |-> Ok(Saved(d2, k))]
                      /\ d2 \in TableSets /\ Consistent(d2)
                      /\ Changes(d, d2, Inserts(op) \cup Updates(k))
  BY DEF WritesAsContract
<1>3. S[1].verdict = Continue /\ (Len(S) = 2 => S[2].verdict = Continue)
  <2>1. 1 \in 1..Len(S) /\ (Len(S) = 2 => 2 \in 1..Len(S))
    <3>1. Len(S) \in {1, 2}
      BY TransitionProgramShape
    <3>2. \A l \in {1, 2} : 1 \in 1..l /\ (l = 2 => 2 \in 1..l)
      OBVIOUS
    <3> QED BY <3>1, <3>2
  <2> QED BY <1>2, <2>1, PassedRows
<1>4. /\ d.program.status # "absent" /\ d.program.version = op.expected
      /\ <<d.program.status, op.next>> \in ProgramSteps
  BY <1>3, TransitionProgramShape, Verdicts DEF Refuse
<1>5. op.next = "active" => d.template = "active"
  BY <1>3, TransitionProgramShape, Verdicts DEF Refuse
<1>6. op.expected \in Nat \ {0}
  BY DEF ValidRequest
<1> DEFINE program == [status |-> op.next, version |-> op.expected + 1]
<1>7. /\ d2 = [d EXCEPT !.program = program] /\ Saved(d2, k) = {d2.program} /\ Updates(k) = {Program}
      /\ program \in ProgramRows
  <2>1. op.next \in {"draft", "pending_approval", "active", "suspended", "retired"}
    BY <1>4 DEF ProgramSteps
  <2> QED BY <1>6, <2>1 DEF Writes, Saved, Updates, ProgramRows
<1>8. d2 \in TableSets /\ Consistent(d2) /\ d2.program = program
  <2> HIDE DEF d2, program
  <2> QED BY <1>7 DEF TableSets, Consistent
<1>9. Store!Outcome(d, op) = [db |-> d2, answer |-> Ok(Saved(d2, k))]
  <2>1. Store!Outcome(d, op) = [db |-> [d EXCEPT !.program = program], answer |-> Ok({program})]
    BY <1>1, <1>4, <1>5, Verdicts DEF Store!TransitionProgram, Store!Answered, Store!Refuse, Store!ProgramSteps,
        ProgramSteps
  <2> HIDE DEF d2, program
  <2> QED BY <1>7, <1>8, <2>1
<1>10. Changes(d, d2, Inserts(op) \cup Updates(k))
  <2> HIDE DEF d2, program
  <2> QED BY <1>7 DEF TableSets, Changes, SamePresence
<1> QED BY <1>8, <1>9, <1>10

LEMMA TransitionProgramKeeps ==
    ASSUME NEW d, NEW d2, NEW T, NEW op, NEW n, op.kind = "TransitionProgram"
    PROVE  KeepsStatements(d, d2, T, op, n)
<1> DEFINE S == Statements(d, op)
           S2 == Statements(d2, op)
<1>1. /\ Len(S) \in {1, 2} /\ Len(S2) = Len(S) /\ S[1].row = Program /\ S2[1].row = Program
      /\ Len(S) = 2 => S[2].row = Template /\ S2[2].row = Template
  <2>1. /\ Len(S) \in {1, 2} /\ (Len(S) = 2 <=> op.next = "active") /\ S[1].row = Program
        /\ Len(S) = 2 => S[2].row = Template
    BY TransitionProgramShape
  <2>2. /\ Len(S2) \in {1, 2} /\ (Len(S2) = 2 <=> op.next = "active") /\ S2[1].row = Program
        /\ Len(S2) = 2 => S2[2].row = Template
    BY TransitionProgramShape
  <2> HIDE DEF S, S2
  <2> QED BY <2>1, <2>2
<1>2. ASSUME Changes(d, d2, T), Program \notin T
      PROVE  /\ S2[1].verdict = S[1].verdict
             /\ Present(d2, Program) <=> Present(d, Program)
  <2>1. d2.program = d.program
    BY <1>2 DEF Changes
  <2>2. S2[1].verdict = S[1].verdict
    <3>1. ASSUME NEW t \in {d, d2}
          PROVE  Statements(t, op)[1].verdict = Refuse(t.program.status = "absent", "program_not_found",
                    Refuse(t.program.version # op.expected, "version_conflict",
                    Refuse(<<t.program.status, op.next>> \notin ProgramSteps, "invalid_transition", Continue)))
      BY TransitionProgramShape
    <3> QED BY <2>1, <3>1 DEF Refuse
  <2>3. Present(d2, Program) <=> Present(d, Program)
    BY <2>1, PresentRows
  <2> QED BY <2>2, <2>3
<1>3. ASSUME Changes(d, d2, T), Len(S) = 2, S[2].verdict = Continue, Template \notin T
      PROVE  /\ S2[2].verdict = Continue
             /\ Present(d2, Template) <=> Present(d, Template)
  <2>1. d.template = "active"
    BY <1>3, TransitionProgramShape, Verdicts DEF Refuse
  <2>2. d2.template = d.template
    BY <1>3, <2>1 DEF Changes
  <2>3. S2[2].verdict = Continue
    BY <1>1, <1>3, <2>1, <2>2, TransitionProgramShape DEF Refuse
  <2>4. Present(d2, Template) <=> Present(d, Template)
    BY <2>2, PresentRows
  <2> QED BY <2>3, <2>4
<1>4. KeepsEach(d, d2, T, op)
  <2> HIDE DEF S, S2
  <2>1. 1..1 = {1} /\ 1..2 = {1, 2}
    OBVIOUS
  <2>2. \A i \in 1..Len(S) : i = 1 \/ (i = 2 /\ Len(S) = 2)
    BY <1>1, <2>1
  <2> QED BY <1>1, <1>2, <1>3, <2>2 DEF KeepsEach, S, S2
<1>5. Len(S) \in Nat \ {0} /\ Len(S2) \in Nat
  BY <1>1
<1> QED BY <1>4, <1>5, KeepsPrefix

LEMMA SetAttributionShape ==
    ASSUME NEW d, NEW op, op.kind = "SetAttribution"
    PROVE  LET S == Statements(d, op) IN
           /\ Len(S) = 1 /\ S[1].row = <<"attribution", op.slot>>
           /\ S[1].verdict = Refuse(d.attributions[op.slot].version # op.expected, "version_conflict", Continue)
BY StatementsOf DEF SetAttribution, AttributionIs, Statement

LEMMA SetAttributionRefuses ==
    ASSUME NEW d, NEW op, op.kind = "SetAttribution"
    PROVE  RefusesAsContract(d, op)
<1> DEFINE S == Statements(d, op)
<1>1. Store!Outcome(d, op) = Store!SetAttribution(d, op)
  BY OutcomeOf
<1>2. S[1].verdict # Continue => S[1].verdict # Unknown /\ Store!Outcome(d, op) = [db |-> d, answer |-> S[1].verdict]
  BY <1>1, SetAttributionShape, Verdicts DEF Store!SetAttribution, Store!Answered, Store!Refuse, Refuse
<1>3. Len(S) = 1
  BY SetAttributionShape
<1> QED BY <1>2, <1>3 DEF RefusesAsContract

LEMMA SetAttributionWrites ==
    ASSUME NEW d, NEW k, d \in TableSets, Consistent(d), k.op.kind = "SetAttribution", ValidRequest(k.op)
    PROVE  WritesAsContract(d, k)
<1> DEFINE op == k.op
           S == Statements(d, op)
           d2 == Writes(d, k)
           attribution == Attribution(op.payee, op.expected + 1)
<1>1. Store!Outcome(d, op) = Store!SetAttribution(d, op)
  BY OutcomeOf
<1>2. SUFFICES ASSUME Passed(d, op, Len(S)), HoldsAll(d, k)
               PROVE  /\ Store!Outcome(d, op) = [db |-> d2, answer |-> Ok(Saved(d2, k))]
                      /\ d2 \in TableSets /\ Consistent(d2)
                      /\ Changes(d, d2, Inserts(op) \cup Updates(k))
  BY DEF WritesAsContract
<1>3. Len(S) = 1 /\ S[1].verdict = Continue /\ S[1].row = <<"attribution", op.slot>>
  <2>1. Len(S) = 1 /\ S[1].row = <<"attribution", op.slot>>
    BY SetAttributionShape
  <2> QED BY <1>2, <2>1, PassedRows
<1>4. d.attributions[op.slot].version = op.expected
  BY <1>3, SetAttributionShape, Verdicts DEF Refuse
<1>5. op.slot \in Slots /\ op.payee \in Payees /\ op.expected \in Nat
  BY DEF ValidRequest, ValidAttribution
<1>6. d.attributions[op.slot] \in AttributionRows \cup {NoAttribution}
  BY <1>5 DEF TableSets
<1>7. <<"attribution", op.slot>> \in Inserts(op) \cup Updates(k)
  <2>1. CASE op.expected = 0
    BY <2>1 DEF Inserts
  <2>2. CASE op.expected # 0
    <3>1. d.attributions[op.slot] # NoAttribution
      BY <1>4, <2>2 DEF NoAttribution
    <3>2. Present(d, S[1].row) /\ 1 \in 1..Len(S)
      <4>1. Present(d, <<"attribution", op.slot>>)
        BY <3>1, PresentRows
      <4> QED BY <1>3, <4>1
    <3>3. S[1].row \in k.held
      BY <1>2, <3>2, HeldRows
    <3> QED BY <1>3, <3>3 DEF Updates
  <2> QED BY <2>1, <2>2
<1>8. /\ d2 = [d EXCEPT !.attributions[op.slot] = attribution] /\ Saved(d2, k) = {d2.attributions[op.slot]}
      /\ attribution \in AttributionRows
  BY <1>5 DEF Writes, Saved, Attribution, AttributionRows
<1>9. d2 \in TableSets /\ Consistent(d2) /\ d2.attributions[op.slot] = attribution
  <2> HIDE DEF d2, attribution
  <2> QED BY <1>5, <1>8 DEF TableSets, Consistent
<1>10. Store!Outcome(d, op) = [db |-> d2, answer |-> Ok(Saved(d2, k))]
  <2>1. Store!Outcome(d, op) = [db |-> [d EXCEPT !.attributions[op.slot] = attribution], answer |-> Ok({attribution})]
    BY <1>1, <1>4, Verdicts DEF Store!SetAttribution, Store!Answered, Store!Refuse, Store!Attribution, Attribution
  <2> HIDE DEF d2, attribution
  <2> QED BY <1>8, <1>9, <2>1
<1>11. Changes(d, d2, Inserts(op) \cup Updates(k))
  <2> HIDE DEF d2, attribution
  <2>1. \A s \in Slots : s # op.slot => d2.attributions[s] = d.attributions[s]
    BY <1>8 DEF TableSets
  <2> QED BY <1>7, <1>8, <2>1 DEF TableSets, Changes, SamePresence
<1> QED BY <1>9, <1>10, <1>11

LEMMA SetAttributionKeeps ==
    ASSUME NEW d, NEW d2, NEW T, NEW op, NEW n, op.kind = "SetAttribution", ValidRequest(op)
    PROVE  KeepsStatements(d, d2, T, op, n)
<1> DEFINE S == Statements(d, op)
           S2 == Statements(d2, op)
<1>1. /\ Len(S) = 1 /\ S[1].row = <<"attribution", op.slot>>
      /\ Len(S2) = 1 /\ S2[1].row = <<"attribution", op.slot>>
  BY SetAttributionShape
<1>2. ASSUME Changes(d, d2, T), <<"attribution", op.slot>> \notin T
      PROVE  /\ S2[1].verdict = S[1].verdict
             /\ Present(d2, <<"attribution", op.slot>>) <=> Present(d, <<"attribution", op.slot>>)
  <2>1. d2.attributions[op.slot] = d.attributions[op.slot]
    BY <1>2 DEF Changes, ValidRequest, ValidAttribution
  <2>2. ASSUME NEW t \in {d, d2}
        PROVE  Statements(t, op)[1].verdict =
                 Refuse(t.attributions[op.slot].version # op.expected, "version_conflict", Continue)
    BY SetAttributionShape
  <2>3. S2[1].verdict = S[1].verdict
    BY <2>1, <2>2 DEF Refuse
  <2>4. Present(d2, <<"attribution", op.slot>>) <=> Present(d, <<"attribution", op.slot>>)
    BY <2>1, PresentRows
  <2> QED BY <2>3, <2>4
<1>3. KeepsEach(d, d2, T, op)
  BY <1>1, <1>2 DEF KeepsEach
<1>4. Len(S) \in Nat \ {0} /\ Len(S2) \in Nat
  BY <1>1
<1> QED BY <1>3, <1>4, KeepsPrefix

LEMMA MarkOutboxPublishedShape ==
    ASSUME NEW d, NEW op, op.kind = "MarkOutboxPublished"
    PROVE  LET S == Statements(d, op) IN
           /\ Len(S) = 1 /\ S[1].row = <<"message", op.message>>
           /\ S[1].verdict = IF op.message \in d.published THEN Ok({})
                             ELSE Refuse(op.message \notin d.outbox, "outbox_not_found", Continue)
BY StatementsOf DEF MarkOutboxPublished, Statement

LEMMA MarkOutboxPublishedRefuses ==
    ASSUME NEW d, d \in TableSets, Consistent(d), NEW op, op.kind = "MarkOutboxPublished"
    PROVE  RefusesAsContract(d, op)
<1> DEFINE S == Statements(d, op)
<1>1. Store!Outcome(d, op) = Store!MarkOutboxPublished(d, op)
  BY OutcomeOf
<1>2. S[1].verdict # Continue => S[1].verdict # Unknown /\ Store!Outcome(d, op) = [db |-> d, answer |-> S[1].verdict]
  <2>1. CASE op.message \in d.published
    <3>1. op.message \in d.outbox /\ d.published \cup {op.message} = d.published
      BY <2>1 DEF Consistent
    <3>2. [d EXCEPT !.published = @ \cup {op.message}] = d
      BY <3>1 DEF TableSets
    <3> QED BY <1>1, <2>1, <3>1, <3>2, MarkOutboxPublishedShape, Verdicts
          DEF Store!MarkOutboxPublished, Store!Answered, Store!Refuse, Refuse
  <2>2. CASE op.message \notin d.published
    BY <1>1, <2>2, MarkOutboxPublishedShape, Verdicts
       DEF Store!MarkOutboxPublished, Store!Answered, Store!Refuse, Refuse
  <2> QED BY <2>1, <2>2
<1>3. Len(S) = 1
  BY MarkOutboxPublishedShape
<1> QED BY <1>2, <1>3 DEF RefusesAsContract

LEMMA MarkOutboxPublishedWrites ==
    ASSUME NEW d, NEW k, d \in TableSets, Consistent(d), k.op.kind = "MarkOutboxPublished"
    PROVE  WritesAsContract(d, k)
<1> DEFINE op == k.op
           S == Statements(d, op)
           d2 == Writes(d, k)
<1>1. Store!Outcome(d, op) = Store!MarkOutboxPublished(d, op)
  BY OutcomeOf
<1>2. SUFFICES ASSUME Passed(d, op, Len(S)), HoldsAll(d, k)
               PROVE  /\ Store!Outcome(d, op) = [db |-> d2, answer |-> Ok(Saved(d2, k))]
                      /\ d2 \in TableSets /\ Consistent(d2)
                      /\ Changes(d, d2, Inserts(op) \cup Updates(k))
  BY DEF WritesAsContract
<1>3. Len(S) = 1 /\ S[1].verdict = Continue /\ S[1].row = <<"message", op.message>>
  <2>1. Len(S) = 1 /\ S[1].row = <<"message", op.message>>
    BY MarkOutboxPublishedShape
  <2> QED BY <1>2, <2>1, PassedRows
<1>4. op.message \in d.outbox
  BY <1>3, MarkOutboxPublishedShape, Verdicts DEF Refuse
<1>5. <<"message", op.message>> \in Updates(k)
  <2>1. Present(d, <<"message", op.message>>)
    BY <1>4, PresentRows
  <2>2. 1 \in 1..Len(S) /\ Present(d, S[1].row)
    BY <1>3, <2>1
  <2>3. S[1].row \in k.held
    BY <1>2, <2>2, HeldRows
  <2> QED BY <1>3, <2>3 DEF Updates
<1>6. d2 = [d EXCEPT !.published = @ \cup {op.message}] /\ Saved(d2, k) = {}
  BY DEF Writes, Saved
<1>7. d2 \in TableSets /\ Consistent(d2)
  <2> HIDE DEF d2
  <2> QED BY <1>4, <1>6 DEF TableSets, Consistent
<1>8. Store!Outcome(d, op) = [db |-> d2, answer |-> Ok(Saved(d2, k))]
  BY <1>1, <1>4, <1>6, Verdicts DEF Store!MarkOutboxPublished, Store!Answered, Store!Refuse
<1>9. Changes(d, d2, Inserts(op) \cup Updates(k))
  <2> HIDE DEF d2
  <2>1. \A m \in d.outbox : m # op.message => (m \in d2.published <=> m \in d.published)
    BY <1>6 DEF TableSets
  <2> QED BY <1>5, <1>6, <2>1 DEF TableSets, Changes, SamePresence
<1> QED BY <1>7, <1>8, <1>9

LEMMA MarkOutboxPublishedKeeps ==
    ASSUME NEW d, NEW d2, NEW T, NEW op, NEW n, op.kind = "MarkOutboxPublished"
    PROVE  KeepsStatements(d, d2, T, op, n)
<1> DEFINE S == Statements(d, op)
           S2 == Statements(d2, op)
<1>1. /\ Len(S) = 1 /\ S[1].row = <<"message", op.message>>
      /\ Len(S2) = 1 /\ S2[1].row = <<"message", op.message>>
  BY MarkOutboxPublishedShape
<1>2. ASSUME Changes(d, d2, T), S[1].verdict = Continue, <<"message", op.message>> \notin T
      PROVE  /\ S2[1].verdict = Continue
             /\ Present(d2, <<"message", op.message>>) <=> Present(d, <<"message", op.message>>)
  <2>1. op.message \in d.outbox /\ op.message \notin d.published
    BY <1>2, MarkOutboxPublishedShape, Verdicts DEF Refuse
  <2>2. op.message \in d2.outbox /\ op.message \notin d2.published
    BY <1>2, <2>1 DEF Changes
  <2>3. S2[1].verdict = Continue
    BY <2>2, MarkOutboxPublishedShape DEF Refuse
  <2>4. Present(d2, <<"message", op.message>>) <=> Present(d, <<"message", op.message>>)
    BY <2>1, <2>2, PresentRows
  <2> QED BY <2>3, <2>4
<1>3. KeepsEach(d, d2, T, op)
  BY <1>1, <1>2 DEF KeepsEach
<1>4. Len(S) \in Nat \ {0} /\ Len(S2) \in Nat
  BY <1>1
<1> QED BY <1>3, <1>4, KeepsPrefix

-----------------------------------------------------------------------------
(* Earnings that take an action.                                           *)

LEMMA NextStatuses ==
    ASSUME NEW status, NEW action
    PROVE  NextStatus(status, action) \in (EarningStatuses \ {"pending"}) \cup {"invalid"}
BY DEF NextStatus, EarningStatuses

LEMMA JournalKindType ==
    ASSUME NEW action, NEW next
    PROVE  JournalKind(action, next) \in JournalKinds
BY DEF JournalKind, JournalKinds

\* No stored earning is the missing one, and its fields have their types.
LEMMA EarningFields ==
    ASSUME NEW e \in EarningRows
    PROVE  /\ e # NoEarning /\ e.status \in EarningStatuses /\ e.version \in Nat \ {0}
           /\ e.payee \in Payees /\ e.due \in Nat
BY DEF EarningRows, NoEarning, EarningStatuses

LEMMA MovedRow ==
    ASSUME NEW row \in EarningRows, NEW next \in EarningStatuses
    PROVE  [row EXCEPT !.status = next, !.version = @ + 1] \in EarningRows
<1>1. row.version \in Nat /\ row.version + 1 \in Nat \ {0}
  BY DEF EarningRows
<1> QED BY <1>1 DEF EarningRows

LEMMA MovedType ==
    ASSUME NEW d, d \in TableSets, NEW e \in Earnings, NEW action, d.earnings[e] # NoEarning,
           NextStatus(d.earnings[e].status, action) # "invalid"
    PROVE  /\ Moved(d, e, action) \in EarningRows
           /\ Moved(d, e, action).status = NextStatus(d.earnings[e].status, action)
           /\ Moved(d, e, action).status # "pending"
           /\ Moved(d, e, action).version \in Nat \ {0}
<1>1. d.earnings[e] \in EarningRows
  BY DEF TableSets
<1>2. Moved(d, e, action).status = NextStatus(d.earnings[e].status, action)
  BY <1>1 DEF Moved, EarningRows
<1>3. NextStatus(d.earnings[e].status, action) \in EarningStatuses \ {"pending"}
  BY NextStatuses
<1>4. Moved(d, e, action) \in EarningRows
  <2> DEFINE next == NextStatus(d.earnings[e].status, action)
  <2>1. next \in EarningStatuses
    BY <1>3
  <2>2. Moved(d, e, action) = [d.earnings[e] EXCEPT !.status = next, !.version = @ + 1]
    BY DEF Moved
  <2> HIDE DEF next
  <2> QED BY <1>1, <2>1, <2>2, MovedRow
<1> QED BY <1>2, <1>3, <1>4, EarningFields DEF EarningStatuses

\* The tables t are d after the earnings S took an action.
MovesOnly(d, t, S, action) ==
    /\ t \in TableSets /\ Consistent(t)
    /\ t.template = d.template /\ t.program = d.program /\ t.attributions = d.attributions
    /\ t.events = d.events /\ t.settlements = d.settlements /\ t.published = d.published
    /\ d.outbox \subseteq t.outbox
    /\ \A e \in S : t.earnings[e] = Moved(d, e, action)
    /\ \A e \in Earnings \ S : t.earnings[e] = d.earnings[e]
    /\ \A e \in Earnings : SamePresence(d, t, e)

LEMMA TransitionedTables ==
    ASSUME NEW d, d \in TableSets, Consistent(d), NEW S \in SUBSET Earnings, NEW action,
           \A e \in S : d.earnings[e] # NoEarning /\ NextStatus(d.earnings[e].status, action) # "invalid"
    PROVE  MovesOnly(d, Transitioned(d, S, action), S, action)
<1> DEFINE moved == MovedAll(d, S, action)
           entries == {[earning |-> e, kind |-> JournalKind(action, moved[e].status),
                        version |-> moved[e].version] : e \in S}
           messages == {Message(e, moved[e].status, moved[e].version) : e \in S}
           t == [d EXCEPT !.earnings = moved, !.journal = @ \cup entries, !.outbox = @ \cup messages]
<1>1. t = Transitioned(d, S, action)
  BY DEF Transitioned, Messages
<1>2. \A e \in S : moved[e] = Moved(d, e, action) /\ moved[e] \in EarningRows
  BY MovedType DEF MovedAll
<1>3. \A e \in Earnings \ S : moved[e] = d.earnings[e]
  BY DEF MovedAll
<1>4. moved \in [Earnings -> EarningRows \cup {NoEarning}]
  <2>1. \A e \in Earnings : moved[e] \in EarningRows \cup {NoEarning}
    BY <1>2, <1>3 DEF TableSets
  <2>2. moved = [e \in Earnings |-> moved[e]]
    BY DEF MovedAll
  <2> QED BY <2>1, <2>2
<1>5. entries \subseteq JournalRows
  <2> HIDE DEF moved
  <2>1. ASSUME NEW e \in S PROVE moved[e].version \in Nat \ {0} /\ e \in Earnings
    BY <1>2, EarningFields
  <2> QED BY <2>1, JournalKindType DEF JournalRows
<1>6. messages \subseteq OutboxRows
  <2> HIDE DEF moved
  <2>1. ASSUME NEW e \in S PROVE moved[e].version \in Nat \ {0} /\ moved[e].status \in EarningStatuses /\ e \in Earnings
    BY <1>2, EarningFields
  <2> QED BY <2>1 DEF OutboxRows, Message
<1>7. t \in TableSets
  <2> HIDE DEF moved, entries, messages
  <2> QED BY <1>4, <1>5, <1>6 DEF TableSets
<1>8. /\ t.template = d.template /\ t.program = d.program /\ t.attributions = d.attributions
      /\ t.events = d.events /\ t.settlements = d.settlements /\ t.published = d.published
      /\ d.outbox \subseteq t.outbox /\ t.earnings = moved
  <2> HIDE DEF moved, entries, messages
  <2> QED BY DEF TableSets
<1>9. Consistent(t)
  <2>1. \A x \in Earnings : moved[x] # NoEarning => d.events[SourceOf[x]] # NoFacts
    <3> HIDE DEF moved
    <3> QED BY <1>3 DEF Consistent
  <2> HIDE DEF t, moved
  <2> QED BY <1>8, <2>1 DEF Consistent
<1>10. ASSUME NEW e \in Earnings PROVE SamePresence(d, t, e)
  <2> HIDE DEF t, moved
  <2>1. CASE e \in S
    BY <1>2, <1>8, <2>1, EarningFields DEF SamePresence
  <2>2. CASE e \notin S
    BY <1>3, <1>8, <2>2 DEF SamePresence
  <2> QED BY <2>1, <2>2
<1> HIDE DEF t, moved
<1> QED BY <1>1, <1>2, <1>3, <1>7, <1>8, <1>9, <1>10 DEF MovesOnly

LEMMA TransitionEarningShape ==
    ASSUME NEW d, NEW op, op.kind = "TransitionEarning"
    PROVE  LET S == Statements(d, op)
               earning == d.earnings[op.earning]
           IN /\ Len(S) = 1 /\ S[1].row = <<"earning", op.earning>>
              /\ S[1].verdict = Refuse(earning = NoEarning, "earning_not_found",
                   Refuse(earning.version # op.expected, "version_conflict",
                   Refuse(NextStatus(earning.status, op.action) = "invalid", "invalid_transition", Continue)))
BY StatementsOf DEF TransitionEarning, Statement

LEMMA TransitionEarningRefuses ==
    ASSUME NEW d, NEW op, op.kind = "TransitionEarning"
    PROVE  RefusesAsContract(d, op)
<1> DEFINE S == Statements(d, op)
<1>1. Store!Outcome(d, op) = Store!TransitionEarning(d, op)
  BY OutcomeOf
<1>2. Store!NoEarning = NoEarning /\ \A s, a : Store!NextStatus(s, a) = NextStatus(s, a)
  BY DEF Store!NoEarning, NoEarning, Store!NextStatus, NextStatus
<1>3. S[1].verdict # Continue => S[1].verdict # Unknown /\ Store!Outcome(d, op) = [db |-> d, answer |-> S[1].verdict]
  BY <1>1, <1>2, TransitionEarningShape, Verdicts DEF Store!TransitionEarning, Store!Answered, Store!Refuse, Refuse
<1>4. Len(S) = 1
  BY TransitionEarningShape
<1> QED BY <1>3, <1>4 DEF RefusesAsContract

LEMMA TransitionEarningWrites ==
    ASSUME NEW d, NEW k, d \in TableSets, Consistent(d), k.op.kind = "TransitionEarning", ValidRequest(k.op)
    PROVE  WritesAsContract(d, k)
<1> DEFINE op == k.op
           e == op.earning
           S == Statements(d, op)
           d2 == Writes(d, k)
<1>1. Store!Outcome(d, op) = Store!TransitionEarning(d, op)
  BY OutcomeOf
<1>2. SUFFICES ASSUME Passed(d, op, Len(S)), HoldsAll(d, k)
               PROVE  /\ Store!Outcome(d, op) = [db |-> d2, answer |-> Ok(Saved(d2, k))]
                      /\ d2 \in TableSets /\ Consistent(d2)
                      /\ Changes(d, d2, Inserts(op) \cup Updates(k))
  BY DEF WritesAsContract
<1>3. Len(S) = 1 /\ S[1].verdict = Continue /\ S[1].row = <<"earning", e>>
  <2>1. Len(S) = 1 /\ S[1].row = <<"earning", e>>
    BY TransitionEarningShape
  <2> QED BY <1>2, <2>1, PassedRows
<1>4. /\ d.earnings[e] # NoEarning /\ d.earnings[e].version = op.expected
      /\ NextStatus(d.earnings[e].status, op.action) # "invalid"
  BY <1>3, TransitionEarningShape, Verdicts DEF Refuse
<1>5. <<"earning", e>> \in Updates(k)
  <2>1. Present(d, <<"earning", e>>)
    BY <1>4, PresentRows
  <2>2. 1 \in 1..Len(S) /\ Present(d, S[1].row)
    BY <1>3, <2>1
  <2>3. S[1].row \in k.held
    BY <1>2, <2>2, HeldRows
  <2> QED BY <1>3, <2>3 DEF Updates
<1>6. d2 = Transitioned(d, {e}, op.action) /\ Saved(d2, k) = {d2.earnings[e]} /\ e \in Earnings
  BY DEF Writes, Saved, ValidRequest, ValidMove
<1>7. /\ d2 \in TableSets /\ Consistent(d2)
      /\ d2.template = d.template /\ d2.program = d.program /\ d2.attributions = d.attributions
      /\ d2.events = d.events /\ d2.settlements = d.settlements /\ d2.published = d.published
      /\ d.outbox \subseteq d2.outbox
      /\ d2.earnings[e] = Moved(d, e, op.action)
      /\ \A x \in Earnings \ {e} : d2.earnings[x] = d.earnings[x]
      /\ \A x \in Earnings : SamePresence(d, d2, x)
  <2>1. {e} \in SUBSET Earnings
    BY <1>6
  <2>2. \A x \in {e} : d.earnings[x] # NoEarning /\ NextStatus(d.earnings[x].status, op.action) # "invalid"
    BY <1>4
  <2> HIDE DEF e, op, d2
  <2>3. e \in {e}
    OBVIOUS
  <2>4. MovesOnly(d, Transitioned(d, {e}, op.action), {e}, op.action)
    BY <2>1, <2>2, TransitionedTables
  <2> QED BY <1>6, <2>3, <2>4 DEF MovesOnly
<1>8. Moved(d, e, op.action).status # "pending"
  BY <1>4, <1>6, MovedType
<1>9. Store!Outcome(d, op) = [db |-> d2, answer |-> Ok(Saved(d2, k))]
  <2>1. Store!NoEarning = NoEarning /\ \A s, a : Store!NextStatus(s, a) = NextStatus(s, a)
    BY DEF Store!NoEarning, NoEarning, Store!NextStatus, NextStatus
  <2>2. Store!Transitioned(d, {e}, op.action) = d2 /\ Store!Moved(d, e, op.action) = Moved(d, e, op.action)
    BY <1>6, SameTables
  <2>3. Store!Outcome(d, op) = [db |-> d2, answer |-> Ok({Moved(d, e, op.action)})]
    BY <1>1, <1>4, <2>1, <2>2, Verdicts DEF Store!TransitionEarning, Store!Answered, Store!Refuse
  <2> QED BY <1>6, <1>7, <2>3
<1>10. Changes(d, d2, Inserts(op) \cup Updates(k))
  <2> HIDE DEF d2, e
  <2> QED BY <1>5, <1>6, <1>7, <1>8 DEF Changes
<1> QED BY <1>7, <1>9, <1>10

LEMMA TransitionEarningKeeps ==
    ASSUME NEW d, NEW d2, NEW T, NEW op, NEW n, op.kind = "TransitionEarning", ValidRequest(op)
    PROVE  KeepsStatements(d, d2, T, op, n)
<1> DEFINE S == Statements(d, op)
           S2 == Statements(d2, op)
           e == op.earning
<1>1. /\ Len(S) = 1 /\ S[1].row = <<"earning", e>>
      /\ Len(S2) = 1 /\ S2[1].row = <<"earning", e>>
  BY TransitionEarningShape
<1>2. ASSUME Changes(d, d2, T), S[1].verdict = Continue, <<"earning", e>> \notin T
      PROVE  /\ S2[1].verdict = Continue
             /\ Present(d2, <<"earning", e>>) <=> Present(d, <<"earning", e>>)
  <2>1. /\ d.earnings[e] # NoEarning /\ d.earnings[e].version = op.expected
        /\ NextStatus(d.earnings[e].status, op.action) # "invalid"
    BY <1>2, TransitionEarningShape, Verdicts DEF Refuse
  <2>2. d2.earnings[e] = d.earnings[e]
    BY <1>2, <2>1 DEF Changes, ValidRequest, ValidMove
  <2>3. S2[1].verdict = Continue
    BY <2>1, <2>2, TransitionEarningShape DEF Refuse
  <2>4. Present(d2, <<"earning", e>>) <=> Present(d, <<"earning", e>>)
    BY <2>2, PresentRows
  <2> QED BY <2>3, <2>4
<1>3. KeepsEach(d, d2, T, op)
  BY <1>1, <1>2 DEF KeepsEach
<1>4. Len(S) \in Nat \ {0} /\ Len(S2) \in Nat
  BY <1>1
<1> QED BY <1>3, <1>4, KeepsPrefix

-----------------------------------------------------------------------------
(* Operations that lock a list of earnings.                                *)

LEMMA Headed ==
    ASSUME NEW a, NEW n \in Nat, NEW f, f = [i \in 1..n |-> f[i]]
    PROVE  /\ Len(<<a>> \o f) = n + 1 /\ (<<a>> \o f)[1] = a
           /\ \A i \in 1..n : (<<a>> \o f)[i + 1] = f[i]
           /\ \A i \in 2..(n + 1) : i - 1 \in 1..n /\ (<<a>> \o f)[i] = f[i - 1]
<1> DEFINE T == {a} \cup {f[i] : i \in 1..n}
<1>1. f \in Seq(T) /\ <<a>> \in Seq(T) /\ Len(f) = n
  OBVIOUS
<1>2. /\ Len(<<a>> \o f) = n + 1 /\ (<<a>> \o f)[1] = a
      /\ \A i \in 1..n : (<<a>> \o f)[i + 1] = f[i]
  BY <1>1
<1>3. \A i \in 2..(n + 1) : i - 1 \in 1..n /\ (i - 1) + 1 = i
  OBVIOUS
<1> QED BY <1>2, <1>3

LEMMA SortedLists ==
    ASSUME NEW S, IsFiniteSet(S), S \subseteq Nat
    PROVE  /\ Cardinality(S) \in Nat
           /\ DOMAIN Sorted(S) = 1..Cardinality(S)
           /\ Sorted(S) = [i \in 1..Cardinality(S) |-> Sorted(S)[i]]
           /\ \A i \in 1..Cardinality(S) : Sorted(S)[i] \in S
           /\ \A e \in S : \E i \in 1..Cardinality(S) : Sorted(S)[i] = e
           /\ \A i, j \in 1..Cardinality(S) : i < j => Sorted(S)[i] < Sorted(S)[j]
           /\ \A i \in 1..Cardinality(S) : Cardinality({f \in S : f < Sorted(S)[i]}) = i - 1
<1> DEFINE key == [e \in S |-> 0]
<1>1. key \in [S -> Nat] /\ Sorted(S) = Ordered(S, key)
  BY DEF Sorted
<1>2. \A e \in S : Before(S, key, e) = {f \in S : f < e}
  BY DEF Before
<1> HIDE DEF key
<1>3. /\ Cardinality(S) \in Nat
      /\ Ordered(S, key) = [i \in 1..Cardinality(S) |-> Ordered(S, key)[i]]
      /\ \A i \in 1..Cardinality(S) :
            /\ Ordered(S, key)[i] \in S
            /\ Cardinality(Before(S, key, Ordered(S, key)[i])) = i - 1
      /\ \A e \in S : \E i \in 1..Cardinality(S) : Ordered(S, key)[i] = e
      /\ \A i, j \in 1..Cardinality(S) : i < j =>
            Ordered(S, key)[i] \in Before(S, key, Ordered(S, key)[j])
  BY <1>1, OrderedLists
<1>4. DOMAIN Ordered(S, key) = 1..Cardinality(S)
  BY DEF Ordered
<1>5. ASSUME NEW i \in 1..Cardinality(S), NEW j \in 1..Cardinality(S), i < j
      PROVE  Ordered(S, key)[i] < Ordered(S, key)[j]
  BY <1>2, <1>3, <1>5
<1> QED BY <1>1, <1>2, <1>3, <1>4, <1>5

Unfit(d, op, e) ==
    \/ d.earnings[e].status # "available"
    \/ d.earnings[e].version # op.expected[e]
    \/ d.earnings[e].payee # op.payee

\* StartSettlement reads its batch and then the earnings it claims by identifier.
ClaimShape(d, op) ==
    LET S == Statements(d, op)
        W == DOMAIN op.expected
        n == Cardinality(W)
        o == Sorted(W)
    IN /\ IsFiniteSet(W) /\ W \subseteq Nat /\ n \in Nat
       /\ Len(S) = n + 1 /\ S[1].row = <<"settlement", op.id>>
       /\ S[1].verdict = Refuse(d.settlements[op.id] # NoBatch, "settlement_exists", Continue)
       /\ \A i \in 2..(n + 1) :
             /\ i - 1 \in 1..n /\ o[i - 1] \in W
             /\ S[i].row = <<"earning", o[i - 1]>>
             /\ S[i].verdict = Refuse(Unfit(d, op, o[i - 1]), "earning_unavailable", Continue)
       /\ \A e \in W : \E i \in 2..(n + 1) : o[i - 1] = e

LEMMA StartSettlementShape ==
    ASSUME NEW d, NEW op, op.kind = "StartSettlement", ValidRequest(op)
    PROVE  ClaimShape(d, op)
<1> DEFINE W == DOMAIN op.expected
           n == Cardinality(W)
           o == Sorted(W)
           head == Statement(<<"settlement", op.id>>,
                     Refuse(d.settlements[op.id] # NoBatch, "settlement_exists", Continue))
           tail == [i \in DOMAIN o |-> Statement(<<"earning", o[i]>>,
                                         Refuse(Unfit(d, op, o[i]), "earning_unavailable", Continue))]
<1>1. IsFiniteSet(W) /\ W \subseteq Nat
  <2>1. W \subseteq Earnings
    BY DEF ValidRequest, ValidSettlement
  <2> HIDE DEF W
  <2> QED BY <2>1, FinitenessAssumption, NamesAssumption, FS_Subset
<1>2. /\ n \in Nat /\ DOMAIN o = 1..n
      /\ \A i \in 1..n : o[i] \in W
      /\ \A e \in W : \E i \in 1..n : o[i] = e
  <2> HIDE DEF W
  <2> QED BY <1>1, SortedLists
<1>3. Statements(d, op) = <<head>> \o tail
  <2>1. Statements(d, op) = StartSettlement(d, op)
    BY StatementsOf
  <2> QED BY <2>1 DEF StartSettlement, Unfit
<1>4. /\ head.row = <<"settlement", op.id>>
      /\ head.verdict = Refuse(d.settlements[op.id] # NoBatch, "settlement_exists", Continue)
  BY DEF Statement
<1>5. /\ tail = [i \in 1..n |-> tail[i]]
      /\ \A i \in 1..n : /\ tail[i].row = <<"earning", o[i]>>
                         /\ tail[i].verdict = Refuse(Unfit(d, op, o[i]), "earning_unavailable", Continue)
  <2> HIDE DEF o, n
  <2> QED BY <1>2 DEF Statement
<1> HIDE DEF head, tail, o, n
<1>6. /\ Len(<<head>> \o tail) = n + 1 /\ (<<head>> \o tail)[1] = head
      /\ \A i \in 2..(n + 1) : i - 1 \in 1..n /\ (<<head>> \o tail)[i] = tail[i - 1]
  BY <1>2, <1>5, Headed
<1>7. \A e \in W : \E i \in 2..(n + 1) : o[i - 1] = e
  <2>1. SUFFICES ASSUME NEW e \in W PROVE \E i \in 2..(n + 1) : o[i - 1] = e
    OBVIOUS
  <2>2. PICK i \in 1..n : o[i] = e
    BY <1>2
  <2>3. i + 1 \in 2..(n + 1) /\ (i + 1) - 1 = i
    BY <1>2
  <2> QED BY <2>2, <2>3
<1>8. \A i \in 2..(n + 1) : /\ i - 1 \in 1..n /\ o[i - 1] \in W
                            /\ Statements(d, op)[i].row = <<"earning", o[i - 1]>>
                            /\ Statements(d, op)[i].verdict =
                                  Refuse(Unfit(d, op, o[i - 1]), "earning_unavailable", Continue)
  BY <1>2, <1>3, <1>5, <1>6
<1> QED BY <1>1, <1>2, <1>3, <1>4, <1>6, <1>7, <1>8 DEF n, o, ClaimShape

LEMMA StartSettlementRefuses ==
    ASSUME NEW d, NEW op, op.kind = "StartSettlement", ValidRequest(op)
    PROVE  RefusesAsContract(d, op)
<1> DEFINE S == Statements(d, op)
           W == DOMAIN op.expected
           n == Cardinality(W)
           o == Sorted(W)
<1>s. ClaimShape(d, op)
  BY StartSettlementShape
<1>1. Store!Outcome(d, op) = Store!StartSettlement(d, op)
  BY OutcomeOf
<1>2. Store!NoBatch = NoBatch
  BY DEF Store!NoBatch, NoBatch
<1>v. S[1].verdict = Refuse(d.settlements[op.id] # NoBatch, "settlement_exists", Continue)
  BY <1>s DEF ClaimShape
<1>3. S[1].verdict # Continue =>
        S[1].verdict # Unknown /\ Store!Outcome(d, op) = [db |-> d, answer |-> S[1].verdict]
  BY <1>1, <1>2, <1>v, Verdicts
     DEF Store!StartSettlement, Store!Answered, Store!Refuse, Refuse
<1>4. ASSUME NEW i \in 2..(n + 1), S[1].verdict = Continue, S[i].verdict # Continue
      PROVE  S[i].verdict # Unknown /\ Store!Outcome(d, op) = [db |-> d, answer |-> S[i].verdict]
  <2>1. /\ o[i - 1] \in W /\ S[i].verdict = Refuse(Unfit(d, op, o[i - 1]), "earning_unavailable", Continue)
    BY <1>s DEF ClaimShape
  <2>2. d.settlements[op.id] = NoBatch
    BY <1>4, <1>v, Verdicts DEF Refuse
  <2>3. Unfit(d, op, o[i - 1]) /\ S[i].verdict = Error("earning_unavailable")
    BY <1>4, <2>1 DEF Refuse
  <2>4. \E e \in W : ~(/\ d.earnings[e].status = "available"
                      /\ d.earnings[e].version = op.expected[e]
                      /\ d.earnings[e].payee = op.payee)
    BY <2>1, <2>3 DEF Unfit
  <2> QED BY <1>1, <1>2, <2>2, <2>3, <2>4, Verdicts DEF Store!StartSettlement, Store!Answered, Store!Refuse
<1>5. n \in Nat /\ Len(S) = n + 1
  BY <1>s DEF ClaimShape
<1> QED
  <2> HIDE DEF S, n
  <2>1. \A i \in 1..(n + 1) : i = 1 \/ (i \in 2..(n + 1) /\ 1 \in 1..(i - 1))
    BY <1>5
  <2> QED BY <1>3, <1>4, <1>5, <2>1 DEF RefusesAsContract, S

\* A claim moves its earnings and inserts its batch.
ClaimsOnly(d, t, b, S) ==
    /\ t \in TableSets /\ Consistent(t)
    /\ t.template = d.template /\ t.program = d.program /\ t.attributions = d.attributions
    /\ t.events = d.events /\ t.published = d.published
    /\ d.outbox \subseteq t.outbox
    /\ \A e \in S : t.earnings[e] = Moved(d, e, "start_settlement") /\ t.earnings[e].status # "pending"
    /\ \A e \in Earnings \ S : t.earnings[e] = d.earnings[e]
    /\ \A e \in Earnings : SamePresence(d, t, e)
    /\ \A c \in Settlements \ {b} : t.settlements[c] = d.settlements[c]

LEMMA ClaimedTables ==
    ASSUME NEW d, d \in TableSets, Consistent(d), NEW b \in Settlements,
           NEW S \in (SUBSET Earnings) \ {{}}, \A e \in S : d.earnings[e].status = "available"
    PROVE  ClaimsOnly(d, Claimed(d, b, S), b, S)
<1> DEFINE moved == MovedAll(d, S, "start_settlement")
           message == Message(b, "submitted", 1)
           batch == NewBatch(S)
           t == [d EXCEPT !.settlements[b] = batch, !.earnings = moved, !.outbox = @ \cup {message}]
<1>1. t = Claimed(d, b, S)
  BY DEF Claimed
<1>2. \A e \in S : moved[e] = Moved(d, e, "start_settlement") /\ moved[e] \in EarningRows /\ moved[e].status # "pending"
  <2>1. ASSUME NEW e \in S
        PROVE  d.earnings[e] # NoEarning /\ NextStatus(d.earnings[e].status, "start_settlement") # "invalid"
    BY DEF NoEarning, NextStatus
  <2> QED BY <2>1, MovedType DEF MovedAll
<1>3. \A e \in Earnings \ S : moved[e] = d.earnings[e]
  BY DEF MovedAll
<1>4. moved \in [Earnings -> EarningRows \cup {NoEarning}]
  <2>1. \A e \in Earnings : moved[e] \in EarningRows \cup {NoEarning}
    BY <1>2, <1>3 DEF TableSets
  <2>2. moved = [e \in Earnings |-> moved[e]]
    BY DEF MovedAll
  <2> QED BY <2>1, <2>2
<1>5. batch \in BatchRows /\ message \in OutboxRows
  BY DEF NewBatch, BatchRows, Message, OutboxRows
<1>6. t \in TableSets
  <2> HIDE DEF moved, message, batch
  <2> QED BY <1>4, <1>5 DEF TableSets
<1>7. /\ t.template = d.template /\ t.program = d.program /\ t.attributions = d.attributions
      /\ t.events = d.events /\ t.published = d.published
      /\ d.outbox \subseteq t.outbox /\ t.earnings = moved
      /\ \A c \in Settlements \ {b} : t.settlements[c] = d.settlements[c]
  <2> HIDE DEF moved, message, batch
  <2> QED BY DEF TableSets
<1>8. Consistent(t)
  <2>1. \A x \in Earnings : moved[x] # NoEarning => d.events[SourceOf[x]] # NoFacts
    <3>1. \A x \in S : d.earnings[x] # NoEarning
      BY DEF NoEarning
    <3> HIDE DEF moved
    <3> QED BY <1>3, <3>1 DEF Consistent
  <2> HIDE DEF t, moved
  <2> QED BY <1>7, <2>1 DEF Consistent
<1>9. ASSUME NEW e \in Earnings PROVE SamePresence(d, t, e)
  <2>1. e \in S => d.earnings[e] # NoEarning
    BY DEF NoEarning
  <2> HIDE DEF t, moved
  <2>2. CASE e \in S
    BY <1>2, <1>7, <2>1, <2>2, EarningFields DEF SamePresence
  <2>3. CASE e \notin S
    BY <1>3, <1>7, <2>3 DEF SamePresence
  <2> QED BY <2>2, <2>3
<1> HIDE DEF t, moved
<1> QED BY <1>1, <1>2, <1>3, <1>6, <1>7, <1>8, <1>9 DEF ClaimsOnly

\* A transaction that has read a settlement and then earnings holds the rows
\* that exist.
LEMMA StartSettlementWrites ==
    ASSUME NEW d, NEW k, d \in TableSets, Consistent(d), k.op.kind = "StartSettlement", ValidRequest(k.op)
    PROVE  WritesAsContract(d, k)
<1> DEFINE op == k.op
           S == Statements(d, op)
           W == DOMAIN op.expected
           n == Cardinality(W)
           o == Sorted(W)
           d2 == Writes(d, k)
           b == op.id
<1>s. ClaimShape(d, op)
  BY StartSettlementShape
<1>1. Store!Outcome(d, op) = Store!StartSettlement(d, op)
  BY OutcomeOf
<1>2. SUFFICES ASSUME Passed(d, op, Len(S)), HoldsAll(d, k)
               PROVE  /\ Store!Outcome(d, op) = [db |-> d2, answer |-> Ok(Saved(d2, k))]
                      /\ d2 \in TableSets /\ Consistent(d2)
                      /\ Changes(d, d2, Inserts(op) \cup Updates(k))
  BY DEF WritesAsContract
<1>3. n \in Nat /\ Len(S) = n + 1 /\ \A i \in 1..(n + 1) : S[i].verdict = Continue
  <2>1. n \in Nat /\ Len(S) = n + 1
    BY <1>s DEF ClaimShape
  <2> QED BY <1>2, <2>1, PassedRows
<1>4. d.settlements[b] = NoBatch
  <2>1. S[1].verdict = Continue
    BY <1>3
  <2>2. S[1].verdict = Refuse(d.settlements[b] # NoBatch, "settlement_exists", Continue)
    BY <1>s DEF ClaimShape
  <2> QED BY <2>1, <2>2, Verdicts DEF Refuse
<1>5. ASSUME NEW e \in W
      PROVE  ~Unfit(d, op, e) /\ <<"earning", e>> \in k.held
  <2>1. PICK i \in 2..(n + 1) : o[i - 1] = e
    BY <1>s DEF ClaimShape
  <2>2. i \in 1..(n + 1)
    BY <1>3
  <2>3. S[i].row = <<"earning", e>> /\ S[i].verdict = Refuse(Unfit(d, op, e), "earning_unavailable", Continue)
    BY <1>s, <2>1 DEF ClaimShape
  <2>4. ~Unfit(d, op, e)
    BY <1>3, <2>2, <2>3, Verdicts DEF Refuse
  <2>5. d.earnings[e] # NoEarning
    BY <2>4 DEF Unfit, NoEarning
  <2>6. Present(d, S[i].row)
    <3>1. Present(d, <<"earning", e>>)
      BY <2>5, PresentRows
    <3> QED BY <2>3, <3>1
  <2>7. i \in 1..Len(S)
    <3> HIDE DEF S, n
    <3> QED BY <1>3, <2>2
  <2>8. S[i].row \in k.held
    BY <1>2, <2>6, <2>7, HeldRows
  <2> HIDE DEF S
  <2> QED BY <2>3, <2>4, <2>8
<1>6. /\ d2 = Claimed(d, b, W) /\ Saved(d2, k) = {d2.settlements[b]}
      /\ <<"settlement", b>> \in Inserts(op) /\ Updates(k) = k.held
      /\ b \in Settlements /\ W \in (SUBSET Earnings) \ {{}}
  BY DEF Writes, Saved, Inserts, Updates, ValidRequest, ValidSettlement
<1>7. ClaimsOnly(d, d2, b, W)
  <2>1. \A e \in W : d.earnings[e].status = "available"
    BY <1>5 DEF Unfit
  <2> HIDE DEF W, b, d2
  <2> QED BY <1>6, <2>1, ClaimedTables
<1>8. Store!Outcome(d, op) = [db |-> d2, answer |-> Ok(Saved(d2, k))]
  <2>1. Store!NoBatch = NoBatch /\ Store!Claimed(d, b, W) = d2
    BY <1>6, SameTables DEF Store!NoBatch, NoBatch
  <2>2. ~\E e \in W : ~(/\ d.earnings[e].status = "available"
                       /\ d.earnings[e].version = op.expected[e]
                       /\ d.earnings[e].payee = op.payee)
    BY <1>5 DEF Unfit
  <2>3. Store!Outcome(d, op) = [db |-> d2, answer |-> Ok({d2.settlements[b]})]
    BY <1>1, <1>4, <2>1, <2>2, Verdicts DEF Store!StartSettlement, Store!Answered, Store!Refuse
  <2> QED BY <1>6, <2>3
<1>9. Changes(d, d2, Inserts(op) \cup Updates(k))
  <2> HIDE DEF d2, b, W
  <2>1. \A e \in Earnings : <<"earning", e>> \notin Inserts(op) \cup Updates(k) => e \notin W
    BY <1>5, <1>6
  <2> QED BY <1>6, <1>7, <2>1 DEF Changes, ClaimsOnly
<1> QED BY <1>7, <1>8, <1>9 DEF ClaimsOnly

LEMMA StartSettlementKeeps ==
    ASSUME NEW d, NEW d2, NEW T, NEW op, NEW n, op.kind = "StartSettlement", ValidRequest(op)
    PROVE  KeepsStatements(d, d2, T, op, n)
<1> DEFINE S == Statements(d, op)
           S2 == Statements(d2, op)
           W == DOMAIN op.expected
           m == Cardinality(W)
           o == Sorted(W)
           b == op.id
<1>s. ClaimShape(d, op) /\ ClaimShape(d2, op)
  BY StartSettlementShape
<1>1. m \in Nat /\ Len(S) = m + 1 /\ Len(S2) = m + 1 /\ b \in Settlements /\ W \subseteq Earnings
  BY <1>s DEF ClaimShape, ValidRequest, ValidSettlement
<1>2. ASSUME Changes(d, d2, T), <<"settlement", b>> \notin T
      PROVE  /\ S[1].row = <<"settlement", b>> /\ S2[1].row = <<"settlement", b>>
             /\ S2[1].verdict = S[1].verdict
             /\ Present(d2, <<"settlement", b>>) <=> Present(d, <<"settlement", b>>)
  <2>1. d2.settlements[b] = d.settlements[b]
    BY <1>1, <1>2 DEF Changes
  <2>2. ASSUME NEW t \in {d, d2}
        PROVE  /\ Statements(t, op)[1].row = <<"settlement", b>>
               /\ Statements(t, op)[1].verdict = Refuse(t.settlements[b] # NoBatch, "settlement_exists", Continue)
    BY <1>s DEF ClaimShape
  <2>3. S2[1].verdict = S[1].verdict
    BY <2>1, <2>2 DEF Refuse
  <2>4. Present(d2, <<"settlement", b>>) <=> Present(d, <<"settlement", b>>)
    BY <2>1, PresentRows
  <2> QED BY <2>2, <2>3, <2>4
<1>3. ASSUME NEW i \in 2..(m + 1) PROVE S[i].row = S2[i].row
  <2>1. S[i].row = <<"earning", o[i - 1]>>
    BY <1>s DEF ClaimShape
  <2>2. S2[i].row = <<"earning", o[i - 1]>>
    BY <1>s DEF ClaimShape
  <2> QED BY <2>1, <2>2
<1>4. ASSUME NEW i \in 2..(m + 1), Changes(d, d2, T), S[i].verdict = Continue, S[i].row \notin T
      PROVE  S2[i].verdict = Continue /\ (Present(d2, S[i].row) <=> Present(d, S[i].row))
  <2> DEFINE e == o[i - 1]
  <2>1. /\ e \in W /\ S[i].row = <<"earning", e>>
        /\ S[i].verdict = Refuse(Unfit(d, op, e), "earning_unavailable", Continue)
        /\ S2[i].verdict = Refuse(Unfit(d2, op, e), "earning_unavailable", Continue)
    BY <1>s DEF ClaimShape
  <2> HIDE DEF e
  <2>2. ~Unfit(d, op, e)
    BY <1>4, <2>1, Verdicts DEF Refuse
  <2>3. d.earnings[e] # NoEarning
    BY <2>2 DEF Unfit, NoEarning
  <2>4. d2.earnings[e] = d.earnings[e]
    BY <1>1, <1>4, <2>1, <2>3 DEF Changes
  <2>5. ~Unfit(d2, op, e)
    BY <2>2, <2>4 DEF Unfit
  <2>6. S2[i].verdict = Continue
    BY <2>1, <2>5 DEF Refuse
  <2>7. Present(d2, <<"earning", e>>) <=> Present(d, <<"earning", e>>)
    BY <2>4, PresentRows
  <2> QED BY <2>1, <2>6, <2>7
<1>5. KeepsEach(d, d2, T, op)
  <2>0. S[1].row = <<"settlement", b>>
    BY <1>s DEF ClaimShape
  <2> HIDE DEF S, S2, m
  <2>1. \A i \in 1..(m + 1) : i = 1 \/ i \in 2..(m + 1)
    BY <1>1
  <2> QED BY <1>1, <1>2, <1>3, <1>4, <2>0, <2>1 DEF KeepsEach, S, S2
<1>6. Len(S) \in Nat \ {0} /\ Len(S2) \in Nat
  BY <1>1
<1> QED BY <1>5, <1>6, KeepsPrefix

\* What FinishSettlement makes of the batch it reads.
BatchVerdict(d, op) ==
    LET batch == d.settlements[op.id] IN
    IF batch.status = op.outcome /\ batch.reference = op.reference THEN Ok({batch})
    ELSE Refuse(batch = NoBatch, "settlement_not_found",
         Refuse(batch.status # "submitted", "outcome_conflict",
         Refuse(batch.version # op.expected, "version_conflict", Continue)))

LEMMA BatchEarnings ==
    ASSUME NEW d, d \in TableSets, NEW b \in Settlements
    PROVE  LET E == d.settlements[b].earnings IN
           /\ E \subseteq Earnings /\ IsFiniteSet(E) /\ E \subseteq Nat
<1>1. d.settlements[b] \in BatchRows \cup {NoBatch}
  BY DEF TableSets
<1>2. d.settlements[b].earnings \subseteq Earnings
  BY <1>1 DEF BatchRows, NoBatch
<1> QED BY <1>2, FinitenessAssumption, NamesAssumption, FS_Subset

\* FinishSettlement reads the batch and then its earnings by identifier.
FinishShape(d, op) ==
    LET S == Statements(d, op)
        W == d.settlements[op.id].earnings
        n == Cardinality(W)
        o == Sorted(W)
    IN /\ W \subseteq Earnings /\ n \in Nat
       /\ Len(S) = n + 1 /\ S[1].row = <<"settlement", op.id>>
       /\ S[1].verdict = BatchVerdict(d, op)
       /\ \A i \in 2..(n + 1) :
             /\ i - 1 \in 1..n /\ o[i - 1] \in W
             /\ S[i].row = <<"earning", o[i - 1]>>
             /\ S[i].verdict = Refuse(d.earnings[o[i - 1]].status # "settling", "earning_unavailable", Continue)
       /\ \A e \in W : \E i \in 2..(n + 1) : o[i - 1] = e

LEMMA FinishSettlementShape ==
    ASSUME NEW d, d \in TableSets, NEW op, op.kind = "FinishSettlement", ValidRequest(op)
    PROVE  FinishShape(d, op)
<1> DEFINE W == d.settlements[op.id].earnings
           n == Cardinality(W)
           o == Sorted(W)
           head == Statement(<<"settlement", op.id>>, BatchVerdict(d, op))
           tail == [i \in DOMAIN o |-> Statement(<<"earning", o[i]>>,
                      Refuse(d.earnings[o[i]].status # "settling", "earning_unavailable", Continue))]
<1>1. IsFiniteSet(W) /\ W \subseteq Nat /\ W \subseteq Earnings
  <2>1. op.id \in Settlements
    BY DEF ValidRequest, ValidFinish
  <2> QED BY <2>1, BatchEarnings
<1>2. /\ n \in Nat /\ DOMAIN o = 1..n
      /\ \A i \in 1..n : o[i] \in W
      /\ \A e \in W : \E i \in 1..n : o[i] = e
  <2> HIDE DEF W
  <2> QED BY <1>1, SortedLists
<1>3. Statements(d, op) = <<head>> \o tail
  <2>1. Statements(d, op) = FinishSettlement(d, op)
    BY StatementsOf
  <2> QED BY <2>1 DEF FinishSettlement, BatchVerdict
<1>4. head.row = <<"settlement", op.id>> /\ head.verdict = BatchVerdict(d, op)
  BY DEF Statement
<1>5. /\ tail = [i \in 1..n |-> tail[i]]
      /\ \A i \in 1..n :
            /\ tail[i].row = <<"earning", o[i]>>
            /\ tail[i].verdict = Refuse(d.earnings[o[i]].status # "settling", "earning_unavailable", Continue)
  <2> HIDE DEF o, n
  <2> QED BY <1>2 DEF Statement
<1> HIDE DEF head, tail, o, n
<1>6. /\ Len(<<head>> \o tail) = n + 1 /\ (<<head>> \o tail)[1] = head
      /\ \A i \in 2..(n + 1) : i - 1 \in 1..n /\ (<<head>> \o tail)[i] = tail[i - 1]
  BY <1>2, <1>5, Headed
<1>7. \A e \in W : \E i \in 2..(n + 1) : o[i - 1] = e
  <2>1. SUFFICES ASSUME NEW e \in W PROVE \E i \in 2..(n + 1) : o[i - 1] = e
    OBVIOUS
  <2>2. PICK i \in 1..n : o[i] = e
    BY <1>2
  <2>3. i + 1 \in 2..(n + 1) /\ (i + 1) - 1 = i
    BY <1>2
  <2> QED BY <2>2, <2>3
<1>8. \A i \in 2..(n + 1) :
         /\ i - 1 \in 1..n /\ o[i - 1] \in W
         /\ Statements(d, op)[i].row = <<"earning", o[i - 1]>>
         /\ Statements(d, op)[i].verdict =
               Refuse(d.earnings[o[i - 1]].status # "settling", "earning_unavailable", Continue)
  BY <1>2, <1>3, <1>5, <1>6
<1> QED BY <1>1, <1>2, <1>3, <1>4, <1>6, <1>7, <1>8 DEF n, o, FinishShape

LEMMA FinishSettlementRefuses ==
    ASSUME NEW d, d \in TableSets, NEW op, op.kind = "FinishSettlement", ValidRequest(op)
    PROVE  RefusesAsContract(d, op)
<1> DEFINE S == Statements(d, op)
           batch == d.settlements[op.id]
           W == batch.earnings
           n == Cardinality(W)
           o == Sorted(W)
<1>s. FinishShape(d, op)
  BY FinishSettlementShape
<1>1. Store!Outcome(d, op) = Store!FinishSettlement(d, op)
  BY OutcomeOf
<1>2. Store!NoBatch = NoBatch
  BY DEF Store!NoBatch, NoBatch
<1>3. S[1].verdict = BatchVerdict(d, op)
  BY <1>s DEF FinishShape
<1>4. S[1].verdict # Continue =>
        S[1].verdict # Unknown /\ Store!Outcome(d, op) = [db |-> d, answer |-> S[1].verdict]
  <2> HIDE DEF S
  <2> QED BY <1>1, <1>2, <1>3, Verdicts
          DEF Store!FinishSettlement, Store!Answered, Store!Refuse, Refuse, BatchVerdict
<1>5. ASSUME NEW i \in 2..(n + 1), S[1].verdict = Continue, S[i].verdict # Continue
      PROVE  S[i].verdict # Unknown /\ Store!Outcome(d, op) = [db |-> d, answer |-> S[i].verdict]
  <2>1. /\ o[i - 1] \in W
        /\ S[i].verdict = Refuse(d.earnings[o[i - 1]].status # "settling", "earning_unavailable", Continue)
    BY <1>s DEF FinishShape
  <2>2. /\ ~(batch.status = op.outcome /\ batch.reference = op.reference) /\ batch # NoBatch
        /\ batch.status = "submitted" /\ batch.version = op.expected
    BY <1>3, <1>5, Verdicts DEF Refuse, BatchVerdict
  <2>3. d.earnings[o[i - 1]].status # "settling" /\ S[i].verdict = Error("earning_unavailable")
    BY <1>5, <2>1 DEF Refuse
  <2>4. \E e \in W : d.earnings[e].status # "settling"
    BY <2>1, <2>3
  <2> QED BY <1>1, <1>2, <2>2, <2>3, <2>4, Verdicts DEF Store!FinishSettlement, Store!Answered, Store!Refuse
<1>6. n \in Nat /\ Len(S) = n + 1
  BY <1>s DEF FinishShape
<1> QED
  <2> HIDE DEF S, n
  <2>1. \A i \in 1..(n + 1) : i = 1 \/ (i \in 2..(n + 1) /\ 1 \in 1..(i - 1))
    BY <1>6
  <2> QED BY <1>4, <1>5, <1>6, <2>1 DEF RefusesAsContract, S

\* A conclusion moves the earnings of its batch and updates the batch.
ConcludesOnly(d, t, b, action) ==
    /\ t \in TableSets /\ Consistent(t)
    /\ t.template = d.template /\ t.program = d.program /\ t.attributions = d.attributions
    /\ t.events = d.events /\ t.published = d.published
    /\ d.outbox \subseteq t.outbox
    /\ \A e \in d.settlements[b].earnings : t.earnings[e].status # "pending"
    /\ \A e \in Earnings \ d.settlements[b].earnings : t.earnings[e] = d.earnings[e]
    /\ \A e \in Earnings : SamePresence(d, t, e)
    /\ \A c \in Settlements \ {b} : t.settlements[c] = d.settlements[c]

LEMMA ConcludedTables ==
    ASSUME NEW d, d \in TableSets, Consistent(d), NEW b \in Settlements,
           NEW outcome \in {"settled", "rejected"}, NEW reference \in References \cup {NoReference},
           d.settlements[b] # NoBatch, d.settlements[b].status = "submitted",
           \A e \in d.settlements[b].earnings : d.earnings[e].status = "settling"
    PROVE  ConcludesOnly(d, Concluded(d, b, outcome, reference), b, outcome)
<1> DEFINE batch == d.settlements[b]
           W == batch.earnings
           action == IF outcome = "settled" THEN "settle" ELSE "reject_settlement"
           paid == Transitioned(d, W, action)
           done == [batch EXCEPT !.status = outcome, !.version = @ + 1, !.reference = reference]
           message == Message(b, outcome, batch.version + 1)
           t == [paid EXCEPT !.settlements[b] = done, !.outbox = @ \cup {message}]
<1>1. t = Concluded(d, b, outcome, reference)
  BY DEF Concluded
<1>2. batch \in BatchRows
  BY DEF TableSets
<1>3. W \subseteq Earnings
  BY <1>2 DEF BatchRows
<1>4. \A e \in W : d.earnings[e] # NoEarning /\ NextStatus(d.earnings[e].status, action) # "invalid"
  BY DEF NoEarning, NextStatus
<1>5. MovesOnly(d, paid, W, action)
  <2> HIDE DEF W, action
  <2> QED BY <1>3, <1>4, TransitionedTables
<1>6. \A e \in W : Moved(d, e, action).status # "pending"
  <2> HIDE DEF W, action
  <2> QED BY <1>3, <1>4, MovedType
<1>7. done \in BatchRows /\ message \in OutboxRows
  <2>1. batch.version + 1 \in Nat \ {0}
    BY <1>2 DEF BatchRows
  <2>2. message \in OutboxRows
    BY <2>1 DEF Message, OutboxRows, EarningStatuses
  <2>3. done \in BatchRows
    <3> HIDE DEF batch
    <3> QED BY <1>2, <2>1 DEF BatchRows
  <2> QED BY <2>2, <2>3
<1>8. paid \in TableSets /\ Consistent(paid)
  BY <1>5 DEF MovesOnly
<1>9. t \in TableSets
  <2> HIDE DEF paid, done, message
  <2> QED BY <1>7, <1>8 DEF TableSets
<1>10. /\ t.template = paid.template /\ t.program = paid.program /\ t.attributions = paid.attributions
       /\ t.events = paid.events /\ t.published = paid.published /\ t.earnings = paid.earnings
       /\ paid.outbox \subseteq t.outbox
       /\ \A c \in Settlements \ {b} : t.settlements[c] = paid.settlements[c]
  <2> HIDE DEF paid, done, message
  <2> QED BY <1>8 DEF TableSets
<1>11. Consistent(t)
  <2> HIDE DEF paid, t
  <2> QED BY <1>8, <1>10 DEF Consistent
<1> HIDE DEF t, paid, action
<1> QED BY <1>1, <1>5, <1>6, <1>9, <1>10, <1>11 DEF ConcludesOnly, MovesOnly, SamePresence

LEMMA FinishSettlementWrites ==
    ASSUME NEW d, NEW k, d \in TableSets, Consistent(d), k.op.kind = "FinishSettlement", ValidRequest(k.op)
    PROVE  WritesAsContract(d, k)
<1> DEFINE op == k.op
           S == Statements(d, op)
           b == op.id
           batch == d.settlements[b]
           W == batch.earnings
           n == Cardinality(W)
           o == Sorted(W)
           d2 == Writes(d, k)
<1>1. Store!Outcome(d, op) = Store!FinishSettlement(d, op)
  BY OutcomeOf
<1>0. FinishShape(d, op)
  BY FinishSettlementShape
<1>s. /\ S[1].row = <<"settlement", b>>
      /\ \A j \in 2..(n + 1) :
            /\ S[j].row = <<"earning", o[j - 1]>>
            /\ S[j].verdict = Refuse(d.earnings[o[j - 1]].status # "settling", "earning_unavailable", Continue)
      /\ \A e \in W : \E i \in 2..(n + 1) : o[i - 1] = e
  <2>1. S[1].row = <<"settlement", b>>
    BY <1>0 DEF FinishShape
  <2>2. \A j \in 2..(n + 1) :
            /\ S[j].row = <<"earning", o[j - 1]>>
            /\ S[j].verdict = Refuse(d.earnings[o[j - 1]].status # "settling", "earning_unavailable", Continue)
    BY <1>0 DEF FinishShape
  <2>3. \A e \in W : \E i \in 2..(n + 1) : o[i - 1] = e
    BY <1>0 DEF FinishShape
  <2> QED BY <2>1, <2>2, <2>3
<1>2. SUFFICES ASSUME Passed(d, op, Len(S)), HoldsAll(d, k)
               PROVE  /\ Store!Outcome(d, op) = [db |-> d2, answer |-> Ok(Saved(d2, k))]
                      /\ d2 \in TableSets /\ Consistent(d2)
                      /\ Changes(d, d2, Inserts(op) \cup Updates(k))
  BY DEF WritesAsContract
<1>3. n \in Nat /\ Len(S) = n + 1 /\ \A i \in 1..(n + 1) : S[i].verdict = Continue
  <2>1. n \in Nat /\ Len(S) = n + 1
    BY <1>0 DEF FinishShape
  <2> QED BY <1>2, <2>1, PassedRows
<1>4. /\ ~(batch.status = op.outcome /\ batch.reference = op.reference) /\ batch # NoBatch
      /\ batch.status = "submitted" /\ batch.version = op.expected
  <2>1. S[1].verdict = Continue
    BY <1>3
  <2>2. S[1].verdict = BatchVerdict(d, op)
    BY <1>0 DEF FinishShape
  <2> HIDE DEF S
  <2> QED BY <2>1, <2>2, Verdicts DEF Refuse, BatchVerdict
<1>5. <<"settlement", b>> \in k.held
  <2>1. S[1].row = <<"settlement", b>> /\ 1 \in 1..Len(S)
    <3> HIDE DEF S, n, o
    <3> QED BY <1>3, <1>s
  <2>2. Present(d, <<"settlement", b>>)
    BY <1>4, PresentRows
  <2>3. Present(d, S[1].row)
    BY <2>1, <2>2
  <2> QED BY <1>2, <2>1, <2>3, HeldRows
<1>6. ASSUME NEW e \in W
      PROVE  d.earnings[e].status = "settling" /\ <<"earning", e>> \in k.held
  <2>1. PICK i \in 2..(n + 1) : o[i - 1] = e
    BY <1>s
  <2>2. i \in 1..(n + 1)
    BY <1>3
  <2>3. /\ S[i].row = <<"earning", e>>
        /\ S[i].verdict = Refuse(d.earnings[e].status # "settling", "earning_unavailable", Continue)
    BY <1>s, <2>1
  <2>4. d.earnings[e].status = "settling"
    BY <1>3, <2>2, <2>3, Verdicts DEF Refuse
  <2>5. d.earnings[e] # NoEarning
    BY <2>4 DEF NoEarning
  <2>6. Present(d, S[i].row)
    <3>1. Present(d, <<"earning", e>>)
      BY <2>5, PresentRows
    <3> QED BY <2>3, <3>1
  <2>7. i \in 1..Len(S)
    <3> HIDE DEF S, n
    <3> QED BY <1>3, <2>2
  <2>8. S[i].row \in k.held
    BY <1>2, <2>6, <2>7, HeldRows
  <2> HIDE DEF S
  <2> QED BY <2>3, <2>4, <2>8
<1>7. /\ d2 = Concluded(d, b, op.outcome, op.reference) /\ Saved(d2, k) = {d2.settlements[b]}
      /\ Updates(k) = k.held
      /\ b \in Settlements /\ op.outcome \in {"settled", "rejected"}
      /\ op.reference \in References \cup {NoReference}
  BY DEF Writes, Saved, Updates, ValidRequest, ValidFinish
<1>8. ConcludesOnly(d, d2, b, op.outcome)
  <2> HIDE DEF b, d2, op
  <2> QED BY <1>4, <1>6, <1>7, ConcludedTables
<1>9. Store!Outcome(d, op) = [db |-> d2, answer |-> Ok(Saved(d2, k))]
  <2>1. Store!NoBatch = NoBatch /\ Store!Concluded(d, b, op.outcome, op.reference) = d2
    BY <1>7, SameTables DEF Store!NoBatch, NoBatch
  <2>2. ~\E e \in W : d.earnings[e].status # "settling"
    BY <1>6
  <2>3. Store!Outcome(d, op) = [db |-> d2, answer |-> Ok({d2.settlements[b]})]
    BY <1>1, <1>4, <2>1, <2>2, Verdicts DEF Store!FinishSettlement, Store!Answered, Store!Refuse
  <2> QED BY <1>7, <2>3
<1>10. Changes(d, d2, Inserts(op) \cup Updates(k))
  <2>0. W = d.settlements[b].earnings
    OBVIOUS
  <2> HIDE DEF d2, b, W
  <2>1. \A e \in Earnings : <<"earning", e>> \notin Inserts(op) \cup Updates(k) => e \notin W
    BY <1>6, <1>7
  <2> QED BY <1>5, <1>7, <1>8, <2>0, <2>1 DEF Changes, ConcludesOnly
<1> QED BY <1>8, <1>9, <1>10 DEF ConcludesOnly

LEMMA FinishSettlementKeeps ==
    ASSUME NEW d, d \in TableSets, NEW d2, d2 \in TableSets, NEW T, NEW op, NEW n,
           op.kind = "FinishSettlement", ValidRequest(op)
    PROVE  KeepsStatements(d, d2, T, op, n)
<1> DEFINE S == Statements(d, op)
           S2 == Statements(d2, op)
           b == op.id
           W == d.settlements[b].earnings
           m == Cardinality(W)
           o == Sorted(W)
<1>s. FinishShape(d, op) /\ FinishShape(d2, op)
  BY FinishSettlementShape
<1>1. /\ m \in Nat /\ Len(S) = m + 1 /\ W \subseteq Earnings /\ Len(S2) \in Nat
      /\ S[1].row = <<"settlement", b>>
  <2>1. m \in Nat /\ Len(S) = m + 1 /\ W \subseteq Earnings /\ S[1].row = <<"settlement", b>>
    BY <1>s DEF FinishShape
  <2>2. Len(S2) \in Nat
    <3> DEFINE m2 == Cardinality(d2.settlements[b].earnings)
    <3>1. m2 \in Nat /\ Len(S2) = m2 + 1
      BY <1>s DEF FinishShape
    <3> HIDE DEF m2, S2
    <3> QED BY <3>1
  <2> QED BY <2>1, <2>2
<1>2. b \in Settlements
  BY DEF ValidRequest, ValidFinish
<1>3. SUFFICES ASSUME Changes(d, d2, T), <<"settlement", b>> \notin T PROVE KeepsEach(d, d2, T, op)
  <2>1. KeepsEach(d, d2, T, op)
    BY <1>1, <1>3 DEF KeepsEach
  <2>2. Len(S) \in Nat \ {0}
    BY <1>1
  <2> QED BY <1>1, <2>1, <2>2, KeepsPrefix
<1>4. d2.settlements[b] = d.settlements[b]
  BY <1>2, <1>3 DEF Changes
<1>5. Len(S2) = m + 1
  BY <1>4, <1>s DEF FinishShape
<1>6. S2[1].row = S[1].row /\ S2[1].verdict = S[1].verdict /\ (Present(d2, S[1].row) <=> Present(d, S[1].row))
  <2>1. S2[1].row = S[1].row /\ S2[1].verdict = S[1].verdict
    <3>1. S2[1].row = <<"settlement", b>> /\ S2[1].verdict = BatchVerdict(d2, op) /\ S[1].verdict = BatchVerdict(d, op)
      BY <1>s DEF FinishShape
    <3> QED BY <1>1, <1>4, <3>1 DEF BatchVerdict
  <2>2. Present(d2, <<"settlement", b>>) <=> Present(d, <<"settlement", b>>)
    BY <1>4, PresentRows
  <2> QED BY <1>1, <2>1, <2>2
<1>7. \A i \in 2..(m + 1) :
         /\ o[i - 1] \in W /\ S[i].row = <<"earning", o[i - 1]>>
         /\ S[i].verdict = Refuse(d.earnings[o[i - 1]].status # "settling", "earning_unavailable", Continue)
  BY <1>s DEF FinishShape
<1>8. \A i \in 2..(m + 1) :
         /\ S2[i].row = <<"earning", o[i - 1]>>
         /\ S2[i].verdict = Refuse(d2.earnings[o[i - 1]].status # "settling", "earning_unavailable", Continue)
  <2>1. LET m2 == Cardinality(d2.settlements[b].earnings)
            o2 == Sorted(d2.settlements[b].earnings)
        IN \A i \in 2..(m2 + 1) :
              /\ S2[i].row = <<"earning", o2[i - 1]>>
              /\ S2[i].verdict = Refuse(d2.earnings[o2[i - 1]].status # "settling", "earning_unavailable", Continue)
    BY <1>s DEF FinishShape
  <2> QED BY <1>4, <2>1
<1>9. ASSUME NEW i \in 2..(m + 1), S[i].verdict = Continue, S[i].row \notin T
      PROVE  S2[i].verdict = Continue /\ (Present(d2, S[i].row) <=> Present(d, S[i].row))
  <2> DEFINE e == o[i - 1]
  <2>1. /\ e \in W /\ S[i].row = <<"earning", e>>
        /\ S[i].verdict = Refuse(d.earnings[e].status # "settling", "earning_unavailable", Continue)
        /\ S2[i].verdict = Refuse(d2.earnings[e].status # "settling", "earning_unavailable", Continue)
    BY <1>7, <1>8
  <2> HIDE DEF e, S, S2, m, o
  <2>2. d.earnings[e].status = "settling"
    BY <1>9, <2>1, Verdicts DEF Refuse
  <2>3. d.earnings[e] # NoEarning
    BY <2>2 DEF NoEarning
  <2>4. d2.earnings[e] = d.earnings[e]
    BY <1>1, <1>3, <1>9, <2>1, <2>3 DEF Changes
  <2>6. S2[i].verdict = Continue
    BY <2>1, <2>2, <2>4 DEF Refuse
  <2>7. Present(d2, <<"earning", e>>) <=> Present(d, <<"earning", e>>)
    BY <2>4, PresentRows
  <2> QED BY <2>1, <2>6, <2>7
<1> QED
  <2> HIDE DEF S, S2, m, o
  <2>1. \A i \in 1..(m + 1) : i = 1 \/ i \in 2..(m + 1)
    BY <1>1
  <2>2. \A i \in 2..(m + 1) : S2[i].row = S[i].row
    BY <1>7, <1>8
  <2> QED BY <1>1, <1>5, <1>6, <1>9, <2>1, <2>2 DEF KeepsEach, S, S2

-----------------------------------------------------------------------------
(* CommitEvent, whose first row decides what the others are.               *)

LEMMA Framed ==
    ASSUME NEW a, NEW b, NEW c, NEW n \in Nat, NEW f, f = [i \in 1..n |-> f[i]]
    PROVE  LET S == <<a, b>> \o f \o <<c>> IN
           /\ Len(S) = n + 3 /\ S[1] = a /\ S[2] = b /\ S[n + 3] = c
           /\ \A i \in 3..(n + 2) : i - 2 \in 1..n /\ S[i] = f[i - 2]
<1> DEFINE T == {a, b, c} \cup {f[i] : i \in 1..n}
           g == <<a, b>> \o f
<1>1. f \in Seq(T) /\ <<a, b>> \in Seq(T) /\ <<c>> \in Seq(T) /\ Len(f) = n
  OBVIOUS
<1>2. /\ g \in Seq(T) /\ Len(g) = n + 2 /\ g[1] = a /\ g[2] = b
      /\ \A i \in 3..(n + 2) : i - 2 \in 1..n /\ g[i] = f[i - 2]
  BY <1>1
<1> HIDE DEF g, T
<1>3. /\ Len(g \o <<c>>) = n + 3 /\ (g \o <<c>>)[n + 3] = c
      /\ \A i \in 1..(n + 2) : (g \o <<c>>)[i] = g[i]
  BY <1>1, <1>2
<1> QED BY <1>2, <1>3 DEF g

ProgramVerdict(d, op) ==
    Refuse(d.program.status = "absent", "program_not_found",
    Refuse(d.program.version # op.program, "version_conflict",
    Refuse(d.program.status # "active", "program_not_active", Continue)))

\* A new event: the program, the slots in the order of the rules, the template.
NewEventShape(d, op) ==
    LET S == Statements(d, op)
        r == Len(Rules)
    IN /\ r \in Nat /\ Len(S) = r + 3
       /\ S[2].row = Program /\ S[2].verdict = ProgramVerdict(d, op)
       /\ \A i \in 3..(r + 2) :
             /\ i - 2 \in 1..r /\ Rules[i - 2] \in Slots
             /\ S[i].row = <<"attribution", Rules[i - 2]>>
             /\ S[i].verdict = Refuse(d.attributions[Rules[i - 2]].version # op.slots[Rules[i - 2]],
                                      "version_conflict", Continue)
       /\ S[r + 3].row = Template
       /\ S[r + 3].verdict = Refuse(d.template # "active", "template_not_active", Continue)
\* A recorded event: its earnings by their identifiers, and the answer at the last.
EventVerdict(d, op) ==
    Refuse(d.events[op.source] \notin {NoFacts, op.facts}, "event_conflict",
           IF d.events[op.source] # NoFacts /\ StoredEarnings(d, op.source) = {}
           THEN Ok(EarningsOf(d, op.source)) ELSE Continue)
OldEventShape(d, op) ==
    LET S == Statements(d, op)
        E == StoredEarnings(d, op.source)
        n == Cardinality(E)
    IN /\ IsFiniteSet(E) /\ n \in Nat /\ Len(S) = n + 1
       /\ n = 0 <=> E = {}
       /\ \A i \in 2..(n + 1) :
             /\ i - 1 \in 1..n /\ Sorted(E)[i - 1] \in E
             /\ S[i].row = <<"earning", Sorted(E)[i - 1]>>
             /\ S[i].verdict = IF i = n + 1 THEN Ok(EarningsOf(d, op.source)) ELSE Continue
CommitShape(d, op) ==
    LET S == Statements(d, op) IN
    /\ S[1].row = <<"event", op.source>>
    /\ S[1].verdict = EventVerdict(d, op)
    /\ d.events[op.source] = NoFacts => NewEventShape(d, op)
    /\ d.events[op.source] # NoFacts => OldEventShape(d, op)

LEMMA CommitEventShape ==
    ASSUME NEW d, NEW op, op.kind = "CommitEvent"
    PROVE  CommitShape(d, op)
<1> DEFINE S == Statements(d, op)
           r == Len(Rules)
           found == d.events[op.source]
           E == StoredEarnings(d, op.source)
           list == Sorted(E)
           answer == Ok(EarningsOf(d, op.source))
           event == Statement(<<"event", op.source>>, EventVerdict(d, op))
           stored == [i \in DOMAIN list |-> Statement(<<"earning", list[i]>>,
                                                      IF i = Len(list) THEN answer ELSE Continue)]
           program == Statement(Program, ProgramVerdict(d, op))
           slots == [i \in DOMAIN Rules |-> AttributionIs(d, Rules[i], op.slots[Rules[i]])]
           terms == Statement(Template, Refuse(d.template # "active", "template_not_active", Continue))
<1>1. S = IF found # NoFacts THEN <<event>> \o stored ELSE <<event, program>> \o slots \o <<terms>>
  <2>1. S = CommitEvent(d, op)
    BY StatementsOf
  <2> QED BY <2>1 DEF CommitEvent, ProgramVerdict, EventVerdict
<1>2. r \in Nat /\ DOMAIN Rules = 1..r /\ \A i \in 1..r : Rules[i] \in Slots
  BY RulesAssumption
<1>3. /\ slots = [i \in 1..r |-> slots[i]]
      /\ \A i \in 1..r : slots[i] = AttributionIs(d, Rules[i], op.slots[Rules[i]])
  <2> HIDE DEF r
  <2> QED BY <1>2
<1>4. CASE found # NoFacts
  <2> DEFINE n == Cardinality(E)
  <2>1. IsFiniteSet(E) /\ E \subseteq Nat
    <3>1. E \subseteq Earnings
      BY DEF StoredEarnings
    <3> HIDE DEF E
    <3> QED BY <3>1, FinitenessAssumption, NamesAssumption, FS_Subset
  <2>2. /\ n \in Nat /\ DOMAIN list = 1..n /\ list = [i \in 1..n |-> list[i]]
        /\ \A i \in 1..n : list[i] \in E
        /\ n = 0 <=> E = {}
    <3> HIDE DEF E
    <3> QED BY <2>1, SortedLists, FS_EmptySet
  <2>3. Len(list) = n
    <3> HIDE DEF E, list, n
    <3>1. list \in Seq(E)
      BY <2>2
    <3> QED BY <2>2, <3>1
  <2>4. /\ stored = [i \in 1..n |-> stored[i]]
        /\ \A i \in 1..n : /\ stored[i].row = <<"earning", list[i]>>
                           /\ stored[i].verdict = IF i = n THEN answer ELSE Continue
    <3> HIDE DEF list, n, answer
    <3> QED BY <2>2, <2>3 DEF Statement
  <2>5. /\ Len(S) = n + 1 /\ S[1] = event
        /\ \A i \in 2..(n + 1) : i - 1 \in 1..n /\ S[i] = stored[i - 1]
    <3>1. S = <<event>> \o stored
      BY <1>1, <1>4
    <3> HIDE DEF event, stored, n, S
    <3> QED BY <2>2, <2>4, <3>1, Headed
  <2>6. \A i \in 2..(n + 1) :
           /\ i - 1 \in 1..n /\ list[i - 1] \in E
           /\ S[i].row = <<"earning", list[i - 1]>>
           /\ S[i].verdict = IF i = n + 1 THEN answer ELSE Continue
    <3> HIDE DEF S, stored, list, n, answer, E
    <3> TAKE i \in 2..(n + 1)
    <3>1. i - 1 \in 1..n /\ S[i] = stored[i - 1] /\ (i = n + 1 <=> i - 1 = n)
      BY <2>2, <2>5
    <3> QED BY <2>2, <2>4, <3>1
  <2>7. OldEventShape(d, op)
    BY <2>1, <2>2, <2>5, <2>6 DEF OldEventShape
  <2>8. S[1].row = <<"event", op.source>> /\ S[1].verdict = EventVerdict(d, op)
    <3> HIDE DEF S
    <3> QED BY <2>5 DEF Statement
  <2> QED BY <1>4, <2>7, <2>8 DEF CommitShape
<1>5. CASE found = NoFacts
  <2>1. S = <<event, program>> \o slots \o <<terms>>
    BY <1>1, <1>5
  <2>2. /\ Len(S) = r + 3 /\ S[1] = event /\ S[2] = program /\ S[r + 3] = terms
        /\ \A i \in 3..(r + 2) : i - 2 \in 1..r /\ S[i] = slots[i - 2]
    <3> HIDE DEF event, program, slots, terms, r, S
    <3> QED BY <1>2, <1>3, <2>1, Framed
  <2>3. /\ \A i \in 3..(r + 2) :
             /\ i - 2 \in 1..r /\ Rules[i - 2] \in Slots
             /\ S[i].row = <<"attribution", Rules[i - 2]>>
             /\ S[i].verdict = Refuse(d.attributions[Rules[i - 2]].version # op.slots[Rules[i - 2]],
                                      "version_conflict", Continue)
    <3>1. \A i \in 1..r :
             /\ slots[i].row = <<"attribution", Rules[i]>>
             /\ slots[i].verdict = Refuse(d.attributions[Rules[i]].version # op.slots[Rules[i]],
                                         "version_conflict", Continue)
      <4> HIDE DEF slots, r
      <4> QED BY <1>3 DEF AttributionIs, Statement
    <3> HIDE DEF S, slots, r
    <3> QED BY <1>2, <2>2, <3>1
  <2>4. /\ S[2].row = Program /\ S[2].verdict = ProgramVerdict(d, op)
        /\ S[r + 3].row = Template
        /\ S[r + 3].verdict = Refuse(d.template # "active", "template_not_active", Continue)
        /\ S[1].row = <<"event", op.source>> /\ S[1].verdict = EventVerdict(d, op)
    <3> HIDE DEF S, r
    <3> QED BY <2>2 DEF Statement
  <2>5. NewEventShape(d, op)
    BY <1>2, <2>2, <2>3, <2>4 DEF NewEventShape
  <2> QED BY <1>5, <2>4, <2>5 DEF CommitShape
<1> QED BY <1>4, <1>5

LEMMA CommitEventRefuses ==
    ASSUME NEW d, NEW op, op.kind = "CommitEvent", ValidRequest(op)
    PROVE  RefusesAsContract(d, op)
<1> DEFINE S == Statements(d, op)
           r == Len(Rules)
           found == d.events[op.source]
           Answer(i) == S[i].verdict # Unknown /\ Store!Outcome(d, op) = [db |-> d, answer |-> S[i].verdict]
<1>1. Store!Outcome(d, op) = Store!CommitEvent(d, op)
  BY OutcomeOf
<1>2. CommitShape(d, op)
  BY CommitEventShape
<1>3. op.facts # NoFacts
  BY NamesAssumption DEF ValidRequest, ValidCommit
<1>4. S[1].verdict = EventVerdict(d, op)
  BY <1>2 DEF CommitShape
<1>e. Store!EarningsOf(d, op.source) = EarningsOf(d, op.source)
  BY SameTables
<1>5. S[1].verdict # Continue => Answer(1)
  <2> HIDE DEF S
  <2> QED BY <1>1, <1>4, <1>e, Verdicts DEF Store!CommitEvent, Store!Answered, Store!Refuse, Refuse, EventVerdict
<1>6. CASE found # NoFacts
  <2> DEFINE n == Cardinality(StoredEarnings(d, op.source))
  <2>1. /\ n \in Nat /\ Len(S) = n + 1
        /\ \A i \in 2..(n + 1) :
              S[i].verdict = IF i = n + 1 THEN Ok(EarningsOf(d, op.source)) ELSE Continue
    BY <1>2, <1>6 DEF CommitShape, OldEventShape
  <2> HIDE DEF n, S
  <2>2. ASSUME NEW i \in 2..(n + 1), S[1].verdict = Continue, S[i].verdict # Continue
        PROVE  Answer(i)
    <3>1. found = op.facts
      BY <1>4, <1>6, <2>2, Verdicts DEF Refuse, EventVerdict
    <3>2. S[i].verdict = Ok(EarningsOf(d, op.source))
      BY <2>1, <2>2
    <3> QED BY <1>1, <1>e, <3>1, <3>2, Verdicts DEF Store!CommitEvent
  <2> HIDE DEF Answer
  <2>3. \A i \in 1..(n + 1) : i = 1 \/ (i \in 2..(n + 1) /\ 1 \in 1..(i - 1))
    BY <2>1
  <2>4. ASSUME NEW i \in 1..Len(S), S[i].verdict # Continue, \A j \in 1..(i - 1) : S[j].verdict = Continue
        PROVE  Answer(i)
    BY <1>5, <2>1, <2>2, <2>3, <2>4
  <2> QED BY <2>4 DEF Answer, S, RefusesAsContract
<1>7. CASE found = NoFacts
  <2>1. /\ r \in Nat /\ Len(S) = r + 3 /\ S[2].verdict = ProgramVerdict(d, op)
        /\ S[r + 3].verdict = Refuse(d.template # "active", "template_not_active", Continue)
    BY <1>2, <1>7 DEF CommitShape, NewEventShape
  <2>2. \A i \in 3..(r + 2) :
           /\ i - 2 \in 1..r /\ Rules[i - 2] \in Slots
           /\ S[i].verdict = Refuse(d.attributions[Rules[i - 2]].version # op.slots[Rules[i - 2]],
                                    "version_conflict", Continue)
    BY <1>2, <1>7 DEF CommitShape, NewEventShape
  <2> HIDE DEF S, r
  <2>3. found # op.facts
    BY <1>3, <1>7
  <2>4. S[2].verdict # Continue => Answer(2)
    BY <1>1, <1>7, <2>1, <2>3, Verdicts
       DEF Store!CommitEvent, Store!Answered, Store!Refuse, Refuse, ProgramVerdict
  <2>5. S[2].verdict = Continue =>
          d.program.status = "active" /\ d.program.version = op.program
    BY <2>1, Verdicts DEF Refuse, ProgramVerdict
  <2>6. ASSUME NEW i \in 3..(r + 2), S[2].verdict = Continue, S[i].verdict # Continue PROVE Answer(i)
    <3>1. /\ \E s \in Slots : d.attributions[s].version # op.slots[s]
          /\ S[i].verdict = Error("version_conflict")
      BY <2>2, <2>6 DEF Refuse
    <3> QED BY <1>1, <1>7, <2>3, <2>5, <2>6, <3>1, Verdicts DEF Store!CommitEvent, Store!Answered, Store!Refuse
  <2>7. ASSUME S[2].verdict = Continue, \A i \in 3..(r + 2) : S[i].verdict = Continue, S[r + 3].verdict # Continue
        PROVE  Answer(r + 3)
    <3>1. ASSUME NEW s \in Slots PROVE d.attributions[s].version = op.slots[s]
      <4>1. PICK i \in 1..r : Rules[i] = s
        BY RulesAssumption DEF r
      <4>2. i + 2 \in 3..(r + 2) /\ (i + 2) - 2 = i
        BY <2>1
      <4>3. S[i + 2].verdict = Refuse(d.attributions[s].version # op.slots[s], "version_conflict", Continue)
        BY <2>2, <4>1, <4>2
      <4> QED BY <2>7, <4>2, <4>3, Verdicts DEF Refuse
    <3>2. d.template # "active" /\ S[r + 3].verdict = Error("template_not_active")
      BY <2>1, <2>7 DEF Refuse
    <3> QED BY <1>1, <1>7, <2>3, <2>5, <2>7, <3>1, <3>2, Verdicts DEF Store!CommitEvent, Store!Answered, Store!Refuse
  <2> HIDE DEF Answer
  <2>8. ASSUME NEW i \in 1..(r + 3), S[i].verdict # Continue, \A j \in 1..(i - 1) : S[j].verdict = Continue
        PROVE  Answer(i)
    <3>1. CASE i = 1
      BY <1>5, <2>8, <3>1
    <3>2. CASE i = 2
      BY <2>4, <2>8, <3>2
    <3>3. CASE i \in 3..(r + 2)
      <4>1. 2 \in 1..(i - 1)
        BY <2>1, <3>3
      <4> QED BY <2>6, <2>8, <3>3, <4>1
    <3>4. CASE i = r + 3
      <4>1. 2 \in 1..(i - 1) /\ \A j \in 3..(r + 2) : j \in 1..(i - 1)
        BY <2>1, <3>4
      <4> QED BY <2>7, <2>8, <3>4, <4>1
    <3> QED BY <2>1, <3>1, <3>2, <3>3, <3>4
  <2> QED BY <2>1, <2>8 DEF Answer, S, RefusesAsContract
<1> QED BY <1>6, <1>7

\* A recorded event inserts the event and its earnings.
RecordsOnly(d, t, op) ==
    /\ t \in TableSets /\ Consistent(t)
    /\ t.template = d.template /\ t.program = d.program /\ t.attributions = d.attributions
    /\ t.settlements = d.settlements /\ t.published = d.published
    /\ d.outbox \subseteq t.outbox
    /\ \A x \in Sources \ {op.source} : t.events[x] = d.events[x]
    /\ \A e \in Earnings :
          IF e \in DOMAIN op.earnings
          THEN SourceOf[e] = op.source /\ t.earnings[e] = op.earnings[e] /\ op.earnings[e] \in EarningRows
          ELSE t.earnings[e] = d.earnings[e]

LEMMA RecordedTables ==
    ASSUME NEW d, d \in TableSets, Consistent(d), NEW op, ValidCommit(op)
    PROVE  RecordsOnly(d, Recorded(d, op), op)
<1> DEFINE x == op.source
           new == op.earnings
           earnings == [e \in Earnings |-> IF e \in DOMAIN new THEN new[e] ELSE d.earnings[e]]
           entries == Accruals(new)
           messages == Messages(new, DOMAIN new)
           t == [d EXCEPT !.events[x] = op.facts, !.earnings = earnings,
                          !.journal = @ \cup entries, !.outbox = @ \cup messages]
<1>1. t = Recorded(d, op)
  BY DEF Recorded
<1>2. /\ x \in Sources /\ op.facts \in Facts /\ op.facts # NoFacts
      /\ \A e \in DOMAIN new : e \in Earnings /\ SourceOf[e] = x /\ new[e] \in EarningRows
  BY NamesAssumption DEF ValidCommit
<1> HIDE DEF x, new
<1>3. earnings \in [Earnings -> EarningRows \cup {NoEarning}]
  <2>1. \A e \in Earnings : d.earnings[e] \in EarningRows \cup {NoEarning}
    BY DEF TableSets
  <2> QED BY <1>2, <2>1
<1>4. entries \subseteq JournalRows
  BY <1>2 DEF Accruals, JournalRows, JournalKinds
<1>5. messages \subseteq OutboxRows
  BY <1>2, EarningFields DEF Messages, Message, OutboxRows
<1>6. t \in TableSets
  <2> HIDE DEF earnings, entries, messages
  <2> QED BY <1>2, <1>3, <1>4, <1>5 DEF TableSets
<1>7. /\ t.template = d.template /\ t.program = d.program /\ t.attributions = d.attributions
      /\ t.settlements = d.settlements /\ t.published = d.published /\ d.outbox \subseteq t.outbox
      /\ t.events[x] = op.facts /\ t.earnings = earnings
      /\ \A y \in Sources \ {x} : t.events[y] = d.events[y]
  <2> HIDE DEF earnings, entries, messages
  <2> QED BY <1>2 DEF TableSets
<1>8. \A e \in Earnings : IF e \in DOMAIN new THEN t.earnings[e] = new[e] ELSE t.earnings[e] = d.earnings[e]
  <2> HIDE DEF t
  <2> QED BY <1>7
<1>9. Consistent(t)
  <2> HIDE DEF t, earnings
  <2>1. ASSUME NEW e \in Earnings, t.earnings[e] # NoEarning PROVE t.events[SourceOf[e]] # NoFacts
    <3>1. SourceOf[e] \in Sources
      BY NamesAssumption
    <3>2. SourceOf[e] = x \/ d.earnings[e] # NoEarning
      BY <1>2, <1>8, <2>1
    <3>3. SourceOf[e] = x \/ d.events[SourceOf[e]] # NoFacts
      BY <3>2 DEF Consistent
    <3> QED BY <1>2, <1>7, <3>1, <3>3
  <2> QED BY <1>7, <2>1 DEF Consistent
<1> HIDE DEF t, earnings
<1> QED BY <1>1, <1>2, <1>6, <1>7, <1>8, <1>9 DEF RecordsOnly, x, new

\* A recorded event does not pass: its last statement has the answer.
LEMMA NewEventPassed ==
    ASSUME NEW d, NEW op, op.kind = "CommitEvent", Passed(d, op, Len(Statements(d, op)))
    PROVE  d.events[op.source] = NoFacts
<1> DEFINE S == Statements(d, op)
           n == Cardinality(StoredEarnings(d, op.source))
<1>1. SUFFICES ASSUME d.events[op.source] # NoFacts PROVE FALSE
  OBVIOUS
<1>2. /\ n \in Nat /\ Len(S) = n + 1 /\ (n = 0 <=> StoredEarnings(d, op.source) = {})
      /\ n + 1 \in 2..(n + 1) => S[n + 1].verdict = Ok(EarningsOf(d, op.source))
      /\ S[1].verdict = EventVerdict(d, op)
  BY <1>1, CommitEventShape DEF CommitShape, OldEventShape
<1>3. S[1].verdict = Continue /\ S[n + 1].verdict = Continue
  <2>1. \A i \in 1..Len(S) : S[i].verdict = Continue
    BY DEF Passed
  <2> HIDE DEF S, n
  <2> QED BY <1>2, <2>1
<1> HIDE DEF S, n
<1>4. CASE n = 0
  BY <1>1, <1>2, <1>3, <1>4, Verdicts DEF EventVerdict, Refuse
<1>5. CASE n # 0
  BY <1>2, <1>3, <1>5, Verdicts
<1> QED BY <1>4, <1>5

LEMMA CommitEventWrites ==
    ASSUME NEW d, NEW k, d \in TableSets, Consistent(d), k.op.kind = "CommitEvent", ValidRequest(k.op)
    PROVE  WritesAsContract(d, k)
<1> DEFINE op == k.op
           S == Statements(d, op)
           r == Len(Rules)
           x == op.source
           d2 == Writes(d, k)
<1>1. Store!Outcome(d, op) = Store!CommitEvent(d, op)
  BY OutcomeOf
<1>s. CommitShape(d, op)
  BY CommitEventShape
<1>v. ValidCommit(op)
  BY DEF ValidRequest
<1>2. SUFFICES ASSUME Passed(d, op, Len(S)), HoldsAll(d, k)
               PROVE  /\ Store!Outcome(d, op) = [db |-> d2, answer |-> Ok(Saved(d2, k))]
                      /\ d2 \in TableSets /\ Consistent(d2)
                      /\ Changes(d, d2, Inserts(op) \cup Updates(k))
  BY DEF WritesAsContract
<1>3. d.events[x] = NoFacts
  BY <1>2, NewEventPassed
<1>4. r \in Nat /\ Len(S) = r + 3 /\ \A i \in 1..(r + 3) : S[i].verdict = Continue
  <2>1. r \in Nat /\ Len(S) = r + 3
    BY <1>s, <1>3 DEF CommitShape, NewEventShape
  <2> QED BY <1>2, <2>1, PassedRows
<1>5. /\ d.program.status = "active" /\ d.program.version = op.program /\ d.template = "active"
  <2>1. /\ S[2].verdict = ProgramVerdict(d, op)
        /\ S[r + 3].verdict = Refuse(d.template # "active", "template_not_active", Continue)
    BY <1>s, <1>3 DEF CommitShape, NewEventShape
  <2>2. S[2].verdict = Continue /\ S[r + 3].verdict = Continue
    <3> HIDE DEF S, r
    <3> QED BY <1>4
  <2> HIDE DEF S, r
  <2> QED BY <2>1, <2>2, Verdicts DEF Refuse, ProgramVerdict
<1>6. ASSUME NEW s \in Slots PROVE d.attributions[s].version = op.slots[s]
  <2>1. \A i \in 3..(r + 2) :
           S[i].verdict = Refuse(d.attributions[Rules[i - 2]].version # op.slots[Rules[i - 2]],
                                 "version_conflict", Continue)
    BY <1>s, <1>3 DEF CommitShape, NewEventShape
  <2>2. PICK i \in 1..r : Rules[i] = s
    BY RulesAssumption
  <2> HIDE DEF S, r, op
  <2>3. i + 2 \in 3..(r + 2) /\ (i + 2) - 2 = i /\ i + 2 \in 1..(r + 3)
    BY <1>4
  <2>4. S[i + 2].verdict = Refuse(d.attributions[s].version # op.slots[s], "version_conflict", Continue)
    BY <2>1, <2>2, <2>3
  <2> QED BY <1>4, <2>3, <2>4, Verdicts DEF Refuse
<1>7. /\ d2 = Recorded(d, op) /\ Saved(d2, k) = EarningsOf(d2, x) /\ Updates(k) = {}
      /\ <<"event", x>> \in Inserts(op)
      /\ (\E e \in DOMAIN op.earnings : op.earnings[e].status = "pending") => DueRange \in Inserts(op)
  BY DEF Writes, Saved, Updates, Inserts
<1>8. RecordsOnly(d, d2, op)
  BY <1>7, <1>v, RecordedTables
<1>9. op.facts # NoFacts /\ x \in Sources
  BY <1>v, NamesAssumption DEF ValidCommit
<1>10. Store!Outcome(d, op) = [db |-> d2, answer |-> Ok(Saved(d2, k))]
  <2>1. Store!Recorded(d, op) = d2 /\ Store!EarningsOf(d2, x) = EarningsOf(d2, x)
    BY <1>7, SameTables
  <2>2. ~\E s \in Slots : d.attributions[s].version # op.slots[s]
    BY <1>6
  <2>3. Store!Outcome(d, op) = [db |-> d2, answer |-> Ok(EarningsOf(d2, x))]
    BY <1>1, <1>3, <1>5, <1>9, <2>1, <2>2, Verdicts DEF Store!CommitEvent, Store!Answered, Store!Refuse
  <2> QED BY <1>7, <2>3
<1>11. Changes(d, d2, Inserts(op) \cup Updates(k))
  <2>1. \A e \in DOMAIN op.earnings : e \in Earnings
    BY <1>v DEF ValidCommit
  <2>2. ASSUME NEW e \in Earnings, d.events[SourceOf[e]] # NoFacts \/ d.earnings[e] # NoEarning
        PROVE  d2.earnings[e] = d.earnings[e]
    <3>1. d.events[SourceOf[e]] # NoFacts
      BY <2>2 DEF Consistent
    <3> HIDE DEF d2
    <3> QED BY <1>3, <1>8, <3>1 DEF RecordsOnly
  <2>3. ASSUME NEW e \in Earnings, d2.earnings[e].status = "pending", DueRange \notin Inserts(op)
        PROVE  d2.earnings[e] = d.earnings[e]
    <3> HIDE DEF d2
    <3> QED BY <1>7, <1>8, <2>3 DEF RecordsOnly
  <2> HIDE DEF d2, x
  <2> QED BY <1>3, <1>7, <1>8, <1>9, <2>2, <2>3 DEF Changes, RecordsOnly, SamePresence, x
<1> QED BY <1>8, <1>10, <1>11 DEF RecordsOnly

LEMMA CommitEventKeeps ==
    ASSUME NEW d, NEW d2, NEW T, NEW op, NEW n, op.kind = "CommitEvent", ValidRequest(op)
    PROVE  KeepsStatements(d, d2, T, op, n)
<1> DEFINE S == Statements(d, op)
           S2 == Statements(d2, op)
           r == Len(Rules)
           x == op.source
<1>1. CommitShape(d, op) /\ CommitShape(d2, op)
  BY CommitEventShape
<1>2. x \in Sources /\ S[1].row = <<"event", x>>
  BY <1>1 DEF CommitShape, ValidRequest, ValidCommit
<1>3. SUFFICES ASSUME Changes(d, d2, T), <<"event", x>> \notin T PROVE KeepsEach(d, d2, T, op)
  <2>1. KeepsEach(d, d2, T, op)
    BY <1>2, <1>3 DEF KeepsEach
  <2>2. Len(S) \in Nat \ {0} /\ Len(S2) \in Nat
    <3>1. ASSUME NEW t \in {d, d2} PROVE Len(Statements(t, op)) \in Nat \ {0}
      <4>1. CommitShape(t, op)
        BY <1>1
      <4>2. CASE t.events[x] = NoFacts
        BY <4>1, <4>2 DEF CommitShape, NewEventShape
      <4>3. CASE t.events[x] # NoFacts
        BY <4>1, <4>3 DEF CommitShape, OldEventShape
      <4> QED BY <4>2, <4>3
    <3> QED BY <3>1
  <2> QED BY <2>1, <2>2, KeepsPrefix
<1>4. d2.events[x] = d.events[x]
  BY <1>2, <1>3 DEF Changes
<1>p. d.events[x] # NoFacts => StoredEarnings(d2, x) = StoredEarnings(d, x)
  <2>1. ASSUME NEW e \in Earnings, SourceOf[e] = x, d.events[x] # NoFacts
        PROVE  d2.earnings[e] = NoEarning <=> d.earnings[e] = NoEarning
    BY <1>3, <2>1 DEF Changes, SamePresence
  <2> QED BY <2>1 DEF StoredEarnings
<1>5. /\ S2[1].row = S[1].row /\ (Present(d2, S[1].row) <=> Present(d, S[1].row))
      /\ S[1].verdict = Continue => S2[1].verdict = Continue
  <2>1. S2[1].row = S[1].row /\ S[1].verdict = EventVerdict(d, op) /\ S2[1].verdict = EventVerdict(d2, op)
    BY <1>1 DEF CommitShape
  <2>3. EventVerdict(d, op) = Continue => EventVerdict(d2, op) = Continue
    BY <1>4, <1>p, Verdicts DEF EventVerdict, Refuse
  <2>2. Present(d2, <<"event", x>>) <=> Present(d, <<"event", x>>)
    BY <1>4, PresentRows
  <2> QED BY <1>2, <2>1, <2>2, <2>3
<1>6. CASE d.events[x] # NoFacts
  <2> DEFINE n0 == Cardinality(StoredEarnings(d, x))
             o == Sorted(StoredEarnings(d, x))
  <2>1. /\ n0 \in Nat /\ Len(S) = n0 + 1
        /\ \A i \in 2..(n0 + 1) :
              /\ i - 1 \in 1..n0 /\ o[i - 1] \in StoredEarnings(d, x)
              /\ S[i].row = <<"earning", o[i - 1]>>
              /\ S[i].verdict = IF i = n0 + 1 THEN Ok(EarningsOf(d, x)) ELSE Continue
    BY <1>1, <1>6 DEF CommitShape, OldEventShape
  <2>2. /\ Len(S2) = n0 + 1
        /\ \A i \in 2..(n0 + 1) :
              /\ S2[i].row = <<"earning", o[i - 1]>>
              /\ S2[i].verdict = IF i = n0 + 1 THEN Ok(EarningsOf(d2, x)) ELSE Continue
    BY <1>1, <1>4, <1>6, <1>p DEF CommitShape, OldEventShape
  <2> HIDE DEF S, S2, n0, o
  <2>3. ASSUME NEW i \in 2..(n0 + 1)
        PROVE  /\ S2[i].row = S[i].row
               /\ S[i].verdict = Continue /\ S[i].row \notin T =>
                     S2[i].verdict = Continue /\ (Present(d2, S[i].row) <=> Present(d, S[i].row))
    <3>1. o[i - 1] \in Earnings /\ SourceOf[o[i - 1]] = x
      BY <2>1 DEF StoredEarnings
    <3>2. SamePresence(d, d2, o[i - 1])
      BY <1>3, <1>6, <3>1 DEF Changes
    <3>3. Present(d2, S[i].row) <=> Present(d, S[i].row)
      BY <2>1, <3>2, PresentRows DEF SamePresence
    <3> QED BY <2>1, <2>2, <3>3, Verdicts
  <2>4. \A i \in 1..(n0 + 1) : i = 1 \/ i \in 2..(n0 + 1)
    BY <2>1
  <2> QED BY <1>5, <2>1, <2>2, <2>3, <2>4 DEF KeepsEach, S, S2
<1>7. CASE d.events[x] = NoFacts
  <2>1. NewEventShape(d, op) /\ NewEventShape(d2, op)
    BY <1>1, <1>4, <1>7 DEF CommitShape
  <2>2. /\ r \in Nat /\ Len(S) = r + 3 /\ Len(S2) = r + 3
        /\ S[2].row = Program /\ S2[2].row = Program
        /\ S[2].verdict = ProgramVerdict(d, op) /\ S2[2].verdict = ProgramVerdict(d2, op)
        /\ S[r + 3].row = Template /\ S2[r + 3].row = Template
        /\ S[r + 3].verdict = Refuse(d.template # "active", "template_not_active", Continue)
        /\ S2[r + 3].verdict = Refuse(d2.template # "active", "template_not_active", Continue)
    BY <2>1 DEF NewEventShape
  <2>3. \A i \in 3..(r + 2) :
           /\ Rules[i - 2] \in Slots
           /\ S[i].row = <<"attribution", Rules[i - 2]>>
           /\ S[i].verdict = Refuse(d.attributions[Rules[i - 2]].version # op.slots[Rules[i - 2]],
                                    "version_conflict", Continue)
    BY <2>1 DEF NewEventShape
  <2>4. \A i \in 3..(r + 2) :
           /\ S2[i].row = <<"attribution", Rules[i - 2]>>
           /\ S2[i].verdict = Refuse(d2.attributions[Rules[i - 2]].version # op.slots[Rules[i - 2]],
                                     "version_conflict", Continue)
    BY <2>1 DEF NewEventShape
  <2> HIDE DEF S, S2, r
  <2> DEFINE Kept(i) ==
               /\ S2[i].row = S[i].row
               /\ S[i].verdict = Continue /\ S[i].row \notin T =>
                     S2[i].verdict = Continue /\ (Present(d2, S[i].row) <=> Present(d, S[i].row))
  <2>5. Kept(2)
    <3>1. ASSUME Program \notin T
          PROVE  /\ ProgramVerdict(d2, op) = ProgramVerdict(d, op)
                 /\ Present(d2, Program) <=> Present(d, Program)
      <4>1. d2.program = d.program
        BY <1>3, <3>1 DEF Changes
      <4> QED BY <4>1, PresentRows DEF ProgramVerdict
    <3> QED BY <2>2, <3>1
  <2>6. Kept(r + 3)
    <3>1. ASSUME Template \notin T, S[r + 3].verdict = Continue
          PROVE  S2[r + 3].verdict = Continue /\ (Present(d2, Template) <=> Present(d, Template))
      <4>1. d.template = "active"
        BY <2>2, <3>1, Verdicts DEF Refuse
      <4>2. d2.template = d.template
        BY <1>3, <3>1, <4>1 DEF Changes
      <4>3. Present(d2, Template) <=> Present(d, Template)
        BY <4>2, PresentRows
      <4> QED BY <2>2, <4>1, <4>2, <4>3 DEF Refuse
    <3> QED BY <2>2, <3>1
  <2>7. ASSUME NEW i \in 3..(r + 2) PROVE Kept(i)
    <3> DEFINE s == Rules[i - 2]
    <3>1. /\ s \in Slots /\ S[i].row = <<"attribution", s>> /\ S2[i].row = <<"attribution", s>>
          /\ S[i].verdict = Refuse(d.attributions[s].version # op.slots[s], "version_conflict", Continue)
          /\ S2[i].verdict = Refuse(d2.attributions[s].version # op.slots[s], "version_conflict", Continue)
      BY <2>3, <2>4
    <3> HIDE DEF s
    <3>2. ASSUME <<"attribution", s>> \notin T
          PROVE  /\ S2[i].verdict = S[i].verdict
                 /\ Present(d2, <<"attribution", s>>) <=> Present(d, <<"attribution", s>>)
      <4>1. d2.attributions[s] = d.attributions[s]
        BY <1>3, <3>1, <3>2 DEF Changes
      <4>2. Present(d2, <<"attribution", s>>) <=> Present(d, <<"attribution", s>>)
        BY <4>1, PresentRows
      <4> QED BY <3>1, <4>1, <4>2
    <3> QED BY <3>1, <3>2
  <2>8. Kept(1)
    BY <1>5
  <2>9. \A i \in 1..(r + 3) : i = 1 \/ i = 2 \/ i \in 3..(r + 2) \/ i = r + 3
    BY <2>2
  <2> HIDE DEF Kept
  <2>10. \A i \in 1..(r + 3) : Kept(i)
    BY <2>5, <2>6, <2>7, <2>8, <2>9
  <2> QED BY <2>2, <2>10 DEF Kept, KeepsEach, S, S2
<1> QED BY <1>6, <1>7

-----------------------------------------------------------------------------
(* MakeAvailableDue, which locks what its SELECT has found.                *)

SamePrefix(S, key, S2, key2, p) ==
    /\ IsFiniteSet(S2) /\ Cardinality(S2) \in Nat /\ p <= Cardinality(S2)
    /\ \A i \in 1..p : Ordered(S2, key2)[i] = Ordered(S, key)[i]
    /\ p = Cardinality(S) => S2 = S

\* A list keeps its beginning when only elements behind it are taken away.
LEMMA OrderedPrefix ==
    ASSUME NEW S, IsFiniteSet(S), S \subseteq Nat, NEW key \in [S -> Nat],
           NEW S2, S2 \subseteq S, NEW key2 \in [S2 -> Nat], \A e \in S2 : key2[e] = key[e],
           NEW p \in 0..Cardinality(S), \A i \in 1..p : Ordered(S, key)[i] \in S2
    PROVE  SamePrefix(S, key, S2, key2, p)
<1> DEFINE o == Ordered(S, key)
           o2 == Ordered(S2, key2)
           c == Cardinality(S)
           c2 == Cardinality(S2)
<1>1. IsFiniteSet(S2) /\ S2 \subseteq Nat /\ c2 \in Nat /\ c \in Nat
  BY FS_Subset, FS_CardinalityType
<1>2. /\ \A i \in 1..c : o[i] \in S /\ Cardinality(Before(S, key, o[i])) = i - 1
      /\ \A e \in S : \E i \in 1..c : o[i] = e
  BY OrderedLists
<1>3. \A i \in 1..c2 : o2[i] \in S2 /\ Cardinality(Before(S2, key2, o2[i])) = i - 1
  BY <1>1, OrderedLists
<1>4. /\ \A e \in S2 : Cardinality(Before(S2, key2, e)) \in 0..(c2 - 1)
      /\ \A e, f \in S2 : e # f => Cardinality(Before(S2, key2, f)) # Cardinality(Before(S2, key2, e))
  BY <1>1, Ranks
<1>5. \A e, f \in S : f \in Before(S, key, e) => Cardinality(Before(S, key, f)) < Cardinality(Before(S, key, e))
  BY Ranks
<1> HIDE DEF o, o2, c, c2
<1>6. ASSUME NEW i \in 1..p
      PROVE  o[i] \in S2 /\ Cardinality(Before(S2, key2, o[i])) = i - 1
  <2>1. i \in 1..c /\ o[i] \in S2
    BY <1>1 DEF o, c
  <2>2. ASSUME NEW f \in Before(S, key, o[i]) PROVE f \in S2
    <3>1. f \in S
      BY DEF Before
    <3>2. PICK j \in 1..c : o[j] = f
      BY <1>2, <3>1
    <3>3. j - 1 < i - 1
      BY <1>2, <1>5, <2>1, <3>2
    <3>4. j \in 1..p
      BY <1>1, <3>3 DEF c
    <3> QED BY <3>2, <3>4 DEF o
  <2>3. Before(S2, key2, o[i]) = Before(S, key, o[i])
    <3>1. ASSUME NEW f \in S2 PROVE f \in Before(S2, key2, o[i]) <=> f \in Before(S, key, o[i])
      BY <2>1 DEF Before
    <3>2. Before(S2, key2, o[i]) \subseteq S2
      BY DEF Before
    <3> QED BY <2>2, <3>1, <3>2
  <2> QED BY <1>2, <2>1, <2>3
<1>7. ASSUME NEW i \in 1..p PROVE i \in 1..c2 /\ o2[i] = o[i]
  <2>1. i - 1 \in 0..(c2 - 1)
    BY <1>4, <1>6
  <2>2. i \in 1..c2
    BY <1>1, <2>1
  <2>3. o2[i] \in S2 /\ Cardinality(Before(S2, key2, o2[i])) = i - 1
    BY <1>3, <2>2
  <2> QED BY <1>4, <1>6, <2>2, <2>3
<1>8. p <= c2
  <2>1. CASE p = 0
    BY <1>1, <2>1
  <2>2. CASE p # 0
    <3>1. p \in 1..p
      BY <2>2, <1>1 DEF c
    <3>2. p \in 1..c2
      BY <1>7, <3>1
    <3> QED BY <1>1, <3>2
  <2> QED BY <2>1, <2>2
<1>9. p = c => S2 = S
  BY <1>2, <1>6
<1> QED BY <1>1, <1>7, <1>8, <1>9 DEF o, o2, c, c2, SamePrefix

\* The due earnings, the time each is due, and how many are locked.
DueKey(d, op) == [e \in DueEarnings(d, op) |-> d.earnings[e].due]
DueCount(d, op) ==
    IF Cardinality(DueEarnings(d, op)) <= op.limit THEN Cardinality(DueEarnings(d, op)) ELSE op.limit

DueShape(d, op) ==
    LET S == Statements(d, op)
        m == DueCount(d, op)
        o == Ordered(DueEarnings(d, op), DueKey(d, op))
    IN /\ m \in Nat /\ m <= op.limit /\ m <= Cardinality(DueEarnings(d, op))
       /\ Len(S) = m + 1 /\ S[1].row = DueRange /\ S[1].verdict = Continue
       /\ \A i \in 2..(m + 1) :
             i - 1 \in 1..m /\ S[i].row = <<"earning", o[i - 1]>> /\ S[i].verdict = Continue

LEMMA DueSet ==
    ASSUME NEW d, d \in TableSets, NEW op
    PROVE  LET D == DueEarnings(d, op) IN
           /\ D \subseteq Earnings /\ IsFiniteSet(D) /\ D \subseteq Nat /\ Cardinality(D) \in Nat
           /\ DueKey(d, op) \in [D -> Nat]
           /\ \A e \in D : d.earnings[e] # NoEarning
<1>1. DueEarnings(d, op) \subseteq Earnings
  BY DEF DueEarnings
<1>2. IsFiniteSet(DueEarnings(d, op)) /\ DueEarnings(d, op) \subseteq Nat /\ Cardinality(DueEarnings(d, op)) \in Nat
  BY <1>1, FinitenessAssumption, NamesAssumption, FS_Subset, FS_CardinalityType
<1>3. \A e \in DueEarnings(d, op) : d.earnings[e] # NoEarning
  BY DEF DueEarnings, NoEarning
<1>4. \A e \in DueEarnings(d, op) : d.earnings[e].due \in Nat
  <2>1. \A e \in DueEarnings(d, op) : d.earnings[e] \in EarningRows
    BY <1>1, <1>3 DEF TableSets
  <2> QED BY <2>1, EarningFields
<1> QED BY <1>1, <1>2, <1>3, <1>4 DEF DueKey

LEMMA MakeAvailableDueShape ==
    ASSUME NEW d, d \in TableSets, NEW op, op.kind = "MakeAvailableDue", ValidRequest(op)
    PROVE  DueShape(d, op)
<1> DEFINE D == DueEarnings(d, op)
           m == DueCount(d, op)
           c == Cardinality(D)
           o == Ordered(D, DueKey(d, op))
           due == Due(d, op)
           head == Statement(DueRange, Continue)
           tail == [i \in DOMAIN due |-> Statement(<<"earning", due[i]>>, Continue)]
<1>1. op.limit \in Nat \ {0}
  BY DEF ValidRequest, ValidSweep
<1>2. c \in Nat /\ DOMAIN o = 1..c
  BY DueSet DEF Ordered
<1>3. m \in Nat /\ m <= op.limit /\ m <= c /\ {j \in 1..c : j <= op.limit} = 1..m
  <2> HIDE DEF D
  <2>1. m = IF c <= op.limit THEN c ELSE op.limit
    BY DEF DueCount, D
  <2> HIDE DEF c, m
  <2> QED BY <1>1, <1>2, <2>1
<1>4. due = [i \in 1..m |-> o[i]]
  <2>1. due = [i \in {j \in DOMAIN o : j <= op.limit} |-> o[i]]
    BY DEF Due, Limited, DueKey
  <2> QED BY <1>2, <1>3, <2>1
<1>5. Statements(d, op) = <<head>> \o tail
  <2>1. Statements(d, op) = MakeAvailableDue(d, op)
    BY StatementsOf
  <2> QED BY <2>1 DEF MakeAvailableDue
<1>6. head.row = DueRange /\ head.verdict = Continue
  BY DEF Statement
<1>7. /\ tail = [i \in 1..m |-> tail[i]]
      /\ \A i \in 1..m : tail[i].row = <<"earning", o[i]>> /\ tail[i].verdict = Continue
  <2> HIDE DEF o, m, due
  <2> QED BY <1>4 DEF Statement
<1> HIDE DEF head, tail, o, m, due, c
<1>8. /\ Len(<<head>> \o tail) = m + 1 /\ (<<head>> \o tail)[1] = head
      /\ \A i \in 2..(m + 1) : i - 1 \in 1..m /\ (<<head>> \o tail)[i] = tail[i - 1]
  BY <1>3, <1>7, Headed
<1>9. \A i \in 2..(m + 1) : /\ i - 1 \in 1..m /\ Statements(d, op)[i].row = <<"earning", o[i - 1]>>
                            /\ Statements(d, op)[i].verdict = Continue
  <2>1. SUFFICES ASSUME NEW i \in 2..(m + 1)
                 PROVE  /\ i - 1 \in 1..m /\ Statements(d, op)[i].row = <<"earning", o[i - 1]>>
                        /\ Statements(d, op)[i].verdict = Continue
    OBVIOUS
  <2>2. i - 1 \in 1..m /\ Statements(d, op)[i] = tail[i - 1]
    BY <1>5, <1>8
  <2>3. tail[i - 1].row = <<"earning", o[i - 1]>> /\ tail[i - 1].verdict = Continue
    BY <1>7, <2>2
  <2> QED BY <2>2, <2>3
<1>10. /\ m \in Nat /\ m <= op.limit /\ m <= c
       /\ Len(Statements(d, op)) = m + 1
       /\ Statements(d, op)[1].row = DueRange /\ Statements(d, op)[1].verdict = Continue
  BY <1>3, <1>5, <1>6, <1>8
<1> QED BY <1>9, <1>10 DEF m, o, c, DueShape

LEMMA MakeAvailableDueRefuses ==
    ASSUME NEW d, d \in TableSets, NEW op, op.kind = "MakeAvailableDue", ValidRequest(op)
    PROVE  RefusesAsContract(d, op)
<1> DEFINE S == Statements(d, op)
           m == DueCount(d, op)
<1>1. DueShape(d, op)
  BY MakeAvailableDueShape
<1>2. m \in Nat /\ Len(S) = m + 1 /\ S[1].verdict = Continue /\ \A i \in 2..(m + 1) : S[i].verdict = Continue
  BY <1>1 DEF DueShape
<1> HIDE DEF S, m
<1>3. \A i \in 1..(m + 1) : i = 1 \/ i \in 2..(m + 1)
  BY <1>2
<1>4. \A i \in 1..Len(S) : S[i].verdict = Continue
  BY <1>2, <1>3
<1> QED BY <1>4 DEF S, RefusesAsContract

LEMMA MakeAvailableDueWrites ==
    ASSUME NEW d, NEW k, d \in TableSets, Consistent(d), k.op.kind = "MakeAvailableDue", ValidRequest(k.op)
    PROVE  WritesAsContract(d, k)
<1> DEFINE op == k.op
           S == Statements(d, op)
           D == DueEarnings(d, op)
           key == DueKey(d, op)
           m == DueCount(d, op)
           o == Ordered(D, key)
           H == {e \in Earnings : <<"earning", e>> \in k.held}
           B == {e \in D : Cardinality(Before(D, key, e)) < op.limit}
           d2 == Writes(d, k)
<1>1. Store!Outcome(d, op) = Store!MakeAvailableDue(d, op)
  BY OutcomeOf
<1>s. DueShape(d, op)
  BY MakeAvailableDueShape
<1>a. op.limit \in Nat \ {0}
  BY DEF ValidRequest, ValidSweep
<1>b. D \subseteq Earnings /\ IsFiniteSet(D) /\ D \subseteq Nat /\ key \in [D -> Nat] /\ \A e \in D : d.earnings[e] # NoEarning
  BY DueSet
<1>c. /\ Cardinality(D) \in Nat
      /\ \A i \in 1..Cardinality(D) : o[i] \in D /\ Cardinality(Before(D, key, o[i])) = i - 1
      /\ \A e \in D : \E i \in 1..Cardinality(D) : o[i] = e
  <2> HIDE DEF D, key
  <2> QED BY <1>b, OrderedLists
<1>2. SUFFICES ASSUME Passed(d, op, Len(S)), HoldsAll(d, k)
               PROVE  /\ Store!Outcome(d, op) = [db |-> d2, answer |-> Ok(Saved(d2, k))]
                      /\ d2 \in TableSets /\ Consistent(d2)
                      /\ Changes(d, d2, Inserts(op) \cup Updates(k))
  BY DEF WritesAsContract
<1>3. /\ m \in Nat /\ m <= op.limit /\ m <= Cardinality(D) /\ Len(S) = m + 1 /\ S[1].row = DueRange
      /\ \A i \in 2..(m + 1) : i - 1 \in 1..m /\ S[i].row = <<"earning", o[i - 1]>>
      /\ m = op.limit \/ m = Cardinality(D)
  <2>1. /\ m \in Nat /\ m <= op.limit /\ m <= Cardinality(D) /\ Len(S) = m + 1 /\ S[1].row = DueRange
    BY <1>s DEF DueShape
  <2>2. \A i \in 2..(m + 1) : i - 1 \in 1..m /\ S[i].row = <<"earning", o[i - 1]>>
    BY <1>s DEF DueShape
  <2>3. m = op.limit \/ m = Cardinality(D)
    BY DEF DueCount
  <2> QED BY <2>1, <2>2, <2>3
<1>4. k.held \subseteq {S[i].row : i \in 1..Len(S)} /\ \A i \in 1..Len(S) : Present(d, S[i].row) => S[i].row \in k.held
  BY <1>2 DEF HoldsAll, RowsRead
<1>5. ASSUME NEW i \in 1..m PROVE o[i] \in H /\ o[i] \in B
  <2> HIDE DEF D, o, m, key, S, op
  <2>1. i \in 1..Cardinality(D) /\ i + 1 \in 2..(m + 1) /\ i + 1 \in 1..Len(S) /\ (i + 1) - 1 = i
    BY <1>c, <1>3
  <2>2. o[i] \in D /\ S[i + 1].row = <<"earning", o[i]>> /\ Cardinality(Before(D, key, o[i])) = i - 1
    BY <1>3, <1>c, <2>1
  <2>3. Present(d, <<"earning", o[i]>>)
    BY <1>b, <2>2, PresentRows
  <2>4. <<"earning", o[i]>> \in k.held
    BY <1>4, <2>1, <2>2, <2>3
  <2>5. i - 1 < op.limit
    BY <1>a, <1>3
  <2> QED BY <1>b, <2>2, <2>4, <2>5
<1>6. ASSUME NEW e \in H PROVE e \in B
  <2>1. PICK i \in 1..Len(S) : S[i].row = <<"earning", e>>
    BY <1>4
  <2>2. i # 1
    BY <1>3, <2>1, RowNames
  <2> HIDE DEF D, o, m, key, S, op, H, B
  <2>3. i \in 2..(m + 1) /\ i - 1 \in 1..m
    BY <1>3, <2>1, <2>2
  <2>4. <<"earning", e>> = <<"earning", o[i - 1]>>
    BY <1>3, <2>1, <2>3
  <2>5. e = o[i - 1]
    BY <2>4, RowNames
  <2> QED BY <1>5, <2>3, <2>5
<1>7. ASSUME NEW e \in B PROVE e \in H
  <2>1. PICK i \in 1..Cardinality(D) : o[i] = e
    BY <1>c
  <2>2. i - 1 < op.limit
    BY <1>c, <2>1
  <2> HIDE DEF D, o, m, key, S, op, H, B
  <2>3. i \in 1..m
    BY <1>a, <1>c, <1>3, <2>2
  <2> QED BY <1>5, <2>1, <2>3
<1>8. H = B
  <2> HIDE DEF H, B
  <2> QED BY <1>6, <1>7
<1>9. /\ d2 = Transitioned(d, H, "make_available") /\ Saved(d2, k) = {d2.earnings[e] : e \in H}
      /\ Updates(k) = k.held
  BY DEF Writes, Saved, Updates
<1>10. \A e \in H : d.earnings[e] # NoEarning /\ NextStatus(d.earnings[e].status, "make_available") # "invalid"
  <2>1. \A e \in D : d.earnings[e].status = "pending"
    BY DEF DueEarnings
  <2>2. \A e \in H : e \in D
    BY <1>8
  <2> HIDE DEF D, H
  <2> QED BY <1>b, <2>1, <2>2 DEF NextStatus
<1>11. MovesOnly(d, d2, H, "make_available")
  <2>1. H \in SUBSET Earnings
    OBVIOUS
  <2> HIDE DEF H, d2
  <2> QED BY <1>9, <1>10, <2>1, TransitionedTables
<1>12. \A e \in H : Moved(d, e, "make_available").status # "pending"
  <2>1. H \in SUBSET Earnings
    OBVIOUS
  <2> HIDE DEF H
  <2> QED BY <1>10, <2>1, MovedType
<1>13. Store!Outcome(d, op) = [db |-> d2, answer |-> Ok(Saved(d2, k))]
  <2>1. \A e \in D : Before(D, key, e) =
           {f \in D : \/ d.earnings[f].due < d.earnings[e].due
                      \/ d.earnings[f].due = d.earnings[e].due /\ f < e}
    BY DEF Before, DueKey
  <2>4. Store!MakeAvailableDue(d, op) =
           Store!Reply(Store!Transitioned(d, B, "make_available"), {Store!Moved(d, e, "make_available") : e \in B})
    <3> DEFINE due == {e \in Earnings : d.earnings[e].status = "pending" /\ d.earnings[e].due <= op.now}
               earlier(e) == {f \in due : \/ d.earnings[f].due < d.earnings[e].due
                                          \/ d.earnings[f].due = d.earnings[e].due /\ f < e}
               batch == {e \in due : Store!Cardinality(earlier(e)) < op.limit}
    <3>1. Store!MakeAvailableDue(d, op) =
             Store!Reply(Store!Transitioned(d, batch, "make_available"),
                         {Store!Moved(d, e, "make_available") : e \in batch})
      BY DEF Store!MakeAvailableDue
    <3>2. B = batch
      <4>1. D = due
        BY DEF DueEarnings
      <4>2. \A e \in D : Before(D, key, e) = earlier(e)
        BY <2>1, <4>1
      <4>3. \A X : Store!Cardinality(X) = Cardinality(X)
        BY SameCardinality
      <4> HIDE DEF D, due, earlier
      <4> QED BY <4>1, <4>2, <4>3
    <3> HIDE DEF B, batch
    <3> QED BY <3>1, <3>2
  <2>5. \A e : Store!Moved(d, e, "make_available") = Moved(d, e, "make_available")
    BY SameTables
  <2>6. Store!Transitioned(d, B, "make_available") = d2
    BY <1>8, <1>9, SameTables
  <2>7. Saved(d2, k) = {Moved(d, e, "make_available") : e \in B}
    <3> HIDE DEF H, B, d2
    <3> QED BY <1>8, <1>9, <1>11 DEF MovesOnly
  <2>8. {Store!Moved(d, e, "make_available") : e \in B} = {Moved(d, e, "make_available") : e \in B}
    <3> HIDE DEF B
    <3> QED BY <2>5
  <2> HIDE DEF B, d2
  <2> QED BY <1>1, <2>4, <2>6, <2>7, <2>8, Verdicts
<1>14. Changes(d, d2, Inserts(op) \cup Updates(k))
  <2>1. \A e \in Earnings : <<"earning", e>> \notin Updates(k) => e \notin H
    BY <1>9
  <2>2. H \subseteq Earnings
    OBVIOUS
  <2> HIDE DEF d2, H
  <2> QED BY <1>11, <1>12, <2>1, <2>2 DEF Changes, MovesOnly
<1> QED BY <1>11, <1>13, <1>14 DEF MovesOnly

LEMMA MakeAvailableDueKeeps ==
    ASSUME NEW d, d \in TableSets, NEW d2, d2 \in TableSets, NEW T, NEW op, NEW n,
           op.kind = "MakeAvailableDue", ValidRequest(op)
    PROVE  KeepsStatements(d, d2, T, op, n)
<1> DEFINE S == Statements(d, op)
           S2 == Statements(d2, op)
           D == DueEarnings(d, op)
           D2 == DueEarnings(d2, op)
           key == DueKey(d, op)
           key2 == DueKey(d2, op)
           m == DueCount(d, op)
           m2 == DueCount(d2, op)
           o == Ordered(D, key)
           o2 == Ordered(D2, key2)
           p == n - 1
<1>1. DueShape(d, op) /\ DueShape(d2, op)
  BY MakeAvailableDueShape
<1>2. /\ m \in Nat /\ m <= op.limit /\ m <= Cardinality(D) /\ Len(S) = m + 1 /\ S[1].row = DueRange
      /\ m2 \in Nat /\ Len(S2) = m2 + 1 /\ S2[1].row = DueRange /\ S2[1].verdict = Continue
  BY <1>1 DEF DueShape
<1>3. /\ m = IF Cardinality(D) <= op.limit THEN Cardinality(D) ELSE op.limit
      /\ m2 = IF Cardinality(D2) <= op.limit THEN Cardinality(D2) ELSE op.limit
  BY DEF DueCount
<1>4. \A i \in 2..(m + 1) : i - 1 \in 1..m /\ S[i].row = <<"earning", o[i - 1]>>
  BY <1>1 DEF DueShape
<1>5. \A i \in 2..(m2 + 1) : /\ i - 1 \in 1..m2 /\ S2[i].row = <<"earning", o2[i - 1]>>
                             /\ S2[i].verdict = Continue
  BY <1>1 DEF DueShape
<1>6. /\ D \subseteq Earnings /\ IsFiniteSet(D) /\ D \subseteq Nat /\ Cardinality(D) \in Nat
      /\ key \in [D -> Nat] /\ \A e \in D : d.earnings[e] # NoEarning
  BY DueSet
<1>7. key2 \in [D2 -> Nat]
  BY DueSet
<1>8. op.limit \in Nat \ {0}
  BY DEF ValidRequest, ValidSweep
<1>9. SUFFICES ASSUME Changes(d, d2, T), Untouched(d, op, n, T) PROVE SameStatements(d, d2, op, n)
  <2>1. Len(S) \in Nat \ {0} /\ Len(S2) \in Nat
    BY <1>2
  <2> QED BY <1>9, <2>1, KeepsSome
<1>10. n \in 1..(m + 1) /\ p \in 0..m /\ \A i \in 1..n : S[i].row \notin T
  <2>1. n \in 1..Len(S) /\ \A i \in 1..n : S[i].row \notin T
    BY <1>9 DEF Untouched
  <2> HIDE DEF S, m
  <2> QED BY <1>2, <2>1
<1>11. \A x \in Earnings : d2.earnings[x].status = "pending" => d2.earnings[x] = d.earnings[x]
  <2>1. DueRange \notin T
    <3>1. 1 \in 1..n
      BY <1>2, <1>10
    <3> QED BY <1>2, <1>10, <3>1
  <2> QED BY <1>9, <2>1 DEF Changes
<1>12. D2 \subseteq D /\ \A e \in D2 : key2[e] = key[e]
  <2>1. ASSUME NEW e \in D2 PROVE e \in D /\ d2.earnings[e] = d.earnings[e]
    BY <1>11 DEF DueEarnings
  <2> QED BY <2>1 DEF DueKey
<1>13. /\ Cardinality(D) \in Nat
       /\ \A i \in 1..Cardinality(D) : o[i] \in D
  <2> HIDE DEF D, key
  <2> QED BY <1>6, OrderedLists
<1>14. ASSUME NEW i \in 1..p
       PROVE  /\ o[i] \in D2 /\ d2.earnings[o[i]] = d.earnings[o[i]] /\ o[i] \in Earnings
              /\ i + 1 \in 2..(m + 1) /\ S[i + 1].row = <<"earning", o[i]>>
  <2>1. /\ i + 1 \in 2..(m + 1) /\ i + 1 \in 1..n /\ (i + 1) - 1 = i /\ i \in 1..Cardinality(D)
    <3> HIDE DEF m, D
    <3> QED BY <1>2, <1>10, <1>13
  <2>2. S[i + 1].row = <<"earning", o[i]>> /\ o[i] \in D /\ S[i + 1].row \notin T
    <3> HIDE DEF S, m, o, D
    <3> QED BY <1>4, <1>10, <1>13, <2>1
  <2>3. d2.earnings[o[i]] = d.earnings[o[i]] /\ o[i] \in Earnings
    <3> HIDE DEF S, o, D
    <3> QED BY <1>6, <1>9, <2>2 DEF Changes
  <2>4. o[i] \in D2
    <3> HIDE DEF S, o, m, p
    <3> QED BY <2>2, <2>3 DEF DueEarnings
  <2> QED BY <2>1, <2>2, <2>3, <2>4
<1>15. /\ Cardinality(D2) \in Nat /\ p <= Cardinality(D2)
       /\ \A i \in 1..p : o2[i] = o[i]
       /\ p = Cardinality(D) => D2 = D
  <2>1. p \in 0..Cardinality(D)
    <3> HIDE DEF m, D
    <3> QED BY <1>2, <1>10, <1>13
  <2>2. \A i \in 1..p : Ordered(D, key)[i] \in D2
    BY <1>14
  <2>3. SamePrefix(D, key, D2, key2, p)
    <3> HIDE DEF D, D2, key, key2, p
    <3> QED BY <1>6, <1>7, <1>12, <2>1, <2>2, OrderedPrefix
  <2> QED BY <2>3 DEF SamePrefix
<1> HIDE DEF S, S2, D, D2, key, key2, m, m2, o, o2
<1>16. p <= m2
  BY <1>2, <1>3, <1>8, <1>10, <1>15
<1>17. p = m => m2 = m
  <2>1. CASE Cardinality(D) <= op.limit
    BY <1>3, <1>15, <2>1
  <2>2. CASE ~(Cardinality(D) <= op.limit)
    <3>1. m = op.limit
      BY <1>3, <2>2
    <3> QED BY <1>2, <1>3, <1>8, <1>15, <3>1
  <2> QED BY <2>1, <2>2
<1>18. n <= Len(S2) /\ (n = Len(S) => n = Len(S2))
  BY <1>2, <1>10, <1>16, <1>17
<1>19. ASSUME NEW i \in 1..n
       PROVE  /\ S2[i].verdict = Continue /\ S2[i].row = S[i].row
              /\ Present(d2, S[i].row) <=> Present(d, S[i].row)
  <2>1. CASE i = 1
    BY <1>2, <2>1, PresentRows
  <2>2. CASE i # 1
    <3>1. i - 1 \in 1..p /\ (i - 1) + 1 = i /\ i \in 2..(m2 + 1)
      BY <1>2, <1>10, <1>16, <2>2
    <3>2. /\ S[i].row = <<"earning", o[i - 1]>> /\ d2.earnings[o[i - 1]] = d.earnings[o[i - 1]]
          /\ o2[i - 1] = o[i - 1]
      BY <1>14, <1>15, <3>1
    <3>3. S2[i].row = <<"earning", o2[i - 1]>> /\ S2[i].verdict = Continue
      BY <1>5, <3>1
    <3>4. Present(d2, <<"earning", o[i - 1]>>) <=> Present(d, <<"earning", o[i - 1]>>)
      BY <3>2, PresentRows
    <3> QED BY <3>2, <3>3, <3>4
  <2> QED BY <2>1, <2>2
<1> QED BY <1>18, <1>19 DEF S, S2, SameStatements

-----------------------------------------------------------------------------
(* The operations together.                                                *)

LEMMA MutationRefuses ==
    ASSUME NEW d, d \in TableSets, Consistent(d), NEW op, op.kind \in Mutations, ValidRequest(op)
    PROVE  RefusesAsContract(d, op)
BY TransitionTemplateRefuses, CreateProgramRefuses, TransitionProgramRefuses, SetAttributionRefuses,
   CommitEventRefuses, TransitionEarningRefuses, MakeAvailableDueRefuses, StartSettlementRefuses,
   FinishSettlementRefuses, MarkOutboxPublishedRefuses DEF Mutations

LEMMA MutationWrites ==
    ASSUME NEW d, d \in TableSets, Consistent(d), NEW k, k.op.kind \in Mutations, ValidRequest(k.op)
    PROVE  WritesAsContract(d, k)
BY TransitionTemplateWrites, CreateProgramWrites, TransitionProgramWrites, SetAttributionWrites,
   CommitEventWrites, TransitionEarningWrites, MakeAvailableDueWrites, StartSettlementWrites,
   FinishSettlementWrites, MarkOutboxPublishedWrites DEF Mutations

LEMMA MutationKeeps ==
    ASSUME NEW d, d \in TableSets, NEW d2, d2 \in TableSets, NEW T, NEW n,
           NEW op, op.kind \in Mutations, ValidRequest(op)
    PROVE  KeepsStatements(d, d2, T, op, n)
BY TransitionTemplateKeeps, CreateProgramKeeps, TransitionProgramKeeps, SetAttributionKeeps,
   CommitEventKeeps, TransitionEarningKeeps, MakeAvailableDueKeeps, StartSettlementKeeps,
   FinishSettlementKeeps, MarkOutboxPublishedKeeps DEF Mutations

\* Every mutation reads something.
LEMMA MutationReads ==
    ASSUME NEW d, d \in TableSets, NEW op, op.kind \in Mutations, ValidRequest(op)
    PROVE  Len(Statements(d, op)) \in Nat \ {0}
<1> DEFINE l == Len(Statements(d, op))
<1>1. op.kind = "TransitionTemplate" => l \in Nat \ {0}
  <2>1. op.kind = "TransitionTemplate" => l = Len(TransitionTemplate(d, op))
    BY StatementsOf
  <2>2. Len(TransitionTemplate(d, op)) = 1
    BY DEF TransitionTemplate
  <2> QED BY <2>1, <2>2
<1>2. op.kind = "CreateProgram" => l \in Nat \ {0}
  <2>1. op.kind = "CreateProgram" => l = Len(CreateProgram(d, op))
    BY StatementsOf
  <2>2. Len(CreateProgram(d, op)) = 2
    BY DEF CreateProgram
  <2> QED BY <2>1, <2>2
<1>3. op.kind = "TransitionProgram" => l \in Nat \ {0}
  <2>1. SUFFICES ASSUME op.kind = "TransitionProgram" PROVE l \in Nat \ {0}
    OBVIOUS
  <2>2. l \in {1, 2}
    BY <2>1, TransitionProgramShape
  <2> HIDE DEF l
  <2> QED BY <2>2
<1>4. op.kind = "SetAttribution" => l \in Nat \ {0}
  BY SetAttributionShape
<1>5. op.kind = "CommitEvent" => l \in Nat \ {0}
  <2>1. SUFFICES ASSUME op.kind = "CommitEvent" PROVE l \in Nat \ {0}
    OBVIOUS
  <2>2. CommitShape(d, op)
    BY <2>1, CommitEventShape
  <2>3. CASE d.events[op.source] = NoFacts
    BY <2>2, <2>3 DEF CommitShape, NewEventShape
  <2>4. CASE d.events[op.source] # NoFacts
    BY <2>2, <2>4 DEF CommitShape, OldEventShape
  <2> QED BY <2>3, <2>4
<1>6. op.kind = "TransitionEarning" => l \in Nat \ {0}
  BY TransitionEarningShape
<1>7. op.kind = "MakeAvailableDue" => l \in Nat \ {0}
  BY MakeAvailableDueShape DEF DueShape
<1>8. op.kind = "StartSettlement" => l \in Nat \ {0}
  <2> DEFINE n == Cardinality(DOMAIN op.expected)
  <2>1. op.kind = "StartSettlement" => ClaimShape(d, op)
    BY StartSettlementShape
  <2>2. op.kind = "StartSettlement" => n \in Nat /\ l = n + 1
    BY <2>1 DEF ClaimShape
  <2> HIDE DEF l, n
  <2> QED BY <2>2
<1>9. op.kind = "FinishSettlement" => l \in Nat \ {0}
  <2> DEFINE n == Cardinality(d.settlements[op.id].earnings)
  <2>1. op.kind = "FinishSettlement" => FinishShape(d, op)
    BY FinishSettlementShape
  <2>2. op.kind = "FinishSettlement" => n \in Nat /\ l = n + 1
    BY <2>1 DEF FinishShape
  <2> HIDE DEF l, n
  <2> QED BY <2>2
<1>10. op.kind = "MarkOutboxPublished" => l \in Nat \ {0}
  BY MarkOutboxPublishedShape
<1>11. l \in Nat \ {0}
  <2> HIDE DEF l
  <2> QED BY <1>1, <1>2, <1>3, <1>4, <1>5, <1>6, <1>7, <1>8, <1>9, <1>10 DEF Mutations
<1> QED BY <1>11

\* CreateTemplate touches nothing anybody has locked.
LEMMA TemplateCreated ==
    ASSUME NEW d, d \in TableSets, Consistent(d), NEW op, op.kind = "CreateTemplate"
    PROVE  LET d2 == [d EXCEPT !.template = NewTemplate] IN
           /\ d.template # "absent" =>
                 Store!Outcome(d, op) = [db |-> d, answer |-> Error("template_exists")]
           /\ d.template = "absent" =>
                 /\ Store!Outcome(d, op) = [db |-> d2, answer |-> Ok({})]
                 /\ d2 # d /\ d2 \in TableSets /\ Consistent(d2) /\ Changes(d, d2, {})
<1> DEFINE d2 == [d EXCEPT !.template = NewTemplate]
<1>1. Store!Outcome(d, op) = Store!CreateTemplate(d, op) /\ Store!NewTemplate = NewTemplate
  BY OutcomeOf DEF Store!NewTemplate, NewTemplate
<1>2. d.template # "absent" => Store!Outcome(d, op) = [db |-> d, answer |-> Error("template_exists")]
  BY <1>1, Verdicts DEF Store!CreateTemplate, Store!Answered, Store!Refuse
<1>3. d.template = "absent" => Store!Outcome(d, op) = [db |-> d2, answer |-> Ok({})]
  BY <1>1, Verdicts DEF Store!CreateTemplate, Store!Answered, Store!Refuse
<1>4. d2 \in TableSets /\ Consistent(d2) /\ d2.template = "draft"
  BY DEF TableSets, Consistent, TemplateRows, NewTemplate
<1>5. d.template = "absent" => Changes(d, d2, {})
  BY DEF TableSets, Changes, SamePresence
<1> QED BY <1>2, <1>3, <1>4, <1>5

\* What a lookup of a recorded event answers.
LEMMA LookupAnswers ==
    ASSUME NEW d, NEW op, op.kind = "CommitEvent", ValidRequest(op), d.events[op.source] # NoFacts
    PROVE  Store!Outcome(d, op) =
             [db |-> d, answer |-> IF d.events[op.source] = op.facts THEN Ok(EarningsOf(d, op.source))
                                   ELSE Error("event_conflict")]
<1>1. Store!Outcome(d, op) = Store!CommitEvent(d, op) /\ Store!EarningsOf(d, op.source) = EarningsOf(d, op.source)
  BY OutcomeOf, SameTables
<1> QED BY <1>1, Verdicts DEF Store!CommitEvent, Store!Answered, Store!Refuse

\* What the duplicate-key error of an insert says is what the contract answers.
LEMMA DuplicateAnswers ==
    ASSUME NEW d, d \in TableSets, NEW op, op.kind \in Mutations, ValidRequest(op),
           NEW row \in Inserts(op), Present(d, row)
    PROVE  /\ op.kind \in {"CreateProgram", "SetAttribution", "CommitEvent", "StartSettlement"}
           /\ op.kind = "CreateProgram" => Store!Outcome(d, op) = [db |-> d, answer |-> Error("program_exists")]
           /\ op.kind = "SetAttribution" => Store!Outcome(d, op) = [db |-> d, answer |-> Error("version_conflict")]
           /\ op.kind = "StartSettlement" => Store!Outcome(d, op) = [db |-> d, answer |-> Error("settlement_exists")]
           /\ op.kind = "CommitEvent" => d.events[op.source] # NoFacts
<1>1. op.kind \in {"CreateProgram", "SetAttribution", "CommitEvent", "StartSettlement"}
  BY DEF Inserts
<1>2. op.kind = "CreateProgram" => Store!Outcome(d, op) = [db |-> d, answer |-> Error("program_exists")]
  <2>1. SUFFICES ASSUME op.kind = "CreateProgram"
                 PROVE  Store!Outcome(d, op) = [db |-> d, answer |-> Error("program_exists")]
    OBVIOUS
  <2>2. row = Program
    BY <2>1 DEF Inserts
  <2>3. d.program.status # "absent"
    BY <2>2, PresentRows
  <2>4. Store!Outcome(d, op) = Store!CreateProgram(d, op)
    BY <2>1, OutcomeOf
  <2> QED BY <2>3, <2>4, Verdicts DEF Store!CreateProgram, Store!Answered, Store!Refuse
<1>3. op.kind = "SetAttribution" => Store!Outcome(d, op) = [db |-> d, answer |-> Error("version_conflict")]
  <2>1. SUFFICES ASSUME op.kind = "SetAttribution"
                 PROVE  Store!Outcome(d, op) = [db |-> d, answer |-> Error("version_conflict")]
    OBVIOUS
  <2>2. op.expected = 0 /\ row = <<"attribution", op.slot>> /\ op.slot \in Slots
    BY <2>1 DEF Inserts, ValidRequest, ValidAttribution
  <2>3. d.attributions[op.slot] # NoAttribution
    BY <2>2, PresentRows
  <2>4. d.attributions[op.slot].version # op.expected
    BY <2>2, <2>3 DEF TableSets, AttributionRows
  <2>5. Store!Outcome(d, op) = Store!SetAttribution(d, op)
    BY <2>1, OutcomeOf
  <2> QED BY <2>4, <2>5, Verdicts DEF Store!SetAttribution, Store!Answered, Store!Refuse
<1>4. op.kind = "StartSettlement" => Store!Outcome(d, op) = [db |-> d, answer |-> Error("settlement_exists")]
  <2>1. SUFFICES ASSUME op.kind = "StartSettlement"
                 PROVE  Store!Outcome(d, op) = [db |-> d, answer |-> Error("settlement_exists")]
    OBVIOUS
  <2>2. row = <<"settlement", op.id>>
    BY <2>1 DEF Inserts
  <2>3. d.settlements[op.id] # NoBatch /\ Store!NoBatch = NoBatch
    BY <2>2, PresentRows DEF Store!NoBatch, NoBatch
  <2>4. Store!Outcome(d, op) = Store!StartSettlement(d, op)
    BY <2>1, OutcomeOf
  <2> QED BY <2>3, <2>4, Verdicts DEF Store!StartSettlement, Store!Answered, Store!Refuse
<1>5. op.kind = "CommitEvent" => d.events[op.source] # NoFacts
  <2>1. SUFFICES ASSUME op.kind = "CommitEvent" PROVE d.events[op.source] # NoFacts
    OBVIOUS
  <2>2. row = <<"event", op.source>> \/ row = DueRange
    BY <2>1 DEF Inserts
  <2> QED BY <2>2, PresentRows
<1> QED BY <1>1, <1>2, <1>3, <1>4, <1>5

\* A query answers what the contract answers.
LEMMA QueryAnswers ==
    ASSUME NEW d, NEW op, op.kind \in Queries, ValidRequest(op)
    PROVE  Store!Outcome(d, op) = [db |-> d, answer |-> Selected(d, op)] /\ Selected(d, op) # Unknown
<1> DEFINE Same == Store!Outcome(d, op) = [db |-> d, answer |-> Selected(d, op)] /\ Selected(d, op) # Unknown
<1>0. /\ Store!NoEarning = NoEarning /\ Store!NoBatch = NoBatch /\ Store!NoAttribution = NoAttribution
      /\ \A e : Store!Matches(e, op) = Matches(e, op)
  BY DEF Store!NoEarning, NoEarning, Store!NoBatch, NoBatch, Store!NoAttribution, NoAttribution, Store!Matches, Matches
<1>1. op.kind = "GetTemplate" => Same
  BY PresentRows, Verdicts DEF Store!Outcome, Store!GetTemplate, Store!Found, Selected, GetTemplate, Loaded
<1>2. op.kind = "GetProgram" => Same
  BY PresentRows, Verdicts DEF Store!Outcome, Store!GetProgram, Store!Found, Selected, GetProgram, Loaded
<1>3. op.kind = "GetEarning" => Same
  BY <1>0, PresentRows, Verdicts DEF Store!Outcome, Store!GetEarning, Store!Found, Selected, GetEarning, Loaded
<1>4. op.kind = "GetSettlement" => Same
  BY <1>0, PresentRows, Verdicts DEF Store!Outcome, Store!GetSettlement, Store!Found, Selected, GetSettlement, Loaded
<1>5. op.kind = "ListAttributions" => Same
  <2>1. {t \in Slots : Present(d, <<"attribution", t>>)} = {t \in Slots : d.attributions[t] # Store!NoAttribution}
    BY <1>0, PresentRows
  <2> QED BY <2>1, Verdicts DEF Store!Outcome, Store!ListAttributions, Selected, ListAttributions
<1>6. op.kind = "ListJournalEntries" => Same
  BY Verdicts DEF Store!Outcome, Store!ListJournalEntries, Selected, ListJournalEntries
<1>7. op.kind = "ListOutbox" => Same
  BY Verdicts DEF Store!Outcome, Store!ListOutbox, Selected, ListOutbox
<1>8. op.kind = "ListEarnings" => Same
  <2>1. SUFFICES ASSUME op.kind = "ListEarnings" PROVE Same
    OBVIOUS
  <2> DEFINE M == {e \in Earnings : Matches(d.earnings[e], op) /\ e > op.cursor}
             o == Sorted(M)
             c == Cardinality(M)
             page == {e \in M : op.limit > 0 => Cardinality({f \in M : f < e}) < op.limit}
             list == IF op.limit > 0 THEN Limited(o, op.limit) ELSE o
             Row(e) == [earning |-> e, row |-> d.earnings[e]]
  <2>2. op.limit \in Nat
    BY <2>1 DEF ValidRequest, ValidFilter
  <2>3. IsFiniteSet(M) /\ M \subseteq Nat
    <3>1. M \subseteq Earnings
      OBVIOUS
    <3> HIDE DEF M
    <3> QED BY <3>1, FinitenessAssumption, NamesAssumption, FS_Subset
  <2>4. /\ c \in Nat /\ DOMAIN o = 1..c
        /\ \A i \in 1..c : o[i] \in M
        /\ \A e \in M : \E i \in 1..c : o[i] = e
        /\ \A i \in 1..c : Cardinality({f \in M : f < o[i]}) = i - 1
    <3> HIDE DEF M
    <3> QED BY <2>3, SortedLists
  <2>5. Selected(d, op) = Ok({Row(list[i]) : i \in DOMAIN list})
    BY <2>1 DEF Selected, ListEarnings
  <2>6. Store!Outcome(d, op) = [db |-> d, answer |-> Ok({Row(e) : e \in page})]
    <3> DEFINE spage == {e \in M : op.limit > 0 => Store!Cardinality({f \in M : f < e}) < op.limit}
    <3>1. M = {e \in Earnings : Store!Matches(d.earnings[e], op) /\ e > op.cursor}
      BY <1>0
    <3>2. Store!Outcome(d, op) = Store!Reply(d, {Row(e) : e \in spage})
      BY <2>1, <3>1 DEF Store!Outcome, Store!ListEarnings
    <3>3. spage = page
      <4> HIDE DEF M
      <4> QED BY SameCardinality
    <3> HIDE DEF M, page, spage, Row
    <3> QED BY <3>2, <3>3, Verdicts
  <2>7. page = {list[i] : i \in DOMAIN list}
    <3> HIDE DEF M, o, c
    <3>1. CASE op.limit > 0
      <4>1. list = [i \in {j \in DOMAIN o : j <= op.limit} |-> o[i]]
        BY <3>1 DEF Limited
      <4>2. {list[i] : i \in DOMAIN list} = {o[i] : i \in {j \in 1..c : j <= op.limit}}
        <5> HIDE DEF list
        <5> QED BY <2>4, <4>1
      <4>3. ASSUME NEW i \in 1..c PROVE o[i] \in page <=> i <= op.limit
        <5>1. o[i] \in M /\ Cardinality({f \in M : f < o[i]}) = i - 1
          BY <2>4
        <5>2. o[i] \in page <=> Cardinality({f \in M : f < o[i]}) < op.limit
          BY <3>1, <5>1
        <5> HIDE DEF page
        <5>3. i - 1 < op.limit <=> i <= op.limit
          BY <2>2, <2>4
        <5> QED BY <5>1, <5>2, <5>3
      <4>4. page \subseteq M
        OBVIOUS
      <4> HIDE DEF page
      <4> QED BY <2>4, <4>2, <4>3, <4>4
    <3>2. CASE ~(op.limit > 0)
      BY <2>4, <3>2
    <3> QED BY <3>1, <3>2
  <2>8. {Row(e) : e \in page} = {Row(list[i]) : i \in DOMAIN list}
    <3> HIDE DEF page, list, Row
    <3> QED BY <2>7
  <2> QED BY <2>5, <2>6, <2>8, Verdicts
<1> QED BY <1>1, <1>2, <1>3, <1>4, <1>5, <1>6, <1>7, <1>8 DEF Queries

-----------------------------------------------------------------------------
(* The inductive invariant.                                                *)

HasFields(k) ==
    k = [op |-> k.op, stage |-> k.stage, attempt |-> k.attempt, at |-> k.at, held |-> k.held,
         gaps |-> k.gaps, snapshot |-> k.snapshot, effect |-> k.effect, answer |-> k.answer]

\* What a transaction has read so far is what it would read now, every statement
\* goes on, and the rows are held.
Established(d, k, mode) ==
    LET read == RowsRead(d, k.op, k.at - 1) IN
    /\ Passed(d, k.op, k.at - 1)
    /\ mode = "locking" => /\ k.held = {r \in read : Present(d, r)}
                           /\ k.gaps = {r \in read : ~Present(d, r)}
    /\ mode = "snapshot" => k.held = read /\ k.at \in {1, Len(Statements(d, k.op)) + 1}

\* A transaction on a snapshot that was overwritten cannot commit.
Running(d, k, mode) ==
    /\ k.op.kind \in Mutations
    /\ k.at \in Nat \ {0}
    /\ Established(d, k, mode) \/ (mode = "snapshot" /\ k.snapshot # "valid")

StageNames == {"none", "single", "tx", "end", "lookup", "lookupEarnings", "return"}

ValidCall(d, k, mode) ==
    /\ HasFields(k)
    /\ k.op \in Requests \cup {NoOp} /\ k.stage \in StageNames /\ k.attempt \in 0..MaxAttempts
    /\ k.stage = "none" <=> k.op = NoOp
    /\ k.stage = "none" => k = NoCall
    /\ k.stage # "tx" => k.held = {} /\ k.gaps = {}
    /\ k.stage # "return" => k.effect = "none"
    /\ k.stage \in {"end", "return"} <=> k.answer # Unknown
    /\ k.stage = "single" => k.op.kind \in Queries \cup {"CreateTemplate"}
    /\ k.stage \in {"lookup", "lookupEarnings"} =>
          k.op.kind = "CommitEvent" /\ d.events[k.op.source] # NoFacts
    /\ k.stage = "lookupEarnings" => d.events[k.op.source] = k.op.facts
    /\ k.stage = "tx" => Running(d, k, mode)

HeldApart ==
    isolation = "locking" =>
        \A c, e \in Clients : c # e => call[c].held \cap call[e].held = {}

IInv ==
    /\ db \in TableSets /\ Consistent(db)
    /\ isolation \in {"locking", "snapshot"}
    /\ call = [c \in Clients |-> call[c]] /\ reply = [c \in Clients |-> reply[c]]
    /\ \A c \in Clients : ValidCall(db, call[c], isolation)
    /\ HeldApart

LEMMA RequestKinds ==
    /\ \A op \in Requests : /\ op.kind \in Queries \cup Mutations \cup {"CreateTemplate"}
                            /\ ValidRequest(op) /\ op # NoOp
    /\ NoOp.kind = "none"
    /\ \A kind \in Mutations : kind \notin Queries \cup {"CreateTemplate"} /\ kind # "none"
BY RequestsAssumption DEF NoOp, Queries, Mutations

LEMMA IdleCall ==
    ASSUME NEW d, NEW mode
    PROVE  ValidCall(d, NoCall, mode)
<1>1. NoCall = [op |-> NoOp, stage |-> "none", attempt |-> 0, at |-> 0, held |-> {}, gaps |-> {},
                snapshot |-> "valid", effect |-> "none", answer |-> Unknown]
  BY DEF NoCall
<1>2. HasFields(NoCall)
  BY <1>1 DEF HasFields
<1>3. 0 \in 0..MaxAttempts
  BY AttemptsAssumption
<1> QED BY <1>1, <1>2, <1>3 DEF ValidCall, StageNames

LEMMA NothingRead ==
    ASSUME NEW d, d \in TableSets, NEW op \in Requests, op.kind \in Mutations
    PROVE  Passed(d, op, 0) /\ RowsRead(d, op, 0) = {}
<1>1. ValidRequest(op)
  BY RequestKinds
<1>2. Len(Statements(d, op)) \in Nat
  BY <1>1, MutationReads
<1> QED BY <1>2 DEF Passed, RowsRead

LEMMA StartedCall ==
    ASSUME NEW d, d \in TableSets, NEW mode, NEW op \in Requests, NEW attempt \in 1..MaxAttempts
    PROVE  LET k == Started(op, attempt) IN
           ValidCall(d, k, mode) /\ k.held = {} /\ k.op = op /\ k.effect = "none" /\ k.answer = Unknown
<1> DEFINE stage == IF op.kind \in Queries \cup {"CreateTemplate"} THEN "single" ELSE "tx"
           k == [op |-> op, stage |-> stage, attempt |-> attempt, at |-> 1, held |-> {}, gaps |-> {},
                 snapshot |-> "valid", effect |-> "none", answer |-> Unknown]
<1>1. Started(op, attempt) = k
  <2>1. Started(op, attempt) = [NoCall EXCEPT !.op = op, !.attempt = attempt, !.at = 1, !.stage = stage]
    BY DEF Started
  <2> HIDE DEF stage
  <2> QED BY <2>1 DEF NoCall
<1>2. HasFields(k)
  BY DEF HasFields
<1>3. stage \in {"single", "tx"} /\ (stage = "single" => op.kind \in Queries \cup {"CreateTemplate"})
  OBVIOUS
<1>4. stage = "tx" => op.kind \in Mutations
  BY RequestKinds
<1>5. stage = "tx" => Running(d, k, mode)
  <2>1. SUFFICES ASSUME stage = "tx" PROVE Running(d, k, mode)
    OBVIOUS
  <2>2. Passed(d, op, 0) /\ RowsRead(d, op, 0) = {}
    BY <1>4, <2>1, NothingRead
  <2> HIDE DEF stage
  <2>3. k.op = op /\ k.at = 1 /\ k.at - 1 = 0 /\ k.held = {} /\ k.gaps = {}
    OBVIOUS
  <2> HIDE DEF k
  <2> QED BY <1>4, <2>1, <2>2, <2>3 DEF Running, Established
<1>6. attempt \in 0..MaxAttempts /\ op # NoOp
  BY AttemptsAssumption, RequestKinds
<1> HIDE DEF stage
<1>7. /\ k.op = op /\ k.stage = stage /\ k.attempt = attempt /\ k.held = {} /\ k.gaps = {}
      /\ k.effect = "none" /\ k.answer = Unknown
  OBVIOUS
<1> HIDE DEF k
<1>8. ValidCall(d, k, mode)
  BY <1>2, <1>3, <1>5, <1>6, <1>7 DEF ValidCall, StageNames
<1> QED BY <1>1, <1>7, <1>8

\* A call that has its answer, with or without an effect.
LEMMA AnsweredCall ==
    ASSUME NEW d, NEW mode, NEW k, NEW op \in Requests, NEW attempt \in 0..MaxAttempts,
           NEW stage \in {"end", "return"}, NEW answer, answer # Unknown, NEW effect, NEW at, NEW snapshot,
           stage = "end" => effect = "none",
           k = [op |-> op, stage |-> stage, attempt |-> attempt, at |-> at, held |-> {}, gaps |-> {},
                snapshot |-> snapshot, effect |-> effect, answer |-> answer]
    PROVE  ValidCall(d, k, mode)
<1>1. HasFields(k)
  BY DEF HasFields
<1>2. op # NoOp
  BY RequestKinds
<1>3. /\ k.op = op /\ k.stage = stage /\ k.attempt = attempt /\ k.held = {} /\ k.gaps = {}
      /\ k.effect = effect /\ k.answer = answer
  OBVIOUS
<1> QED BY <1>1, <1>2, <1>3 DEF ValidCall, StageNames

LEMMA OneMoreRow ==
    ASSUME NEW d, NEW op, NEW at \in Nat \ {0}, Passed(d, op, at - 1), at <= Len(Statements(d, op)),
           Len(Statements(d, op)) \in Nat, Statements(d, op)[at].verdict = Continue
    PROVE  /\ Passed(d, op, at)
           /\ RowsRead(d, op, at) = RowsRead(d, op, at - 1) \cup {Statements(d, op)[at].row}
<1>1. \A i \in 1..at : i \in 1..(at - 1) \/ i = at
  OBVIOUS
<1>2. \A i \in 1..(at - 1) : i \in 1..at
  OBVIOUS
<1>3. at \in 1..at
  OBVIOUS
<1>4. Passed(d, op, at)
  BY <1>1 DEF Passed
<1>5. RowsRead(d, op, at) = RowsRead(d, op, at - 1) \cup {Statements(d, op)[at].row}
  BY <1>1, <1>2, <1>3 DEF RowsRead
<1> QED BY <1>4, <1>5

\* A running transaction with other rows at another statement.
LEMMA RunningCall ==
    ASSUME NEW d, NEW mode, NEW k, ValidCall(d, k, mode), k.stage = "tx",
           NEW k2, NEW at \in Nat \ {0}, NEW held, NEW gaps, NEW snapshot,
           k2 = [k EXCEPT !.at = at, !.held = held, !.gaps = gaps, !.snapshot = snapshot],
           Established(d, k2, mode) \/ (mode = "snapshot" /\ k2.snapshot # "valid")
    PROVE  ValidCall(d, k2, mode)
<1> DEFINE r == [op |-> k.op, stage |-> k.stage, attempt |-> k.attempt, at |-> at, held |-> held,
                 gaps |-> gaps, snapshot |-> snapshot, effect |-> k.effect, answer |-> k.answer]
<1>1. k2 = r
  BY DEF ValidCall, HasFields
<1>2. /\ k2.op = k.op /\ k2.stage = k.stage /\ k2.attempt = k.attempt /\ k2.effect = k.effect
      /\ k2.answer = k.answer /\ k2.at = at
  BY <1>1
<1>3. HasFields(k2)
  BY <1>1 DEF HasFields
<1>4. k.op.kind \in Mutations
  BY DEF ValidCall, Running
<1>5. Running(d, k2, mode)
  BY <1>2, <1>4 DEF Running
<1> QED BY <1>2, <1>3, <1>5 DEF ValidCall

LEMMA ReadCall ==
    ASSUME NEW d, d \in TableSets, NEW k, ValidCall(d, k, "locking"), k.stage = "tx",
           k.at <= Len(Statements(d, k.op)), Statements(d, k.op)[k.at].verdict = Continue,
           NEW row, row = Statements(d, k.op)[k.at].row
    PROVE  /\ Present(d, row) => ValidCall(d, [k EXCEPT !.at = @ + 1, !.held = @ \cup {row}], "locking")
           /\ ~Present(d, row) => ValidCall(d, [k EXCEPT !.at = @ + 1, !.gaps = @ \cup {row}], "locking")
<1> DEFINE op == k.op
           S == Statements(d, op)
           read == RowsRead(d, op, k.at - 1)
<1>1. /\ HasFields(k) /\ k.at \in Nat \ {0} /\ op.kind \in Mutations /\ Established(d, k, "locking")
      /\ op \in Requests
  BY RequestKinds DEF ValidCall, Running
<1>2. Len(S) \in Nat
  BY <1>1, RequestKinds, MutationReads
<1>3. Passed(d, op, k.at) /\ RowsRead(d, op, k.at) = read \cup {row}
  <2>1. Passed(d, op, k.at - 1)
    BY <1>1 DEF Established
  <2> QED BY <1>1, <1>2, <2>1, OneMoreRow
<1>4. k.held = {r \in read : Present(d, r)} /\ k.gaps = {r \in read : ~Present(d, r)}
  BY <1>1 DEF Established
<1>5. k.at + 1 \in Nat \ {0} /\ (k.at + 1) - 1 = k.at
  BY <1>1
<1>6. ASSUME Present(d, row)
      PROVE  ValidCall(d, [k EXCEPT !.at = @ + 1, !.held = @ \cup {row}], "locking")
  <2> DEFINE held == k.held \cup {row}
             k2 == [k EXCEPT !.at = k.at + 1, !.held = held, !.gaps = k.gaps, !.snapshot = k.snapshot]
  <2>1. [k EXCEPT !.at = @ + 1, !.held = @ \cup {row}] = k2
    BY <1>1 DEF HasFields
  <2>2. k2.op = op /\ k2.at = k.at + 1 /\ k2.held = held /\ k2.gaps = k.gaps
    BY <1>1 DEF HasFields
  <2> HIDE DEF k2, read
  <2>3. held = {r \in read \cup {row} : Present(d, r)} /\ k.gaps = {r \in read \cup {row} : ~Present(d, r)}
    BY <1>4, <1>6
  <2>4. Established(d, k2, "locking")
    BY <1>3, <1>5, <2>2, <2>3 DEF Established
  <2> QED BY <1>5, <2>1, <2>4, RunningCall DEF k2
<1>7. ASSUME ~Present(d, row)
      PROVE  ValidCall(d, [k EXCEPT !.at = @ + 1, !.gaps = @ \cup {row}], "locking")
  <2> DEFINE gaps == k.gaps \cup {row}
             k2 == [k EXCEPT !.at = k.at + 1, !.held = k.held, !.gaps = gaps, !.snapshot = k.snapshot]
  <2>1. [k EXCEPT !.at = @ + 1, !.gaps = @ \cup {row}] = k2
    BY <1>1 DEF HasFields
  <2>2. k2.op = op /\ k2.at = k.at + 1 /\ k2.held = k.held /\ k2.gaps = gaps
    BY <1>1 DEF HasFields
  <2> HIDE DEF k2, read
  <2>3. k.held = {r \in read \cup {row} : Present(d, r)} /\ gaps = {r \in read \cup {row} : ~Present(d, r)}
    BY <1>4, <1>7
  <2>4. Established(d, k2, "locking")
    BY <1>3, <1>5, <2>2, <2>3 DEF Established
  <2> QED BY <1>5, <2>1, <2>4, RunningCall DEF k2
<1> QED BY <1>6, <1>7

\* A transaction on a snapshot after all its statements.
AllRead(d, k) ==
    LET reads == Statements(d, k.op)
    IN [k EXCEPT !.at = Len(reads) + 1, !.held = {reads[i].row : i \in 1..Len(reads)}]

LEMMA SnapshotCall ==
    ASSUME NEW d, d \in TableSets, NEW k, ValidCall(d, k, "snapshot"), k.stage = "tx",
           \A i \in 1..Len(Statements(d, k.op)) : Statements(d, k.op)[i].verdict = Continue
    PROVE  ValidCall(d, AllRead(d, k), "snapshot")
<1> DEFINE op == k.op
           reads == Statements(d, op)
           n == Len(reads)
           held == {reads[i].row : i \in 1..Len(reads)}
           k2 == [k EXCEPT !.at = n + 1, !.held = held, !.gaps = k.gaps, !.snapshot = k.snapshot]
<1>1. HasFields(k) /\ op.kind \in Mutations /\ op \in Requests
  BY RequestKinds DEF ValidCall, Running
<1>2. n \in Nat
  BY <1>1, RequestKinds, MutationReads
<1>3. [k EXCEPT !.at = n + 1, !.held = held] = k2
  BY <1>1 DEF HasFields
<1>4. k2.op = op /\ k2.at = n + 1 /\ k2.held = held
  BY <1>1 DEF HasFields
<1>5. Passed(d, op, n) /\ RowsRead(d, op, n) = held
  BY <1>2 DEF Passed, RowsRead
<1>6. n + 1 \in Nat \ {0} /\ (n + 1) - 1 = n
  BY <1>2
<1>7. Established(d, k2, "snapshot")
  <2> HIDE DEF k2, held
  <2> QED BY <1>4, <1>5, <1>6 DEF Established
<1>8. ValidCall(d, k2, "snapshot")
  <2> HIDE DEF n, held
  <2> QED BY <1>6, <1>7, RunningCall
<1> QED BY <1>3, <1>8 DEF AllRead

\* A call is not disturbed by changes of rows its transaction has not read.
LEMMA KeptCall ==
    ASSUME NEW d, d \in TableSets, NEW d2, d2 \in TableSets, NEW T, Changes(d, d2, T),
           NEW mode, NEW k, ValidCall(d, k, mode),
           k.stage = "tx" /\ Established(d, k, mode) => RowsRead(d, k.op, k.at - 1) \cap T = {}
    PROVE  ValidCall(d2, k, mode)
<1>1. CASE k.stage = "tx"
  <2>1. /\ Running(d, k, mode) /\ k.op.kind \in Mutations /\ k.at \in Nat \ {0} /\ k.op \in Requests
    BY <1>1, RequestKinds DEF ValidCall, Running
  <2>2. SUFFICES ASSUME Established(d, k, mode) PROVE Established(d2, k, mode)
    BY <1>1, <2>1 DEF ValidCall, Running
  <2> DEFINE n == k.at - 1
             S == Statements(d, k.op)
             S2 == Statements(d2, k.op)
  <2>3. KeepsStatements(d, d2, T, k.op, n)
    BY <2>1, RequestKinds, MutationKeeps
  <2>4. Passed(d, k.op, n) /\ RowsRead(d, k.op, n) \cap T = {}
    BY <1>1, <2>2 DEF Established
  <2>5. /\ Passed(d2, k.op, n)
        /\ \A i \in 1..n : S2[i].row = S[i].row /\ (Present(d2, S[i].row) <=> Present(d, S[i].row))
        /\ n = Len(S) => n = Len(S2)
    BY <2>3, <2>4 DEF KeepsStatements
  <2>6. RowsRead(d2, k.op, n) = RowsRead(d, k.op, n)
    BY <2>5 DEF RowsRead
  <2>7. \A r \in RowsRead(d, k.op, n) : Present(d2, r) <=> Present(d, r)
    BY <2>5 DEF RowsRead
  <2>8. mode = "locking" => /\ k.held = {r \in RowsRead(d2, k.op, n) : Present(d2, r)}
                            /\ k.gaps = {r \in RowsRead(d2, k.op, n) : ~Present(d2, r)}
    BY <2>2, <2>6, <2>7 DEF Established
  <2>9. mode = "snapshot" => k.held = RowsRead(d2, k.op, n) /\ k.at \in {1, Len(S2) + 1}
    <3>1. SUFFICES ASSUME mode = "snapshot" PROVE k.held = RowsRead(d2, k.op, n) /\ k.at \in {1, Len(S2) + 1}
      OBVIOUS
    <3>2. k.held = RowsRead(d, k.op, n) /\ k.at \in {1, Len(S) + 1}
      BY <2>2, <3>1 DEF Established
    <3>3. Len(S) \in Nat
      BY <2>1, RequestKinds, MutationReads
    <3> HIDE DEF S, S2
    <3> QED BY <2>1, <2>5, <2>6, <3>2, <3>3
  <2> QED BY <2>5, <2>8, <2>9 DEF Established
<1>2. CASE k.stage \in {"lookup", "lookupEarnings"}
  <2>1. k.op \in Requests /\ k.op.kind = "CommitEvent" /\ d.events[k.op.source] # NoFacts
    BY <1>2, RequestKinds DEF ValidCall
  <2>2. k.op.source \in Sources
    BY <2>1, RequestKinds DEF ValidRequest, ValidCommit
  <2>3. d2.events[k.op.source] = d.events[k.op.source]
    BY <2>1, <2>2 DEF Changes
  <2> QED BY <1>2, <2>3 DEF ValidCall
<1>3. CASE k.stage \notin {"tx", "lookup", "lookupEarnings"}
  BY <1>3 DEF ValidCall
<1> QED BY <1>1, <1>2, <1>3

\* A step of one client that leaves the tables alone.
LEMMA OneClient ==
    ASSUME IInv, NEW c \in Clients, NEW k, call' = [call EXCEPT ![c] = k], db' = db, isolation' = isolation,
           reply' = [x \in Clients |-> reply'[x]], ValidCall(db, k, isolation),
           isolation = "locking" => \A e \in Clients \ {c} : k.held \cap call[e].held = {}
    PROVE  IInv'
<1>1. call'[c] = k /\ \A e \in Clients \ {c} : call'[e] = call[e]
  BY DEF IInv
<1>2. call' = [e \in Clients |-> call'[e]]
  BY DEF IInv
<1>3. \A e \in Clients : ValidCall(db', call'[e], isolation')
  BY <1>1 DEF IInv
<1>4. HeldApart'
  BY <1>1 DEF IInv, HeldApart
<1> QED BY <1>2, <1>3, <1>4 DEF IInv

\* Where a client is.
LEMMA ClientAt ==
    ASSUME IInv, NEW c \in Clients
    PROVE  /\ db \in TableSets /\ Consistent(db) /\ isolation \in {"locking", "snapshot"}
           /\ ValidCall(db, call[c], isolation) /\ HasFields(call[c])
           /\ call[c].stage # "none" => call[c].op \in Requests /\ ValidRequest(call[c].op)
           /\ call[c].attempt \in 0..MaxAttempts
           /\ reply = [x \in Clients |-> reply[x]]
BY RequestKinds DEF IInv, ValidCall

LEMMA EndedFields ==
    ASSUME NEW k, NEW answer
    PROVE  Ended(k, answer) =
             [op |-> k.op, stage |-> "end", attempt |-> k.attempt, at |-> 0, held |-> {}, gaps |-> {},
              snapshot |-> "valid", effect |-> "none", answer |-> answer]
<1> DEFINE op == k.op
           attempt == k.attempt
<1>1. Ended(k, answer) = [NoCall EXCEPT !.op = op, !.attempt = attempt, !.stage = "end", !.answer = answer]
  BY DEF Ended
<1> HIDE DEF op, attempt
<1>3. [NoCall EXCEPT !.op = op, !.attempt = attempt, !.stage = "end", !.answer = answer] =
        [op |-> op, stage |-> "end", attempt |-> attempt, at |-> 0, held |-> {}, gaps |-> {},
         snapshot |-> "valid", effect |-> "none", answer |-> answer]
  <2> DEFINE k0 == [NoCall EXCEPT !.op = op]
             k1 == [k0 EXCEPT !.attempt = attempt]
             k2 == [k1 EXCEPT !.stage = "end"]
             k3 == [k2 EXCEPT !.answer = answer]
  <2>1. k3 = [NoCall EXCEPT !.op = op, !.attempt = attempt, !.stage = "end", !.answer = answer]
    OBVIOUS
  <2>2. k0 = [op |-> op, stage |-> "none", attempt |-> 0, at |-> 0, held |-> {}, gaps |-> {},
              snapshot |-> "valid", effect |-> "none", answer |-> Unknown]
    BY DEF NoCall
  <2> HIDE DEF k0
  <2>3. k1 = [op |-> op, stage |-> "none", attempt |-> attempt, at |-> 0, held |-> {}, gaps |-> {},
              snapshot |-> "valid", effect |-> "none", answer |-> Unknown]
    BY <2>2
  <2> HIDE DEF k1
  <2>4. k2 = [op |-> op, stage |-> "end", attempt |-> attempt, at |-> 0, held |-> {}, gaps |-> {},
              snapshot |-> "valid", effect |-> "none", answer |-> Unknown]
    BY <2>3
  <2> HIDE DEF k2
  <2>5. k3 = [op |-> op, stage |-> "end", attempt |-> attempt, at |-> 0, held |-> {}, gaps |-> {},
              snapshot |-> "valid", effect |-> "none", answer |-> answer]
    BY <2>4
  <2> HIDE DEF k3
  <2> QED BY <2>1, <2>5
<1> QED BY <1>1, <1>3 DEF op, attempt

LEMMA EndedCall ==
    ASSUME NEW d, NEW mode, NEW k, ValidCall(d, k, mode), k.stage # "none", NEW answer, answer # Unknown
    PROVE  ValidCall(d, Ended(k, answer), mode) /\ Ended(k, answer).held = {}
<1>1. Ended(k, answer) = [op |-> k.op, stage |-> "end", attempt |-> k.attempt, at |-> 0, held |-> {}, gaps |-> {},
                          snapshot |-> "valid", effect |-> "none", answer |-> answer]
  BY EndedFields
<1>2. k.op \in Requests /\ k.attempt \in 0..MaxAttempts
  BY DEF ValidCall
<1>3. ValidCall(d, Ended(k, answer), mode)
  BY <1>1, <1>2, AnsweredCall
<1> QED BY <1>1, <1>3

LEMMA CallKeeps ==
    ASSUME IInv, NEW c \in Clients, Call(c)
    PROVE  IInv'
<1>1. PICK op \in Requests : /\ call' = [call EXCEPT ![c] = Started(op, 1)]
                             /\ reply' = [reply EXCEPT ![c] = Unknown] /\ UNCHANGED <<db, isolation>>
  BY DEF Call
<1>2. 1 \in 1..MaxAttempts
  BY AttemptsAssumption
<1>3. ValidCall(db, Started(op, 1), isolation) /\ Started(op, 1).held = {}
  BY <1>2, StartedCall, ClientAt
<1>4. reply' = [x \in Clients |-> reply'[x]]
  BY <1>1, ClientAt
<1> QED BY <1>1, <1>3, <1>4, OneClient

LEMMA ReadKeeps ==
    ASSUME IInv, NEW c \in Clients, Read(c)
    PROVE  IInv'
<1> DEFINE k == call[c]
           row == NextStatement(c).row
           verdict == NextStatement(c).verdict
           read == IF Present(db, row) THEN [k EXCEPT !.at = @ + 1, !.held = @ \cup {row}]
                   ELSE [k EXCEPT !.at = @ + 1, !.gaps = @ \cup {row}]
<1>1. /\ isolation = "locking" /\ k.stage = "tx" /\ k.at <= Len(Statements(db, k.op)) /\ ~Blocked(c)
      /\ call' = [call EXCEPT ![c] = IF verdict = Continue THEN read ELSE Ended(k, verdict)]
      /\ UNCHANGED <<db, reply, isolation, calls>>
  BY DEF Read, InTx, Unread
<1>2. /\ db \in TableSets /\ ValidCall(db, k, "locking") /\ HasFields(k)
      /\ reply' = [x \in Clients |-> reply'[x]]
  BY <1>1, ClientAt
<1>3. CASE verdict = Continue
  <2>1. ValidCall(db, read, "locking")
    BY <1>1, <1>2, <1>3, ReadCall DEF NextStatement
  <2>2. ASSUME NEW e \in Clients \ {c} PROVE read.held \cap call[e].held = {}
    <3>1. read.held \subseteq k.held \cup {row}
      BY <1>2 DEF HasFields
    <3>2. row \notin call[e].held
      BY <1>1 DEF Blocked
    <3>3. k.held \cap call[e].held = {}
      BY <1>1 DEF IInv, HeldApart
    <3> QED BY <3>1, <3>2, <3>3
  <2> HIDE DEF read
  <2> QED BY <1>1, <1>2, <1>3, <2>1, <2>2, OneClient
<1>4. CASE verdict # Continue
  <2>1. verdict # Unknown
    <3>1. /\ k.op.kind \in Mutations /\ k.at \in Nat \ {0} /\ Passed(db, k.op, k.at - 1)
      BY <1>1, <1>2 DEF ValidCall, Running, Established
    <3>2. RefusesAsContract(db, k.op)
      BY <1>1, <3>1, ClientAt, MutationRefuses
    <3>3. k.at \in 1..Len(Statements(db, k.op))
      <4>1. Len(Statements(db, k.op)) \in Nat
        BY <1>1, <3>1, ClientAt, MutationReads
      <4> QED BY <1>1, <3>1, <4>1
    <3> QED BY <1>4, <3>1, <3>2, <3>3 DEF RefusesAsContract, NextStatement, Passed
  <2>2. ValidCall(db, Ended(k, verdict), "locking") /\ Ended(k, verdict).held = {}
    BY <1>1, <1>2, <2>1, EndedCall
  <2> QED BY <1>1, <1>2, <1>4, <2>2, OneClient
<1> QED BY <1>3, <1>4

LEMMA ReadSnapshotKeeps ==
    ASSUME IInv, NEW c \in Clients, ReadSnapshot(c)
    PROVE  IInv'
<1> DEFINE k == call[c]
           reads == Statements(db, k.op)
           stops == {i \in 1..Len(reads) : reads[i].verdict # Continue}
           first == CHOOSE i \in stops : \A j \in stops : i <= j
           all == AllRead(db, k)
<1>1. /\ isolation = "snapshot" /\ k.stage = "tx"
      /\ call' = [call EXCEPT ![c] = IF stops = {} THEN all ELSE Ended(k, reads[first].verdict)]
      /\ UNCHANGED <<db, reply, isolation, calls>>
  BY DEF ReadSnapshot, InTx, AllRead
<1>2. /\ db \in TableSets /\ ValidCall(db, k, "snapshot")
      /\ reply' = [x \in Clients |-> reply'[x]]
  BY <1>1, ClientAt
<1>3. CASE stops = {}
  <2>1. ValidCall(db, all, "snapshot")
    <3>1. \A i \in 1..Len(reads) : reads[i].verdict = Continue
      BY <1>3
    <3> HIDE DEF stops
    <3> QED BY <1>1, <1>2, <3>1, SnapshotCall
  <2> HIDE DEF all, stops, first
  <2> QED BY <1>1, <1>2, <1>3, <2>1, OneClient
<1>4. CASE stops # {}
  <2>1. k.op.kind \in Mutations /\ Len(reads) \in Nat /\ RefusesAsContract(db, k.op)
    <3>1. k.op.kind \in Mutations
      BY <1>1, <1>2 DEF ValidCall, Running
    <3> QED BY <1>1, <3>1, ClientAt, MutationReads, MutationRefuses
  <2>2. first \in stops /\ \A j \in stops : first <= j
    <3>1. stops \subseteq Nat
      BY <2>1
    <3> HIDE DEF stops
    <3> QED BY <1>4, <3>1, Least
  <2>3. reads[first].verdict # Unknown
    <3>1. first \in 1..Len(reads) /\ reads[first].verdict # Continue
      BY <2>2
    <3>2. \A j \in 1..(first - 1) : j \in 1..Len(reads) /\ ~(first <= j)
      <4> HIDE DEF first, reads
      <4> QED BY <2>1, <3>1
    <3>3. \A j \in 1..(first - 1) : reads[j].verdict = Continue
      <4> HIDE DEF first
      <4> QED BY <2>2, <3>2
    <3> QED BY <2>1, <3>1, <3>3 DEF RefusesAsContract
  <2> HIDE DEF first
  <2>4. ValidCall(db, Ended(k, reads[first].verdict), "snapshot")
    BY <1>1, <1>2, <2>3, EndedCall
  <2> HIDE DEF stops, all
  <2> QED BY <1>1, <1>2, <1>4, <2>4, OneClient
<1> QED BY <1>3, <1>4

\* What a transaction updates, it holds.
LEMMA UpdatesHeld ==
    ASSUME NEW d, NEW k, k.op.kind \in Mutations, Passed(d, k.op, Len(Statements(d, k.op))), HoldsAll(d, k)
    PROVE  Updates(k) \subseteq k.held
<1>1. CASE k.op.kind = "TransitionProgram"
  <2> DEFINE op == k.op
             S == Statements(d, op)
  <2>1. Len(S) \in {1, 2} /\ S[1].row = Program
    <3>1. op.kind = "TransitionProgram"
      BY <1>1
    <3>2. Len(S) \in {1, 2}
      BY <3>1, TransitionProgramShape
    <3> HIDE DEF op
    <3>3. S[1].row = Program
      BY <3>1, TransitionProgramShape
    <3> QED BY <3>2, <3>3
  <2>2. 1 \in 1..Len(S)
    BY <2>1
  <2>3. S[1].verdict = Continue
    BY <2>2 DEF Passed
  <2>4. d.program.status # "absent"
    <3>1. S[1].verdict = Refuse(d.program.status = "absent", "program_not_found",
                Refuse(d.program.version # op.expected, "version_conflict",
                Refuse(<<d.program.status, op.next>> \notin ProgramSteps, "invalid_transition", Continue)))
      BY <1>1, TransitionProgramShape
    <3> QED BY <2>3, <3>1, Verdicts DEF Refuse
  <2>5. Program \in k.held
    BY <2>1, <2>2, <2>4, PresentRows, HeldRows
  <2> QED BY <1>1, <2>5 DEF Updates
<1>2. CASE k.op.kind # "TransitionProgram"
  BY <1>2 DEF Updates
<1> QED BY <1>1, <1>2

\* A transaction that commits has read all its rows, and they are as it read them.
LEMMA CommitComplete ==
    ASSUME IInv, NEW c \in Clients, Commit(c)
    PROVE  LET k == call[c] IN
           /\ k.stage = "tx" /\ k.op \in Requests /\ k.op.kind \in Mutations
           /\ Passed(db, k.op, Len(Statements(db, k.op))) /\ HoldsAll(db, k)
           /\ isolation = "locking" => \A r \in k.held : Present(db, r)
<1> DEFINE k == call[c]
           n == Len(Statements(db, k.op))
<1>1. /\ k.stage = "tx" /\ k.at > 1 /\ (isolation = "locking" => ~(k.at <= n))
      /\ isolation = "snapshot" => k.snapshot = "valid"
  BY DEF Commit, ReadAll, InTx, Unread
<1>2. /\ db \in TableSets /\ Consistent(db) /\ ValidCall(db, k, isolation)
      /\ isolation \in {"locking", "snapshot"} /\ k.op \in Requests /\ ValidRequest(k.op)
  BY <1>1, ClientAt
<1>3. k.op.kind \in Mutations /\ k.at \in Nat \ {0} /\ Established(db, k, isolation)
  BY <1>1, <1>2 DEF ValidCall, Running
<1>4. n \in Nat
  BY <1>2, <1>3, MutationReads
<1>5. k.at - 1 = n
  <2>1. k.at - 1 \in 0..n
    BY <1>3 DEF Established, Passed
  <2>2. isolation = "snapshot" => k.at \in {1, n + 1}
    BY <1>3 DEF Established
  <2> HIDE DEF k, n
  <2> QED BY <1>1, <1>2, <1>3, <1>4, <2>1, <2>2
<1>6. Passed(db, k.op, n)
  BY <1>3, <1>5 DEF Established
<1>7. HoldsAll(db, k)
  BY <1>2, <1>3, <1>5 DEF Established, HoldsAll
<1>8. isolation = "locking" => \A r \in k.held : Present(db, r)
  BY <1>3 DEF Established
<1> QED BY <1>1, <1>2, <1>3, <1>6, <1>7, <1>8

\* What a commit does is what the contract does.
LEMMA CommitEffect ==
    ASSUME IInv, NEW c \in Clients, Commit(c)
    PROVE  LET k == call[c] IN
           /\ Store!Outcome(db, k.op) = [db |-> db', answer |-> Ok(Saved(db', k))]
           /\ db' \in TableSets /\ Consistent(db')
           /\ Changes(db, db', Inserts(k.op) \cup Updates(k))
           /\ Updates(k) \subseteq k.held
<1> DEFINE k == call[c]
<1>1. /\ k.stage = "tx" /\ k.op \in Requests /\ k.op.kind \in Mutations
      /\ Passed(db, k.op, Len(Statements(db, k.op))) /\ HoldsAll(db, k)
  BY CommitComplete
<1>2. db \in TableSets /\ Consistent(db) /\ ValidRequest(k.op)
  BY <1>1, ClientAt
<1>3. db' = Writes(db, k)
  BY DEF Commit
<1>4. WritesAsContract(db, k)
  BY <1>1, <1>2, MutationWrites
<1>5. /\ Store!Outcome(db, k.op) = [db |-> db', answer |-> Ok(Saved(db', k))]
      /\ db' \in TableSets /\ Consistent(db')
      /\ Changes(db, db', Inserts(k.op) \cup Updates(k))
  BY <1>1, <1>3, <1>4 DEF WritesAsContract
<1>6. Updates(k) \subseteq k.held
  BY <1>1, UpdatesHeld
<1> QED BY <1>5, <1>6

LEMMA OverwrittenCall ==
    ASSUME NEW d, NEW d2, NEW k, ValidCall(d, k, "snapshot"), k.stage = "tx"
    PROVE  ValidCall(d2, [k EXCEPT !.snapshot = "overwritten"], "snapshot")
<1> DEFINE k2 == [k EXCEPT !.at = k.at, !.held = k.held, !.gaps = k.gaps, !.snapshot = "overwritten"]
<1>1. HasFields(k) /\ k.at \in Nat \ {0} /\ k.op.kind \in Mutations
  BY DEF ValidCall, Running
<1>2. k2 = [k EXCEPT !.snapshot = "overwritten"]
  BY <1>1 DEF HasFields
<1>3. k2.snapshot = "overwritten" /\ k2.stage = "tx" /\ k2.op = k.op /\ k2.at = k.at
  BY <1>1 DEF HasFields
<1>4. ValidCall(d, k2, "snapshot")
  <2>1. k2.snapshot # "valid"
    BY <1>3
  <2> QED BY <1>1, <2>1, RunningCall
<1> HIDE DEF k2
<1>5. Running(d2, k2, "snapshot")
  BY <1>1, <1>3 DEF Running
<1>6. ValidCall(d2, k2, "snapshot")
  BY <1>3, <1>4, <1>5 DEF ValidCall
<1> QED BY <1>2, <1>6

LEMMA ReturnedFields ==
    ASSUME NEW k, NEW answer, NEW effect
    PROVE  [Ended(k, answer) EXCEPT !.stage = "return", !.effect = effect] =
             [op |-> k.op, stage |-> "return", attempt |-> k.attempt, at |-> 0, held |-> {}, gaps |-> {},
              snapshot |-> "valid", effect |-> effect, answer |-> answer]
<1> DEFINE k1 == [Ended(k, answer) EXCEPT !.stage = "return"]
           k2 == [k1 EXCEPT !.effect = effect]
           op == k.op
           attempt == k.attempt
<1>1. k2 = [Ended(k, answer) EXCEPT !.stage = "return", !.effect = effect]
  OBVIOUS
<1>a. Ended(k, answer) =
             [op |-> op, stage |-> "end", attempt |-> attempt, at |-> 0, held |-> {}, gaps |-> {},
              snapshot |-> "valid", effect |-> "none", answer |-> answer]
  BY EndedFields
<1> HIDE DEF op, attempt
<1>2. k1 = [op |-> op, stage |-> "return", attempt |-> attempt, at |-> 0, held |-> {}, gaps |-> {},
            snapshot |-> "valid", effect |-> "none", answer |-> answer]
  BY <1>a
<1> HIDE DEF k1
<1>3. k2 = [op |-> op, stage |-> "return", attempt |-> attempt, at |-> 0, held |-> {}, gaps |-> {},
            snapshot |-> "valid", effect |-> effect, answer |-> answer]
  BY <1>2
<1> HIDE DEF k2
<1> QED BY <1>1, <1>3 DEF op, attempt

LEMMA CommitKeeps ==
    ASSUME IInv, NEW c \in Clients, Commit(c)
    PROVE  IInv'
<1> DEFINE k == call[c]
           T == Inserts(k.op) \cup Updates(k)
           answer == Ok(Saved(db', k))
           effect == IF db' = db THEN "none" ELSE "applied"
           k2 == [Ended(k, answer) EXCEPT !.stage = "return", !.effect = effect]
<1>1. /\ k.stage = "tx" /\ k.op \in Requests
      /\ isolation = "locking" => \A r \in k.held : Present(db, r)
  BY CommitComplete
<1>2. /\ db' \in TableSets /\ Consistent(db')
      /\ Changes(db, db', T) /\ Updates(k) \subseteq k.held
  BY CommitEffect
<1>3. /\ isolation = "locking" => GapsFree(c)
      /\ call' = [(IF isolation = "snapshot" THEN Overwritten(T) ELSE call) EXCEPT ![c] = k2]
      /\ UNCHANGED <<reply, isolation, calls>>
  BY DEF Commit
<1>4. db \in TableSets /\ isolation \in {"locking", "snapshot"} /\ k.attempt \in 0..MaxAttempts
  BY ClientAt
<1>5. k2 = [op |-> k.op, stage |-> "return", attempt |-> k.attempt, at |-> 0, held |-> {}, gaps |-> {},
            snapshot |-> "valid", effect |-> effect, answer |-> answer]
  BY ReturnedFields
<1>6. ValidCall(db', k2, isolation) /\ k2.held = {}
  <2>1. answer # Unknown
    BY Verdicts
  <2> HIDE DEF k2, answer, effect
  <2> QED BY <1>1, <1>4, <1>5, <2>1, AnsweredCall
<1>7. /\ call' = [e \in Clients |-> call'[e]] /\ call'[c] = k2
      /\ isolation = "locking" => \A e \in Clients \ {c} : call'[e] = call[e]
      /\ isolation = "snapshot" =>
           \A e \in Clients \ {c} :
             call'[e] = IF call[e].stage = "tx" /\ T \cap call[e].held # {}
                        THEN [call[e] EXCEPT !.snapshot = "overwritten"] ELSE call[e]
  <2>1. call = [e \in Clients |-> call[e]]
    BY DEF IInv
  <2>2. CASE isolation = "locking"
    <3> HIDE DEF k2, T
    <3> QED BY <1>3, <2>1, <2>2
  <2>3. CASE isolation = "snapshot"
    <3> HIDE DEF k2, T
    <3> QED BY <1>3, <2>3 DEF Overwritten, InTx
  <2> QED BY <1>4, <2>2, <2>3
<1> HIDE DEF k2
<1>8. ASSUME NEW e \in Clients \ {c} PROVE ValidCall(db', call'[e], isolation)
  <2> DEFINE j == call[e]
  <2>1. ValidCall(db, j, isolation)
    BY DEF IInv
  <2>2. CASE isolation = "locking"
    <3>1. j.stage = "tx" /\ Established(db, j, isolation) => RowsRead(db, j.op, j.at - 1) \cap T = {}
      <4>1. SUFFICES ASSUME Established(db, j, isolation), NEW r \in RowsRead(db, j.op, j.at - 1), r \in T
                     PROVE  FALSE
        OBVIOUS
      <4>2. r \in j.held \/ (r \in j.gaps /\ ~Present(db, r))
        BY <2>2, <4>1 DEF Established
      <4>3. r \notin Inserts(k.op)
        BY <1>3, <2>2, <4>2 DEF GapsFree
      <4>4. r \in k.held /\ Present(db, r)
        BY <1>1, <1>2, <2>2, <4>1, <4>3
      <4>5. k.held \cap j.held = {}
        BY <2>2 DEF IInv, HeldApart
      <4> QED BY <4>2, <4>4, <4>5
    <3>2. ValidCall(db', j, isolation)
      <4> HIDE DEF j, T
      <4> QED BY <1>2, <1>4, <2>1, <3>1, KeptCall
    <3> QED BY <1>7, <2>2, <3>2
  <2>3. CASE isolation = "snapshot"
    <3>1. CASE j.stage = "tx" /\ T \cap j.held # {}
      <4>1. ValidCall(db', [j EXCEPT !.snapshot = "overwritten"], isolation)
        BY <2>1, <2>3, <3>1, OverwrittenCall
      <4> QED BY <1>7, <2>3, <3>1, <4>1
    <3>2. CASE ~(j.stage = "tx" /\ T \cap j.held # {})
      <4>1. j.stage = "tx" /\ Established(db, j, isolation) => RowsRead(db, j.op, j.at - 1) \cap T = {}
        BY <2>3, <3>2 DEF Established
      <4>2. ValidCall(db', j, isolation)
        <5> HIDE DEF j, T
        <5> QED BY <1>2, <1>4, <2>1, <4>1, KeptCall
      <4> QED BY <1>7, <2>3, <3>2, <4>2
    <3> QED BY <3>1, <3>2
  <2> QED BY <1>4, <2>2, <2>3
<1>9. \A e \in Clients : ValidCall(db', call'[e], isolation')
  BY <1>3, <1>6, <1>7, <1>8
<1>10. HeldApart'
  <2>1. CASE isolation = "locking"
    BY <1>3, <1>6, <1>7, <2>1 DEF IInv, HeldApart
  <2>2. CASE isolation = "snapshot"
    BY <1>3, <2>2 DEF HeldApart
  <2> QED BY <1>4, <2>1, <2>2
<1>11. reply' = [x \in Clients |-> reply'[x]]
  BY <1>3, ClientAt
<1> QED BY <1>2, <1>3, <1>4, <1>7, <1>9, <1>10, <1>11 DEF IInv

\* The key an INSERT finds taken tells what the contract answers.
DuplicateError(op) ==
    CASE op.kind = "CreateProgram" -> "program_exists"
      [] op.kind = "SetAttribution" -> "version_conflict"
      [] op.kind = "StartSettlement" -> "settlement_exists"
      [] OTHER -> "none"

LEMMA DuplicateResult ==
    ASSUME IInv, NEW c \in Clients, Duplicate(c)
    PROVE  LET k == call[c] IN
           /\ k.stage = "tx" /\ k.op \in Requests
           /\ UNCHANGED <<db, reply, isolation, calls>>
           /\ k.op.kind = "CommitEvent" =>
                /\ db.events[k.op.source] # NoFacts
                /\ call' = [call EXCEPT ![c] = [Ended(k, Unknown) EXCEPT !.stage = "lookup"]]
           /\ k.op.kind # "CommitEvent" =>
                /\ Error(DuplicateError(k.op)) # Unknown
                /\ Store!Outcome(db, k.op) = [db |-> db, answer |-> Error(DuplicateError(k.op))]
                /\ call' = [call EXCEPT ![c] = Ended(k, Error(DuplicateError(k.op)))]
<1> DEFINE k == call[c]
<1>1. k.stage = "tx" /\ \E row \in Inserts(k.op) : Present(db, row)
  BY DEF Duplicate, ReadAll, InTx
<1>2. PICK row \in Inserts(k.op) : Present(db, row)
  BY <1>1
<1>3. db \in TableSets /\ k.op \in Requests /\ ValidRequest(k.op) /\ k.op.kind \in Mutations
  BY <1>1, ClientAt DEF ValidCall, Running
<1> DEFINE op == k.op
<1>4. call' = [call EXCEPT ![c] = IF op.kind = "CommitEvent" THEN [Ended(k, Unknown) EXCEPT !.stage = "lookup"]
                                  ELSE Ended(k, Error(DuplicateError(op)))]
  BY DEF Duplicate, DuplicateError
<1>5. UNCHANGED <<db, reply, isolation, calls>>
  BY DEF Duplicate
<1> HIDE DEF op
<1>a. /\ db \in TableSets /\ op.kind \in Mutations /\ ValidRequest(op) /\ row \in Inserts(op)
  BY <1>2, <1>3 DEF op
<1>6. op.kind \in {"CreateProgram", "SetAttribution", "CommitEvent", "StartSettlement"}
  BY <1>2, <1>a, DuplicateAnswers
<1>7. op.kind = "CommitEvent" => db.events[op.source] # NoFacts
  BY <1>2, <1>a, DuplicateAnswers
<1>8. op.kind # "CommitEvent" =>
         /\ Error(DuplicateError(op)) # Unknown
         /\ Store!Outcome(db, op) = [db |-> db, answer |-> Error(DuplicateError(op))]
  <2>1. op.kind = "CreateProgram" => Store!Outcome(db, op) = [db |-> db, answer |-> Error("program_exists")]
    BY <1>2, <1>a, DuplicateAnswers
  <2>2. op.kind = "SetAttribution" => Store!Outcome(db, op) = [db |-> db, answer |-> Error("version_conflict")]
    BY <1>2, <1>a, DuplicateAnswers
  <2>3. op.kind = "StartSettlement" => Store!Outcome(db, op) = [db |-> db, answer |-> Error("settlement_exists")]
    BY <1>2, <1>a, DuplicateAnswers
  <2> QED BY <1>6, <2>1, <2>2, <2>3, Verdicts DEF DuplicateError
<1> QED BY <1>1, <1>3, <1>4, <1>5, <1>7, <1>8 DEF op

LEMMA LookupCall ==
    ASSUME NEW d, NEW mode, NEW k, ValidCall(d, k, mode), k.stage # "none", k.op.kind = "CommitEvent",
           d.events[k.op.source] # NoFacts
    PROVE  LET k2 == [Ended(k, Unknown) EXCEPT !.stage = "lookup"] IN
           /\ ValidCall(d, k2, mode) /\ k2.held = {}
           /\ k2.op = k.op /\ k2.effect = "none" /\ k2.answer = Unknown
<1> DEFINE op == k.op
           attempt == k.attempt
           k2 == [Ended(k, Unknown) EXCEPT !.stage = "lookup"]
           r == [op |-> op, stage |-> "lookup", attempt |-> attempt, at |-> 0, held |-> {}, gaps |-> {},
                 snapshot |-> "valid", effect |-> "none", answer |-> Unknown]
<1>1. Ended(k, Unknown) = [op |-> op, stage |-> "end", attempt |-> attempt, at |-> 0, held |-> {}, gaps |-> {},
                           snapshot |-> "valid", effect |-> "none", answer |-> Unknown]
  BY EndedFields
<1>2. op \in Requests /\ op # NoOp /\ attempt \in 0..MaxAttempts
  BY RequestKinds DEF ValidCall
<1>a. op.kind = "CommitEvent" /\ d.events[op.source] # NoFacts
  OBVIOUS
<1>3. k2 = r
  <2> HIDE DEF op, attempt
  <2> QED BY <1>1
<1>4. HasFields(r)
  BY DEF HasFields
<1>5. /\ r.op = op /\ r.stage = "lookup" /\ r.attempt = attempt /\ r.held = {} /\ r.gaps = {}
      /\ r.effect = "none" /\ r.answer = Unknown
  OBVIOUS
<1> HIDE DEF op, attempt, r
<1>6. ValidCall(d, r, mode)
  BY <1>2, <1>a, <1>4, <1>5 DEF ValidCall, StageNames
<1> HIDE DEF k2
<1>7. /\ ValidCall(d, k2, mode) /\ k2.held = {} /\ k2.op = op /\ k2.effect = "none" /\ k2.answer = Unknown
  BY <1>3, <1>5, <1>6
<1> QED BY <1>7 DEF op, k2

LEMMA DuplicateKeeps ==
    ASSUME IInv, NEW c \in Clients, Duplicate(c)
    PROVE  IInv'
<1> DEFINE k == call[c]
<1>1. /\ k.stage = "tx" /\ k.op \in Requests
      /\ UNCHANGED <<db, reply, isolation, calls>>
  BY DuplicateResult
<1>2. /\ ValidCall(db, k, isolation) /\ reply' = [x \in Clients |-> reply'[x]]
  BY <1>1, ClientAt
<1>3. CASE k.op.kind = "CommitEvent"
  <2>1. /\ db.events[k.op.source] # NoFacts
        /\ call' = [call EXCEPT ![c] = [Ended(k, Unknown) EXCEPT !.stage = "lookup"]]
    BY <1>3, DuplicateResult
  <2> DEFINE k2 == [Ended(k, Unknown) EXCEPT !.stage = "lookup"]
  <2>2. ValidCall(db, k2, isolation) /\ k2.held = {}
    BY <1>1, <1>2, <1>3, <2>1, LookupCall
  <2> HIDE DEF k2
  <2>3. call' = [call EXCEPT ![c] = k2]
    BY <2>1 DEF k2
  <2> QED BY <1>1, <1>2, <2>2, <2>3, OneClient
<1>4. CASE k.op.kind # "CommitEvent"
  <2> DEFINE answer == Error(DuplicateError(k.op))
  <2>1. answer # Unknown /\ call' = [call EXCEPT ![c] = Ended(k, answer)]
    BY <1>4, DuplicateResult
  <2> HIDE DEF answer
  <2>2. ValidCall(db, Ended(k, answer), isolation) /\ Ended(k, answer).held = {}
    BY <1>1, <1>2, <2>1, EndedCall
  <2> QED BY <1>1, <1>2, <2>1, <2>2, OneClient
<1> QED BY <1>3, <1>4

\* The fields a call outside a transaction has after its answer.
At(k, stage, effect, answer) ==
    [op |-> k.op, stage |-> stage, attempt |-> k.attempt, at |-> k.at, held |-> k.held,
     gaps |-> k.gaps, snapshot |-> k.snapshot, effect |-> effect, answer |-> answer]

LEMMA AtFields ==
    ASSUME NEW k, NEW stage, NEW effect, NEW answer, NEW k2, k2 = At(k, stage, effect, answer)
    PROVE  /\ k2.op = k.op /\ k2.stage = stage /\ k2.attempt = k.attempt /\ k2.at = k.at /\ k2.held = k.held
           /\ k2.gaps = k.gaps /\ k2.snapshot = k.snapshot /\ k2.effect = effect /\ k2.answer = answer
           /\ HasFields(k2)
BY DEF At, HasFields

LEMMA AtUpdates ==
    ASSUME NEW k, NEW stage, NEW effect, NEW answer, NEW s, NEW e, NEW a
    PROVE  /\ [At(k, stage, effect, answer) EXCEPT !.stage = s] = At(k, s, effect, answer)
           /\ [At(k, stage, effect, answer) EXCEPT !.effect = e] = At(k, stage, e, answer)
           /\ [At(k, stage, effect, answer) EXCEPT !.answer = a] = At(k, stage, effect, a)
BY DEF At

LEMMA StageFields ==
    ASSUME NEW k, HasFields(k), NEW stage
    PROVE  [k EXCEPT !.stage = stage] = At(k, stage, k.effect, k.answer)
<1>1. k = At(k, k.stage, k.effect, k.answer)
  BY DEF At, HasFields
<1> QED BY <1>1, AtUpdates

LEMMA GivenFields ==
    ASSUME NEW k, HasFields(k), NEW answer, NEW effect
    PROVE  /\ [k EXCEPT !.stage = "return", !.answer = answer] = At(k, "return", k.effect, answer)
           /\ [k EXCEPT !.stage = "return", !.effect = effect, !.answer = answer] = At(k, "return", effect, answer)
<1> DEFINE k1 == [k EXCEPT !.stage = "return"]
           k2 == [k1 EXCEPT !.answer = answer]
           k3 == [k1 EXCEPT !.effect = effect]
           k4 == [k3 EXCEPT !.answer = answer]
<1>1. /\ k2 = [k EXCEPT !.stage = "return", !.answer = answer]
      /\ k4 = [k EXCEPT !.stage = "return", !.effect = effect, !.answer = answer]
  OBVIOUS
<1>3. k1 = At(k, "return", k.effect, k.answer)
  BY StageFields
<1> HIDE DEF k1
<1>4. k2 = At(k, "return", k.effect, answer)
  BY <1>3, AtUpdates
<1>5. k3 = At(k, "return", effect, k.answer)
  BY <1>3, AtUpdates
<1> HIDE DEF k3
<1>6. k4 = At(k, "return", effect, answer)
  BY <1>5, AtUpdates
<1> HIDE DEF k2, k4
<1> QED BY <1>1, <1>4, <1>6

LEMMA GivenCall ==
    ASSUME NEW d, NEW d2, NEW mode, NEW k, ValidCall(d, k, mode), k.stage \notin {"none", "tx"},
           NEW answer, answer # Unknown, NEW effect
    PROVE  /\ ValidCall(d2, [k EXCEPT !.stage = "return", !.answer = answer], mode)
           /\ ValidCall(d2, [k EXCEPT !.stage = "return", !.effect = effect, !.answer = answer], mode)
           /\ [k EXCEPT !.stage = "return", !.answer = answer].held = {}
           /\ [k EXCEPT !.stage = "return", !.effect = effect, !.answer = answer].held = {}
<1>1. /\ HasFields(k) /\ k.op \in Requests /\ k.attempt \in 0..MaxAttempts
      /\ k.held = {} /\ k.gaps = {}
  BY DEF ValidCall
<1>2. ASSUME NEW x PROVE ValidCall(d2, At(k, "return", x, answer), mode) /\ At(k, "return", x, answer).held = {}
  BY <1>1, AnsweredCall DEF At
<1> DEFINE k1 == [k EXCEPT !.stage = "return", !.answer = answer]
           k2 == [k EXCEPT !.stage = "return", !.effect = effect, !.answer = answer]
<1>3. k1 = At(k, "return", k.effect, answer)
  BY <1>1, GivenFields
<1>4. k2 = At(k, "return", effect, answer)
  BY <1>1, GivenFields
<1> HIDE DEF k1, k2
<1>5. ValidCall(d2, k1, mode) /\ k1.held = {} /\ ValidCall(d2, k2, mode) /\ k2.held = {}
  BY <1>2, <1>3, <1>4
<1> QED BY <1>5 DEF k1, k2

LEMMA LookupKeeps ==
    ASSUME IInv, NEW c \in Clients, Lookup(c)
    PROVE  IInv'
<1> DEFINE k == call[c]
           next == [k EXCEPT !.stage = "lookupEarnings"]
           refused == [k EXCEPT !.stage = "return", !.answer = Error("event_conflict")]
<1>1. /\ k.stage = "lookup"
      /\ call' = [call EXCEPT ![c] = IF db.events[k.op.source] = k.op.facts THEN next ELSE refused]
      /\ UNCHANGED <<db, reply, isolation, calls>>
  BY DEF Lookup
<1>2. ValidCall(db, k, isolation) /\ HasFields(k) /\ reply' = [x \in Clients |-> reply'[x]]
  BY <1>1, ClientAt
<1>3. CASE db.events[k.op.source] = k.op.facts
  <2>1. next = At(k, "lookupEarnings", k.effect, k.answer)
    BY <1>2, StageFields
  <2> HIDE DEF next
  <2>2. /\ next.op = k.op /\ next.stage = "lookupEarnings" /\ next.attempt = k.attempt /\ next.held = k.held
        /\ next.gaps = k.gaps /\ next.effect = k.effect /\ next.answer = k.answer /\ HasFields(next)
    BY <2>1, AtFields
  <2>3. ValidCall(db, next, isolation) /\ next.held = {}
    <3> HIDE DEF k
    <3> QED BY <1>1, <1>2, <1>3, <2>2 DEF ValidCall, StageNames
  <2>4. call' = [call EXCEPT ![c] = next]
    BY <1>1, <1>3
  <2> QED BY <1>1, <1>2, <2>3, <2>4, OneClient
<1>4. CASE db.events[k.op.source] # k.op.facts
  <2>1. ValidCall(db, refused, isolation) /\ refused.held = {}
    BY <1>1, <1>2, GivenCall, Verdicts
  <2>2. call' = [call EXCEPT ![c] = refused]
    BY <1>1, <1>4
  <2> HIDE DEF refused
  <2> QED BY <1>1, <1>2, <2>1, <2>2, OneClient
<1> QED BY <1>3, <1>4

\* A client outside a transaction is answered and the tables are left alone.
LEMMA GivenKeeps ==
    ASSUME IInv, NEW c \in Clients, call[c].stage \notin {"none", "tx"}, NEW answer, answer # Unknown,
           call' = [call EXCEPT ![c] = [call[c] EXCEPT !.stage = "return", !.answer = answer]],
           UNCHANGED <<db, reply, isolation, calls>>
    PROVE  IInv'
<1> DEFINE k == call[c]
           k2 == [k EXCEPT !.stage = "return", !.answer = answer]
<1>1. ValidCall(db, k, isolation) /\ reply' = [x \in Clients |-> reply'[x]]
  BY ClientAt
<1>2. ValidCall(db, k2, isolation) /\ k2.held = {}
  BY <1>1, GivenCall
<1>3. call' = [call EXCEPT ![c] = k2]
  OBVIOUS
<1> HIDE DEF k2
<1> QED BY <1>1, <1>2, <1>3, OneClient

LEMMA LookupEarningsKeeps ==
    ASSUME IInv, NEW c \in Clients, LookupEarnings(c)
    PROVE  IInv'
<1> DEFINE answer == Ok(EarningsOf(db, call[c].op.source))
<1>1. /\ call[c].stage = "lookupEarnings"
      /\ call' = [call EXCEPT ![c] = [call[c] EXCEPT !.stage = "return", !.answer = answer]]
      /\ UNCHANGED <<db, reply, isolation, calls>>
  BY DEF LookupEarnings, IInv
<1>2. answer # Unknown
  BY Verdicts
<1> HIDE DEF answer
<1> QED BY <1>1, <1>2, GivenKeeps

LEMMA QueryKeeps ==
    ASSUME IInv, NEW c \in Clients, Query(c)
    PROVE  IInv'
<1> DEFINE answer == Selected(db, call[c].op)
<1>1. /\ call[c].stage = "single" /\ call[c].op.kind \in Queries
      /\ call' = [call EXCEPT ![c] = [call[c] EXCEPT !.stage = "return", !.answer = answer]]
      /\ UNCHANGED <<db, reply, isolation, calls>>
  BY DEF Query, IInv
<1>2. answer # Unknown
  BY <1>1, ClientAt, QueryAnswers
<1> HIDE DEF answer
<1> QED BY <1>1, <1>2, GivenKeeps

LEMMA RetryKeeps ==
    ASSUME IInv, NEW c \in Clients, Retry(c)
    PROVE  IInv'
<1> DEFINE k == call[c]
           k2 == Started(k.op, k.attempt + 1)
<1>1. /\ k.stage \in {"tx", "end"} /\ k.attempt < MaxAttempts /\ call' = [call EXCEPT ![c] = k2]
      /\ UNCHANGED <<db, reply, isolation, calls>>
  BY DEF Retry, Retryable
<1>2. /\ db \in TableSets /\ k.op \in Requests /\ k.attempt \in 0..MaxAttempts
      /\ reply' = [x \in Clients |-> reply'[x]]
  BY <1>1, ClientAt
<1>3. k.attempt + 1 \in 1..MaxAttempts
  BY <1>1, <1>2, AttemptsAssumption
<1>4. ValidCall(db, k2, isolation) /\ k2.held = {}
  BY <1>2, <1>3, StartedCall
<1> HIDE DEF k2
<1> QED BY <1>1, <1>2, <1>4, OneClient

\* The end of a call.
LEMMA EndKeeps ==
    ASSUME IInv, NEW c \in Clients, Return(c) \/ Fail(c)
    PROVE  IInv'
<1>1. /\ call' = [call EXCEPT ![c] = NoCall] /\ db' = db /\ isolation' = isolation
      /\ \E answer : reply' = [reply EXCEPT ![c] = answer]
  BY DEF Return, Fail
<1>2. reply' = [x \in Clients |-> reply'[x]]
  BY <1>1, ClientAt
<1>3. ValidCall(db, NoCall, isolation) /\ NoCall.held = {}
  BY IdleCall DEF NoCall
<1> QED BY <1>1, <1>2, <1>3, OneClient

LEMMA CreateTemplateKeeps ==
    ASSUME IInv, NEW c \in Clients, CreateTemplate(c)
    PROVE  IInv'
<1> DEFINE k == call[c]
           k2 == [k EXCEPT !.stage = "return", !.effect = "applied", !.answer = Ok({})]
<1>1. k.stage = "single" /\ k.op.kind = "CreateTemplate" /\ UNCHANGED <<reply, isolation, calls>>
  BY DEF CreateTemplate
<1>2. CASE db.template # "absent"
  <2> DEFINE answer == Error("template_exists")
  <2>1. /\ call' = [call EXCEPT ![c] = [k EXCEPT !.stage = "return", !.answer = answer]]
        /\ UNCHANGED <<db, reply, isolation, calls>>
    BY <1>2 DEF CreateTemplate, IInv
  <2>2. answer # Unknown
    BY Verdicts
  <2> HIDE DEF answer
  <2> QED BY <1>1, <2>1, <2>2, GivenKeeps
<1>3. CASE db.template = "absent"
  <2>1. db' = [db EXCEPT !.template = NewTemplate] /\ call' = [call EXCEPT ![c] = k2]
    BY <1>3 DEF CreateTemplate, IInv
  <2>2. db \in TableSets /\ Consistent(db) /\ ValidCall(db, k, isolation)
    BY ClientAt
  <2>3. db' \in TableSets /\ Consistent(db') /\ Changes(db, db', {})
    BY <1>1, <1>3, <2>1, <2>2, TemplateCreated
  <2>4. ValidCall(db', k2, isolation) /\ k2.held = {}
    BY <1>1, <2>2, Verdicts, GivenCall
  <2> HIDE DEF k2
  <2>5. ASSUME NEW e \in Clients \ {c} PROVE ValidCall(db', call[e], isolation)
    <3>1. ValidCall(db, call[e], isolation) /\ RowsRead(db, call[e].op, call[e].at - 1) \cap {} = {}
      BY DEF IInv
    <3> QED BY <2>2, <2>3, <3>1, KeptCall
  <2>6. /\ call' = [e \in Clients |-> call'[e]] /\ call'[c] = k2
        /\ \A e \in Clients \ {c} : call'[e] = call[e]
    BY <2>1 DEF IInv
  <2>7. HeldApart'
    BY <1>1, <2>4, <2>6 DEF IInv, HeldApart
  <2>8. \A e \in Clients : ValidCall(db', call'[e], isolation')
    BY <1>1, <2>4, <2>5, <2>6
  <2> QED BY <1>1, <2>3, <2>6, <2>7, <2>8 DEF IInv
<1> QED BY <1>2, <1>3

LEMMA Initially == Init => IInv
<1>1. SUFFICES ASSUME Init PROVE IInv
  OBVIOUS
<1>2. db \in TableSets /\ Consistent(db)
  BY <1>1, StartsAssumption DEF Init
<1>3. \A c \in Clients : call[c] = NoCall
  BY <1>1 DEF Init
<1>4. \A c \in Clients : ValidCall(db, call[c], isolation)
  BY <1>3, IdleCall
<1>5. HeldApart
  <2>1. NoCall.held = {}
    BY DEF NoCall
  <2> QED BY <1>3, <2>1 DEF HeldApart
<1> QED BY <1>1, <1>2, <1>4, <1>5 DEF Init, IInv

LEMMA NextKeeps == IInv /\ [Next]_vars => IInv'
<1>1. SUFFICES ASSUME IInv, [Next]_vars PROVE IInv'
  OBVIOUS
<1>2. CASE \E c \in Clients : Call(c) \/ Read(c) \/ ReadSnapshot(c) \/ Commit(c) \/ Duplicate(c)
  BY <1>1, <1>2, CallKeeps, ReadKeeps, ReadSnapshotKeeps, CommitKeeps, DuplicateKeeps
<1>3. CASE \E c \in Clients : Lookup(c) \/ LookupEarnings(c) \/ CreateTemplate(c) \/ Query(c)
  BY <1>1, <1>3, LookupKeeps, LookupEarningsKeeps, CreateTemplateKeeps, QueryKeeps
<1>4. CASE \E c \in Clients : Retry(c) \/ Return(c) \/ Fail(c)
  BY <1>1, <1>4, RetryKeeps, EndKeeps
<1>5. CASE UNCHANGED vars
  BY <1>1, <1>5 DEF vars, IInv, HeldApart
<1>6. Done => UNCHANGED vars
  BY DEF Done
<1> QED BY <1>1, <1>2, <1>3, <1>4, <1>5, <1>6 DEF Next

\* At every moment each transaction stands by what it has read: its statements
\* would read the same rows and go on, so that a commit acts on current rows
\* although they were read one statement after the other (inSerializableTx).
THEOREM Inductive == Spec => []IInv
<1>1. Init => IInv
  BY Initially
<1>2. IInv /\ [Next]_vars => IInv'
  BY NextKeeps
<1> QED BY <1>1, <1>2, PTL DEF Spec

\* SQLTypeOK: the tables keep rows that are accepted when they are read back, and
\* no call keeps a lock outside a transaction or exceeds its attempts.
THEOREM TypeCorrect == Spec => []SQLTypeOK
<1>1. IInv => SQLTypeOK
  BY DEF IInv, ValidCall, SQLTypeOK, StageNames
<1> QED BY <1>1, Inductive, PTL

-----------------------------------------------------------------------------
(* The contract.                                                           *)

\* A call as the contract sees it.
Bar(k) == [op |-> k.op, effect |-> k.effect, answer |-> k.answer]
Bars == [c \in Clients |-> Bar(call[c])]

LEMMA BarFields ==
    ASSUME NEW k
    PROVE  Bar(k).op = k.op /\ Bar(k).effect = k.effect /\ Bar(k).answer = k.answer
BY DEF Bar

LEMMA BarStep ==
    ASSUME IInv, NEW c \in Clients, NEW k, call' = [call EXCEPT ![c] = k]
    PROVE  Bars' = [Bars EXCEPT ![c] = Bar(k)] /\ Bars[c] = Bar(call[c])
<1>1. call'[c] = k /\ \A e \in Clients \ {c} : call'[e] = call[e]
  BY DEF IInv
<1>2. Bars' = [e \in Clients |-> Bar(call'[e])] /\ Bars = [e \in Clients |-> Bar(call[e])]
  BY DEF Bars, Bar
<1>3. \A e \in Clients : Bar(call'[e]) = IF e = c THEN Bar(k) ELSE Bar(call[e])
  BY <1>1
<1> HIDE DEF Bars
<1> QED BY <1>2, <1>3

\* The steps of the contract on the calls as it sees them.
LEMMA StoreSteps ==
    ASSUME NEW c
    PROVE  /\ \A op : (/\ Bars[c] = Store!NoCall
                      /\ Bars' = [Bars EXCEPT ![c] = [op |-> op, effect |-> "none", answer |-> Unknown]]
                      /\ reply' = [reply EXCEPT ![c] = Unknown]
                      /\ UNCHANGED db) => Store!Invoke(c, op)
           /\ LET outcome == Store!Outcome(db, Bars[c].op) IN
                (/\ Bars[c] # Store!NoCall /\ Bars[c].effect = "none"
                 /\ outcome.db # db /\ db' = outcome.db
                 /\ Bars' = [Bars EXCEPT ![c].effect = "applied", ![c].answer = outcome.answer]
                 /\ UNCHANGED reply) => Store!Apply(c)
           /\ LET outcome == Store!Outcome(db, Bars[c].op) IN
                (/\ Bars[c] # Store!NoCall /\ Bars[c].effect = "none"
                 /\ \/ outcome.db = db /\ Bars' = [Bars EXCEPT ![c].answer = outcome.answer]
                    \/ Bars' = [Bars EXCEPT ![c].answer = Unknown]
                 /\ UNCHANGED <<db, reply>>) => Store!Evaluate(c)
           /\ (/\ Bars[c].answer # Unknown /\ reply' = [reply EXCEPT ![c] = Bars[c].answer]
               /\ Bars' = [Bars EXCEPT ![c] = Store!NoCall] /\ UNCHANGED db) => Store!Return(c)
           /\ (/\ Bars[c] # Store!NoCall /\ reply' = [reply EXCEPT ![c] = Failed]
               /\ Bars' = [Bars EXCEPT ![c] = Store!NoCall] /\ UNCHANGED db) => Store!Fail(c)
<1>1. Store!Unknown = Unknown /\ Store!Failed = Failed
  BY DEF Store!Unknown, Unknown, Store!Failed, Failed, Store!Error, Error
<1>2. \A op : (/\ Bars[c] = Store!NoCall
              /\ Bars' = [Bars EXCEPT ![c] = [op |-> op, effect |-> "none", answer |-> Unknown]]
              /\ reply' = [reply EXCEPT ![c] = Unknown]
              /\ UNCHANGED db) => Store!Invoke(c, op)
  BY <1>1 DEF Store!Invoke, Bars, Bar
<1>3. LET outcome == Store!Outcome(db, Bars[c].op) IN
        (/\ Bars[c] # Store!NoCall /\ Bars[c].effect = "none"
         /\ outcome.db # db /\ db' = outcome.db
         /\ Bars' = [Bars EXCEPT ![c].effect = "applied", ![c].answer = outcome.answer]
         /\ UNCHANGED reply) => Store!Apply(c)
  BY DEF Store!Apply, Bars, Bar
<1>4. LET outcome == Store!Outcome(db, Bars[c].op) IN
        (/\ Bars[c] # Store!NoCall /\ Bars[c].effect = "none"
         /\ \/ outcome.db = db /\ Bars' = [Bars EXCEPT ![c].answer = outcome.answer]
            \/ Bars' = [Bars EXCEPT ![c].answer = Unknown]
         /\ UNCHANGED <<db, reply>>) => Store!Evaluate(c)
  BY <1>1 DEF Store!Evaluate, Bars, Bar
<1>5. (/\ Bars[c].answer # Unknown /\ reply' = [reply EXCEPT ![c] = Bars[c].answer]
       /\ Bars' = [Bars EXCEPT ![c] = Store!NoCall] /\ UNCHANGED db) => Store!Return(c)
  BY <1>1 DEF Store!Return, Bars, Bar
<1>6. (/\ Bars[c] # Store!NoCall /\ reply' = [reply EXCEPT ![c] = Failed]
       /\ Bars' = [Bars EXCEPT ![c] = Store!NoCall] /\ UNCHANGED db) => Store!Fail(c)
  BY <1>1 DEF Store!Fail, Bars, Bar
<1> QED BY <1>2, <1>3, <1>4, <1>5, <1>6

LEMMA BarIdle ==
    /\ Bar(NoCall) = Store!NoCall
    /\ \A k : k.op # NoOp => Bar(k) # Store!NoCall
<1>1. Store!NoOp = NoOp /\ Store!Unknown = Unknown
  BY DEF Store!NoOp, NoOp, Store!Unknown, Unknown, Store!Error, Error
<1>2. Bar(NoCall) = Store!NoCall
  BY <1>1 DEF Bar, NoCall, Store!NoCall
<1>3. \A k : k.op # NoOp => Bar(k) # Store!NoCall
  BY <1>1 DEF Bar, Store!NoCall
<1> QED BY <1>2, <1>3

\* A call answers, or gives its answer up, without an effect.
LEMMA Evaluates ==
    ASSUME IInv, NEW c \in Clients, call[c].stage # "none", call[c].effect = "none",
           NEW k, call' = [call EXCEPT ![c] = k], k.op = call[c].op, k.effect = "none",
           db' = db, reply' = reply,
           k.answer = Unknown \/ Store!Outcome(db, call[c].op) = [db |-> db, answer |-> k.answer]
    PROVE  Store!Evaluate(c)
<1> DEFINE b == Bar(call[c])
<1>1. Bars' = [Bars EXCEPT ![c] = Bar(k)] /\ Bars[c] = b
  BY BarStep
<1>2. call[c].op # NoOp
  BY DEF IInv, ValidCall
<1>3. b # Store!NoCall
  BY <1>2, BarIdle
<1>4. Bar(k) = [b EXCEPT !.answer = k.answer]
  BY DEF Bar
<1>5. Bars' = [Bars EXCEPT ![c].answer = k.answer]
  <2> HIDE DEF b
  <2> QED BY <1>1, <1>4
<1>7. b.effect = "none" /\ b.op = call[c].op
  BY BarFields
<1>8. CASE k.answer = Unknown
  <2> HIDE DEF b
  <2> QED BY <1>1, <1>3, <1>5, <1>7, <1>8, StoreSteps
<1>9. CASE Store!Outcome(db, call[c].op) = [db |-> db, answer |-> k.answer]
  <2>1. Store!Outcome(db, call[c].op).db = db /\ Store!Outcome(db, call[c].op).answer = k.answer
    BY <1>9
  <2> HIDE DEF b
  <2> QED BY <1>1, <1>3, <1>5, <1>7, <2>1, StoreSteps
<1> QED BY <1>8, <1>9

\* A call takes effect and answers.
LEMMA Applies ==
    ASSUME IInv, NEW c \in Clients, call[c].stage # "none", call[c].effect = "none",
           NEW k, Bars' = [Bars EXCEPT ![c] = Bar(k)], k.op = call[c].op,
           k.effect = IF db' = db THEN "none" ELSE "applied", reply' = reply,
           Store!Outcome(db, call[c].op) = [db |-> db', answer |-> k.answer]
    PROVE  Store!Apply(c) \/ Store!Evaluate(c)
<1> DEFINE b == Bar(call[c])
           o == Store!Outcome(db, call[c].op)
<1>1. Bars[c] = b
  BY DEF Bars
<1>2. call[c].op # NoOp
  BY DEF IInv, ValidCall
<1>3. b # Store!NoCall
  BY <1>2, BarIdle
<1>4. b.effect = "none" /\ b.op = call[c].op
  BY BarFields
<1>5. o.db = db' /\ o.answer = k.answer
  OBVIOUS
<1>6. CASE db' = db
  <2>1. Bar(k) = [b EXCEPT !.answer = k.answer]
    BY <1>6 DEF Bar
  <2>2. Bars' = [Bars EXCEPT ![c].answer = k.answer]
    <3> HIDE DEF b
    <3> QED BY <1>1, <2>1
  <2> HIDE DEF b, o
  <2>3. o = Store!Outcome(db, Bars[c].op)
    BY <1>1, <1>4 DEF o
  <2> QED BY <1>1, <1>3, <1>4, <1>5, <1>6, <2>2, <2>3, StoreSteps
<1>7. CASE db' # db
  <2>1. Bar(k) = [b EXCEPT !.effect = "applied", !.answer = k.answer]
    <3> DEFINE e == call[c].effect
               a == call[c].answer
               x == k.answer
    <3>1. b = [op |-> k.op, effect |-> e, answer |-> a] /\ Bar(k) = [op |-> k.op, effect |-> "applied", answer |-> x]
      BY <1>7 DEF Bar
    <3> HIDE DEF b, e, a, x
    <3>2. [b EXCEPT !.effect = "applied", !.answer = x] = [op |-> k.op, effect |-> "applied", answer |-> x]
      <4> DEFINE b1 == [b EXCEPT !.effect = "applied"]
                 b2 == [b1 EXCEPT !.answer = x]
                 op == k.op
      <4>1. b2 = [b EXCEPT !.effect = "applied", !.answer = x]
        OBVIOUS
      <4> HIDE DEF op
      <4>2. b1 = [op |-> op, effect |-> "applied", answer |-> a]
        BY <3>1 DEF op
      <4> HIDE DEF b1
      <4>3. b2 = [op |-> op, effect |-> "applied", answer |-> x]
        BY <4>2
      <4> HIDE DEF b2
      <4> QED BY <4>1, <4>3 DEF op
    <3> QED BY <3>1, <3>2 DEF x
  <2>2. Bars' = [Bars EXCEPT ![c].effect = "applied", ![c].answer = k.answer]
    <3> HIDE DEF b
    <3>1. [Bars EXCEPT ![c] = [Bars[c] EXCEPT !.effect = "applied", !.answer = k.answer]] =
            [Bars EXCEPT ![c].effect = "applied", ![c].answer = k.answer]
      BY DEF Bars
    <3> QED BY <1>1, <2>1, <3>1
  <2> HIDE DEF b, o
  <2>3. o = Store!Outcome(db, Bars[c].op)
    BY <1>1, <1>4 DEF o
  <2> QED BY <1>1, <1>3, <1>4, <1>5, <1>7, <2>2, <2>3, StoreSteps
<1> QED BY <1>6, <1>7

\* A step the contract does not see.
LEMMA Unseen ==
    ASSUME IInv, NEW c \in Clients, NEW k, call' = [call EXCEPT ![c] = k], Bar(k) = Bar(call[c]),
           db' = db, reply' = reply
    PROVE  UNCHANGED Store!vars
<1>1. Bars' = Bars
  <2>1. Bars' = [Bars EXCEPT ![c] = Bar(k)] /\ Bars[c] = Bar(call[c])
    BY BarStep
  <2>2. Bars = [x \in Clients |-> Bars[x]]
    BY DEF Bars
  <2> HIDE DEF Bars
  <2> QED BY <2>1, <2>2
<1> QED BY <1>1 DEF Store!vars, Bars, Bar

LEMMA CallSeen ==
    ASSUME IInv, NEW c \in Clients, Call(c)
    PROVE  \E op \in Requests : Store!Invoke(c, op)
<1>1. PICK op \in Requests : /\ call[c] = NoCall /\ call' = [call EXCEPT ![c] = Started(op, 1)]
                             /\ reply' = [reply EXCEPT ![c] = Unknown] /\ UNCHANGED <<db, isolation>>
  BY DEF Call
<1>2. 1 \in 1..MaxAttempts /\ db \in TableSets
  BY AttemptsAssumption, ClientAt
<1>3. Started(op, 1).op = op /\ Started(op, 1).effect = "none" /\ Started(op, 1).answer = Unknown
  BY <1>2, StartedCall
<1>4. Bar(Started(op, 1)) = [op |-> op, effect |-> "none", answer |-> Unknown]
  BY <1>3 DEF Bar
<1>5. Bars' = [Bars EXCEPT ![c] = Bar(Started(op, 1))] /\ Bars[c] = Store!NoCall
  BY <1>1, BarStep, BarIdle
<1>6. Store!Invoke(c, op)
  BY <1>1, <1>4, <1>5, StoreSteps
<1> QED BY <1>6

LEMMA EndSeen ==
    ASSUME IInv, NEW c \in Clients, Return(c) \/ Fail(c)
    PROVE  Store!Return(c) \/ Store!Fail(c)
<1>1. call' = [call EXCEPT ![c] = NoCall] /\ db' = db
  BY DEF Return, Fail
<1>2. Bars' = [Bars EXCEPT ![c] = Store!NoCall] /\ Bars[c] = Bar(call[c])
  BY <1>1, BarStep, BarIdle
<1>3. CASE Return(c)
  <2>1. call[c].answer # Unknown /\ reply' = [reply EXCEPT ![c] = call[c].answer]
    BY <1>3, ClientAt DEF Return, ValidCall
  <2> QED BY <1>1, <1>2, <2>1, BarFields, StoreSteps
<1>4. CASE Fail(c)
  <2>1. call[c] # NoCall /\ reply' = [reply EXCEPT ![c] = Failed]
    BY <1>4 DEF Fail
  <2>2. call[c].op # NoOp
    BY <2>1, ClientAt DEF ValidCall
  <2> QED BY <1>1, <1>2, <2>1, <2>2, BarIdle, StoreSteps
<1> QED BY <1>3, <1>4

LEMMA RetrySeen ==
    ASSUME IInv, NEW c \in Clients, Retry(c)
    PROVE  Store!Evaluate(c)
<1> DEFINE k == Started(call[c].op, call[c].attempt + 1)
<1>1. /\ call[c].stage \in {"tx", "end"} /\ call[c].attempt < MaxAttempts /\ call' = [call EXCEPT ![c] = k]
      /\ UNCHANGED <<db, reply, isolation, calls>>
  BY DEF Retry, Retryable
<1>2. /\ db \in TableSets /\ call[c].op \in Requests /\ call[c].attempt \in 0..MaxAttempts
      /\ call[c].effect = "none"
  BY <1>1, ClientAt DEF ValidCall
<1>3. call[c].attempt + 1 \in 1..MaxAttempts
  BY <1>1, <1>2, AttemptsAssumption
<1>4. k.op = call[c].op /\ k.effect = "none" /\ k.answer = Unknown
  <2> DEFINE op == call[c].op
             attempt == call[c].attempt + 1
  <2>1. op \in Requests /\ attempt \in 1..MaxAttempts
    BY <1>2, <1>3
  <2> HIDE DEF op, attempt
  <2>2. Started(op, attempt).op = op
    BY <1>2, <2>1, StartedCall
  <2>3. Started(op, attempt).effect = "none" /\ Started(op, attempt).answer = Unknown
    BY <1>2, <2>1, StartedCall
  <2> QED BY <2>2, <2>3 DEF op, attempt
<1> HIDE DEF k
<1> QED BY <1>1, <1>2, <1>4, Evaluates

\* A transaction that ends without writing.
LEMMA RefusalSeen ==
    ASSUME IInv, NEW c \in Clients, call[c].stage = "tx", NEW answer, call' = [call EXCEPT ![c] = Ended(call[c], answer)],
           db' = db, reply' = reply,
           Store!Outcome(db, call[c].op) = [db |-> db, answer |-> answer]
    PROVE  Store!Evaluate(c)
<1> DEFINE k == Ended(call[c], answer)
<1>1. k.op = call[c].op /\ k.effect = "none" /\ k.answer = answer
  <2>1. k = [op |-> call[c].op, stage |-> "end", attempt |-> call[c].attempt, at |-> 0, held |-> {}, gaps |-> {},
             snapshot |-> "valid", effect |-> "none", answer |-> answer]
    BY EndedFields
  <2> HIDE DEF k
  <2> QED BY <2>1
<1>2. call[c].effect = "none"
  BY ClientAt DEF ValidCall
<1> HIDE DEF k
<1>3. call' = [call EXCEPT ![c] = k]
  BY DEF k
<1> QED BY <1>1, <1>2, <1>3, Evaluates

\* The statement a transaction stops at says what the contract answers.
LEMMA StopAnswers ==
    ASSUME IInv, NEW c \in Clients, call[c].stage = "tx",
           NEW i \in 1..Len(Statements(db, call[c].op)),
           Statements(db, call[c].op)[i].verdict # Continue,
           \A j \in 1..(i - 1) : Statements(db, call[c].op)[j].verdict = Continue
    PROVE  Store!Outcome(db, call[c].op) = [db |-> db, answer |-> Statements(db, call[c].op)[i].verdict]
<1>1. /\ db \in TableSets /\ Consistent(db) /\ ValidRequest(call[c].op)
      /\ call[c].op.kind \in Mutations
  BY ClientAt DEF ValidCall, Running
<1>2. RefusesAsContract(db, call[c].op)
  BY <1>1, MutationRefuses
<1> QED BY <1>2 DEF RefusesAsContract

LEMMA ReadSeen ==
    ASSUME IInv, NEW c \in Clients, Read(c)
    PROVE  Store!Evaluate(c) \/ UNCHANGED Store!vars
<1> DEFINE k == call[c]
           row == NextStatement(c).row
           verdict == NextStatement(c).verdict
           read == IF Present(db, row) THEN [k EXCEPT !.at = @ + 1, !.held = @ \cup {row}]
                   ELSE [k EXCEPT !.at = @ + 1, !.gaps = @ \cup {row}]
<1>1. /\ isolation = "locking" /\ k.stage = "tx" /\ k.at <= Len(Statements(db, k.op))
      /\ call' = [call EXCEPT ![c] = IF verdict = Continue THEN read ELSE Ended(k, verdict)]
      /\ UNCHANGED <<db, reply, isolation, calls>>
  BY DEF Read, InTx, Unread
<1>2. /\ db \in TableSets /\ ValidCall(db, k, "locking") /\ HasFields(k)
  BY <1>1, ClientAt
<1>3. CASE verdict = Continue
  <2>1. read.op = k.op /\ read.effect = k.effect /\ read.answer = k.answer
    BY <1>2 DEF HasFields
  <2> HIDE DEF read
  <2>2. Bar(read) = Bar(k)
    BY <2>1 DEF Bar
  <2> QED BY <1>1, <1>3, <2>2, Unseen
<1>4. CASE verdict # Continue
  <2>1. /\ k.op.kind \in Mutations /\ k.at \in Nat \ {0} /\ Passed(db, k.op, k.at - 1)
    BY <1>1, <1>2 DEF ValidCall, Running, Established
  <2>2. k.at \in 1..Len(Statements(db, k.op))
    <3>1. Len(Statements(db, k.op)) \in Nat
      BY <1>1, <2>1, ClientAt, MutationReads
    <3> QED BY <1>1, <2>1, <3>1
  <2>3. Store!Outcome(db, k.op) = [db |-> db, answer |-> verdict]
    BY <1>1, <1>4, <2>1, <2>2, StopAnswers DEF NextStatement, Passed
  <2> HIDE DEF verdict
  <2>4. call' = [call EXCEPT ![c] = Ended(call[c], verdict)]
    BY <1>1, <1>4
  <2> QED BY <1>1, <2>3, <2>4, RefusalSeen
<1> QED BY <1>3, <1>4

LEMMA ReadSnapshotSeen ==
    ASSUME IInv, NEW c \in Clients, ReadSnapshot(c)
    PROVE  Store!Evaluate(c) \/ UNCHANGED Store!vars
<1> DEFINE k == call[c]
           reads == Statements(db, k.op)
           stops == {i \in 1..Len(reads) : reads[i].verdict # Continue}
           first == CHOOSE i \in stops : \A j \in stops : i <= j
           all == AllRead(db, k)
<1>1. /\ isolation = "snapshot" /\ k.stage = "tx"
      /\ call' = [call EXCEPT ![c] = IF stops = {} THEN all ELSE Ended(k, reads[first].verdict)]
      /\ UNCHANGED <<db, reply, isolation, calls>>
  BY DEF ReadSnapshot, InTx, AllRead
<1>2. /\ db \in TableSets /\ ValidCall(db, k, "snapshot") /\ HasFields(k)
  BY <1>1, ClientAt
<1>3. CASE stops = {}
  <2>1. all.op = k.op /\ all.effect = k.effect /\ all.answer = k.answer
    BY <1>2 DEF HasFields, AllRead
  <2> HIDE DEF all
  <2>2. Bar(all) = Bar(k)
    BY <2>1 DEF Bar
  <2>3. call' = [call EXCEPT ![c] = all]
    BY <1>1, <1>3
  <2> QED BY <1>1, <2>2, <2>3, Unseen
<1>4. CASE stops # {}
  <2>1. Len(reads) \in Nat
    <3>1. k.op.kind \in Mutations
      BY <1>1, <1>2 DEF ValidCall, Running
    <3> QED BY <1>1, <3>1, ClientAt, MutationReads
  <2>2. first \in stops /\ \A j \in stops : first <= j
    <3>1. stops \subseteq Nat
      BY <2>1
    <3> HIDE DEF stops
    <3> QED BY <1>4, <3>1, Least
  <2>3. first \in 1..Len(reads) /\ reads[first].verdict # Continue
    BY <2>2
  <2>4. \A j \in 1..(first - 1) : reads[j].verdict = Continue
    <3>1. \A j \in 1..(first - 1) : j \in 1..Len(reads) /\ ~(first <= j)
      <4> HIDE DEF first, reads
      <4> QED BY <2>1, <2>3
    <3> HIDE DEF first
    <3> QED BY <2>2, <3>1
  <2> HIDE DEF first
  <2>5. Store!Outcome(db, k.op) = [db |-> db, answer |-> reads[first].verdict]
    BY <1>1, <2>3, <2>4, StopAnswers
  <2>6. call' = [call EXCEPT ![c] = Ended(call[c], reads[first].verdict)]
    BY <1>1, <1>4
  <2> HIDE DEF reads
  <2> QED BY <1>1, <2>5, <2>6, RefusalSeen
<1> QED BY <1>3, <1>4

LEMMA DuplicateSeen ==
    ASSUME IInv, NEW c \in Clients, Duplicate(c)
    PROVE  Store!Evaluate(c) \/ UNCHANGED Store!vars
<1> DEFINE k == call[c]
<1>1. /\ k.stage = "tx" /\ k.op \in Requests
      /\ UNCHANGED <<db, reply, isolation, calls>>
  BY DuplicateResult
<1>2. /\ ValidCall(db, k, isolation) /\ k.effect = "none" /\ k.answer = Unknown
  BY <1>1, ClientAt DEF ValidCall
<1>3. CASE k.op.kind = "CommitEvent"
  <2> DEFINE k2 == [Ended(k, Unknown) EXCEPT !.stage = "lookup"]
  <2>1. /\ db.events[k.op.source] # NoFacts
        /\ call' = [call EXCEPT ![c] = k2]
    BY <1>3, DuplicateResult
  <2>2. k2.op = k.op /\ k2.effect = "none" /\ k2.answer = Unknown
    <3>1. k.stage # "none"
      BY <1>1
    <3> HIDE DEF k
    <3>2. /\ ValidCall(db, k, isolation) /\ k.stage # "none" /\ k.op.kind = "CommitEvent"
          /\ db.events[k.op.source] # NoFacts
      BY <1>2, <1>3, <2>1, <3>1
    <3> QED BY ONLY <3>2, LookupCall
  <2> HIDE DEF k2
  <2>3. Bar(k2) = Bar(k)
    BY <1>2, <2>2 DEF Bar
  <2> QED BY <1>1, <2>1, <2>3, Unseen
<1>4. CASE k.op.kind # "CommitEvent"
  <2> DEFINE answer == Error(DuplicateError(k.op))
  <2>1. /\ call' = [call EXCEPT ![c] = Ended(k, answer)]
        /\ Store!Outcome(db, k.op) = [db |-> db, answer |-> answer]
    BY <1>4, DuplicateResult
  <2> HIDE DEF answer
  <2> QED BY <1>1, <2>1, RefusalSeen
<1> QED BY <1>3, <1>4

\* An answer that is given outside a transaction.
LEMMA GivenSeen ==
    ASSUME IInv, NEW c \in Clients, call[c].stage \in {"single", "lookup", "lookupEarnings"}, NEW answer,
           call' = [call EXCEPT ![c] = [call[c] EXCEPT !.stage = "return", !.answer = answer]],
           db' = db, reply' = reply,
           Store!Outcome(db, call[c].op) = [db |-> db, answer |-> answer]
    PROVE  Store!Evaluate(c)
<1> DEFINE k == [call[c] EXCEPT !.stage = "return", !.answer = answer]
<1>1. HasFields(call[c]) /\ call[c].effect = "none"
  BY ClientAt DEF ValidCall
<1>2. k = At(call[c], "return", call[c].effect, answer)
  BY <1>1, GivenFields
<1>3. call' = [call EXCEPT ![c] = k]
  OBVIOUS
<1> HIDE DEF k
<1>4. k.op = call[c].op /\ k.effect = "none" /\ k.answer = answer
  BY <1>1, <1>2, AtFields
<1> QED BY <1>1, <1>3, <1>4, Evaluates

LEMMA LookupSeen ==
    ASSUME IInv, NEW c \in Clients, Lookup(c)
    PROVE  Store!Evaluate(c) \/ UNCHANGED Store!vars
<1> DEFINE k == call[c]
           next == [k EXCEPT !.stage = "lookupEarnings"]
           refused == [k EXCEPT !.stage = "return", !.answer = Error("event_conflict")]
<1>1. /\ k.stage = "lookup"
      /\ call' = [call EXCEPT ![c] = IF db.events[k.op.source] = k.op.facts THEN next ELSE refused]
      /\ UNCHANGED <<db, reply, isolation, calls>>
  BY DEF Lookup
<1>2. /\ HasFields(k) /\ ValidRequest(k.op) /\ k.op.kind = "CommitEvent" /\ db.events[k.op.source] # NoFacts
  BY <1>1, ClientAt DEF ValidCall
<1>3. CASE db.events[k.op.source] = k.op.facts
  <2>1. next = At(k, "lookupEarnings", k.effect, k.answer)
    BY <1>2, StageFields
  <2> HIDE DEF next
  <2>2. next.op = k.op /\ next.effect = k.effect /\ next.answer = k.answer
    BY <2>1, AtFields
  <2>3. Bar(next) = Bar(k)
    BY <2>2 DEF Bar
  <2>4. call' = [call EXCEPT ![c] = next]
    BY <1>1, <1>3
  <2> QED BY <1>1, <2>3, <2>4, Unseen
<1>4. CASE db.events[k.op.source] # k.op.facts
  <2> DEFINE answer == Error("event_conflict")
  <2>1. Store!Outcome(db, k.op) = [db |-> db, answer |-> answer]
    BY <1>2, <1>4, LookupAnswers
  <2>2. call' = [call EXCEPT ![c] = [k EXCEPT !.stage = "return", !.answer = answer]]
    BY <1>1, <1>4
  <2> HIDE DEF answer
  <2> QED BY <1>1, <2>1, <2>2, GivenSeen
<1> QED BY <1>3, <1>4

LEMMA LookupEarningsSeen ==
    ASSUME IInv, NEW c \in Clients, LookupEarnings(c)
    PROVE  Store!Evaluate(c)
<1> DEFINE answer == Ok(EarningsOf(db, call[c].op.source))
<1>1. /\ call[c].stage = "lookupEarnings"
      /\ call' = [call EXCEPT ![c] = [call[c] EXCEPT !.stage = "return", !.answer = answer]]
      /\ UNCHANGED <<db, reply, isolation, calls>>
  BY DEF LookupEarnings, IInv
<1>2. /\ ValidRequest(call[c].op) /\ call[c].op.kind = "CommitEvent"
      /\ db.events[call[c].op.source] # NoFacts /\ db.events[call[c].op.source] = call[c].op.facts
  BY <1>1, ClientAt DEF ValidCall
<1>3. Store!Outcome(db, call[c].op) = [db |-> db, answer |-> answer]
  BY <1>2, LookupAnswers
<1> HIDE DEF answer
<1> QED BY <1>1, <1>3, GivenSeen

LEMMA QuerySeen ==
    ASSUME IInv, NEW c \in Clients, Query(c)
    PROVE  Store!Evaluate(c)
<1> DEFINE answer == Selected(db, call[c].op)
<1>1. /\ call[c].stage = "single" /\ call[c].op.kind \in Queries
      /\ call' = [call EXCEPT ![c] = [call[c] EXCEPT !.stage = "return", !.answer = answer]]
      /\ UNCHANGED <<db, reply, isolation, calls>>
  BY DEF Query, IInv
<1>2. Store!Outcome(db, call[c].op) = [db |-> db, answer |-> answer]
  BY <1>1, ClientAt, QueryAnswers
<1> HIDE DEF answer
<1> QED BY <1>1, <1>2, GivenSeen

LEMMA CreateTemplateSeen ==
    ASSUME IInv, NEW c \in Clients, CreateTemplate(c)
    PROVE  Store!Apply(c) \/ Store!Evaluate(c)
<1> DEFINE k == call[c]
           k2 == [k EXCEPT !.stage = "return", !.effect = "applied", !.answer = Ok({})]
<1>1. k.stage = "single" /\ k.op.kind = "CreateTemplate" /\ UNCHANGED <<reply, isolation, calls>>
  BY DEF CreateTemplate
<1>2. /\ db \in TableSets /\ Consistent(db) /\ HasFields(k) /\ k.effect = "none"
  BY <1>1, ClientAt DEF ValidCall
<1>3. CASE db.template # "absent"
  <2> DEFINE answer == Error("template_exists")
  <2>1. /\ call' = [call EXCEPT ![c] = [k EXCEPT !.stage = "return", !.answer = answer]]
        /\ UNCHANGED <<db, reply, isolation, calls>>
    BY <1>3 DEF CreateTemplate, IInv
  <2>2. Store!Outcome(db, k.op) = [db |-> db, answer |-> answer]
    BY <1>1, <1>2, <1>3, TemplateCreated
  <2> HIDE DEF answer
  <2> QED BY <1>1, <2>1, <2>2, GivenSeen
<1>4. CASE db.template = "absent"
  <2>1. db' = [db EXCEPT !.template = NewTemplate] /\ call' = [call EXCEPT ![c] = k2]
    BY <1>4 DEF CreateTemplate, IInv
  <2>2. Store!Outcome(db, k.op) = [db |-> db', answer |-> Ok({})] /\ db' # db
    BY <1>1, <1>2, <1>4, <2>1, TemplateCreated
  <2>3. k2 = At(k, "return", "applied", Ok({}))
    BY <1>2, GivenFields
  <2> HIDE DEF k2
  <2>4. k2.op = k.op /\ k2.effect = "applied" /\ k2.answer = Ok({})
    BY <2>3, AtFields
  <2>5. Bars' = [Bars EXCEPT ![c] = Bar(k2)]
    BY <2>1, BarStep
  <2>6. k2.effect = IF db' = db THEN "none" ELSE "applied"
    BY <2>2, <2>4
  <2> QED BY <1>1, <1>2, <2>2, <2>4, <2>5, <2>6, Applies
<1> QED BY <1>3, <1>4

LEMMA CommitSeen ==
    ASSUME IInv, NEW c \in Clients, Commit(c)
    PROVE  Store!Apply(c) \/ Store!Evaluate(c)
<1> DEFINE k == call[c]
           T == Inserts(k.op) \cup Updates(k)
           answer == Ok(Saved(db', k))
           effect == IF db' = db THEN "none" ELSE "applied"
           k2 == [Ended(k, answer) EXCEPT !.stage = "return", !.effect = effect]
<1>1. k.stage = "tx" /\ Store!Outcome(db, k.op) = [db |-> db', answer |-> answer]
  BY CommitComplete, CommitEffect
<1>2. /\ call' = [(IF isolation = "snapshot" THEN Overwritten(T) ELSE call) EXCEPT ![c] = k2]
      /\ UNCHANGED <<reply, isolation, calls>>
  BY DEF Commit
<1>3. k.effect = "none"
  BY <1>1, ClientAt DEF ValidCall
<1>4. k2 = [op |-> k.op, stage |-> "return", attempt |-> k.attempt, at |-> 0, held |-> {}, gaps |-> {},
            snapshot |-> "valid", effect |-> effect, answer |-> answer]
  BY ReturnedFields
<1> HIDE DEF k2
<1>5. k2.op = k.op /\ k2.effect = effect /\ k2.answer = answer
  <2> HIDE DEF effect, answer
  <2> QED BY <1>4
<1>6. call'[c] = k2 /\ \A e \in Clients \ {c} : Bar(call'[e]) = Bar(call[e])
  <2>1. CASE isolation = "snapshot"
    <3>1. /\ call'[c] = k2
          /\ \A e \in Clients \ {c} : call'[e] \in {call[e], [call[e] EXCEPT !.snapshot = "overwritten"]}
      <4> HIDE DEF T
      <4> QED BY <1>2, <2>1 DEF Overwritten
    <3>2. \A e \in Clients : Bar([call[e] EXCEPT !.snapshot = "overwritten"]) = Bar(call[e])
      <4>1. \A e \in Clients : HasFields(call[e])
        BY ClientAt
      <4> QED BY <4>1 DEF HasFields, Bar
    <3> QED BY <3>1, <3>2
  <2>2. CASE isolation # "snapshot"
    BY <1>2, <2>2 DEF IInv
  <2> QED BY <2>1, <2>2
<1>7. Bars' = [Bars EXCEPT ![c] = Bar(k2)]
  <2>1. Bars' = [e \in Clients |-> Bar(call'[e])] /\ Bars = [e \in Clients |-> Bar(call[e])]
    BY DEF Bars, Bar
  <2>2. \A e \in Clients : Bar(call'[e]) = IF e = c THEN Bar(k2) ELSE Bar(call[e])
    BY <1>6
  <2> HIDE DEF Bars
  <2> QED BY <2>1, <2>2
<1> HIDE DEF answer
<1> QED BY <1>1, <1>2, <1>3, <1>5, <1>7, Applies

LEMMA NextSeen == IInv /\ [Next]_vars => [Store!Next]_(Store!vars)
<1>1. SUFFICES ASSUME IInv, [Next]_vars PROVE Store!Next \/ UNCHANGED Store!vars
  OBVIOUS
<1>2. ASSUME NEW c \in Clients, Call(c) PROVE Store!Next
  BY <1>1, <1>2, CallSeen DEF Store!Next
<1>3. ASSUME NEW c \in Clients, Read(c) \/ ReadSnapshot(c) \/ Duplicate(c) \/ Lookup(c)
      PROVE  Store!Next \/ UNCHANGED Store!vars
  <2>1. Store!Evaluate(c) \/ UNCHANGED Store!vars
    BY <1>1, <1>3, ReadSeen, ReadSnapshotSeen, DuplicateSeen, LookupSeen
  <2> QED BY <2>1 DEF Store!Next
<1>4. ASSUME NEW c \in Clients, Commit(c) \/ CreateTemplate(c) \/ LookupEarnings(c) \/ Query(c) \/ Retry(c)
      PROVE  Store!Next
  <2>1. Store!Apply(c) \/ Store!Evaluate(c)
    BY <1>1, <1>4, CommitSeen, CreateTemplateSeen, LookupEarningsSeen, QuerySeen, RetrySeen
  <2> QED BY <2>1 DEF Store!Next
<1>5. ASSUME NEW c \in Clients, Return(c) \/ Fail(c) PROVE Store!Next
  <2>1. Store!Return(c) \/ Store!Fail(c)
    BY <1>1, <1>5, EndSeen
  <2> QED BY <2>1 DEF Store!Next
<1>6. CASE UNCHANGED vars
  BY <1>6 DEF vars, Store!vars
<1>7. Done => UNCHANGED vars
  BY DEF Done
<1> QED BY <1>1, <1>2, <1>3, <1>4, <1>5, <1>6, <1>7 DEF Next

\* ImplementsStore: the SQL store keeps the contract of the MemoryStore for any
\* tables, requests and number of clients: a call takes effect at one moment, at
\* most once however often its transaction was started again, and is answered as
\* the contract answers at that moment.
THEOREM KeepsContract == Spec => ImplementsStore
<1>1. Init => Store!Init
  <2>1. SUFFICES ASSUME Init PROVE Store!Init
    OBVIOUS
  <2>2. \A c \in Clients : Bar(call[c]) = Store!NoCall
    BY <2>1, BarIdle DEF Init
  <2>3. [c \in Clients |-> Bar(call[c])] = [c \in Clients |-> Store!NoCall]
    BY <2>2
  <2>4. Store!Unknown = Unknown
    BY DEF Store!Unknown, Unknown, Store!Error, Error
  <2> QED BY <2>1, <2>3, <2>4 DEF Init, Store!Init, Bar
<1>2. IInv /\ [Next]_vars => [Store!Next]_(Store!vars)
  BY NextSeen
<1> QED BY <1>1, <1>2, Inductive, PTL DEF Spec, ImplementsStore, Store!Spec

-----------------------------------------------------------------------------
(* Versions of the journal entries and messages.                           *)

\* The tables d became t: a row keeps its version or gets the next one, and what
\* was added to the journal and to the outbox has the version of its row.
Grows(d, t) ==
    /\ \A e \in Earnings : t.earnings[e] = d.earnings[e] \/ t.earnings[e].version = d.earnings[e].version + 1
    /\ \A b \in Settlements :
          t.settlements[b] = d.settlements[b] \/ t.settlements[b].version = d.settlements[b].version + 1
    /\ \A entry \in t.journal \ d.journal : entry.version = t.earnings[entry.earning].version
    /\ \A m \in t.outbox \ d.outbox :
          /\ m.id \in Earnings => m.version = t.earnings[m.id].version
          /\ m.id \in Settlements => m.version = t.settlements[m.id].version

\* No version that a change gives a row was used before.
Fresh(d, t) ==
    /\ \A e \in Earnings : t.earnings[e] # d.earnings[e] =>
          /\ \A entry \in d.journal : entry.earning = e => entry.version # t.earnings[e].version
          /\ \A m \in d.outbox : m.id = e => m.version # t.earnings[e].version
    /\ \A b \in Settlements : t.settlements[b] # d.settlements[b] =>
          \A m \in d.outbox : m.id = b => m.version # t.settlements[b].version

LEMMA RowVersions ==
    ASSUME NEW d, d \in TableSets
    PROVE  /\ \A e \in Earnings : d.earnings[e].version \in Nat
           /\ \A b \in Settlements : d.settlements[b].version \in Nat
           /\ \A entry \in d.journal : entry.earning \in Earnings /\ entry.version \in Nat
           /\ \A m \in d.outbox : m.id \in Earnings \cup Settlements /\ m.version \in Nat
<1>1. \A e \in Earnings : d.earnings[e].version \in Nat
  <2>1. \A e \in Earnings : d.earnings[e] \in EarningRows \cup {NoEarning}
    BY DEF TableSets
  <2> QED BY <2>1 DEF EarningRows, NoEarning
<1>2. \A b \in Settlements : d.settlements[b].version \in Nat
  <2>1. \A b \in Settlements : d.settlements[b] \in BatchRows \cup {NoBatch}
    BY DEF TableSets
  <2> QED BY <2>1 DEF BatchRows, NoBatch
<1>3. d.journal \subseteq JournalRows /\ d.outbox \subseteq OutboxRows
  BY DEF TableSets
<1> QED BY <1>1, <1>2, <1>3 DEF JournalRows, OutboxRows

LEMMA GrowthNumbers ==
    ASSUME NEW d, d \in TableSets, Numbered(d), NEW t, t \in TableSets, Grows(d, t)
    PROVE  Numbered(t) /\ Fresh(d, t)
<1>1. ASSUME NEW e \in Earnings
      PROVE  /\ d.earnings[e].version \in Nat /\ t.earnings[e].version >= d.earnings[e].version
             /\ t.earnings[e] # d.earnings[e] => t.earnings[e].version > d.earnings[e].version
  <2>1. d.earnings[e].version \in Nat
    BY RowVersions
  <2>2. t.earnings[e] = d.earnings[e] \/ t.earnings[e].version = d.earnings[e].version + 1
    BY DEF Grows
  <2> QED BY <2>1, <2>2
<1>2. ASSUME NEW b \in Settlements
      PROVE  /\ d.settlements[b].version \in Nat /\ t.settlements[b].version >= d.settlements[b].version
             /\ t.settlements[b] # d.settlements[b] => t.settlements[b].version > d.settlements[b].version
  <2>1. d.settlements[b].version \in Nat
    BY RowVersions
  <2>2. t.settlements[b] = d.settlements[b] \/ t.settlements[b].version = d.settlements[b].version + 1
    BY DEF Grows
  <2> QED BY <2>1, <2>2
<1>3. ASSUME NEW entry \in d.journal
      PROVE  /\ entry.earning \in Earnings /\ entry.version \in Nat
             /\ entry.version <= d.earnings[entry.earning].version
  BY RowVersions DEF Numbered
<1>4. ASSUME NEW m \in d.outbox
      PROVE  /\ m.id \in Earnings \cup Settlements /\ m.version \in Nat
             /\ m.id \in Earnings => m.version <= d.earnings[m.id].version
             /\ m.id \in Settlements => m.version <= d.settlements[m.id].version
  BY RowVersions DEF Numbered
<1>5. ASSUME NEW x, NEW y, NEW z, x \in Nat, y \in Nat, z \in Nat, x <= y
      PROVE  (z >= y => x <= z) /\ (z > y => x # z)
  BY <1>5
<1>6. Numbered(t)
  <2>1. ASSUME NEW entry \in t.journal PROVE entry.version <= t.earnings[entry.earning].version
    <3>1. entry.earning \in Earnings /\ t.earnings[entry.earning].version \in Nat
      BY RowVersions
    <3>2. CASE entry \in d.journal
      BY <1>1, <1>3, <3>1, <3>2
    <3>3. CASE entry \notin d.journal
      BY <3>1, <3>3 DEF Grows
    <3> QED BY <3>2, <3>3
  <2>2. ASSUME NEW m \in t.outbox, m.id \in Earnings PROVE m.version <= t.earnings[m.id].version
    <3>1. t.earnings[m.id].version \in Nat
      BY <2>2, RowVersions
    <3>2. CASE m \in d.outbox
      BY <1>1, <1>4, <2>2, <3>1, <3>2
    <3>3. CASE m \notin d.outbox
      BY <2>2, <3>1, <3>3 DEF Grows
    <3> QED BY <3>2, <3>3
  <2>3. ASSUME NEW m \in t.outbox, m.id \in Settlements PROVE m.version <= t.settlements[m.id].version
    <3>1. t.settlements[m.id].version \in Nat
      BY <2>3, RowVersions
    <3>2. CASE m \in d.outbox
      BY <1>2, <1>4, <2>3, <3>1, <3>2
    <3>3. CASE m \notin d.outbox
      BY <2>3, <3>1, <3>3 DEF Grows
    <3> QED BY <3>2, <3>3
  <2> QED BY <2>1, <2>2, <2>3 DEF Numbered
<1>7. Fresh(d, t)
  <2>1. ASSUME NEW e \in Earnings, t.earnings[e] # d.earnings[e]
        PROVE  /\ \A entry \in d.journal : entry.earning = e => entry.version # t.earnings[e].version
               /\ \A m \in d.outbox : m.id = e => m.version # t.earnings[e].version
    <3>1. t.earnings[e].version > d.earnings[e].version /\ d.earnings[e].version \in Nat /\ t.earnings[e].version \in Nat
      BY <1>1, <2>1, RowVersions
    <3> QED BY <1>3, <1>4, <1>5, <3>1
  <2>2. ASSUME NEW b \in Settlements, t.settlements[b] # d.settlements[b], NEW m \in d.outbox, m.id = b
        PROVE  m.version # t.settlements[b].version
    <3>1. t.settlements[b].version > d.settlements[b].version /\ t.settlements[b].version \in Nat
      BY <1>2, <2>2, RowVersions
    <3> QED BY <1>2, <1>4, <1>5, <2>2, <3>1
  <2> QED BY <2>1, <2>2 DEF Fresh
<1> QED BY <1>6, <1>7

\* Tables that differ in other columns.
LEMMA SameRowsGrow ==
    ASSUME NEW d, NEW t, t.earnings = d.earnings, t.settlements = d.settlements,
           t.journal = d.journal, t.outbox = d.outbox
    PROVE  Grows(d, t)
BY DEF Grows

LEMMA MovedVersion ==
    ASSUME NEW d, d \in TableSets, NEW e \in Earnings, d.earnings[e] # NoEarning, NEW action
    PROVE  Moved(d, e, action).version = d.earnings[e].version + 1
<1>1. d.earnings[e] \in EarningRows
  BY DEF TableSets
<1> QED BY <1>1 DEF Moved, EarningRows

LEMMA TransitionedGrows ==
    ASSUME NEW d, d \in TableSets, NEW S \in SUBSET Earnings, NEW action,
           \A e \in S : d.earnings[e] # NoEarning
    PROVE  /\ Grows(d, Transitioned(d, S, action))
           /\ Transitioned(d, S, action).settlements = d.settlements
           /\ \A m \in Transitioned(d, S, action).outbox \ d.outbox : m.id \notin Settlements
<1> DEFINE moved == MovedAll(d, S, action)
           entries == {[earning |-> e, kind |-> JournalKind(action, moved[e].status),
                        version |-> moved[e].version] : e \in S}
           messages == Messages(moved, S)
           t == [d EXCEPT !.earnings = moved, !.journal = @ \cup entries, !.outbox = @ \cup messages]
<1>1. t = Transitioned(d, S, action)
  BY DEF Transitioned
<1>2. \A e \in Earnings : moved[e] = d.earnings[e] \/ moved[e].version = d.earnings[e].version + 1
  BY MovedVersion DEF MovedAll
<1>3. \A entry \in entries : entry.version = moved[entry.earning].version
  OBVIOUS
<1>4. \A m \in messages : m.id \in S /\ m.version = moved[m.id].version
  BY DEF Messages, Message
<1> HIDE DEF moved, entries, messages
<1>5. /\ t.earnings = moved /\ t.settlements = d.settlements
      /\ t.journal = d.journal \cup entries /\ t.outbox = d.outbox \cup messages
  BY DEF TableSets
<1>6. \A m \in messages : m.id \notin Settlements
  BY <1>4, NamesAssumption
<1> HIDE DEF t
<1>7. Grows(d, t)
  BY <1>2, <1>3, <1>4, <1>5, <1>6 DEF Grows
<1> QED BY <1>1, <1>5, <1>6, <1>7

LEMMA ClaimedGrows ==
    ASSUME NEW d, d \in TableSets, NEW b \in Settlements, d.settlements[b] = NoBatch,
           NEW S \in SUBSET Earnings, \A e \in S : d.earnings[e] # NoEarning
    PROVE  Grows(d, Claimed(d, b, S))
<1> DEFINE moved == MovedAll(d, S, "start_settlement")
           message == Message(b, "submitted", 1)
           batch == NewBatch(S)
           t == [d EXCEPT !.settlements[b] = batch, !.earnings = moved, !.outbox = @ \cup {message}]
<1>1. t = Claimed(d, b, S)
  BY DEF Claimed
<1>2. \A e \in Earnings : moved[e] = d.earnings[e] \/ moved[e].version = d.earnings[e].version + 1
  BY MovedVersion DEF MovedAll
<1>3. /\ batch.version = 1 /\ d.settlements[b].version = 0
      /\ message.id = b /\ message.version = 1 /\ b \notin Earnings
  BY NamesAssumption DEF NewBatch, NoBatch, Message
<1> HIDE DEF moved, message, batch
<1>4. /\ t.earnings = moved /\ t.settlements[b] = batch
      /\ \A c \in Settlements \ {b} : t.settlements[c] = d.settlements[c]
      /\ t.journal = d.journal /\ t.outbox = d.outbox \cup {message}
  BY DEF TableSets
<1> HIDE DEF t
<1> QED BY <1>1, <1>2, <1>3, <1>4 DEF Grows

LEMMA ConcludedGrows ==
    ASSUME NEW d, d \in TableSets, NEW b \in Settlements, NEW outcome, NEW reference,
           d.settlements[b] # NoBatch, d.settlements[b].earnings \subseteq Earnings,
           \A e \in d.settlements[b].earnings :
               d.earnings[e] # NoEarning /\ NextStatus(d.earnings[e].status,
                   IF outcome = "settled" THEN "settle" ELSE "reject_settlement") # "invalid"
    PROVE  Grows(d, Concluded(d, b, outcome, reference))
<1> DEFINE batch == d.settlements[b]
           W == batch.earnings
           action == IF outcome = "settled" THEN "settle" ELSE "reject_settlement"
           paid == Transitioned(d, W, action)
           done == [batch EXCEPT !.status = outcome, !.version = @ + 1, !.reference = reference]
           message == Message(b, outcome, batch.version + 1)
           t == [paid EXCEPT !.settlements[b] = done, !.outbox = @ \cup {message}]
<1>1. t = Concluded(d, b, outcome, reference)
  BY DEF Concluded
<1>2. /\ Grows(d, paid) /\ paid.settlements = d.settlements
      /\ \A m \in paid.outbox \ d.outbox : m.id \notin Settlements
  <2> HIDE DEF W, action
  <2> QED BY TransitionedGrows DEF W
<1>3. done.version = batch.version + 1
  <2>1. batch \in BatchRows
    BY DEF TableSets
  <2> HIDE DEF batch
  <2> QED BY <2>1 DEF BatchRows
<1>4. message.id = b /\ message.version = batch.version + 1 /\ b \notin Earnings
  BY NamesAssumption DEF Message
<1>5. paid \in [DOMAIN Empty -> {paid[f] : f \in DOMAIN Empty}] /\ DOMAIN paid.settlements = Settlements
  <2>1. DOMAIN paid.settlements = Settlements
    <3> HIDE DEF paid
    <3> QED BY <1>2 DEF TableSets
  <2>2. paid = [f \in DOMAIN Empty |-> paid[f]]
    BY DEF Transitioned, TableSets, Empty
  <2> QED BY <2>1, <2>2
<1> HIDE DEF paid, done, message
<1>6. /\ t.earnings = paid.earnings /\ t.journal = paid.journal /\ t.outbox = paid.outbox \cup {message}
      /\ t.settlements[b] = done
      /\ \A c \in Settlements \ {b} : t.settlements[c] = paid.settlements[c]
  BY <1>5 DEF Empty
<1> HIDE DEF t, batch
<1>7. Grows(d, t)
  BY <1>2, <1>3, <1>4, <1>6 DEF Grows, batch
<1> QED BY <1>1, <1>7

\* An event that was not recorded has no earnings yet.
LEMMA RecordedGrows ==
    ASSUME NEW d, d \in TableSets, Consistent(d), NEW op, ValidCommit(op), d.events[op.source] = NoFacts
    PROVE  Grows(d, Recorded(d, op))
<1> DEFINE new == op.earnings
           earnings == [e \in Earnings |-> IF e \in DOMAIN new THEN new[e] ELSE d.earnings[e]]
           entries == Accruals(new)
           messages == Messages(new, DOMAIN new)
           t == [d EXCEPT !.events[op.source] = op.facts, !.earnings = earnings,
                          !.journal = @ \cup entries, !.outbox = @ \cup messages]
<1>1. t = Recorded(d, op)
  BY DEF Recorded
<1>2. \A e \in DOMAIN new : e \in Earnings /\ SourceOf[e] = op.source /\ new[e].version = 1
  BY DEF ValidCommit
<1>3. \A e \in DOMAIN new : d.earnings[e].version = 0
  BY <1>2 DEF Consistent, NoEarning
<1> HIDE DEF new
<1>4. /\ \A e \in Earnings : earnings[e] = d.earnings[e] \/ earnings[e].version = d.earnings[e].version + 1
      /\ \A e \in DOMAIN new : earnings[e].version = 1
  BY <1>2, <1>3
<1>5. \A entry \in entries : entry.earning \in DOMAIN new /\ entry.version = 1
  BY DEF Accruals
<1>6. \A m \in messages : m.id \in DOMAIN new /\ m.version = 1
  BY <1>2 DEF Messages, Message
<1> HIDE DEF earnings, entries, messages
<1>7. /\ t.earnings = earnings /\ t.settlements = d.settlements
      /\ t.journal = d.journal \cup entries /\ t.outbox = d.outbox \cup messages
  BY DEF TableSets
<1>8. \A m \in messages : m.id \notin Settlements
  BY <1>2, <1>6, NamesAssumption
<1> HIDE DEF t
<1>9. Grows(d, t)
  BY <1>4, <1>5, <1>6, <1>7, <1>8 DEF Grows
<1> QED BY <1>1, <1>9

\* Whatever the contract makes of a request, versions only grow.
LEMMA OutcomeGrows ==
    ASSUME NEW d, d \in TableSets, Consistent(d), NEW op \in Requests,
           op.kind \in Mutations \cup {"CreateTemplate"}
    PROVE  Grows(d, Store!Outcome(d, op).db)
<1> DEFINE t == Store!Outcome(d, op).db
<1>0. ValidRequest(op) /\ Grows(d, d)
  BY RequestKinds, SameRowsGrow
<1>1. CASE op.kind \in {"CreateTemplate", "TransitionTemplate", "CreateProgram", "TransitionProgram",
                        "SetAttribution", "MarkOutboxPublished"}
  <2>1. t.earnings = d.earnings /\ t.settlements = d.settlements /\ t.journal = d.journal /\ t.outbox = d.outbox
    <3>1. CASE op.kind = "CreateTemplate"
      <4>1. Store!Outcome(d, op) = Store!CreateTemplate(d, op)
        BY <3>1, OutcomeOf
      <4> QED BY <4>1, Verdicts DEF Store!CreateTemplate, Store!Answered, TableSets
    <3>2. CASE op.kind = "TransitionTemplate"
      <4>1. Store!Outcome(d, op) = Store!TransitionTemplate(d, op)
        BY <3>2, OutcomeOf
      <4> QED BY <4>1, Verdicts DEF Store!TransitionTemplate, Store!Answered, TableSets
    <3>3. CASE op.kind = "CreateProgram"
      <4>1. Store!Outcome(d, op) = Store!CreateProgram(d, op)
        BY <3>3, OutcomeOf
      <4> QED BY <4>1, Verdicts DEF Store!CreateProgram, Store!Answered, TableSets
    <3>4. CASE op.kind = "TransitionProgram"
      <4>1. Store!Outcome(d, op) = Store!TransitionProgram(d, op)
        BY <3>4, OutcomeOf
      <4> QED BY <4>1, Verdicts DEF Store!TransitionProgram, Store!Answered, TableSets
    <3>5. CASE op.kind = "SetAttribution"
      <4>1. Store!Outcome(d, op) = Store!SetAttribution(d, op)
        BY <3>5, OutcomeOf
      <4> QED BY <4>1, Verdicts DEF Store!SetAttribution, Store!Answered, TableSets
    <3>6. CASE op.kind = "MarkOutboxPublished"
      <4>1. Store!Outcome(d, op) = Store!MarkOutboxPublished(d, op)
        BY <3>6, OutcomeOf
      <4> QED BY <4>1, Verdicts DEF Store!MarkOutboxPublished, Store!Answered, TableSets
    <3> QED BY <1>1, <3>1, <3>2, <3>3, <3>4, <3>5, <3>6
  <2> HIDE DEF t
  <2>2. Grows(d, t)
    BY <2>1, SameRowsGrow
  <2> QED BY <2>2 DEF t
<1>2. CASE op.kind = "CommitEvent"
  <2>1. t = d \/ (d.events[op.source] = NoFacts /\ t = Recorded(d, op))
    <3>1. Store!Outcome(d, op) = Store!CommitEvent(d, op) /\ Store!Recorded(d, op) = Recorded(d, op)
      BY <1>2, OutcomeOf, SameTables
    <3> QED BY <3>1, Verdicts DEF Store!CommitEvent, Store!Answered, Store!Refuse
  <2>2. ValidCommit(op)
    BY <1>0, <1>2 DEF ValidRequest
  <2> HIDE DEF t
  <2>3. Grows(d, t)
    BY <1>0, <2>1, <2>2, RecordedGrows
  <2> QED BY <2>3 DEF t
<1>3. CASE op.kind = "TransitionEarning"
  <2>1. t = d \/ (d.earnings[op.earning] # NoEarning /\ t = Transitioned(d, {op.earning}, op.action))
    <3>1. /\ Store!Outcome(d, op) = Store!TransitionEarning(d, op) /\ Store!NoEarning = NoEarning
          /\ Store!Transitioned(d, {op.earning}, op.action) = Transitioned(d, {op.earning}, op.action)
      BY <1>3, OutcomeOf, SameTables DEF Store!NoEarning, NoEarning
    <3> QED BY <3>1, Verdicts DEF Store!TransitionEarning, Store!Answered, Store!Refuse
  <2>2. {op.earning} \in SUBSET Earnings
    BY <1>0, <1>3 DEF ValidRequest, ValidMove
  <2> HIDE DEF t
  <2>3. Grows(d, t)
    BY <1>0, <2>1, <2>2, TransitionedGrows
  <2> QED BY <2>3 DEF t
<1>4. CASE op.kind = "MakeAvailableDue"
  <2>1. \E S \in SUBSET {e \in Earnings : d.earnings[e].status = "pending"} :
           t = Transitioned(d, S, "make_available")
    <3> DEFINE due == {e \in Earnings : d.earnings[e].status = "pending" /\ d.earnings[e].due <= op.now}
               earlier(e) == {f \in due : \/ d.earnings[f].due < d.earnings[e].due
                                          \/ d.earnings[f].due = d.earnings[e].due /\ f < e}
               S == {e \in due : Store!Cardinality(earlier(e)) < op.limit}
    <3>1. /\ Store!Outcome(d, op) = Store!MakeAvailableDue(d, op)
          /\ Store!Transitioned(d, S, "make_available") = Transitioned(d, S, "make_available")
      BY <1>4, OutcomeOf, SameTables
    <3>2. S \in SUBSET {e \in Earnings : d.earnings[e].status = "pending"}
      OBVIOUS
    <3>3. Store!MakeAvailableDue(d, op).db = Store!Transitioned(d, S, "make_available")
      BY Verdicts DEF Store!MakeAvailableDue
    <3> HIDE DEF S
    <3> QED BY <3>1, <3>2, <3>3
  <2> HIDE DEF t
  <2>2. Grows(d, t)
    BY <2>1, TransitionedGrows DEF NoEarning
  <2> QED BY <2>2 DEF t
<1>5. CASE op.kind = "StartSettlement"
  <2>1. \/ t = d
        \/ /\ d.settlements[op.id] = NoBatch /\ \A e \in DOMAIN op.expected : d.earnings[e].status = "available"
           /\ t = Claimed(d, op.id, DOMAIN op.expected)
    <3>1. /\ Store!Outcome(d, op) = Store!StartSettlement(d, op) /\ Store!NoBatch = NoBatch
          /\ Store!Claimed(d, op.id, DOMAIN op.expected) = Claimed(d, op.id, DOMAIN op.expected)
      BY <1>5, OutcomeOf, SameTables DEF Store!NoBatch, NoBatch
    <3> QED BY <3>1, Verdicts DEF Store!StartSettlement, Store!Answered, Store!Refuse
  <2>2. op.id \in Settlements /\ DOMAIN op.expected \in SUBSET Earnings
    BY <1>0, <1>5 DEF ValidRequest, ValidSettlement
  <2> HIDE DEF t
  <2>3. Grows(d, t)
    BY <1>0, <2>1, <2>2, ClaimedGrows DEF NoEarning
  <2> QED BY <2>3 DEF t
<1>6. CASE op.kind = "FinishSettlement"
  <2>1. \/ t = d
        \/ /\ d.settlements[op.id] # NoBatch
           /\ \A e \in d.settlements[op.id].earnings : d.earnings[e].status = "settling"
           /\ t = Concluded(d, op.id, op.outcome, op.reference)
    <3>1. /\ Store!Outcome(d, op) = Store!FinishSettlement(d, op) /\ Store!NoBatch = NoBatch
          /\ Store!Concluded(d, op.id, op.outcome, op.reference) = Concluded(d, op.id, op.outcome, op.reference)
      BY <1>6, OutcomeOf, SameTables DEF Store!NoBatch, NoBatch
    <3> QED BY <3>1, Verdicts DEF Store!FinishSettlement, Store!Answered, Store!Refuse
  <2>2. op.id \in Settlements /\ d.settlements[op.id].earnings \subseteq Earnings
    BY <1>0, <1>6, BatchEarnings DEF ValidRequest, ValidFinish
  <2>3. \A e \in Earnings : d.earnings[e].status = "settling" =>
           d.earnings[e] # NoEarning /\ NextStatus(d.earnings[e].status,
               IF op.outcome = "settled" THEN "settle" ELSE "reject_settlement") # "invalid"
    BY DEF NoEarning, NextStatus
  <2> HIDE DEF t
  <2>4. Grows(d, t)
    BY <1>0, <2>1, <2>2, <2>3, ConcludedGrows
  <2> QED BY <2>4 DEF t
<1> QED BY <1>1, <1>2, <1>3, <1>4, <1>5, <1>6 DEF Mutations

\* A step leaves the tables alone or makes of them what the contract does.
LEMMA StepGrows ==
    ASSUME IInv, [Next]_vars
    PROVE  db' = db \/ Grows(db, db')
<1>1. ASSUME NEW c \in Clients, Commit(c) PROVE Grows(db, db')
  <2> DEFINE op == call[c].op
  <2>1. op \in Requests /\ op.kind \in Mutations
    BY <1>1, CommitComplete
  <2>2. Store!Outcome(db, op).db = db'
    <3> DEFINE answer == Ok(Saved(db', call[c]))
    <3>1. Store!Outcome(db, op) = [db |-> db', answer |-> answer]
      BY <1>1, CommitEffect
    <3> HIDE DEF op, answer
    <3> QED BY <3>1
  <2>3. db \in TableSets /\ Consistent(db)
    BY DEF IInv
  <2> HIDE DEF op
  <2> QED BY <2>1, <2>2, <2>3, OutcomeGrows
<1>2. ASSUME NEW c \in Clients, CreateTemplate(c) PROVE db' = db \/ Grows(db, db')
  <2>1. db' = db \/ db' = [db EXCEPT !.template = NewTemplate]
    BY <1>2 DEF CreateTemplate
  <2>2. db \in TableSets
    BY DEF IInv
  <2>3. CASE db' = [db EXCEPT !.template = NewTemplate]
    <3>1. db'.earnings = db.earnings /\ db'.settlements = db.settlements
          /\ db'.journal = db.journal /\ db'.outbox = db.outbox
      BY <2>2, <2>3 DEF TableSets
    <3> QED BY <3>1, SameRowsGrow
  <2> QED BY <2>1, <2>3
<1>3. ASSUME NEW c \in Clients,
             \/ Call(c) \/ Read(c) \/ ReadSnapshot(c) \/ Duplicate(c) \/ Lookup(c)
             \/ LookupEarnings(c) \/ Query(c) \/ Retry(c) \/ Return(c) \/ Fail(c)
      PROVE  db' = db
  BY <1>3 DEF Call, Read, ReadSnapshot, Duplicate, Lookup, LookupEarnings, Query, Retry, Return, Fail
<1>4. CASE Done \/ UNCHANGED vars
  BY <1>4 DEF Done, vars
<1> QED BY <1>1, <1>2, <1>3, <1>4 DEF Next

\* IdsAreNew: whatever is called, started again or repeated, an operation gives an
\* earning or a settlement a version no journal entry or message of it has, so
\* that journalIDExists and the keys of insertJournal and insertOutbox, made of
\* that version, never end one with ErrEventConflict.
THEOREM NewIds == Spec => IdsAreNew
<1>1. Init => Numbered(db)
  BY StartsAssumption DEF Init
<1>2. IInv /\ IInv' /\ Numbered(db) /\ [Next]_vars => Numbered(db)' /\ (db' = db \/ Fresh(db, db'))
  <2>1. SUFFICES ASSUME IInv, IInv', Numbered(db), [Next]_vars
                 PROVE  Numbered(db') /\ (db' = db \/ Fresh(db, db'))
    OBVIOUS
  <2>2. db \in TableSets /\ db' \in TableSets
    BY <2>1 DEF IInv
  <2> QED BY <2>1, <2>2, StepGrows, GrowthNumbers
<1>3. db' = db \/ Fresh(db, db') => Fresh(db, db')
  BY DEF Fresh
<1>4. Spec => [][Fresh(db, db')]_vars
  BY <1>1, <1>2, <1>3, Inductive, PTL DEF Spec
<1>5. IdsAreNew <=> [][Fresh(db, db')]_vars
  BY PTL DEF IdsAreNew, Fresh
<1> QED BY <1>4, <1>5
=============================================================================
