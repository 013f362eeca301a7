------------------------- MODULE DomainLifecycleProofs -------------------------
(***************************************************************************)
(* Theorems about DomainLifecycle, for any names and addresses, any number *)
(* of rows, requests, moves of MX records and failures.                    *)
(***************************************************************************)
EXTENDS DomainLifecycle, FiniteSetTheorems, SequenceTheorems, TLAPS

------------------------------------------------------------------------------
(* Names that end with others *)

LEMMA ReverseIs ==
    ASSUME NEW s \in Seq(STRING)
    PROVE  /\ Reverse(s) \in Seq(STRING) /\ Len(Reverse(s)) = Len(s)
           /\ \A i \in 1..Len(s) : Reverse(s)[i] = s[Len(s) - i + 1]
<1>1. Len(s) \in Nat /\ \A i \in 1..Len(s) : Len(s) - i + 1 \in 1..Len(s)
    OBVIOUS
<1>2. \A i \in 1..Len(s) : s[Len(s) - i + 1] \in STRING
    BY <1>1, ElementOfSeq
<1>3. Reverse(s) = [i \in 1..Len(s) |-> s[(Len(s) - i) + 1]]
    BY DEF Reverse
<1>. QED  BY <1>1, <1>2, <1>3, IsASeq

\* The end of a name, label by label.
LEMMA EndIs ==
    ASSUME NEW t \in Seq(STRING), NEW n \in 0..Len(t)
    PROVE  /\ SubSeq(t, Len(t) - n + 1, Len(t)) \in Seq(STRING)
           /\ Len(SubSeq(t, Len(t) - n + 1, Len(t))) = n
           /\ \A i \in 1..n : SubSeq(t, Len(t) - n + 1, Len(t))[i] = t[Len(t) - n + i]
<1>. DEFINE m == Len(t) - n + 1
<1>1. Len(t) \in Nat /\ m \in Int /\ \A i \in m..Len(t) : i \in 1..Len(t)
    OBVIOUS
<1>2. \A i \in m..Len(t) : t[i] \in STRING
    BY <1>1, ElementOfSeq
<1>3. /\ SubSeq(t, m, Len(t)) \in Seq(STRING)
      /\ Len(SubSeq(t, m, Len(t))) = IF m <= Len(t) THEN Len(t) - m + 1 ELSE 0
      /\ \A i \in 1..(Len(t) - m + 1) : SubSeq(t, m, Len(t))[i] = t[m + i - 1]
    BY <1>1, <1>2, SubSeqProperties
<1>4. Len(t) - m + 1 = n /\ (m <= Len(t) <=> n >= 1) /\ \A i \in 1..n : m + i - 1 = Len(t) - n + i
    BY <1>1
<1>5. n \in Nat
    BY <1>1
<1>. HIDE DEF m
<1>6. /\ Len(SubSeq(t, m, Len(t))) = n
      /\ \A i \in 1..n : SubSeq(t, m, Len(t))[i] = t[Len(t) - n + i]
    BY <1>3, <1>4, <1>5
<1>. QED  BY <1>3, <1>6 DEF m

\* IsSuffix, which the library defines by way of Reverse.
LEMMA SuffixIs ==
    ASSUME NEW s \in Seq(STRING), NEW t \in Seq(STRING)
    PROVE  IsSuffix(s, t) <=> /\ Len(s) <= Len(t)
                              /\ s = SubSeq(t, Len(t) - Len(s) + 1, Len(t))
<1>1. Len(s) \in Nat /\ Len(t) \in Nat
    OBVIOUS
<1>2. CASE Len(s) <= Len(t)
    <2>. DEFINE n == Len(s)
                A == SubSeq(Reverse(s), 1, n)
                B == SubSeq(Reverse(t), 1, n)
                E == SubSeq(t, Len(t) - n + 1, Len(t))
    <2>1. /\ A \in Seq(STRING) /\ Len(A) = n
          /\ \A i \in 1..n : A[i] = s[n - i + 1]
        BY <1>1, ReverseIs
    <2>2. /\ B \in Seq(STRING) /\ Len(B) = n
          /\ \A i \in 1..n : B[i] = t[Len(t) - i + 1]
        BY <1>1, <1>2, ReverseIs
    <2>3. /\ E \in Seq(STRING) /\ Len(E) = n
          /\ \A i \in 1..n : E[i] = t[Len(t) - n + i]
        BY <1>1, <1>2, EndIs
    <2>4. IsSuffix(s, t) <=> A = B
        BY <1>1, <1>2, ReverseIs DEF IsSuffix, IsPrefix
    <2>5. n = Len(s)
        OBVIOUS
    <2>. HIDE DEF n, A, B, E
    <2>6. ASSUME A = B PROVE s = E
        <3>1. ASSUME NEW i \in 1..n PROVE s[i] = E[i]
            <4>1. n - i + 1 \in 1..n /\ n - (n - i + 1) + 1 = i /\ Len(t) - (n - i + 1) + 1 = Len(t) - n + i
                BY <1>1, <2>5
            <4>. QED  BY <2>1, <2>2, <2>3, <2>6, <4>1
        <3>. QED  BY <2>3, <2>5, <3>1, SeqEqual
    <2>7. ASSUME s = E PROVE A = B
        <3>1. ASSUME NEW i \in 1..n PROVE A[i] = B[i]
            <4>1. n - i + 1 \in 1..n /\ Len(t) - n + (n - i + 1) = Len(t) - i + 1
                BY <1>1, <2>5
            <4>. QED  BY <2>1, <2>2, <2>3, <2>7, <4>1
        <3>. QED  BY <2>1, <2>2, <3>1, SeqEqual
    <2>. QED  BY <1>2, <2>4, <2>5, <2>6, <2>7 DEF E
<1>3. CASE ~(Len(s) <= Len(t))
    BY <1>3, ReverseIs DEF IsSuffix, IsPrefix
<1>. QED  BY <1>2, <1>3

\* Of some names that a name ends with, one is the longest.
LEMMA GreatestExists ==
    ASSUME NEW n \in Nat, NEW S \in SUBSET (0..n), S # {}
    PROVE  \E e \in S : \A f \in S : f <= e
<1>1. IsWellFoundedOn(StrictSubsetOrdering(0..n), FiniteSubsetsOf(0..n))
    BY FS_StrictSubsetOrderingWellFounded
<1>. DEFINE Above(e) == {f \in S : f > e}
            T == {Above(e) : e \in S}
<1>2. T \subseteq FiniteSubsetsOf(0..n) /\ T # {}
    <2>1. IsFiniteSet(0..n)
        BY FS_Interval
    <2>2. \A e \in S : Above(e) \in SUBSET (0..n) /\ IsFiniteSet(Above(e))
        BY <2>1, FS_Subset
    <2>. QED  BY <2>2 DEF FiniteSubsetsOf
<1>3. PICK x \in T : \A y \in T : <<y, x>> \notin StrictSubsetOrdering(0..n)
    BY <1>1, <1>2, WFMin
<1>4. PICK e \in S : x = Above(e)
    OBVIOUS
<1>5. ASSUME NEW f \in S, f > e PROVE FALSE
    <2>1. f \in Int /\ e \in Int /\ \A g \in S : g \in Int
        OBVIOUS
    <2>2. f \in Above(e) /\ f \notin Above(f)
        BY <1>5, <2>1
    <2>3. Above(f) \subseteq Above(e)
        <3>1. ASSUME NEW g \in Above(f) PROVE g \in Above(e)
            BY <1>5, <2>1
        <3>. QED  BY <3>1
    <2>4. Above(f) \in SUBSET (0..n) /\ Above(e) \in SUBSET (0..n) /\ Above(f) # Above(e)
        BY <2>2
    <2>. HIDE DEF Above
    <2>5. <<Above(f), Above(e)>> \in StrictSubsetOrdering(0..n)
        BY <2>3, <2>4 DEF StrictSubsetOrdering
    <2>. QED  BY <2>5, <1>3, <1>4
<1>6. e \in Int /\ \A g \in S : g \in Int
    OBVIOUS
<1>. QED  BY <1>5, <1>6

LEMMA LongestIs ==
    ASSUME NEW to \in Seq(STRING), NEW R, R # {}, R \subseteq Seq(STRING),
           \A name \in R : IsSuffix(name, to)
    PROVE  /\ Longest(R) \in R
           /\ \A name \in R : Len(name) <= Len(Longest(R))
<1>. DEFINE S == {Len(name) : name \in R}
<1>1. Len(to) \in Nat /\ \A name \in R : Len(name) \in 0..Len(to)
    BY SuffixIs
<1>2. S \in SUBSET (0..Len(to)) /\ S # {}
    BY <1>1
<1>3. PICK e \in S : \A f \in S : f <= e
    <2>. HIDE DEF S
    <2>. QED  BY <1>1, <1>2, GreatestExists
<1>4. \E name \in R : \A other \in R : Len(other) <= Len(name)
    BY <1>3
<1>. QED  BY <1>4 DEF Longest

\* The candidates of a recipient are the names its own name ends with.
LEMMA CandidatesAre ==
    ASSUME NEW to \in Seq(STRING)
    PROVE  /\ \A i \in 1..Len(to) : /\ IsSuffix(Candidates(to)[i], to)
                                    /\ Len(Candidates(to)[i]) = Len(to) - i + 1
           /\ \A name \in Seq(STRING) \ {<<>>} :
                 IsSuffix(name, to) => /\ Len(to) - Len(name) + 1 \in 1..Len(to)
                                       /\ Candidates(to)[Len(to) - Len(name) + 1] = name
<1>1. Len(to) \in Nat /\ DOMAIN Candidates(to) = 1..Len(to)
    BY DEF Candidates
<1>2. ASSUME NEW i \in 1..Len(to)
      PROVE  IsSuffix(Candidates(to)[i], to) /\ Len(Candidates(to)[i]) = Len(to) - i + 1
    <2>. DEFINE n == Len(to) - i + 1
    <2>1. n \in 0..Len(to) /\ Len(to) - n + 1 = i
        BY <1>1
    <2>2. Candidates(to)[i] = SubSeq(to, i, Len(to))
        BY DEF Candidates
    <2>. HIDE DEF n
    <2>3. /\ SubSeq(to, Len(to) - n + 1, Len(to)) \in Seq(STRING)
          /\ Len(SubSeq(to, Len(to) - n + 1, Len(to))) = n
        BY <2>1, EndIs
    <2>4. n <= Len(to) /\ Candidates(to)[i] = SubSeq(to, Len(to) - n + 1, Len(to))
        BY <1>1, <2>1, <2>2
    <2>5. IsSuffix(Candidates(to)[i], to) /\ Len(Candidates(to)[i]) = n
        BY <2>3, <2>4, SuffixIs
    <2>. QED  BY <2>5 DEF n
<1>3. ASSUME NEW name \in Seq(STRING) \ {<<>>}, IsSuffix(name, to)
      PROVE  /\ Len(to) - Len(name) + 1 \in 1..Len(to)
             /\ Candidates(to)[Len(to) - Len(name) + 1] = name
    <2>1. Len(name) \in Nat /\ Len(name) # 0
        BY EmptySeq
    <2>2. Len(name) <= Len(to) /\ name = SubSeq(to, Len(to) - Len(name) + 1, Len(to))
        BY <1>3, SuffixIs
    <2>3. Len(to) - Len(name) + 1 \in 1..Len(to)
        BY <1>1, <2>1, <2>2
    <2>. QED  BY <2>2, <2>3 DEF Candidates
<1>. QED  BY <1>2, <1>3

\* The walk over the labels and the search for the longest name agree if they know the same
\* names.
LEMMA WalksAgree ==
    ASSUME NEW to \in Addresses, NEW ids
    PROVE  resolveRecipient(to, ids) = ResolveActiveMailboxDomain(to, ids)
<1>. DEFINE C == Candidates(to)
            found == {i \in DOMAIN C : C[i] \in Names /\ ids[C[i]] # 0}
            roots == {name \in Names : ids[name] # 0 /\ IsSuffix(name, to)}
<1>1. /\ to \in Seq(STRING) /\ Len(to) \in Nat /\ Names \subseteq Seq(STRING) \ {<<>>}
      /\ DOMAIN C = 1..Len(to)
    BY DomainAssumption DEF Candidates
<1>2. \A i \in found : C[i] \in roots /\ Len(C[i]) = Len(to) - i + 1 /\ i \in 1..Len(to)
    BY <1>1, CandidatesAre
<1>3. \A name \in roots : /\ Len(to) - Len(name) + 1 \in found
                          /\ C[Len(to) - Len(name) + 1] = name
    BY <1>1, CandidatesAre
<1>4. /\ resolveRecipient(to, ids) = IF found = {} THEN 0 ELSE ids[C[FirstFound(found)]]
      /\ ResolveActiveMailboxDomain(to, ids) =
            IF roots = {} THEN 0 ELSE ids[Longest(roots)]
    BY DEF resolveRecipient, ResolveActiveMailboxDomain
<1>5. roots \subseteq Seq(STRING) /\ \A name \in roots : IsSuffix(name, to)
    BY <1>1
<1>. HIDE DEF C, found, roots
<1>6. found = {} <=> roots = {}
    BY <1>2, <1>3
<1>7. CASE roots # {}
    <2>. DEFINE l == Longest(roots)
                k == Len(to) - Len(l) + 1
    <2>1. l \in roots /\ \A name \in roots : Len(name) <= Len(l)
        BY <1>1, <1>5, <1>7, LongestIs
    <2>2. k \in found /\ C[k] = l /\ Len(l) \in Nat
        BY <1>3, <1>5, <2>1
    <2>. HIDE DEF l
    <2>3. ASSUME NEW j \in found PROVE k <= j
        <3>1. Len(C[j]) <= Len(l) /\ Len(C[j]) = Len(to) - j + 1 /\ j \in 1..Len(to)
            BY <1>2, <2>1
        <3>. QED  BY <1>1, <2>2, <3>1
    <2>4. found \subseteq Nat
        BY <1>2
    <2>. HIDE DEF k
    <2>5. FirstFound(found) \in found /\ \A j \in found : FirstFound(found) <= j
        BY <2>2, <2>3 DEF FirstFound
    <2>6. FirstFound(found) = k
        <3>1. FirstFound(found) \in Nat /\ k \in Nat
            BY <2>2, <2>4, <2>5
        <3>2. FirstFound(found) <= k /\ k <= FirstFound(found)
            BY <2>2, <2>3, <2>5
        <3>. HIDE DEF found
        <3>. QED  BY <3>1, <3>2
    <2>. QED  BY <1>4, <1>6, <1>7, <2>2, <2>6 DEF l
<1>. QED  BY <1>4, <1>6, <1>7

\* Of some numbers one is the least.
LEMMA LeastExists ==
    ASSUME NEW n \in Nat, NEW S \in SUBSET (0..n), S # {}
    PROVE  \E e \in S : \A f \in S : e <= f
<1>. DEFINE T == {n - f : f \in S}
<1>1. T \in SUBSET (0..n) /\ T # {}
    <2>1. \A f \in 0..n : n - f \in 0..n
        OBVIOUS
    <2>2. \A f \in S : n - f \in 0..n
        BY <2>1
    <2>. QED  BY <2>2
<1>2. PICK g \in T : \A h \in T : h <= g
    <2>. HIDE DEF T
    <2>. QED  BY <1>1, GreatestExists
<1>3. PICK e \in S : g = n - e
    OBVIOUS
<1>4. ASSUME NEW f \in S PROVE e <= f
    <2>1. n - f <= n - e
        BY <1>2, <1>3
    <2>2. e \in 0..n /\ f \in 0..n
        OBVIOUS
    <2>. HIDE DEF T
    <2>. QED  BY <2>1, <2>2
<1>. QED  BY <1>4

\* A name without its outer dots: shorter than the name, unless it has none.
LEMMA TrimmedIs ==
    ASSUME NEW name \in Seq(STRING) \ {<<>>}
    PROVE  /\ Trimmed(name) \in Seq(STRING)
           /\ Clean(name) => Trimmed(name) = name
           /\ Trimmed(name) # name => Len(Trimmed(name)) < Len(name)
<1>. DEFINE labels == {i \in DOMAIN name : name[i] # NoLabel}
            n == Len(name)
<1>1. n \in Nat /\ n # 0 /\ DOMAIN name = 1..n
    BY EmptySeq
<1>2. Trimmed(name) = IF labels = {} THEN <<>> ELSE SubSeq(name, Min(labels), Max(labels))
    BY DEF Trimmed
<1>3. labels \in SUBSET (0..n) /\ labels \subseteq 1..n /\ (Clean(name) => labels = 1..n)
    BY <1>1 DEF Clean
<1>4. Len(<<>>) = 0 /\ <<>> \in Seq(STRING)
    OBVIOUS
<1>5. n = Len(name)
    OBVIOUS
<1>. HIDE DEF labels, n
<1>6. CASE labels = {}
    <2>1. ~Clean(name)
        BY <1>1, <1>3, <1>6
    <2>. QED  BY <1>1, <1>2, <1>4, <1>5, <1>6, <2>1
<1>7. CASE labels # {}
    <2>1. Min(labels) \in labels /\ \A i \in labels : Min(labels) <= i
        BY <1>1, <1>3, <1>7, LeastExists DEF Min
    <2>2. Max(labels) \in labels /\ \A i \in labels : Max(labels) >= i
        <3>1. \E e \in labels : \A f \in labels : f <= e
            BY <1>1, <1>3, <1>7, GreatestExists
        <3>2. labels \subseteq Int
            BY <1>3
        <3>3. \E e \in labels : \A f \in labels : e >= f
            BY <3>1, <3>2
        <3>. QED  BY <3>3 DEF Max
    <2>. DEFINE a == Min(labels)
                b == Max(labels)
    <2>3. a \in 1..n /\ b \in 1..n /\ a <= b
        BY <1>3, <2>1, <2>2
    <2>4. Trimmed(name) = SubSeq(name, a, b)
        BY <1>2, <1>7
    <2>5. Clean(name) => a = 1 /\ b = n
        <3>1. Clean(name) => 1 \in labels /\ n \in labels
            BY <1>1, <1>3
        <3>2. Clean(name) => a <= 1 /\ b >= n
            BY <2>1, <2>2, <3>1
        <3>. HIDE DEF a, b
        <3>. QED  BY <1>1, <2>3, <3>2
    <2>. HIDE DEF a, b
    <2>6. \A i \in a..b : i \in 1..n /\ name[i] \in STRING
        BY <1>1, <1>5, <2>3, ElementOfSeq
    <2>7. /\ SubSeq(name, a, b) \in Seq(STRING)
          /\ Len(SubSeq(name, a, b)) = IF a <= b THEN b - a + 1 ELSE 0
        BY <1>1, <2>3, <2>6, SubSeqProperties
    <2>8. a = 1 /\ b = n => SubSeq(name, a, b) = name
        <3>1. SUFFICES ASSUME a = 1, b = n PROVE SubSeq(name, 1, n) = name
            OBVIOUS
        <3>2. \A i \in 1..n : SubSeq(name, 1, n)[i] = name[i]
            BY <1>1, <1>5
        <3>3. Len(SubSeq(name, 1, n)) = n
            BY <1>1, <2>7, <3>1
        <3>. QED  BY <1>5, <2>7, <3>1, <3>2, <3>3, SeqEqual
    <2>9. ~(a = 1 /\ b = n) => b - a + 1 < n
        BY <1>1, <2>3
    <2>10. Len(SubSeq(name, a, b)) = b - a + 1
        BY <2>3, <2>7
    <2>. QED  BY <1>5, <2>4, <2>5, <2>7, <2>8, <2>9, <2>10
<1>. QED  BY <1>6, <1>7

\* What a clean name ends with is clean.
LEMMA EndIsClean ==
    ASSUME NEW name \in Seq(STRING), NEW to \in Seq(STRING), IsSuffix(name, to), Clean(to)
    PROVE  Clean(name)
<1>1. /\ Len(name) \in Nat /\ Len(to) \in Nat /\ Len(name) <= Len(to)
      /\ name = SubSeq(to, Len(to) - Len(name) + 1, Len(to))
    BY SuffixIs
<1>. DEFINE n == Len(name)
<1>2. n \in 0..Len(to) /\ n = Len(name)
    BY <1>1
<1>. HIDE DEF n
<1>3. \A i \in 1..n : SubSeq(to, Len(to) - n + 1, Len(to))[i] = to[Len(to) - n + i]
    BY <1>2, EndIs
<1>4. ASSUME NEW i \in 1..n PROVE name[i] # NoLabel
    <2>1. name[i] = to[Len(to) - n + i]
        BY <1>1, <1>2, <1>3
    <2>2. Len(to) - n + i \in 1..Len(to)
        BY <1>1, <1>2
    <2>. QED  BY <2>1, <2>2 DEF Clean
<1>. QED  BY <1>2, <1>4 DEF Clean

------------------------------------------------------------------------------
(* Types, and how rows change *)

Statuses == {"none", "pending", "active", "disabled"}
Rows == [id : 0..MaxIds, status : Statuses, active : BOOLEAN, donated : BOOLEAN]

Records ==
    /\ domains \in [Names -> Rows]
    /\ asked \in [name : Names \cup {<<>>}, matched : BOOLEAN]
    /\ asked # NoRequest => asked.name \in Names
    /\ loop \in [at : {"idle", "listed", "looked"}, pass : {"none", "pending", "recheck"},
                 todo : SUBSET (Names \X Ids), name : Names \cup {<<>>}, id : 0..MaxIds,
                 matched : BOOLEAN]
    /\ loop.at = "looked" => loop.id \in Ids
    /\ inFlight \in [by : {"nobody", "lmtp", "http"}, to : Addresses \cup {<<>>}, id : 0..MaxIds]
    /\ inFlight # NoMailbox => inFlight.to \in Addresses /\ inFlight.id \in Ids
    /\ loading # Unread => loading \in [Names -> 0..MaxIds]

TypeInv == TypeOK /\ Records

\* What is true of a row that is written.
GoodRow(row) ==
    /\ row \in Rows /\ row.id # 0 /\ row.status # "none"
    /\ row.active <=> row.status = "active"

\* A row is written again: it keeps its id, and it is donated or not as before.
Rewrites(name, row, isVouched) ==
    /\ GoodRow(row) /\ name \in Names
    /\ domains[name].id = row.id /\ domains[name].donated = row.donated
    /\ Write(name, row, isVouched) /\ nextId' = nextId

\* A row is added, with an id nobody ever had.
Adds(name, row, isVouched) ==
    /\ GoodRow(row) /\ name \in Names
    /\ domains[name].id = 0 /\ row.id = nextId
    /\ Write(name, row, isVouched) /\ nextId' = nextId + 1

Removes(name) ==
    /\ name \in Names
    /\ domains' = [domains EXCEPT ![name] = NoRow]
    /\ UNCHANGED <<nextId, vouched, overtaken, late>>

Writes ==
    \E name, row, isVouched : Rewrites(name, row, isVouched) \/ Adds(name, row, isVouched)

Changes == Writes \/ \E name : Removes(name)

\* The tables after a change.
RowTypes ==
    /\ nextId \in 1..(MaxIds + 1) /\ RowsOk
    /\ domains \in [Names -> Rows]
    /\ vouched \cup overtaken \subseteq 0..MaxIds /\ late \in [Ids -> 0..2]

LEMMA RowIs ==
    ASSUME NEW id, NEW status, NEW donated
    PROVE  /\ Row(id, status, donated).id = id
           /\ Row(id, status, donated).status = status
           /\ Row(id, status, donated).active <=> status = "active"
           /\ Row(id, status, donated).donated = donated
BY DEF Row

LEMMA GoodRows ==
    ASSUME NEW id \in Ids, NEW status \in Statuses \ {"none"}, NEW donated \in BOOLEAN
    PROVE  GoodRow(Row(id, status, donated))
<1>1. Row(id, status, donated) \in Rows /\ id # 0
    BY DomainAssumption DEF Row, Rows, Ids
<1>. DEFINE row == Row(id, status, donated)
<1>2. row.id = id /\ row.status = status /\ (row.active <=> status = "active")
    BY RowIs
<1>. HIDE DEF row
<1>. QED  BY <1>1, <1>2 DEF GoodRow, row

\* Two rows never have the same id.
LEMMA HolderIs ==
    ASSUME TypeInv, NEW name \in Names, Exists(name)
    PROVE  Holder(domains[name].id) = {name}
BY DEF TypeInv, TypeOK, RowsOk, Exists

LEMMA WriteIs ==
    ASSUME TypeInv, NEW name \in Names, NEW row, NEW isVouched, Write(name, row, isVouched)
    PROVE  /\ domains'[name] = row
           /\ \A other \in Names \ {name} : domains'[other] = domains[other]
           /\ vouched \ {row.id} \subseteq vouched' /\ vouched' \subseteq vouched \cup {row.id}
           /\ overtaken \subseteq overtaken' /\ overtaken' \subseteq overtaken \cup {row.id}
BY DEF TypeInv, Records, Write

LEMMA RewriteHolds ==
    ASSUME TypeInv, NEW name, NEW row, NEW isVouched, Rewrites(name, row, isVouched)
    PROVE  RowTypes' /\ \A id : Holder(id)' = Holder(id)
<1>1. /\ GoodRow(row) /\ name \in Names /\ Write(name, row, isVouched) /\ nextId' = nextId
      /\ domains[name].id = row.id
    BY DEF Rewrites
<1>2. /\ domains'[name] = row
      /\ \A other \in Names \ {name} : domains'[other] = domains[other]
      /\ vouched' \subseteq vouched \cup {row.id} /\ overtaken' \subseteq overtaken \cup {row.id}
    BY <1>1, WriteIs
<1>3. \A id : Holder(id)' = Holder(id)
    BY <1>1, <1>2 DEF Holder
<1>4. domains' \in [Names -> Rows]
    BY <1>1 DEF Write, TypeInv, Records, GoodRow
<1>5. row.id \in Ids
    BY <1>1, DomainAssumption DEF GoodRow, Rows, Ids
<1>6. late' \in [Ids -> 0..2]
    BY <1>1, <1>5 DEF Write, TypeInv, TypeOK
<1>7. RowsOk'
    <2>1. ASSUME NEW other \in Names
          PROVE  /\ domains'[other].id \in 0..(nextId - 1)
                 /\ domains'[other].status \in Statuses
                 /\ domains'[other].active <=> domains'[other].status = "active"
                 /\ domains'[other].id = 0 <=> domains'[other] = NoRow
                 /\ domains'[other].id # 0 => Holder(domains'[other].id) = {other}
        <3>1. CASE other = name
            <4>1. row.id # 0 /\ row # NoRow
                BY <1>1 DEF GoodRow, NoRow
            <4>. QED  BY <1>1, <1>2, <3>1, <4>1, HolderIs
                      DEF GoodRow, Rows, Exists, TypeInv, TypeOK, RowsOk
        <3>2. CASE other # name
            BY <1>2, <2>1, <3>2 DEF TypeInv, TypeOK, RowsOk, Statuses
        <3>. QED  BY <3>1, <3>2
    <2>. QED  BY <1>1, <1>3, <2>1 DEF RowsOk, Statuses
<1>. QED  BY <1>1, <1>2, <1>3, <1>4, <1>5, <1>6, <1>7 DEF RowTypes, TypeInv, TypeOK, Ids

LEMMA AddHolds ==
    ASSUME TypeInv, NEW name, NEW row, NEW isVouched, Adds(name, row, isVouched)
    PROVE  /\ RowTypes' /\ Holder(nextId) = {}
           /\ \A id : id # 0 => Holder(id)' = IF id = nextId THEN {name} ELSE Holder(id)
<1>1. /\ GoodRow(row) /\ name \in Names /\ Write(name, row, isVouched) /\ nextId' = nextId + 1
      /\ domains[name].id = 0 /\ row.id = nextId
    BY DEF Adds
<1>2. /\ domains'[name] = row
      /\ \A other \in Names \ {name} : domains'[other] = domains[other]
      /\ vouched' \subseteq vouched \cup {row.id} /\ overtaken' \subseteq overtaken \cup {row.id}
    BY <1>1, WriteIs
<1>3. row.id \in Ids
    BY <1>1, DomainAssumption DEF GoodRow, Rows, Ids
<1>4. \A other \in Names : domains[other].id # nextId /\ domains[other].id \in 0..(nextId - 1)
    BY DEF TypeInv, TypeOK, RowsOk
<1>5. /\ Holder(nextId) = {}
      /\ \A id : id # 0 => Holder(id)' = IF id = nextId THEN {name} ELSE Holder(id)
    <2>1. Holder(nextId) = {}
        BY <1>4 DEF Holder
    <2>2. ASSUME NEW id, id # 0 PROVE Holder(id)' = IF id = nextId THEN {name} ELSE Holder(id)
        BY <1>1, <1>2, <1>4, <2>2 DEF Holder
    <2>. QED  BY <2>1, <2>2
<1>6. domains' \in [Names -> Rows]
    BY <1>1 DEF Write, TypeInv, Records, GoodRow
<1>7. late' \in [Ids -> 0..2]
    BY <1>1, <1>3 DEF Write, TypeInv, TypeOK
<1>8. nextId' \in 1..(MaxIds + 1)
    BY <1>1, <1>3, DomainAssumption DEF Ids, TypeInv, TypeOK
<1>9. RowsOk'
    <2>1. ASSUME NEW other \in Names
          PROVE  /\ domains'[other].id \in 0..nextId
                 /\ domains'[other].status \in Statuses
                 /\ domains'[other].active <=> domains'[other].status = "active"
                 /\ domains'[other].id = 0 <=> domains'[other] = NoRow
        <3>1. CASE other = name
            <4>1. row.id # 0 /\ row # NoRow /\ nextId \in Nat
                BY <1>1 DEF GoodRow, NoRow, TypeInv, TypeOK
            <4>. QED  BY <1>1, <1>2, <1>5, <3>1, <4>1 DEF GoodRow, Rows
        <3>2. CASE other # name
            <4>1. nextId \in Nat /\ domains'[other] = domains[other]
                BY <1>2, <2>1, <3>2 DEF TypeInv, TypeOK
            <4>. QED  BY <1>4, <2>1, <4>1 DEF TypeInv, TypeOK, RowsOk, Statuses
        <3>. QED  BY <3>1, <3>2
    <2>2. ASSUME NEW other \in Names, NEW id, id # 0, domains'[other].id = id
          PROVE  Holder(id)' = {other}
        <3>1. CASE other = name
            BY <1>1, <1>2, <1>5, <2>2, <3>1
        <3>2. CASE other # name
            <4>1. domains[other].id = id /\ id # nextId
                BY <1>2, <1>4, <2>2, <3>2
            <4>. QED  BY <1>5, <2>2, <4>1, HolderIs DEF Exists
        <3>. QED  BY <3>1, <3>2
    <2>3. nextId' - 1 = nextId
        BY <1>1 DEF TypeInv, TypeOK
    <2>. QED  BY <1>1, <2>1, <2>2, <2>3 DEF RowsOk, Statuses
<1>. QED  BY <1>1, <1>2, <1>3, <1>5, <1>6, <1>7, <1>8, <1>9 DEF RowTypes, TypeInv, TypeOK, Ids

LEMMA RemoveHolds ==
    ASSUME TypeInv, NEW name, Removes(name)
    PROVE  RowTypes' /\ \A id : id # 0 => Holder(id)' = Holder(id) \ {name}
<1>1. /\ domains'[name] = NoRow
      /\ \A other \in Names \ {name} : domains'[other] = domains[other]
      /\ UNCHANGED <<nextId, vouched, overtaken, late>>
    BY DEF Removes, TypeInv, Records
<1>2. \A id : id # 0 => Holder(id)' = Holder(id) \ {name}
    BY <1>1 DEF Holder, NoRow
<1>3. domains' \in [Names -> Rows]
    BY DomainAssumption DEF Removes, TypeInv, Records, NoRow, Rows, Statuses
<1>4. RowsOk'
    <2>1. ASSUME NEW other \in Names
          PROVE  /\ domains'[other].id \in 0..(nextId - 1)
                 /\ domains'[other].status \in Statuses
                 /\ domains'[other].active <=> domains'[other].status = "active"
                 /\ domains'[other].id = 0 <=> domains'[other] = NoRow
                 /\ domains'[other].id # 0 => other # name /\ Holder(domains'[other].id) = {other}
        <3>1. CASE other = name
            BY <1>1, <3>1 DEF NoRow, Statuses, TypeInv, TypeOK
        <3>2. CASE other # name
            BY <1>1, <3>2 DEF TypeInv, TypeOK, RowsOk, Statuses
        <3>. QED  BY <3>1, <3>2
    <2>2. ASSUME NEW other \in Names, NEW id, id # 0, domains'[other].id = id PROVE Holder(id)' = {other}
        BY <1>2, <2>1, <2>2
    <2>. QED  BY <1>1, <2>1, <2>2 DEF RowsOk, Statuses
<1>. QED  BY <1>1, <1>3, <1>2, <1>4 DEF RowTypes, TypeInv, TypeOK

\* The statements that write rows.
LEMMA NewRowAdds ==
    ASSUME TypeInv, NEW name \in Names, ~Exists(name), NEW status \in Statuses \ {"none"},
           NEW donated \in BOOLEAN, NEW isVouched, NewRow(name, status, donated, isVouched)
    PROVE  Adds(name, Row(nextId, status, donated), isVouched)
<1>1. nextId \in Ids
    BY DomainAssumption DEF NewRow, TypeInv, TypeOK, Ids
<1>2. GoodRow(Row(nextId, status, donated)) /\ Row(nextId, status, donated).id = nextId
    BY <1>1, GoodRows, RowIs
<1>. QED  BY <1>2 DEF NewRow, Adds, Exists

LEMMA RowRewrites ==
    ASSUME TypeInv, NEW name \in Names, Exists(name), NEW status \in Statuses \ {"none"},
           NEW isVouched, nextId' = nextId,
           Write(name, Row(domains[name].id, status, domains[name].donated), isVouched)
    PROVE  Rewrites(name, Row(domains[name].id, status, domains[name].donated), isVouched)
<1>1. domains[name].id \in Ids /\ domains[name].donated \in BOOLEAN
    BY DomainAssumption DEF Exists, TypeInv, Records, Rows, Ids
<1>. DEFINE row == Row(domains[name].id, status, domains[name].donated)
<1>2. GoodRow(row) /\ row.id = domains[name].id /\ row.donated = domains[name].donated
    BY <1>1, GoodRows, RowIs
<1>. HIDE DEF row
<1>3. Write(name, row, isVouched)
    BY DEF row
<1>4. Rewrites(name, row, isVouched)
    BY <1>2, <1>3 DEF Rewrites
<1>. QED  BY <1>4 DEF row

LEMMA ExceptIs ==
    ASSUME NEW row \in Rows, NEW status, NEW active \in BOOLEAN, active <=> status = "active"
    PROVE  /\ [row EXCEPT !.status = status, !.active = active] = Row(row.id, status, row.donated)
           /\ [row EXCEPT !.active = active, !.status = status] = Row(row.id, status, row.donated)
<1>. DEFINE written == [id |-> row.id, status |-> status, active |-> active, donated |-> row.donated]
<1>1. active = (status = "active")
    OBVIOUS
<1>2. written = Row(row.id, status, row.donated)
    BY <1>1, Zenon DEF Row
<1>. DEFINE R == [id : 0..MaxIds, status : Statuses \cup {status}, active : BOOLEAN, donated : BOOLEAN]
            e == [row EXCEPT !.status = status, !.active = active]
            f == [row EXCEPT !.active = active, !.status = status]
<1>3. /\ e \in R /\ e.id = row.id /\ e.status = status /\ e.active = active /\ e.donated = row.donated
      /\ f \in R /\ f.id = row.id /\ f.status = status /\ f.active = active /\ f.donated = row.donated
    BY DEF Rows
<1>4. \A r \in R : r = [id |-> r.id, status |-> r.status, active |-> r.active, donated |-> r.donated]
    OBVIOUS
<1>. HIDE DEF R, e, f
<1>5. e = written /\ f = written
    BY <1>3, <1>4
<1>. QED  BY <1>2, <1>5 DEF e, f

LEMMA ToggleRewrites ==
    ASSUME TypeInv, NEW name \in Names, NEW active \in BOOLEAN, Toggle(name, active)
    PROVE  Rewrites(name, Row(domains[name].id, IF active THEN "active" ELSE "disabled",
                              domains[name].donated), active)
<1>. DEFINE status == IF active THEN "active" ELSE "disabled"
<1>1. /\ Exists(name) /\ nextId' = nextId /\ domains[name] \in Rows
      /\ Write(name, [domains[name] EXCEPT !.status = status, !.active = active], active)
    BY DEF Toggle, Manual, ToggleDomain, TypeInv, Records
<1>2. status \in Statuses \ {"none"} /\ (active <=> status = "active")
    BY DEF Statuses
<1>. HIDE DEF status
<1>3. Write(name, Row(domains[name].id, status, domains[name].donated), active)
    BY <1>1, <1>2, ExceptIs
<1>4. Rewrites(name, Row(domains[name].id, status, domains[name].donated), active)
    BY <1>1, <1>2, <1>3, RowRewrites
<1>. QED  BY <1>4 DEF status

LEMMA LoopRewrites ==
    ASSUME TypeInv, loop.at = "looked", nextId' = nextId, NEW name \in Holder(loop.id)
    PROVE  /\ name \in Names /\ Holder(loop.id) = {name} /\ domains[name].id = loop.id
           /\ PromoteDomainToActive =>
                 Rewrites(name, Row(loop.id, "active", domains[name].donated), loop.id \in vouched)
           /\ DisableDomainMX =>
                 Rewrites(name, Row(loop.id, "disabled", domains[name].donated), FALSE)
<1>1. name \in Names /\ domains[name].id = loop.id /\ Exists(name) /\ domains[name] \in Rows
    BY DomainAssumption DEF Holder, Exists, TypeInv, Records, Ids
<1>2. Holder(loop.id) = {name}
    BY <1>1, HolderIs
<1>3. ASSUME PromoteDomainToActive
      PROVE  Rewrites(name, Row(loop.id, "active", domains[name].donated), loop.id \in vouched)
    <2>1. Write(name, [domains[name] EXCEPT !.status = "active", !.active = TRUE], loop.id \in vouched)
        BY <1>3 DEF PromoteDomainToActive
    <2>2. Write(name, Row(domains[name].id, "active", domains[name].donated), loop.id \in vouched)
        BY <1>1, <2>1, ExceptIs
    <2>. QED  BY <1>1, <2>2, RowRewrites DEF Statuses
<1>4. ASSUME DisableDomainMX
      PROVE  Rewrites(name, Row(loop.id, "disabled", domains[name].donated), FALSE)
    <2>1. Write(name, [domains[name] EXCEPT !.active = FALSE, !.status = "disabled"], FALSE)
        BY <1>4 DEF DisableDomainMX, Disabled
    <2>2. Write(name, Row(domains[name].id, "disabled", domains[name].donated), FALSE)
        BY <1>1, <2>1, ExceptIs
    <2>. QED  BY <1>1, <2>2, RowRewrites DEF Statuses
<1>. QED  BY <1>1, <1>2, <1>3, <1>4


LEMMA AddAdds ==
    ASSUME TypeInv, AddDomain
    PROVE  \/ UNCHANGED <<domains, nextId, vouched, overtaken, late>>
           \/ Adds(asked.name, Row(nextId, "active", FALSE), TRUE)
<1>1. asked.name \in Names
    BY DEF AddDomain, TypeInv, Records
<1>2. CASE ~Exists(asked.name)
    <2>1. NewRow(asked.name, "active", FALSE, TRUE)
        BY <1>2 DEF AddDomain
    <2>. QED  BY <1>1, <1>2, <2>1, NewRowAdds DEF Statuses
<1>. QED  BY <1>2 DEF AddDomain

LEMMA PendingWrites ==
    ASSUME TypeInv, AddDomainPending
    PROVE  \/ Rewrites(asked.name, Row(domains[asked.name].id, AfterConflict(domains[asked.name]),
                                       domains[asked.name].donated),
                       domains[asked.name].id \in vouched)
           \/ Adds(asked.name, Row(nextId, "pending", FALSE), FALSE)
<1>1. asked.name \in Names
    BY DEF AddDomainPending, TypeInv, Records
<1>2. CASE ~Exists(asked.name)
    <2>1. NewRow(asked.name, "pending", FALSE, FALSE)
        BY <1>2 DEF AddDomainPending
    <2>. QED  BY <1>1, <1>2, <2>1, NewRowAdds DEF Statuses
<1>3. CASE Exists(asked.name)
    <2>1. /\ Write(asked.name, Row(domains[asked.name].id, AfterConflict(domains[asked.name]),
                                   domains[asked.name].donated),
                   domains[asked.name].id \in vouched)
          /\ nextId' = nextId
        BY <1>3 DEF AddDomainPending
    <2>2. AfterConflict(domains[asked.name]) \in Statuses \ {"none"}
        BY DEF AfterConflict, Statuses
    <2>. QED  BY <1>1, <1>3, <2>1, <2>2, RowRewrites
<1>. QED  BY <1>2, <1>3

LEMMA CreateAdds ==
    ASSUME TypeInv, NEW name \in Names, CreateDonationRequest(name)
    PROVE  Adds(name, Row(nextId, "pending", TRUE), FALSE)
BY NewRowAdds DEF CreateDonationRequest, Statuses

LEMMA ApplyRewrites ==
    ASSUME TypeInv, NEW name \in Names, ApplyDonationVerification(name)
    PROVE  /\ domains[name].donated
           /\ \E isGranted \in BOOLEAN :
                 Rewrites(name, Row(domains[name].id, IF isGranted THEN "active" ELSE "disabled",
                                    domains[name].donated), isGranted)
<1>1. /\ Exists(name) /\ domains[name].donated /\ nextId' = nextId
      /\ \E isGranted \in BOOLEAN :
            Write(name, Row(domains[name].id, IF isGranted THEN "active" ELSE "disabled", TRUE),
                  isGranted)
    BY DEF ApplyDonationVerification
<1>2. domains[name].donated = TRUE
    BY <1>1 DEF TypeInv, Records, Rows
<1>3. PICK isGranted \in BOOLEAN :
            Write(name, Row(domains[name].id, IF isGranted THEN "active" ELSE "disabled",
                            domains[name].donated),
                  isGranted)
    BY <1>1, <1>2
<1>4. (IF isGranted THEN "active" ELSE "disabled") \in Statuses \ {"none"}
    BY DEF Statuses
<1>5. Rewrites(name, Row(domains[name].id, IF isGranted THEN "active" ELSE "disabled",
                         domains[name].donated), isGranted)
    BY <1>1, <1>3, <1>4, RowRewrites
<1>. QED  BY <1>1, <1>5

LEMMA DeleteRemoves ==
    ASSUME TypeInv, NEW name \in Names, Delete(name)
    PROVE  Removes(name) /\ Exists(name) /\ \A to \in Addresses : mailboxes[to] # domains[name].id
BY DEF Delete, Manual, DeleteDomain, Deletable, Removes

LEMMA RequestChanges ==
    ASSUME TypeInv, RequestStep
    PROVE  \/ Writes
           \/ \E name \in Names : Delete(name)
           \/ UNCHANGED <<domains, nextId, vouched, overtaken, late>>
<1>1. ASSUME NEW name \in Names, NEW active \in BOOLEAN, Toggle(name, active) PROVE Writes
    BY <1>1, ToggleRewrites DEF Writes
<1>2. ASSUME NEW name \in Names, CreateDonationRequest(name) PROVE Writes
    BY <1>2, CreateAdds DEF Writes
<1>3. ASSUME NEW name \in Names, ApplyDonationVerification(name) PROVE Writes
    BY <1>3, ApplyRewrites DEF Writes
<1>4. CASE AddDomain
    BY <1>4, AddAdds DEF Writes
<1>5. CASE AddDomainPending
    BY <1>5, PendingWrites DEF Writes
<1>6. CASE MXRegister
    BY <1>6 DEF MXRegister
<1>. QED  BY <1>1, <1>2, <1>3, <1>4, <1>5, <1>6 DEF RequestStep

LEMMA ConcludeChanges ==
    ASSUME TypeInv, Conclude
    PROVE  Writes \/ UNCHANGED <<domains, nextId, vouched, overtaken, late>>
<1>1. loop.at = "looked" /\ nextId' = nextId
    BY DEF Conclude
<1>2. CASE Holder(loop.id) = {}
    BY <1>1, <1>2 DEF Conclude, PromoteDomainToActive, DisableDomainMX
<1>3. CASE Holder(loop.id) # {}
    <2>1. PICK name : name \in Holder(loop.id)
        BY <1>3
    <2>2. PromoteDomainToActive \/ DisableDomainMX => Writes
        BY <1>1, <2>1, LoopRewrites DEF Writes
    <2>. QED  BY <1>1, <2>2 DEF Conclude
<1>. QED  BY <1>2, <1>3

LEMMA ChangesHold == TypeInv /\ Changes => RowTypes'
BY RewriteHolds, AddHolds, RemoveHolds DEF Changes, Writes


\* Of the rows that are read under one name, one is the last.
LEMMA LastIs ==
    ASSUME NEW names \in SUBSET Names, names # {}
    PROVE  LastRead(names) \in names /\ \A name \in names : Len(LastRead(names)) <= Len(name)
<1>. DEFINE S(n) == {Len(name) : name \in {m \in names : Len(m) <= n}}
<1>1. \A name \in names : Len(name) \in Nat
    BY DomainAssumption
<1>2. PICK one \in names : TRUE
    OBVIOUS
<1>3. S(Len(one)) \in SUBSET (0..Len(one)) /\ S(Len(one)) # {}
    <2>1. \A m \in names : Len(m) <= Len(one) => Len(m) \in 0..Len(one)
        BY <1>1, <1>2
    <2>2. Len(one) <= Len(one)
        BY <1>1, <1>2
    <2>. QED  BY <1>2, <2>1, <2>2
<1>4. PICK e \in S(Len(one)) : \A f \in S(Len(one)) : e <= f
    <2>. HIDE DEF S
    <2>. QED  BY <1>1, <1>2, <1>3, LeastExists
<1>5. PICK last \in names : e = Len(last) /\ Len(last) <= Len(one)
    OBVIOUS
<1>6. ASSUME NEW name \in names PROVE Len(last) <= Len(name)
    <2>1. CASE Len(name) <= Len(one)
        BY <1>4, <1>5, <2>1
    <2>2. CASE ~(Len(name) <= Len(one))
        BY <1>1, <1>2, <1>5, <2>2
    <2>. QED  BY <2>1, <2>2
<1>. QED  BY <1>5, <1>6 DEF LastRead

\* What is read under a name is the id of an active row of that name.
LEMMA ReadIs ==
    ASSUME NEW name \in Names
    PROVE  \/ ActiveRoutes[name] = 0 /\ ActiveAs(name) = {}
           \/ \E written \in Names : /\ domains[written].active /\ Trimmed(written) = name
                                     /\ ActiveRoutes[name] = domains[written].id
<1>1. ActiveAs(name) \in SUBSET Names
    BY DEF ActiveAs
<1>2. ActiveAs(name) # {} => LastRead(ActiveAs(name)) \in ActiveAs(name)
    BY <1>1, LastIs
<1>. QED  BY <1>2 DEF ActiveRoutes, ActiveAs

LEMMA ReadTypes ==
    ASSUME TypeInv
    PROVE  /\ ActiveIds \in [Names -> 0..MaxIds]
           /\ ActiveRoutes \in [Names -> 0..MaxIds]
<1>1. \A name \in Names : domains[name].id \in 0..MaxIds /\ 0 \in 0..MaxIds
    BY DomainAssumption DEF TypeInv, Records, Rows
<1>2. \A name \in Names : ActiveRoutes[name] \in 0..MaxIds
    BY <1>1, ReadIs
<1>. QED  BY <1>1, <1>2 DEF ActiveIds, ActiveRoutes

\* What is active has an id.
LEMMA ActiveHasId ==
    ASSUME TypeInv, NEW name \in Names, domains[name].active
    PROVE  domains[name].id # 0 /\ domains[name].id \in Ids
<1>1. domains[name].id = 0 => domains[name] = NoRow
    BY DEF TypeInv, TypeOK, RowsOk
<1>2. ~NoRow.active
    BY DEF NoRow
<1>. QED  BY <1>1, <1>2, DomainAssumption DEF TypeInv, Records, Rows, Ids

\* What a name is routed to is the id of a domain it ends with.
LEMMA RouteIs ==
    ASSUME NEW to \in Addresses, NEW ids, ResolveActiveMailboxDomain(to, ids) # 0
    PROVE  \E name \in Names : /\ IsSuffix(name, to)
                               /\ ids[name] = ResolveActiveMailboxDomain(to, ids)
<1>. DEFINE roots == {name \in Names : ids[name] # 0 /\ IsSuffix(name, to)}
<1>1. /\ to \in Seq(STRING) /\ roots \subseteq Seq(STRING) /\ roots \subseteq Names
      /\ \A name \in roots : IsSuffix(name, to)
    BY DomainAssumption
<1>2. ResolveActiveMailboxDomain(to, ids) = IF roots = {} THEN 0 ELSE ids[Longest(roots)]
    BY DEF ResolveActiveMailboxDomain
<1>. HIDE DEF roots
<1>3. roots # {} => Longest(roots) \in roots
    BY <1>1, LongestIs
<1>. QED  BY <1>1, <1>2, <1>3

LEMMA ListedIs ==
    ASSUME TypeInv
    PROVE  /\ Listed(LAMBDA row : row.status = "pending") \subseteq Names \X Ids
           /\ Listed(LAMBDA row : row.active) \subseteq Names \X Ids
<1>1. \A name \in Names : Exists(name) => <<name, domains[name].id>> \in Names \X Ids
    BY DomainAssumption DEF Exists, TypeInv, Records, Rows, Ids
<1>2. Listed(LAMBDA row : row.status = "pending") \subseteq Names \X Ids
    BY <1>1 DEF Listed
<1>3. Listed(LAMBDA row : row.active) \subseteq Names \X Ids
    BY <1>1 DEF Listed
<1>. QED  BY <1>2, <1>3

LEMMA LookUpTypes == TypeInv /\ LookUp => TypeInv'
<1>. SUFFICES ASSUME TypeInv, LookUp PROVE TypeInv'
    OBVIOUS
<1>1. PICK entry \in loop.todo :
          /\ loop' = [loop EXCEPT !.at = "looked", !.todo = @ \ {entry}, !.name = entry[1],
                                  !.id = entry[2], !.matched = CheckDomainMX(entry[1])]
          /\ vouched' \subseteq vouched \cup {entry[2]}
    BY DEF LookUp
<1>2. entry[1] \in Names /\ entry[2] \in Ids /\ loop.todo \in SUBSET (Names \X Ids)
    BY DEF TypeInv, Records
<1>3. /\ loop' \in [at : {"idle", "listed", "looked"}, pass : {"none", "pending", "recheck"},
                    todo : SUBSET (Names \X Ids), name : Names \cup {<<>>}, id : 0..MaxIds,
                    matched : BOOLEAN]
      /\ loop'.at = "looked" /\ loop'.id = entry[2] /\ loop'.todo \subseteq Names \X Ids
    <2>1. CheckDomainMX(entry[1]) \in BOOLEAN
        BY DEF CheckDomainMX
    <2>2. loop.todo \ {entry} \in SUBSET (Names \X Ids)
        BY <1>2
    <2>3. entry[2] \in 0..MaxIds
        BY <1>2, DomainAssumption DEF Ids
    <2>. QED  BY <1>1, <1>2, <2>1, <2>2, <2>3 DEF TypeInv, Records
<1>4. UNCHANGED <<domains, nextId, orders, overtaken, mx, asked, routeVars, mailVars, moves, faults, late>>
    BY DEF LookUp
<1>5. vouched' \subseteq 0..MaxIds
    BY <1>1, <1>2, DomainAssumption DEF TypeInv, TypeOK, Ids
<1>6. Records'
    BY <1>2, <1>3, <1>4 DEF TypeInv, Records, routeVars, mailVars
<1>7. RowsOk'
    BY <1>4 DEF RowsOk, Holder, TypeInv, TypeOK
<1>8. TypeOK'
    BY <1>3, <1>4, <1>5, <1>7 DEF TypeInv, TypeOK, routeVars, mailVars, Records
<1>. QED  BY <1>6, <1>8 DEF TypeInv

\* The rest of the variables: a step that changes rows, or none.
LEMMA RowsTypes ==
    ASSUME TypeInv, Changes \/ UNCHANGED <<domains, nextId, vouched, overtaken, late>>
    PROVE  RowTypes'
<1>1. CASE UNCHANGED <<domains, nextId, vouched, overtaken, late>>
    BY <1>1 DEF TypeInv, TypeOK, Records, RowTypes, RowsOk, Holder
<1>. QED  BY <1>1, ChangesHold

LEMMA RequestTypes == TypeInv /\ RequestStep => TypeInv'
<1>. SUFFICES ASSUME TypeInv, RequestStep PROVE TypeInv'
    OBVIOUS
<1>1. RowTypes'
    BY RequestChanges, RowsTypes, DeleteRemoves DEF Changes
<1>2. UNCHANGED <<mx, loop, routeVars, mailVars, moves, faults>>
    BY DEF RequestStep, MXRegister, AddDomain, AddDomainPending, Toggle, Order, Delete,
           CreateDonationRequest, ApplyDonationVerification
<1>3. /\ asked' \in [name : Names \cup {<<>>}, matched : BOOLEAN]
      /\ asked' # NoRequest => asked'.name \in Names
    <2>1. CASE MXRegister
        <3>1. PICK name \in Names : asked' = [name |-> name, matched |-> CheckDomainMX(name)]
            BY <2>1 DEF MXRegister
        <3>2. CheckDomainMX(name) \in BOOLEAN
            BY DEF CheckDomainMX
        <3>. QED  BY <3>1, <3>2
    <2>2. CASE asked' = NoRequest
        BY <2>2 DEF NoRequest
    <2>3. CASE asked' = asked
        BY <2>3 DEF TypeInv, Records
    <2>. QED  BY <2>1, <2>2, <2>3 DEF RequestStep, AddDomain, AddDomainPending, Toggle, Order, Delete,
                                      CreateDonationRequest, ApplyDonationVerification
<1>4. orders' \in 0..MaxOrders
    <2>1. orders' = orders \/ (orders < MaxOrders /\ orders' = orders + 1)
        BY DEF RequestStep, MXRegister, AddDomain, AddDomainPending, Toggle, Order, Delete,
               CreateDonationRequest, ApplyDonationVerification
    <2>. QED  BY <2>1, DomainAssumption DEF TypeInv, TypeOK
<1>5. Records'
    BY <1>1, <1>2, <1>3 DEF TypeInv, Records, RowTypes, routeVars, mailVars
<1>6. TypeOK'
    BY <1>1, <1>2, <1>3, <1>4 DEF TypeInv, TypeOK, RowTypes, routeVars, mailVars
<1>. QED  BY <1>5, <1>6 DEF TypeInv


\* Where the loop is.
LoopType ==
    /\ loop \in [at : {"idle", "listed", "looked"}, pass : {"none", "pending", "recheck"},
                 todo : SUBSET (Names \X Ids), name : Names \cup {<<>>}, id : 0..MaxIds,
                 matched : BOOLEAN]
    /\ loop.at = "looked" => loop.id \in Ids

LEMMA LoopTypes ==
    ASSUME TypeInv, ListPendingDomains \/ GetActiveDomains \/ Conclude \/ ConcludeFails
    PROVE  TypeInv'
<1>0. 0 \in 0..MaxIds
    BY DomainAssumption
<1>1. LoopType'
    <2>1. ASSUME NEW pass \in {"pending", "recheck"}, NEW todo \in SUBSET (Names \X Ids),
                 loop' = [Idle EXCEPT !.at = "listed", !.pass = pass, !.todo = todo]
          PROVE  LoopType'
        BY <1>0, <2>1 DEF LoopType, Idle
    <2>2. CASE ListPendingDomains \/ GetActiveDomains
        BY <2>1, <2>2, ListedIs DEF ListPendingDomains, GetActiveDomains, BeginPass
    <2>3. CASE loop.at = "looked" /\ NextOfPass
        <3>1. CASE loop' = Idle
            BY <1>0, <3>1 DEF LoopType, Idle
        <3>2. CASE loop' # Idle
            <4>1. loop' = [Idle EXCEPT !.at = "listed", !.pass = loop.pass, !.todo = loop.todo]
                BY <2>3, <3>2 DEF NextOfPass, Remaining
            <4>2. loop.pass \in {"none", "pending", "recheck"} /\ loop.todo \in SUBSET (Names \X Ids)
                BY DEF TypeInv, Records
            <4>. QED  BY <1>0, <4>1, <4>2 DEF LoopType, Idle
        <3>. QED  BY <3>1, <3>2
    <2>. QED  BY <2>2, <2>3 DEF Conclude, ConcludeFails
<1>2. RowTypes'
    <2>1. CASE ListPendingDomains \/ GetActiveDomains \/ ConcludeFails
        BY <2>1, RowsTypes DEF ListPendingDomains, GetActiveDomains, BeginPass, ConcludeFails, tableVars
    <2>2. CASE Conclude
        BY <2>2, ConcludeChanges, RowsTypes DEF Changes
    <2>. QED  BY <2>1, <2>2
<1>3. UNCHANGED <<mx, asked, routeVars, mailVars, moves, orders>>
    BY DEF ListPendingDomains, GetActiveDomains, BeginPass, Conclude, ConcludeFails, tableVars
<1>4. faults' \in 0..MaxFaults
    <2>1. faults' = faults \/ (faults < MaxFaults /\ faults' = faults + 1)
        BY DEF ListPendingDomains, GetActiveDomains, BeginPass, Conclude, ConcludeFails, Fault
    <2>. QED  BY <2>1, DomainAssumption DEF TypeInv, TypeOK
<1>5. Records'
    BY <1>1, <1>2, <1>3 DEF TypeInv, Records, RowTypes, LoopType, routeVars, mailVars
<1>6. TypeOK'
    BY <1>1, <1>2, <1>3, <1>4 DEF TypeInv, TypeOK, RowTypes, LoopType, routeVars, mailVars
<1>. QED  BY <1>5, <1>6 DEF TypeInv

LEMMA RefreshTypes == TypeInv /\ RefreshStep => TypeInv'
<1>. SUFFICES ASSUME TypeInv, RefreshStep PROVE TypeInv'
    OBVIOUS
<1>1. UNCHANGED <<domains, nextId, orders, vouched, overtaken, mx, asked, loop, mailVars, moves>>
    BY DEF RefreshStep, LoadIngressSnapshot, refreshSnapshot, RefreshFails, tableVars
<1>2. Unread \in [Names -> 0..(MaxIds + 1)]
    BY DomainAssumption DEF Unread
<1>3. ActiveRoutes \in [Names -> 0..MaxIds]
    BY ReadTypes
<1>4. \A f : f \in [Names -> 0..MaxIds] => f \in [Names -> 0..(MaxIds + 1)]
    BY DomainAssumption
<1>5. /\ loading' \in [Names -> 0..(MaxIds + 1)] /\ snapshot' \in [Names -> 0..MaxIds]
      /\ loading' # Unread => loading' \in [Names -> 0..MaxIds]
    <2>1. CASE LoadIngressSnapshot
        BY <1>3, <1>4, <2>1 DEF LoadIngressSnapshot, TypeInv, TypeOK
    <2>2. CASE refreshSnapshot \/ RefreshFails
        BY <1>2, <2>2 DEF refreshSnapshot, RefreshFails, TypeInv, TypeOK, Records
    <2>. QED  BY <2>1, <2>2 DEF RefreshStep
<1>6. late' \in [Ids -> 0..2]
    <2>1. CASE refreshSnapshot
        <3>1. \A id \in Ids : late[id] \in 0..2
            BY DEF TypeInv, TypeOK
        <3>. QED  BY <2>1, <3>1 DEF refreshSnapshot
    <2>. QED  BY <2>1 DEF RefreshStep, LoadIngressSnapshot, RefreshFails, TypeInv, TypeOK
<1>7. faults' \in 0..MaxFaults
    BY DomainAssumption
       DEF RefreshStep, LoadIngressSnapshot, refreshSnapshot, RefreshFails, Fault, TypeInv, TypeOK
<1>8. RowsOk'
    BY <1>1 DEF RowsOk, Holder, TypeInv, TypeOK
<1>9. Records'
    BY <1>1, <1>5 DEF TypeInv, Records, mailVars
<1>10. TypeOK'
    BY <1>1, <1>5, <1>6, <1>7, <1>8 DEF TypeInv, TypeOK, mailVars
<1>. QED  BY <1>9, <1>10 DEF TypeInv

LEMMA MailTypes == TypeInv /\ MailStep => TypeInv'
<1>. SUFFICES ASSUME TypeInv, MailStep PROVE TypeInv'
    OBVIOUS
<1>1. UNCHANGED <<tableVars, mx, asked, loop, routeVars, moves, faults, late>>
    BY DEF MailStep, HandleRCPT, Create, CreateAnywhere, Resolved, MakeMailbox, DeleteMailbox
<1>2. ASSUME NEW ids, ids \in [Names -> 0..MaxIds], NEW to \in Addresses,
             ResolveActiveMailboxDomain(to, ids) # 0
      PROVE  ResolveActiveMailboxDomain(to, ids) \in Ids
    <2>1. ResolveActiveMailboxDomain(to, ids) \in 0..MaxIds
        BY <1>2, RouteIs
    <2>. QED  BY <1>2, <2>1, DomainAssumption DEF Ids
<1>3. ActiveIds \in [Names -> 0..MaxIds] /\ snapshot \in [Names -> 0..MaxIds]
    BY ReadTypes DEF TypeInv, TypeOK
<1>4. ASSUME NEW by \in {"lmtp", "http"}, NEW to \in Addresses, NEW ids, ids \in [Names -> 0..MaxIds],
             Resolved(by, to, ResolveActiveMailboxDomain(to, ids))
      PROVE  inFlight' = [by |-> by, to |-> to, id |-> ResolveActiveMailboxDomain(to, ids)]
             /\ inFlight'.id \in Ids /\ mailboxes' = mailboxes
    BY <1>2, <1>4 DEF Resolved
<1>5. ASSUME NEW by \in {"lmtp", "http"}, NEW to \in Addresses, NEW id \in Ids,
             inFlight' = [by |-> by, to |-> to, id |-> id], mailboxes' = mailboxes
      PROVE  TypeInv'
    <2>1. id \in 0..MaxIds
        BY DomainAssumption DEF Ids
    <2>2. /\ inFlight' \in [by : {"nobody", "lmtp", "http"}, to : Addresses \cup {<<>>}, id : 0..MaxIds]
          /\ inFlight'.to \in Addresses /\ inFlight'.id \in Ids
        BY <1>5, <2>1
    <2>3. Records'
        BY <1>1, <2>2 DEF TypeInv, Records, tableVars, routeVars
    <2>4. TypeOK'
        BY <1>1, <1>5, <2>2 DEF TypeInv, TypeOK, RowsOk, Holder, tableVars, routeVars, Records
    <2>. QED  BY <2>3, <2>4 DEF TypeInv
<1>6. ASSUME NEW to \in Addresses, HandleRCPT(to) PROVE TypeInv'
    <2>1. Resolved("lmtp", to, ResolveActiveMailboxDomain(to, snapshot))
        BY <1>6, WalksAgree DEF HandleRCPT
    <2>. QED  BY <1>3, <1>4, <1>5, <2>1
<1>7. ASSUME NEW to \in Addresses, Create(to) PROVE TypeInv'
    <2>1. Resolved("http", to, ResolveActiveMailboxDomain(to, ActiveIds))
        BY <1>7 DEF Create
    <2>. QED  BY <1>3, <1>4, <1>5, <2>1
<1>11. ASSUME NEW to \in Addresses, CreateAnywhere(to) PROVE TypeInv'
    <2>1. /\ to \in Names /\ ActiveIds[to] # 0 /\ mailboxes' = mailboxes
          /\ inFlight' = [by |-> "http", to |-> to, id |-> ActiveIds[to]]
        BY <1>11 DEF CreateAnywhere, Resolved
    <2>2. ActiveIds[to] \in Ids
        BY <1>3, <2>1, DomainAssumption DEF Ids
    <2>. QED  BY <1>5, <2>1, <2>2
<1>8. ASSUME inFlight' \in {inFlight, NoMailbox}, mailboxes' \in [Addresses -> 0..MaxIds] PROVE TypeInv'
    <2>1. NoMailbox.id \in 0..MaxIds /\ NoMailbox \in [by : {"nobody", "lmtp", "http"},
                                                       to : Addresses \cup {<<>>}, id : 0..MaxIds]
        BY DomainAssumption DEF NoMailbox
    <2>2. Records'
        BY <1>1, <1>8, <2>1 DEF TypeInv, Records, tableVars, routeVars
    <2>3. TypeOK'
        BY <1>1, <1>8, <2>1 DEF TypeInv, TypeOK, RowsOk, Holder, tableVars, routeVars
    <2>. QED  BY <2>2, <2>3 DEF TypeInv
<1>9. CASE MakeMailbox
    BY <1>8, <1>9 DEF MakeMailbox, TypeInv, TypeOK, Records
<1>10. ASSUME NEW to \in Addresses, DeleteMailbox(to) PROVE TypeInv'
    <2>1. inFlight' = inFlight /\ mailboxes' = [mailboxes EXCEPT ![to] = 0] /\ 0 \in 0..MaxIds
        BY <1>10, DomainAssumption DEF DeleteMailbox
    <2>2. mailboxes' \in [Addresses -> 0..MaxIds]
        BY <2>1 DEF TypeInv, TypeOK
    <2>. QED  BY <1>8, <2>1, <2>2
<1>. QED  BY <1>6, <1>7, <1>9, <1>10, <1>11 DEF MailStep

LEMMA TypeStep == TypeInv /\ [Next]_vars => TypeInv'
<1>1. ASSUME TypeInv, UNCHANGED <<tableVars, asked, loop, routeVars, mailVars, faults, late>>,
             mx' \subseteq Hosts, moves' \in 0..MaxMoves
      PROVE  TypeInv'
    <2>1. Records'
        BY <1>1 DEF TypeInv, Records, tableVars, routeVars, mailVars
    <2>2. RowsOk'
        BY <1>1 DEF TypeInv, TypeOK, RowsOk, Holder, tableVars
    <2>3. TypeOK'
        BY <1>1, <2>2 DEF TypeInv, TypeOK, tableVars, routeVars, mailVars
    <2>. QED  BY <2>1, <2>3 DEF TypeInv
<1>2. TypeInv /\ UNCHANGED vars => TypeInv'
    BY <1>1 DEF TypeInv, TypeOK, vars
<1>3. ASSUME TypeInv, NEW name \in Hosts, MoveMX(name) PROVE TypeInv'
    <2>1. mx' \subseteq Hosts
        BY <1>3 DEF MoveMX, TypeInv, TypeOK
    <2>2. moves' \in 0..MaxMoves
        BY <1>3, DomainAssumption DEF MoveMX, TypeInv, TypeOK
    <2>. QED  BY <1>1, <1>3, <2>1, <2>2 DEF MoveMX
<1>. QED  BY <1>2, <1>3, RequestTypes, LookUpTypes, LoopTypes, RefreshTypes, MailTypes DEF Next, LoopStep

LEMMA TypeInit == Init => TypeInv
<1>. SUFFICES ASSUME Init PROVE TypeInv
    OBVIOUS
<1>1. 0 \in 0..MaxIds /\ 1 \in 1..(MaxIds + 1) /\ 0 \in 0..MaxOrders /\ 0 \in 0..MaxMoves /\ 0 \in 0..MaxFaults
    BY DomainAssumption
<1>2. Records
    <2>1. NoRow \in Rows
        BY <1>1 DEF NoRow, Rows, Statuses
    <2>. QED  BY <1>1, <2>1 DEF Init, Records, NoRequest, NoMailbox, Idle
<1>3. RowsOk
    BY DEF Init, RowsOk, NoRow
<1>4. Unread \in [Names -> 0..(MaxIds + 1)] /\ NoRoutes \in [Names -> 0..MaxIds]
    BY DomainAssumption DEF Unread, NoRoutes
<1>. QED  BY <1>1, <1>2, <1>3, <1>4 DEF TypeInv, TypeOK, Init, NoRequest, NoMailbox, Idle

\* is_active and status agree in every row, and no two rows have an id in common, whatever
\* statements write them (api/store/postgres.go:118-349, donations.go:396-419).
THEOREM TypeCorrect == Spec => []TypeOK
<1>1. TypeInv => TypeOK
    BY DEF TypeInv
<1>. QED  BY <1>1, TypeInit, TypeStep, PTL DEF Spec

\* A row that is written without outer dots is the one that is read under its name.
LEMMA CleanIsRead ==
    ASSUME TypeInv, NEW name \in Names, domains[name].active, Trimmed(name) = name
    PROVE  ActiveRoutes[name] = domains[name].id
<1>1. name \in ActiveAs(name) /\ ActiveAs(name) \in SUBSET Names
    BY DEF ActiveAs
<1>2. /\ LastRead(ActiveAs(name)) \in ActiveAs(name)
      /\ Len(LastRead(ActiveAs(name))) <= Len(name)
    BY <1>1, LastIs
<1>3. ASSUME NEW other \in ActiveAs(name), other # name PROVE Len(name) < Len(other)
    <2>1. other \in Seq(STRING) \ {<<>>} /\ Trimmed(other) = name
        BY <1>3, DomainAssumption DEF ActiveAs
    <2>. QED  BY <1>3, <2>1, TrimmedIs
<1>4. Len(name) \in Nat /\ \A other \in ActiveAs(name) : Len(other) \in Nat
    BY <1>1, DomainAssumption
<1>5. LastRead(ActiveAs(name)) = name
    <2>. SUFFICES ASSUME LastRead(ActiveAs(name)) # name PROVE FALSE
        OBVIOUS
    <2>1. Len(name) < Len(LastRead(ActiveAs(name)))
        BY <1>2, <1>3
    <2>. QED  BY <1>2, <1>4, <2>1
<1>. QED  BY <1>1, <1>5 DEF ActiveRoutes

LEMMA AgreeNow == TypeInv => RoutesAgree
<1>. SUFFICES ASSUME TypeInv, NEW to \in Addresses, Clean(to)
              PROVE  LET routed == resolveRecipient(to, ActiveRoutes) IN
                     routed = ResolveActiveMailboxDomain(to, ActiveIds) \/ OnlyDotted(routed)
    BY DEF RoutesAgree
<1>. DEFINE read == {name \in Names : ActiveRoutes[name] # 0 /\ IsSuffix(name, to)}
            listed == {name \in Names : ActiveIds[name] # 0 /\ IsSuffix(name, to)}
            routed == resolveRecipient(to, ActiveRoutes)
            given == ResolveActiveMailboxDomain(to, ActiveIds)
<1>1. /\ to \in Seq(STRING)
      /\ \A name \in Names : name \in Seq(STRING) \ {<<>>} /\ Len(name) \in Nat
    BY DomainAssumption
<1>2. \A name \in read \cup listed :
         /\ name \in Names /\ name \in Seq(STRING) /\ IsSuffix(name, to)
         /\ Clean(name) /\ Trimmed(name) = name
    <2>1. ASSUME NEW name \in read \cup listed PROVE Clean(name) /\ Trimmed(name) = name
        <3>1. Clean(name)
            BY <1>1, EndIsClean
        <3>. QED  BY <1>1, <3>1, TrimmedIs
    <2>. QED  BY <1>1, <2>1
<1>3. \A name \in listed : domains[name].active /\ ActiveRoutes[name] = ActiveIds[name] /\ name \in read
    BY <1>2, CleanIsRead DEF ActiveIds
<1>4. /\ routed = IF read = {} THEN 0 ELSE ActiveRoutes[Longest(read)]
      /\ given = IF listed = {} THEN 0 ELSE ActiveIds[Longest(listed)]
    BY WalksAgree DEF ResolveActiveMailboxDomain
<1>. HIDE DEF read, listed, routed, given
<1>5. CASE read = {}
    BY <1>3, <1>4, <1>5 DEF routed, given
<1>6. CASE read # {}
    <2>. DEFINE l == Longest(read)
    <2>1. l \in read /\ \A name \in read : Len(name) <= Len(l)
        BY <1>1, <1>2, <1>6, LongestIs
    <2>2. l \in Names /\ ActiveRoutes[l] # 0
        BY <2>1 DEF read
    <2>. HIDE DEF l
    <2>3. CASE domains[l].active
        <3>1. ActiveIds[l] # 0 /\ l \in listed
            BY <1>2, <2>1, <2>2, <2>3, ActiveHasId DEF ActiveIds, listed
        <3>2. Longest(listed) \in listed /\ \A name \in listed : Len(name) <= Len(Longest(listed))
            BY <1>1, <1>2, <3>1, LongestIs
        <3>. DEFINE k == Longest(listed)
        <3>3. k \in listed /\ k \in read /\ Len(k) <= Len(l) /\ Len(l) <= Len(k)
            BY <1>3, <2>1, <3>1, <3>2
        <3>. HIDE DEF k
        <3>4. Len(k) = Len(l)
            BY <1>1, <1>2, <2>2, <3>3
        <3>5. k = l
            <4>1. /\ k \in Seq(STRING) /\ IsSuffix(k, to)
                  /\ l \in Seq(STRING) /\ IsSuffix(l, to)
                BY <1>2, <2>1, <3>3
            <4>2. /\ k = SubSeq(to, Len(to) - Len(k) + 1, Len(to))
                  /\ l = SubSeq(to, Len(to) - Len(l) + 1, Len(to))
                BY <1>1, <4>1, SuffixIs
            <4>. QED  BY <3>4, <4>2
        <3>6. ActiveRoutes[l] = ActiveIds[l]
            BY <1>3, <3>1
        <3>. QED  BY <1>4, <1>6, <3>1, <3>5, <3>6 DEF l, k, routed, given
    <2>4. CASE ~domains[l].active
        <3>1. PICK written \in Names : /\ domains[written].active /\ Trimmed(written) = l
                                      /\ ActiveRoutes[l] = domains[written].id
            BY <2>2, ReadIs
        <3>2. routed = ActiveRoutes[l]
            BY <1>4, <1>6 DEF l
        <3>3. written # l /\ written \in Holder(routed)
            BY <2>4, <3>1, <3>2 DEF Holder
        <3>4. OnlyDotted(routed)
            BY <2>4, <3>1, <3>3 DEF OnlyDotted
        <3>. QED  BY <3>4 DEF routed
    <2>. QED  BY <2>3, <2>4
<1>. QED  BY <1>5, <1>6

\* The LMTP server, which trims names and walks over labels, and the handlers, which do
\* neither, give every address the same domain (api/store/ingress.go:44-61,
\* ingress/server.go:334-341, 758-787, store/postgres.go:222-270), or the server gives it one
\* that is written with outer dots only: however names and active rows overlap.
THEOREM RoutesAlwaysAgree == Spec => []RoutesAgree
<1>. QED  BY AgreeNow, TypeInit, TypeStep, PTL DEF Spec


------------------------------------------------------------------------------
(* Where mail goes *)

\* What is routed, or about to be, is an id that has been given to a row of that name, or to
\* none.
WrittenAs(name) == {written \in Names : Trimmed(written) = name}
Routes(name, id) == id < nextId /\ (id # 0 => Holder(id) \subseteq WrittenAs(name))

\* A mail on its way is for a domain its address ends with, if the domain is still there.
RootInv ==
    /\ TypeInv
    /\ \A name \in Names : Routes(name, snapshot[name])
    /\ loading # Unread => \A name \in Names : Routes(name, loading[name])
    /\ inFlight # NoMailbox => /\ inFlight.id < nextId
                               /\ \A name \in Holder(inFlight.id) : IsAt(inFlight.to, name)
    /\ MailboxesRooted

\* What a step may do to the rows, for who looks at ids only.
RowsKeep ==
    /\ nextId <= nextId'
    /\ \A id : id # 0 /\ id < nextId => Holder(id)' \subseteq Holder(id)

LEMMA RowsKept ==
    ASSUME TypeInv, Changes \/ UNCHANGED <<domains, nextId>>
    PROVE  RowsKeep
<1>0. nextId \in Nat
    BY DEF TypeInv, TypeOK
<1>1. CASE UNCHANGED <<domains, nextId>>
    BY <1>0, <1>1 DEF RowsKeep, Holder
<1>2. ASSUME NEW name, NEW row, NEW isVouched, Rewrites(name, row, isVouched) PROVE RowsKeep
    <2>1. nextId' = nextId /\ \A id : Holder(id)' = Holder(id)
        BY <1>2, RewriteHolds DEF Rewrites
    <2>. QED  BY <1>0, <2>1 DEF RowsKeep
<1>3. ASSUME NEW name, NEW row, NEW isVouched, Adds(name, row, isVouched) PROVE RowsKeep
    <2>1. /\ nextId' = nextId + 1
          /\ \A id : id # 0 => Holder(id)' = IF id = nextId THEN {name} ELSE Holder(id)
        BY <1>3, AddHolds DEF Adds
    <2>2. nextId <= nextId' /\ ~(nextId < nextId)
        BY <1>0, <2>1
    <2>3. \A id : id # 0 /\ id < nextId => Holder(id)' \subseteq Holder(id)
        BY <2>1, <2>2
    <2>. QED  BY <2>2, <2>3 DEF RowsKeep
<1>4. ASSUME NEW name, Removes(name) PROVE RowsKeep
    <2>1. nextId' = nextId /\ \A id : id # 0 => Holder(id)' = Holder(id) \ {name}
        BY <1>4, RemoveHolds DEF Removes
    <2>. QED  BY <1>0, <2>1 DEF RowsKeep
<1>. QED  BY <1>1, <1>2, <1>3, <1>4 DEF Changes, Writes

\* What is routed stays so while rows change.
LEMMA RoutesKept ==
    ASSUME TypeInv, RowsKeep, nextId' \in Nat, NEW name, NEW id \in 0..MaxIds, Routes(name, id)
    PROVE  id < nextId' /\ (id # 0 => Holder(id)' \subseteq WrittenAs(name))
<1>1. nextId \in Nat /\ id \in Nat /\ id < nextId /\ nextId <= nextId'
    BY DomainAssumption DEF Routes, RowsKeep, TypeInv, TypeOK
<1>2. id < nextId'
    BY <1>1
<1>. QED  BY <1>1, <1>2 DEF Routes, RowsKeep

\* A step of requests or of the loop, which leaves routes and mailboxes alone.
LEMMA RootRows ==
    ASSUME RootInv, TypeInv', RowsKeep, UNCHANGED <<routeVars, mailVars>>,
           \A to \in Addresses : mailboxes[to] # 0 => Holder(mailboxes[to])' = Holder(mailboxes[to])
    PROVE  RootInv'
<1>1. /\ snapshot' = snapshot /\ loading' = loading /\ inFlight' = inFlight /\ mailboxes' = mailboxes
      /\ nextId' \in Nat /\ nextId \in Nat
    BY DEF routeVars, mailVars, TypeInv, TypeOK, RootInv
<1>2. \A name \in Names : Routes(name, snapshot[name])'
    <2>1. \A name \in Names : snapshot[name] \in 0..MaxIds /\ Routes(name, snapshot[name])
        BY DEF RootInv, TypeInv, TypeOK
    <2>2. \A name \in Names : /\ snapshot[name] < nextId'
                              /\ snapshot[name] # 0 => Holder(snapshot[name])' \subseteq WrittenAs(name)
        BY <1>1, <2>1, RoutesKept DEF RootInv
    <2>. QED  BY <1>1, <2>2 DEF Routes
<1>3. loading' # Unread => \A name \in Names : Routes(name, loading[name])'
    <2>1. SUFFICES ASSUME loading # Unread PROVE \A name \in Names : Routes(name, loading[name])'
        BY <1>1
    <2>2. \A name \in Names : loading[name] \in 0..MaxIds /\ Routes(name, loading[name])
        BY <2>1 DEF RootInv, TypeInv, Records
    <2>3. \A name \in Names : /\ loading[name] < nextId'
                              /\ loading[name] # 0 => Holder(loading[name])' \subseteq WrittenAs(name)
        BY <1>1, <2>2, RoutesKept DEF RootInv
    <2>. QED  BY <1>1, <2>3 DEF Routes
<1>4. inFlight' # NoMailbox => /\ inFlight'.id < nextId'
                               /\ \A name \in Holder(inFlight.id)' : IsAt(inFlight'.to, name)
    <2>1. SUFFICES ASSUME inFlight # NoMailbox
                   PROVE  /\ inFlight'.id < nextId'
                          /\ \A name \in Holder(inFlight.id)' : IsAt(inFlight'.to, name)
        BY <1>1
    <2>2. inFlight.id \in Nat /\ inFlight.id # 0 /\ inFlight.id < nextId /\ nextId <= nextId'
        BY <2>1, DomainAssumption DEF RootInv, TypeInv, Records, Ids, RowsKeep
    <2>3. Holder(inFlight.id)' \subseteq Holder(inFlight.id)
        BY <1>1, <2>2 DEF RowsKeep
    <2>. QED  BY <1>1, <2>1, <2>2, <2>3 DEF RootInv
<1>5. MailboxesRooted'
    <2>1. \A to \in Addresses : mailboxes[to] # 0 =>
             \E name \in Holder(mailboxes[to])' : IsAt(to, name)
        BY DEF RootInv, MailboxesRooted
    <2>. QED  BY <1>1, <2>1 DEF MailboxesRooted
<1>. QED  BY <1>2, <1>3, <1>4, <1>5 DEF RootInv

\* A row that a mailbox refers to is not deleted.
LEMMA MailboxRowsKept ==
    ASSUME RootInv, NEW to \in Addresses, NEW id, id = mailboxes[to], id # 0,
           Writes \/ (\E name \in Names : Delete(name)) \/ UNCHANGED <<domains, nextId>>
    PROVE  Holder(id)' = Holder(id)
<1>1. PICK holder \in Names : domains[holder].id = id
    BY DEF RootInv, MailboxesRooted, Holder
<1>2. id # nextId
    BY <1>1 DEF RootInv, TypeInv, TypeOK, RowsOk
<1>3. ASSUME NEW name, NEW row, NEW isVouched, Rewrites(name, row, isVouched) \/ Adds(name, row, isVouched)
      PROVE  Holder(id)' = Holder(id)
    BY <1>2, <1>3, RewriteHolds, AddHolds DEF RootInv
<1>4. ASSUME NEW name \in Names, Delete(name) PROVE Holder(id)' = Holder(id)
    <2>1. Removes(name) /\ name \notin Holder(id)
        BY <1>4, DeleteRemoves DEF RootInv, Holder
    <2>. QED  BY <2>1, RemoveHolds DEF RootInv
<1>5. CASE UNCHANGED <<domains, nextId>>
    BY <1>5 DEF Holder
<1>. QED  BY <1>3, <1>4, <1>5 DEF Writes

\* The id that a recipient or a request is given.
LEMMA ResolvedRoot ==
    ASSUME RootInv, TypeInv', NEW to \in Addresses, NEW by \in {"lmtp", "http"}, NEW id,
           Resolved(by, to, id), id < nextId, \A name \in Holder(id) : IsAt(to, name)
    PROVE  RootInv'
<1>1. inFlight' = [by |-> by, to |-> to, id |-> id]
    BY DEF Resolved
<1>4. UNCHANGED <<domains, nextId, snapshot, loading, mailboxes>>
    BY DEF Resolved, tableVars, routeVars
<1>5. inFlight'.id < nextId' /\ \A n \in Holder(inFlight.id)' : IsAt(inFlight'.to, n)
    BY <1>1, <1>4 DEF Holder
<1>6. MailboxesRooted'
    BY <1>4 DEF RootInv, MailboxesRooted, Holder
<1>7. /\ \A n \in Names : Routes(n, snapshot[n])'
      /\ loading' # Unread => \A n \in Names : Routes(n, loading[n])'
    BY <1>4 DEF RootInv, Routes, Holder
<1>. QED  BY <1>5, <1>6, <1>7 DEF RootInv

\* A clean address that ends with a name is at every row of that name.
LEMMA SuffixIsAt ==
    ASSUME NEW to \in Addresses, Clean(to), NEW name \in Names, IsSuffix(name, to)
    PROVE  Trimmed(name) = name /\ \A written \in WrittenAs(name) : IsAt(to, written)
<1>1. /\ to \in Seq(STRING) \ {<<>>} /\ name \in Seq(STRING) \ {<<>>}
    BY DomainAssumption
<1>2. Clean(name)
    BY <1>1, EndIsClean
<1>3. Trimmed(to) = to /\ Trimmed(name) = name
    BY <1>1, <1>2, TrimmedIs
<1>. QED  BY <1>3 DEF WrittenAs, IsAt

\* What a mail, or a request, is given by the names known to whoever resolves it.
LEMMA RouteIsAt ==
    ASSUME NEW to \in Addresses, Clean(to), NEW ids, NEW id,
           id = ResolveActiveMailboxDomain(to, ids), id # 0,
           \A name \in Names : IsSuffix(name, to) => Routes(name, ids[name])
    PROVE  id < nextId /\ \A name \in Holder(id) : IsAt(to, name)
<1>1. PICK name \in Names : IsSuffix(name, to) /\ ids[name] = id
    BY RouteIs
<1>. QED  BY <1>1, SuffixIsAt DEF Routes

LEMMA ActiveRow ==
    ASSUME TypeInv, NEW name \in Names
    PROVE  ActiveIds[name] < nextId /\ (ActiveIds[name] # 0 => Holder(ActiveIds[name]) = {name})
<1>1. nextId \in Nat /\ nextId > 0 /\ domains[name].id \in 0..(nextId - 1)
    BY DEF TypeInv, TypeOK, RowsOk
<1>2. domains[name].id # 0 => Holder(domains[name].id) = {name}
    BY HolderIs DEF Exists
<1>. QED  BY <1>1, <1>2 DEF ActiveIds

LEMMA ReadRoutes ==
    ASSUME TypeInv, NEW name \in Names
    PROVE  Routes(name, ActiveRoutes[name])
<1>1. CASE ActiveRoutes[name] = 0
    BY <1>1 DEF Routes, TypeInv, TypeOK
<1>2. CASE ActiveRoutes[name] # 0
    <2>1. PICK written \in Names : /\ domains[written].active /\ Trimmed(written) = name
                                  /\ ActiveRoutes[name] = domains[written].id
        BY <1>2, ReadIs
    <2>2. ActiveIds[written] = ActiveRoutes[name]
        BY <2>1 DEF ActiveIds
    <2>. QED  BY <1>2, <2>1, <2>2, ActiveRow DEF Routes, WrittenAs
<1>. QED  BY <1>1, <1>2

LEMMA RootStep == RootInv /\ [Next]_vars => RootInv'
<1>. SUFFICES ASSUME RootInv, [Next]_vars PROVE RootInv'
    OBVIOUS
<1>0. TypeInv /\ TypeInv'
    BY TypeStep DEF RootInv
<1>1. ASSUME Writes \/ (\E name \in Names : Delete(name)) \/ UNCHANGED <<domains, nextId>>,
             UNCHANGED <<routeVars, mailVars>>
      PROVE  RootInv'
    <2>1. RowsKeep
        BY <1>0, <1>1, RowsKept, DeleteRemoves DEF Changes
    <2>2. \A to \in Addresses : \A id : id = mailboxes[to] /\ id # 0 => Holder(id)' = Holder(id)
        BY <1>1, MailboxRowsKept
    <2>3. \A to \in Addresses : mailboxes[to] # 0 => Holder(mailboxes[to])' = Holder(mailboxes[to])
        BY <1>1, <2>2 DEF mailVars, Holder
    <2>. QED  BY <1>0, <1>1, <2>1, <2>3, RootRows
<1>2. CASE RequestStep
    <2>1. UNCHANGED <<routeVars, mailVars>>
        BY <1>2 DEF RequestStep, MXRegister, AddDomain, AddDomainPending, Toggle, Order, Delete,
                    CreateDonationRequest, ApplyDonationVerification
    <2>. QED  BY <1>0, <1>1, <1>2, <2>1, RequestChanges
<1>3. CASE LoopStep
    <2>1. UNCHANGED <<routeVars, mailVars>>
        BY <1>3 DEF LoopStep, ListPendingDomains, GetActiveDomains, BeginPass, LookUp, Conclude,
                    ConcludeFails
    <2>2. Writes \/ UNCHANGED <<domains, nextId>>
        BY <1>0, <1>3, ConcludeChanges
           DEF LoopStep, ListPendingDomains, GetActiveDomains, BeginPass, LookUp, ConcludeFails, tableVars
    <2>. QED  BY <1>1, <2>1, <2>2
<1>4. CASE (\E name \in Hosts : MoveMX(name)) \/ UNCHANGED vars
    BY <1>1, <1>4 DEF MoveMX, vars, tableVars
<1>5. CASE RefreshStep
    <2>1. UNCHANGED <<domains, nextId, mailVars>>
        BY <1>5 DEF RefreshStep, LoadIngressSnapshot, refreshSnapshot, RefreshFails, tableVars
    <2>2. /\ MailboxesRooted'
          /\ inFlight' # NoMailbox => /\ inFlight'.id < nextId'
                                      /\ \A name \in Holder(inFlight.id)' : IsAt(inFlight'.to, name)
        BY <2>1 DEF RootInv, MailboxesRooted, Holder, mailVars
    <2>3. /\ \A name \in Names : Routes(name, snapshot'[name])
          /\ loading' # Unread => \A name \in Names : Routes(name, loading'[name])
        BY <1>0, <1>5, ReadRoutes
           DEF RefreshStep, LoadIngressSnapshot, refreshSnapshot, Replaces, RefreshFails, RootInv
    <2>4. /\ \A name \in Names : Routes(name, snapshot[name])'
          /\ loading' # Unread => \A name \in Names : Routes(name, loading[name])'
        BY <2>1, <2>3 DEF Routes, Holder
    <2>. QED  BY <1>0, <2>2, <2>4 DEF RootInv
<1>6. CASE MailStep
    <2>1. ASSUME NEW to \in Addresses, HandleRCPT(to) PROVE RootInv'
        <3>. DEFINE id == ResolveActiveMailboxDomain(to, snapshot)
        <3>1. Clean(to) /\ Resolved("lmtp", to, id)
            BY <2>1, WalksAgree DEF HandleRCPT
        <3>2. id # 0 /\ \A name \in Names : Routes(name, snapshot[name])
            BY <3>1 DEF Resolved, RootInv
        <3>3. id < nextId /\ \A name \in Holder(id) : IsAt(to, name)
            BY <3>1, <3>2, RouteIsAt
        <3>. HIDE DEF id
        <3>. QED  BY <1>0, <3>1, <3>3, ResolvedRoot
    <2>2. ASSUME NEW to \in Addresses, Create(to) PROVE RootInv'
        <3>. DEFINE id == ResolveActiveMailboxDomain(to, ActiveIds)
        <3>1. Clean(to) /\ Resolved("http", to, id)
            BY <2>2 DEF Create
        <3>2. \A name \in Names : IsSuffix(name, to) => Routes(name, ActiveIds[name])
            BY <1>0, <3>1, ActiveRow, SuffixIsAt DEF Routes, WrittenAs
        <3>3. id < nextId /\ \A name \in Holder(id) : IsAt(to, name)
            BY <3>1, <3>2, RouteIsAt DEF Resolved
        <3>. HIDE DEF id
        <3>. QED  BY <1>0, <3>1, <3>3, ResolvedRoot
    <2>6. ASSUME NEW to \in Addresses, CreateAnywhere(to) PROVE RootInv'
        <3>1. to \in Names /\ Resolved("http", to, ActiveIds[to]) /\ ActiveIds[to] # 0
            BY <2>6 DEF CreateAnywhere, Resolved
        <3>2. to \in Seq(STRING) \ {<<>>}
            BY DomainAssumption
        <3>3. IsAt(to, to)
            <4>1. Trimmed(to) \in Seq(STRING)
                BY <3>2, TrimmedIs
            <4>. DEFINE u == Trimmed(to)
            <4>. HIDE DEF u
            <4>2. u \in Seq(STRING) => Len(u) \in Nat /\ Len(u) <= Len(u) /\ u = SubSeq(u, Len(u) - Len(u) + 1, Len(u))
                OBVIOUS
            <4>3. u \in Seq(STRING) => IsSuffix(u, u)
                BY <4>2, SuffixIs
            <4>. QED  BY <4>1, <4>3 DEF u, IsAt
        <3>4. ActiveIds[to] < nextId /\ \A name \in Holder(ActiveIds[to]) : IsAt(to, name)
            BY <1>0, <3>1, <3>3, ActiveRow
        <3>. QED  BY <1>0, <3>1, <3>4, ResolvedRoot
    <2>3. ASSUME UNCHANGED <<domains, nextId, snapshot, loading>>, inFlight' \in {inFlight, NoMailbox},
                 MailboxesRooted'
          PROVE  RootInv'
        <3>1. /\ \A name \in Names : Routes(name, snapshot[name])'
              /\ loading' # Unread => \A name \in Names : Routes(name, loading[name])'
            BY <2>3 DEF RootInv, Routes, Holder
        <3>2. inFlight' # NoMailbox => /\ inFlight'.id < nextId'
                                       /\ \A name \in Holder(inFlight.id)' : IsAt(inFlight'.to, name)
            BY <2>3 DEF RootInv, Holder
        <3>. QED  BY <1>0, <2>3, <3>1, <3>2 DEF RootInv
    <2>4. ASSUME NEW to \in Addresses, DeleteMailbox(to) PROVE RootInv'
        <3>1. MailboxesRooted'
            BY <1>0, <2>4 DEF DeleteMailbox, RootInv, MailboxesRooted, Holder, TypeInv, TypeOK, tableVars
        <3>. QED  BY <2>3, <2>4, <3>1 DEF DeleteMailbox, tableVars, routeVars
    <2>5. CASE MakeMailbox
        <3>1. /\ UNCHANGED <<domains, nextId, snapshot, loading>> /\ inFlight # NoMailbox
              /\ inFlight' = NoMailbox
            BY <2>5 DEF MakeMailbox, tableVars, routeVars
        <3>2. MailboxesRooted'
            <4>1. CASE mailboxes' = mailboxes
                BY <3>1, <4>1 DEF RootInv, MailboxesRooted, Holder
            <4>2. CASE /\ mailboxes' = [mailboxes EXCEPT ![inFlight.to] = inFlight.id]
                       /\ Holder(inFlight.id) # {}
                <5>1. /\ mailboxes'[inFlight.to] = inFlight.id /\ inFlight.to \in Addresses
                      /\ \A to \in Addresses \ {inFlight.to} : mailboxes'[to] = mailboxes[to]
                    BY <1>0, <3>1, <4>2 DEF TypeInv, TypeOK, Records
                <5>2. \E name \in Holder(inFlight.id) : IsAt(inFlight.to, name)
                    BY <3>1, <4>2 DEF RootInv
                <5>3. \A to \in Addresses : mailboxes'[to] # 0 =>
                         \E name \in Holder(mailboxes'[to]) : IsAt(to, name)
                    BY <5>1, <5>2 DEF RootInv, MailboxesRooted
                <5>. QED  BY <3>1, <5>3 DEF MailboxesRooted, Holder
            <4>. QED  BY <2>5, <4>1, <4>2 DEF MakeMailbox
        <3>. QED  BY <2>3, <3>1, <3>2
    <2>. QED  BY <1>6, <2>1, <2>2, <2>4, <2>5, <2>6 DEF MailStep
<1>. QED  BY <1>2, <1>3, <1>4, <1>5, <1>6 DEF Next

LEMMA RootInit == Init => RootInv
<1>. SUFFICES ASSUME Init PROVE RootInv
    OBVIOUS
<1>1. \A name \in Names : Routes(name, snapshot[name])
    BY DEF Init, Routes, NoRoutes
<1>. QED  BY <1>1, TypeInit DEF Init, RootInv, MailboxesRooted

\* Every mailbox is one of a domain that is there and that its address ends with
\* (sql/init.sql:50, api/store/ingress.go:123-138), even if the recipient was resolved by an
\* old snapshot, or before the domain was deleted and registered again.
THEOREM MailboxesStayRooted == Spec => []MailboxesRooted
<1>1. RootInv => MailboxesRooted
    BY DEF RootInv
<1>. QED  BY <1>1, RootInit, RootStep, PTL DEF Spec

------------------------------------------------------------------------------
(* What is forgotten *)

\* What is active, or was when the snapshot was read, has been so since the last one.
FreshInv ==
    /\ TypeInv
    /\ \A name \in Names : domains[name].active => late[domains[name].id] = 0
    /\ loading # Unread => \A name \in Names : loading[name] # 0 => late[loading[name]] = 0
    /\ DisabledIsForgotten


\* Whoever writes a row does not make its id older.
LEMMA LateFalls ==
    ASSUME FreshInv, Writes
    PROVE  /\ \A id \in Ids : late'[id] \in {late[id], 0}
           /\ \A name \in Names : domains'[name].active => late'[domains'[name].id] = 0
<1>1. PICK name, row, isVouched :
         /\ name \in Names /\ GoodRow(row) /\ Write(name, row, isVouched)
         /\ domains[name].id # row.id => domains[name].id = 0 /\ row.id = nextId
    BY DEF Writes, Rewrites, Adds
<1>2. row.id \in Ids /\ row.id # 0
    BY <1>1, DomainAssumption DEF GoodRow, Rows, Ids
<1>3. /\ domains'[name] = row
      /\ \A other \in Names \ {name} : domains'[other] = domains[other]
    BY <1>1, WriteIs DEF FreshInv
<1>4. /\ row.active => late'[row.id] = 0
      /\ \A id \in Ids : late'[id] \in {late[id], 0}
    BY <1>1, <1>2 DEF Write, FreshInv, TypeInv, TypeOK
<1>5. \A other \in Names : domains[other].active => domains[other].id \in Ids
    BY DomainAssumption DEF FreshInv, TypeInv, TypeOK, Records, Rows, RowsOk, Ids, NoRow
<1>. QED  BY <1>3, <1>4, <1>5 DEF FreshInv

LEMMA FreshStep == FreshInv /\ [Next]_vars => FreshInv'
<1>. SUFFICES ASSUME FreshInv, [Next]_vars PROVE FreshInv'
    OBVIOUS
<1>0. TypeInv /\ TypeInv'
    BY TypeStep DEF FreshInv
<1>1. /\ \A name \in Names : snapshot[name] # 0 => snapshot[name] \in Ids
      /\ loading # Unread => \A name \in Names : loading[name] # 0 => loading[name] \in Ids
      /\ \A name \in Names : domains[name].active => domains[name].id \in Ids
    <2>1. \A id \in 0..MaxIds : id # 0 => id \in Ids
        BY DomainAssumption DEF Ids
    <2>2. ASSUME NEW name \in Names, domains[name].active PROVE domains[name].id # 0
        <3>1. domains[name].id = 0 => domains[name] = NoRow
            BY <1>0 DEF TypeInv, TypeOK, RowsOk
        <3>2. ~NoRow.active
            BY DEF NoRow
        <3>. QED  BY <2>2, <3>1, <3>2
    <2>. QED  BY <1>0, <2>1, <2>2 DEF TypeInv, TypeOK, Records, Rows
<1>2. ASSUME UNCHANGED routeVars,
             \/ Writes
             \/ UNCHANGED <<domains, late>>
             \/ \E name \in Names : Delete(name)
      PROVE  FreshInv'
    <2>1. /\ \A id \in Ids : late'[id] \in {late[id], 0}
          /\ \A name \in Names : domains'[name].active => late'[domains'[name].id] = 0
        <3>1. CASE UNCHANGED <<domains, late>>
            BY <3>1 DEF FreshInv
        <3>2. ASSUME NEW name \in Names, Delete(name)
              PROVE  /\ late' = late /\ ~domains'[name].active
                     /\ \A other \in Names \ {name} : domains'[other] = domains[other]
            BY <1>0, <3>2, DeleteRemoves DEF Removes, NoRow, TypeInv, Records
        <3>. QED  BY <1>2, <3>1, <3>2, LateFalls DEF FreshInv
    <2>2. \A id \in Ids : late[id] \in 0..2
        BY <1>0 DEF TypeInv, TypeOK
    <2>3. DisabledIsForgotten'
        BY <1>1, <1>2, <2>1, <2>2 DEF FreshInv, DisabledIsForgotten, routeVars
    <2>4. loading' # Unread => \A name \in Names : loading'[name] # 0 => late'[loading'[name]] = 0
        BY <1>1, <1>2, <2>1 DEF FreshInv, routeVars
    <2>. QED  BY <1>0, <2>1, <2>3, <2>4 DEF FreshInv
<1>3. CASE RequestStep
    <2>1. UNCHANGED routeVars
        BY <1>3 DEF RequestStep, MXRegister, AddDomain, AddDomainPending, Toggle, Order, Delete,
                    CreateDonationRequest, ApplyDonationVerification
    <2>. QED  BY <1>0, <1>2, <1>3, <2>1, RequestChanges
<1>4. CASE LoopStep
    <2>1. UNCHANGED routeVars
        BY <1>4 DEF LoopStep, ListPendingDomains, GetActiveDomains, BeginPass, LookUp, Conclude,
                    ConcludeFails
    <2>2. Writes \/ UNCHANGED <<domains, late>>
        BY <1>0, <1>4, ConcludeChanges
           DEF LoopStep, ListPendingDomains, GetActiveDomains, BeginPass, LookUp, ConcludeFails, tableVars
    <2>. QED  BY <1>2, <2>1, <2>2
<1>5. CASE MailStep \/ (\E name \in Hosts : MoveMX(name)) \/ UNCHANGED vars
    BY <1>2, <1>5 DEF MailStep, HandleRCPT, Create, CreateAnywhere, Resolved, MakeMailbox, DeleteMailbox, MoveMX,
                      vars, tableVars
<1>6. CASE LoadIngressSnapshot
    <2>1. UNCHANGED <<domains, late, snapshot>> /\ loading' = ActiveRoutes
        BY <1>6 DEF LoadIngressSnapshot, tableVars
    <2>2. \A name \in Names : ActiveRoutes[name] # 0 => late[ActiveRoutes[name]] = 0
        BY ReadIs DEF FreshInv
    <2>. QED  BY <1>0, <2>1, <2>2 DEF FreshInv, DisabledIsForgotten
<1>7. CASE RefreshFails
    BY <1>0, <1>7 DEF RefreshFails, FreshInv, DisabledIsForgotten, tableVars
<1>8. CASE refreshSnapshot
    <2>1. /\ loading # Unread /\ snapshot' = loading /\ loading' = Unread /\ domains' = domains
          /\ late' = [id \in Ids |-> IF \E name \in Holder(id) : domains[name].active THEN 0
                                     ELSE IF late[id] < 2 THEN late[id] + 1 ELSE 2]
        BY <1>8 DEF refreshSnapshot, Replaces, tableVars
    <2>2. \A name \in Names : domains[name].active => late'[domains[name].id] = 0
        BY <1>1, <2>1 DEF Holder
    <2>3. \A id \in Ids : late[id] = 0 => late'[id] < 2
        BY <2>1
    <2>4. DisabledIsForgotten'
        BY <1>1, <2>1, <2>3 DEF DisabledIsForgotten, FreshInv
    <2>. QED  BY <1>0, <2>1, <2>2, <2>4 DEF FreshInv
<1>. QED  BY <1>3, <1>4, <1>5, <1>6, <1>7, <1>8 DEF Next, RefreshStep

LEMMA FreshInit == Init => FreshInv
BY TypeInit DEF Init, FreshInv, DisabledIsForgotten, NoRoutes, NoRow

\* A domain that is disabled or deleted is routed to no longer after the second snapshot that
\* is stored (api/ingress/server.go:306-365): whenever the first one was read.
THEOREM DisabledAreForgotten == Spec => []DisabledIsForgotten
<1>1. FreshInv => DisabledIsForgotten
    BY DEF FreshInv
<1>. QED  BY <1>1, FreshInit, FreshStep, PTL DEF Spec
------------------------------------------------------------------------------
(* What may be active *)

Good(id) == id \in vouched \cup overtaken

\* What the loop has in hand: a row of that name, which is not donated and, if it was
\* listed as pending, is so still or has been vouched for or disabled since.
Watched(name, id) ==
    /\ id < nextId
    /\ Holder(id) \subseteq {name}
    /\ loop.pass = "pending" =>
          \A n \in Holder(id) : /\ ~domains[n].donated
                                /\ domains[n].status = "pending" \/ Good(id)

VouchInv ==
    /\ TypeInv
    /\ ActiveIsVouched
    /\ loop.at # "looked" => loop.id = 0
    /\ \A entry \in loop.todo : Watched(entry[1], entry[2])
    /\ loop.at = "looked" =>
          /\ Watched(loop.name, loop.id)
          /\ loop.pass = "pending" /\ loop.matched /\ Holder(loop.id) # {} => Good(loop.id)

\* The loop stays where it is or goes on to the rest of its list.
LoopGoesOn ==
    \/ loop' = loop
    \/ /\ loop'.at # "looked" /\ loop'.id = 0
       /\ loop'.todo \subseteq loop.todo
       /\ loop'.todo # {} => loop'.pass = loop.pass

\* What becomes of a row that the loop has in hand as pending: it may be gone.
HandsKept ==
    \A id \in Ids : InTheLoop(id) /\ id < nextId =>
       /\ Good(id) => id \in vouched' \cup overtaken'
       /\ \A n \in Holder(id)' : /\ n \in Holder(id)
                                 /\ domains'[n].donated = domains[n].donated
                                 /\ domains'[n].status # domains[n].status =>
                                       id \in vouched' \cup overtaken'

\* What it has in hand, it goes on having in hand.
LEMMA WatchedStays ==
    ASSUME VouchInv, TypeInv', LoopGoesOn, RowsKeep, HandsKept, ActiveIsVouched'
    PROVE  VouchInv'
<1>0. nextId \in Nat /\ nextId' \in Nat /\ nextId <= nextId'
    BY DEF VouchInv, TypeInv, TypeOK, RowsKeep
<1>1. ASSUME NEW name, NEW id \in Ids, Watched(name, id), loop'.pass = "pending" => InTheLoop(id)
      PROVE  Watched(name, id)'
    <2>1. id \in Nat /\ id # 0 /\ id < nextId
        BY <1>1, DomainAssumption DEF Watched, Ids
    <2>2. id < nextId' /\ Holder(id)' \subseteq Holder(id)
        BY <1>0, <2>1 DEF RowsKeep
    <2>3. ASSUME loop'.pass = "pending", NEW n \in Holder(id)'
          PROVE  ~domains'[n].donated /\ (domains'[n].status = "pending" \/ Good(id)')
        <3>1. InTheLoop(id) /\ loop.pass = "pending" /\ n \in Holder(id)
            BY <1>1, <2>2, <2>3 DEF InTheLoop
        <3>2. ~domains[n].donated /\ (domains[n].status = "pending" \/ Good(id))
            BY <1>1, <3>1 DEF Watched
        <3>3. /\ Good(id) => Good(id)'
              /\ domains'[n].donated = domains[n].donated
              /\ domains'[n].status # domains[n].status => Good(id)'
            BY <1>1, <2>1, <2>3, <3>1 DEF HandsKept, Good
        <3>. QED  BY <3>2, <3>3
    <2>. QED  BY <1>1, <2>2, <2>3 DEF Watched
<1>2. \A entry \in loop'.todo : entry \in loop.todo /\ entry[2] \in Ids /\ Watched(entry[1], entry[2])
    BY DEF VouchInv, LoopGoesOn, TypeInv, Records
<1>3. \A entry \in loop'.todo : loop'.pass = "pending" => InTheLoop(entry[2])
    BY <1>2 DEF LoopGoesOn, InTheLoop
<1>4. \A entry \in loop'.todo : Watched(entry[1], entry[2])'
    BY <1>1, <1>2, <1>3
<1>5. CASE loop' # loop
    BY <1>4, <1>5 DEF VouchInv, LoopGoesOn
<1>6. CASE loop' = loop /\ loop.at = "looked"
    <2>1. loop.id \in Ids /\ Watched(loop.name, loop.id) /\ (loop.pass = "pending" => InTheLoop(loop.id))
        BY <1>6 DEF VouchInv, TypeInv, Records, InTheLoop
    <2>2. \A id : id = loop.id => Watched(loop.name, id)'
        BY <1>1, <1>6, <2>1
    <2>3. Watched(loop.name, loop.id)'
        BY <1>6, <2>2 DEF Watched, Good, Holder
    <2>4. ASSUME loop.pass = "pending", loop.matched, NEW id, id = loop.id, Holder(id)' # {}
          PROVE  Good(id)'
        <3>1. id < nextId /\ id # 0
            BY <2>1, <2>4, DomainAssumption DEF Watched, Ids
        <3>2. Holder(loop.id) # {}
            BY <2>4, <3>1 DEF RowsKeep
        <3>3. Good(loop.id)
            BY <1>6, <2>4, <3>2 DEF VouchInv
        <3>. QED  BY <2>1, <2>4, <3>1, <3>3 DEF HandsKept, Good
    <2>5. loop'.pass = "pending" /\ loop'.matched /\ Holder(loop.id)' # {} => Good(loop.id)'
        BY <1>6, <2>4 DEF Holder, Good
    <2>. QED  BY <1>4, <1>6, <2>3, <2>5 DEF VouchInv
<1>7. CASE loop' = loop /\ loop.at # "looked"
    BY <1>4, <1>7 DEF VouchInv
<1>. QED  BY <1>5, <1>6, <1>7

LEMMA InHand ==
    ASSUME VouchInv, NEW id \in Ids, InTheLoop(id)
    PROVE  /\ id < nextId
           /\ \A n \in Holder(id) : ~domains[n].donated /\ (domains[n].status = "pending" \/ Good(id))
<1>1. \E name : Watched(name, id)
    <2>1. CASE \E entry \in loop.todo : entry[2] = id
        BY <2>1 DEF VouchInv
    <2>2. CASE id = loop.id
        BY <2>2, DomainAssumption DEF VouchInv, Ids
    <2>. QED  BY <2>1, <2>2 DEF InTheLoop
<1>. QED  BY <1>1 DEF Watched, InTheLoop

LEMMA VouchRewrites ==
    ASSUME VouchInv, NEW name, NEW row, NEW isVouched, Rewrites(name, row, isVouched),
           row.active => Good(row.id) \/ isVouched,
           isVouched \/ row.status = "disabled" \/ row.id \notin vouched
    PROVE  HandsKept /\ ActiveIsVouched'
<1>1. /\ GoodRow(row) /\ name \in Names /\ Write(name, row, isVouched) /\ row.id \in Ids
      /\ domains[name].id = row.id /\ domains[name].donated = row.donated /\ Exists(name)
    BY DomainAssumption DEF Rewrites, GoodRow, Rows, Ids, Exists
<1>2. /\ domains'[name] = row
      /\ \A other \in Names \ {name} : domains'[other] = domains[other]
      /\ vouched \ {row.id} \subseteq vouched' /\ overtaken \subseteq overtaken'
    BY <1>1, WriteIs DEF VouchInv
<1>3. (\A id : Holder(id)' = Holder(id)) /\ Holder(row.id) = {name}
    BY <1>1, RewriteHolds, HolderIs DEF VouchInv
<1>4. isVouched => row.id \in vouched'
    BY <1>1 DEF Write
<1>5. row.status = "disabled" => ~row.active /\ (InTheLoop(row.id) => row.id \in overtaken')
    BY <1>1 DEF Write, GoodRow
<1>6. Good(row.id) => row.id \in vouched' \cup overtaken' \/ row.status = "disabled"
    BY <1>2, <1>4 DEF Good
<1>7. HandsKept
    <2>1. ASSUME NEW id \in Ids, InTheLoop(id), NEW n \in Holder(id)
          PROVE  /\ Good(id) => id \in vouched' \cup overtaken'
                 /\ domains'[n].donated = domains[n].donated
                 /\ domains'[n].status # domains[n].status => id \in vouched' \cup overtaken'
        <3>1. CASE id = row.id
            <4>1. n = name
                BY <1>3, <3>1
            <4>2. domains[n].status = "pending" \/ Good(id)
                BY <2>1, InHand
            <4>3. row.status \in {"pending", "active", "disabled"}
                BY <1>1 DEF GoodRow, Rows, Statuses
            <4>4. row.status = "active" => row.id \in vouched' \cup overtaken'
                BY <1>1, <1>4, <1>5, <1>6 DEF GoodRow
            <4>. QED  BY <1>1, <1>2, <1>5, <1>6, <2>1, <3>1, <4>1, <4>2, <4>3, <4>4
        <3>2. CASE id # row.id
            <4>1. n # name /\ n \in Names
                BY <1>1, <2>1, <3>2 DEF Holder
            <4>. QED  BY <1>2, <3>2, <4>1 DEF Good
        <3>. QED  BY <3>1, <3>2
    <2>2. ASSUME NEW id \in Ids, Good(id), InTheLoop(id), Holder(id) = {}
          PROVE  id \in vouched' \cup overtaken'
        <3>1. id # row.id
            BY <1>3, <2>2
        <3>. QED  BY <1>2, <2>2, <3>1 DEF Good
    <2>. QED  BY <1>3, <2>1, <2>2 DEF HandsKept
<1>8. ActiveIsVouched'
    <2>1. ASSUME NEW n \in Names, domains'[n].active PROVE domains'[n].id \in vouched' \cup overtaken'
        <3>1. CASE n = name
            BY <1>2, <1>4, <1>5, <1>6, <2>1, <3>1
        <3>2. CASE n # name
            <4>1. domains[n].id # row.id
                BY <1>3, <3>2 DEF Holder
            <4>. QED  BY <1>2, <2>1, <3>2, <4>1 DEF VouchInv, ActiveIsVouched
        <3>. QED  BY <3>1, <3>2
    <2>. QED  BY <2>1 DEF ActiveIsVouched
<1>. QED  BY <1>7, <1>8

LEMMA VouchAdds ==
    ASSUME VouchInv, NEW name, NEW row, NEW isVouched, Adds(name, row, isVouched),
           row.active => isVouched
    PROVE  HandsKept /\ ActiveIsVouched'
<1>1. name \in Names /\ Write(name, row, isVouched) /\ row.id = nextId
    BY DEF Adds
<1>2. /\ domains'[name] = row
      /\ \A other \in Names \ {name} : domains'[other] = domains[other]
      /\ vouched \ {row.id} \subseteq vouched' /\ overtaken \subseteq overtaken'
    BY <1>1, WriteIs DEF VouchInv
<1>3. /\ Holder(nextId) = {}
      /\ \A id : id # 0 => Holder(id)' = IF id = nextId THEN {name} ELSE Holder(id)
    BY AddHolds DEF VouchInv
<1>4. isVouched => row.id \in vouched'
    BY <1>1 DEF Write
<1>5. ASSUME NEW id \in Ids, id < nextId
      PROVE  /\ id # nextId /\ Holder(id)' = Holder(id)
             /\ Good(id) => id \in vouched' \cup overtaken'
    <2>1. id # nextId /\ id # 0
        BY <1>5, DomainAssumption DEF Ids, VouchInv, TypeInv, TypeOK
    <2>. QED  BY <1>1, <1>2, <1>3, <2>1 DEF Good
<1>6. HandsKept
    <2>1. \A id \in Ids : id < nextId => \A n \in Holder(id) : n # name /\ n \in Names
        BY DomainAssumption DEF Adds, Holder, Ids
    <2>. QED  BY <1>2, <1>5, <2>1 DEF HandsKept
<1>7. ActiveIsVouched'
    <2>1. ASSUME NEW n \in Names, domains'[n].active PROVE domains'[n].id \in vouched' \cup overtaken'
        <3>1. CASE n = name
            BY <1>2, <1>4, <2>1, <3>1
        <3>2. CASE n # name
            <4>1. domains[n].id # row.id
                BY <1>1, <1>3, <3>2 DEF Holder
            <4>. QED  BY <1>2, <2>1, <3>2, <4>1 DEF VouchInv, ActiveIsVouched
        <3>. QED  BY <3>1, <3>2
    <2>. QED  BY <2>1 DEF ActiveIsVouched
<1>. QED  BY <1>6, <1>7

LEMMA VouchRemoves ==
    ASSUME VouchInv, NEW name, Removes(name)
    PROVE  HandsKept /\ ActiveIsVouched'
<1>1. /\ domains'[name] = NoRow /\ ~NoRow.active
      /\ \A other \in Names \ {name} : domains'[other] = domains[other]
      /\ UNCHANGED <<vouched, overtaken>>
    BY DEF Removes, VouchInv, TypeInv, Records, NoRow
<1>2. \A id : id # 0 => Holder(id)' = Holder(id) \ {name}
    BY RemoveHolds DEF VouchInv
<1>3. ActiveIsVouched'
    BY <1>1 DEF VouchInv, ActiveIsVouched
<1>4. \A id \in Ids : id # 0 /\ Holder(id) \subseteq Names
    BY DomainAssumption DEF Ids, Holder
<1>. QED  BY <1>1, <1>2, <1>3, <1>4 DEF HandsKept, Good

\* The requests.
LEMMA VouchRequest ==
    ASSUME VouchInv, RequestStep
    PROVE  (HandsKept /\ ActiveIsVouched') \/ UNCHANGED <<domains, nextId, vouched, overtaken>>
<1>0. TypeInv
    BY DEF VouchInv
<1>1. ASSUME NEW name \in Names, NEW active \in BOOLEAN, Toggle(name, active)
      PROVE  HandsKept /\ ActiveIsVouched'
    <2>. DEFINE row == Row(domains[name].id, IF active THEN "active" ELSE "disabled", domains[name].donated)
    <2>1. Rewrites(name, row, active)
        BY <1>0, <1>1, ToggleRewrites
    <2>2. (row.active => active) /\ (active \/ row.status = "disabled")
        BY RowIs
    <2>. HIDE DEF row
    <2>. QED  BY <2>1, <2>2, VouchRewrites
<1>2. ASSUME NEW name \in Names, ApplyDonationVerification(name) PROVE HandsKept /\ ActiveIsVouched'
    <2>1. PICK isGranted \in BOOLEAN :
             Rewrites(name, Row(domains[name].id, IF isGranted THEN "active" ELSE "disabled",
                                domains[name].donated), isGranted)
        BY <1>0, <1>2, ApplyRewrites
    <2>. DEFINE row == Row(domains[name].id, IF isGranted THEN "active" ELSE "disabled",
                           domains[name].donated)
    <2>2. (row.active => isGranted) /\ (isGranted \/ row.status = "disabled") /\ Rewrites(name, row, isGranted)
        BY <2>1, RowIs
    <2>. HIDE DEF row
    <2>. QED  BY <2>2, VouchRewrites
<1>3. ASSUME NEW name \in Names, Delete(name) PROVE HandsKept /\ ActiveIsVouched'
    BY <1>0, <1>3, DeleteRemoves, VouchRemoves
<1>4. ASSUME NEW name, NEW status, NEW donated, NEW isVouched,
             Adds(name, Row(nextId, status, donated), isVouched), status = "active" => isVouched
      PROVE  HandsKept /\ ActiveIsVouched'
    <2>1. Row(nextId, status, donated).active => isVouched
        BY <1>4, RowIs
    <2>. QED  BY <1>4, <2>1, VouchAdds
<1>5. ASSUME NEW name \in Names, CreateDonationRequest(name) PROVE HandsKept /\ ActiveIsVouched'
    BY <1>0, <1>4, <1>5, CreateAdds
<1>6. CASE AddDomain
    BY <1>0, <1>4, <1>6, AddAdds
<1>7. CASE AddDomainPending
    <2>. DEFINE old == domains[asked.name]
                row == Row(old.id, AfterConflict(old), old.donated)
    <2>1. CASE Adds(asked.name, Row(nextId, "pending", FALSE), FALSE)
        <3>1. "pending" = "active" => FALSE
            OBVIOUS
        <3>. HIDE DEF old, row
        <3>. QED  BY <1>4, <2>1, <3>1, Zenon
    <2>2. CASE Rewrites(asked.name, row, old.id \in vouched)
        <3>1. row.id = old.id /\ (row.active => AfterConflict(old) = "active") /\ asked.name \in Names
            BY <2>2, RowIs DEF Rewrites
        <3>2. row.active => old.active
            BY <1>0, <3>1 DEF AfterConflict, TypeInv, TypeOK, RowsOk
        <3>3. row.active => Good(row.id)
            BY <3>1, <3>2 DEF VouchInv, ActiveIsVouched, Good
        <3>. HIDE DEF old, row
        <3>. QED  BY <2>2, <3>1, <3>3, VouchRewrites
    <2>. QED  BY <1>0, <1>7, <2>1, <2>2, PendingWrites
<1>8. CASE MXRegister
    BY <1>8 DEF MXRegister
<1>. QED  BY <1>1, <1>2, <1>3, <1>5, <1>6, <1>7, <1>8 DEF RequestStep

\* What the loop concludes.
LEMMA VouchConclude ==
    ASSUME VouchInv, Conclude
    PROVE  (HandsKept /\ ActiveIsVouched') \/ UNCHANGED <<domains, nextId, vouched, overtaken>>
<1>0. TypeInv /\ loop.at = "looked" /\ nextId' = nextId
    BY DEF VouchInv, Conclude
<1>1. CASE Holder(loop.id) = {}
    BY <1>0, <1>1 DEF Conclude, PromoteDomainToActive, DisableDomainMX
<1>2. CASE Holder(loop.id) # {}
    <2>1. PICK name : name \in Holder(loop.id)
        BY <1>2
    <2>2. CASE loop.pass = "pending" /\ loop.matched /\ PromoteDomainToActive
        <3>. DEFINE row == Row(loop.id, "active", domains[name].donated)
        <3>1. row.id = loop.id
            BY RowIs
        <3>. HIDE DEF row
        <3>3. Rewrites(name, row, loop.id \in vouched)
            BY <1>0, <2>1, <2>2, LoopRewrites DEF row
        <3>2. Good(loop.id)
            BY <1>0, <1>2, <2>2 DEF VouchInv
        <3>. QED  BY <3>1, <3>2, <3>3, VouchRewrites
    <2>3. CASE DisableDomainMX
        <3>. DEFINE row == Row(loop.id, "disabled", domains[name].donated)
        <3>1. row.status = "disabled" /\ ~row.active
            BY RowIs
        <3>. HIDE DEF row
        <3>2. Rewrites(name, row, FALSE)
            BY <1>0, <2>1, <2>3, LoopRewrites DEF row
        <3>. QED  BY <3>1, <3>2, VouchRewrites
    <2>. QED  BY <1>0, <2>2, <2>3 DEF Conclude
<1>. QED  BY <1>1, <1>2

\* The lookup of a pending domain vouches for it, unless its row has changed since it was
\* listed.
LEMMA VouchLookUp == VouchInv /\ LookUp => VouchInv'
<1>. SUFFICES ASSUME VouchInv, LookUp PROVE VouchInv'
    OBVIOUS
<1>0. TypeInv /\ TypeInv'
    BY LookUpTypes DEF VouchInv
<1>1. PICK entry \in loop.todo :
         /\ loop' = [loop EXCEPT !.at = "looked", !.todo = @ \ {entry}, !.name = entry[1],
                                 !.id = entry[2], !.matched = CheckDomainMX(entry[1])]
         /\ vouched' = IF /\ loop.pass = "pending" /\ CheckDomainMX(entry[1])
                          /\ domains[entry[1]] = Row(entry[2], "pending", FALSE)
                       THEN vouched \cup {entry[2]} ELSE vouched
    BY DEF LookUp
<1>2. /\ loop'.at = "looked" /\ loop'.todo = loop.todo \ {entry} /\ loop'.name = entry[1]
      /\ loop'.id = entry[2] /\ loop'.pass = loop.pass /\ loop'.matched = CheckDomainMX(entry[1])
    BY <1>0, <1>1 DEF TypeInv, Records
<1>3. UNCHANGED <<domains, nextId, overtaken>> /\ vouched \subseteq vouched'
    BY <1>1 DEF LookUp
<1>4. \A name, id : Watched(name, id) => Watched(name, id)'
    BY <1>2, <1>3 DEF Watched, Good, Holder
<1>5. \A e \in loop.todo : Watched(e[1], e[2])'
    BY <1>4 DEF VouchInv
<1>6. \A id, name : id = entry[2] /\ name = entry[1] => Watched(name, id)'
    BY <1>5
<1>7. Watched(loop.name, loop.id)'
    BY <1>2, <1>6 DEF Watched, Good, Holder
<1>8. ActiveIsVouched'
    BY <1>3 DEF VouchInv, ActiveIsVouched
<1>9. ASSUME loop.pass = "pending", CheckDomainMX(entry[1]), Holder(entry[2]) # {}
      PROVE  entry[2] \in vouched' \cup overtaken'
    <2>. DEFINE row == domains[entry[1]]
    <2>1. entry[1] \in Holder(entry[2]) /\ entry[1] \in Names /\ entry[2] \in Ids /\ row.id = entry[2]
        BY <1>0, <1>9 DEF VouchInv, Watched, Holder, TypeInv, Records
    <2>2. ~row.donated /\ (row.status = "pending" \/ Good(entry[2]))
        BY <1>9, <2>1 DEF VouchInv, Watched
    <2>3. row \in Rows /\ (row.active <=> row.status = "active")
        BY <1>0, <2>1 DEF TypeInv, TypeOK, RowsOk, Records
    <2>. HIDE DEF row
    <2>4. ASSUME row.status = "pending" PROVE row = Row(entry[2], "pending", FALSE)
        <3>1. row = [id |-> row.id, status |-> row.status, active |-> row.active, donated |-> row.donated]
            BY <2>3 DEF Rows
        <3>2. row.active = FALSE /\ row.donated = FALSE /\ ("pending" = "active") = FALSE
            BY <2>2, <2>3, <2>4 DEF Rows
        <3>. QED  BY <2>1, <2>4, <3>1, <3>2 DEF Row
    <2>5. row.status = "pending" => entry[2] \in vouched'
        BY <1>1, <1>9, <2>4 DEF row
    <2>. QED  BY <1>3, <2>2, <2>5 DEF Good
<1>10. loop'.pass = "pending" /\ loop'.matched /\ Holder(loop.id)' # {} => Good(loop.id)'
    BY <1>2, <1>3, <1>9 DEF Holder, Good
<1>. QED  BY <1>0, <1>2, <1>5, <1>7, <1>8, <1>10 DEF VouchInv

LEMMA VouchListed ==
    ASSUME VouchInv, ListPendingDomains \/ GetActiveDomains
    PROVE  VouchInv'
<1>0. TypeInv /\ TypeInv'
    BY LoopTypes DEF VouchInv
<1>1. UNCHANGED <<domains, nextId, vouched, overtaken>>
    BY DEF ListPendingDomains, GetActiveDomains, BeginPass, tableVars
<1>2. ASSUME NEW todo, NEW pass, BeginPass(pass, todo)
      PROVE  loop'.at = "listed" /\ loop'.id = 0 /\ loop'.pass = pass /\ loop'.todo = todo
    BY <1>2 DEF BeginPass, Idle
<1>3. ASSUME NEW entry \in loop'.todo PROVE Watched(entry[1], entry[2])'
    <2>1. PICK n \in Names : /\ Exists(n) /\ ~domains[n].donated /\ entry = <<n, domains[n].id>>
                             /\ loop'.pass = "pending" => domains[n].status = "pending"
        <3>1. CASE ListPendingDomains
            BY <1>2, <1>3, <3>1 DEF ListPendingDomains, Listed, OfTheLoop
        <3>2. CASE GetActiveDomains
            BY <1>2, <1>3, <3>2 DEF GetActiveDomains, Listed, OfTheLoop
        <3>. QED  BY <3>1, <3>2
    <2>2. Holder(entry[2]) = {n} /\ entry[2] < nextId
        <3>1. domains[n].id \in 0..(nextId - 1) /\ nextId \in Nat
            BY <1>0, <2>1 DEF TypeInv, TypeOK, RowsOk
        <3>2. Holder(domains[n].id) = {n} /\ entry[2] = domains[n].id
            BY <1>0, <2>1, HolderIs
        <3>. QED  BY <3>1, <3>2
    <2>3. ASSUME NEW id, id = entry[2] PROVE Watched(n, id)'
        BY <1>1, <2>1, <2>2, <2>3 DEF Watched, Holder
    <2>4. \A name : name = entry[1] => Watched(name, entry[2])'
        BY <2>1, <2>3
    <2>. QED  BY <2>4
<1>4. loop'.at # "looked" /\ loop'.id = 0
    BY <1>2 DEF ListPendingDomains, GetActiveDomains
<1>5. ActiveIsVouched'
    BY <1>1 DEF VouchInv, ActiveIsVouched
<1>. QED  BY <1>0, <1>3, <1>4, <1>5 DEF VouchInv

LEMMA VouchStep == VouchInv /\ [Next]_vars => VouchInv'
<1>. SUFFICES ASSUME VouchInv, [Next]_vars PROVE VouchInv'
    OBVIOUS
<1>0. TypeInv /\ TypeInv'
    BY TypeStep DEF VouchInv
<1>1. ASSUME LoopGoesOn, UNCHANGED <<domains, nextId, vouched, overtaken>> PROVE VouchInv'
    <2>1. HandsKept /\ ActiveIsVouched'
        BY <1>1 DEF VouchInv, HandsKept, ActiveIsVouched, Good, Holder
    <2>. QED  BY <1>0, <1>1, <2>1, RowsKept, WatchedStays
<1>2. NextOfPass => LoopGoesOn
    BY DEF NextOfPass, Remaining, LoopGoesOn, Idle
<1>3. CASE RequestStep
    <2>1. loop' = loop
        BY <1>3 DEF RequestStep, MXRegister, AddDomain, AddDomainPending, Toggle, Order, Delete,
                    CreateDonationRequest, ApplyDonationVerification
    <2>2. RowsKeep
        BY <1>0, <1>3, RequestChanges, RowsKept, DeleteRemoves DEF Changes
    <2>. QED  BY <1>0, <1>1, <1>3, <2>1, <2>2, VouchRequest, WatchedStays DEF LoopGoesOn
<1>4. CASE Conclude
    <2>1. LoopGoesOn
        BY <1>2, <1>4 DEF Conclude
    <2>2. RowsKeep
        BY <1>0, <1>4, ConcludeChanges, RowsKept DEF Changes
    <2>. QED  BY <1>0, <1>1, <1>4, <2>1, <2>2, VouchConclude, WatchedStays
<1>5. CASE ConcludeFails
    BY <1>1, <1>2, <1>5 DEF ConcludeFails, tableVars
<1>6. CASE RefreshStep \/ MailStep \/ (\E name \in Hosts : MoveMX(name)) \/ UNCHANGED vars
    BY <1>1, <1>6 DEF RefreshStep, LoadIngressSnapshot, refreshSnapshot, RefreshFails, MailStep,
                      HandleRCPT, Create, CreateAnywhere, Resolved, MakeMailbox, DeleteMailbox, MoveMX, vars, tableVars,
                      LoopGoesOn
<1>. QED  BY <1>3, <1>4, <1>5, <1>6, VouchLookUp, VouchListed DEF Next, LoopStep

LEMMA VouchInit == Init => VouchInv
BY TypeInit DEF Init, VouchInv, ActiveIsVouched, NoRow, Idle

\* A domain is active because somebody enabled it, its donation was granted, or its MX was
\* found while it was pending; the loop promotes another only if it was disabled while the
\* loop had it in hand (api/main.go:429-447).
THEOREM ActiveIsAlwaysVouched == Spec => []ActiveIsVouched
<1>1. VouchInv => ActiveIsVouched
    BY DEF VouchInv
<1>. QED  BY <1>1, VouchInit, VouchStep, PTL DEF Spec


===============================================================================
