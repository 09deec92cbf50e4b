---------------------------- MODULE RLog_proofs -----------------------------
(***************************************************************************)
(* Proofs about RLog, for any number of idents, connections, records and   *)
(* restarts of the log server.                                             *)
(***************************************************************************)
EXTENDS RLog, FiniteSetTheorems, SequenceTheorems, TLAPS

Ids == 0 .. (MaxMsg - 1)
Records == Conns \X Ids

\* The types of the variables.
TypeInv ==
    /\ inits \in 0 .. MaxInit /\ rp_s \in 0 .. inits /\ msg_counter_s \in 0 .. MaxMsg
    /\ run \in Nat /\ ident \in [Conns -> Idents] /\ home \in [Conns -> 0 .. run]
    /\ status \in [Conns -> {"up", "broken", "closed"}] /\ wire \in [Conns -> Seq(Ids)]
    /\ pool \subseteq Records /\ buffer_ \in [Idents -> SUBSET Records]
    /\ done_ \in [Idents -> 0 .. MaxMsg] /\ printed \in Seq(Records)

\* Connection c goes to this run of the server, and so may its records.
Current(c) == c \in 1 .. inits /\ home[c] = run

\* What is on its way or in the tables belongs to this run of the server, under
\* the ident of its connection, and the tables know no id twice.
Tables ==
    /\ \A c \in Conns : wire[c] # <<>> \/ status[c] = "up" => Current(c)
    /\ \A c \in Conns : status[c] = "up" => rp_s = c
    /\ \A r \in pool : Current(r[1])
    /\ \A s \in Idents : \A b \in buffer_[s] : Current(b[1]) /\ ident[b[1]] = s
    /\ \A s \in Idents : \A a, b \in buffer_[s] : a[2] = b[2] => a = b
    /\ \A s \in Idents : done_[s] # 0 => \E c \in Conns : Current(c) /\ ident[c] = s
    /\ \A k \in DOMAIN printed : printed[k][1] <= inits

\* The server has read the first n records of connection c: they are printed, up
\* to done_ and but perhaps the first, or else in the pool or in the buffer; the
\* ids from n on follow on the wire, up to the last one sent if nothing was lost.
Sent(c, n) ==
    /\ \A k \in DOMAIN wire[c] : wire[c][k] = n + k - 1
    /\ status[c] = "up" => msg_counter_s = n + Len(wire[c])
Held(c, n) ==
    LET d == done_[ident[c]]
    IN  /\ d < n \/ d = 0
        /\ \A i \in Ids : <<c, i>> \in pool => i < n /\ (i = 0 \/ i > d)
        /\ \A b \in buffer_[ident[c]] : b[2] < n /\ b[2] > d + 1 /\ b \notin pool
        /\ \A i \in Ids : d < i /\ i < n => <<c, i>> \in pool \cup buffer_[ident[c]]
Logged(c, n) ==
    LET d == done_[ident[c]]
    IN  /\ \A k \in DOMAIN printed : printed[k][1] = c =>
               printed[k][2] < n /\ printed[k][2] <= d /\ (printed[k][2] = 0 => <<c, 0>> \notin pool)
        /\ \A i \in 1 .. d : \E k \in DOMAIN printed : printed[k] = <<c, i>>

-----------------------------------------------------------------------------
(* Sorting                                                                 *)

\* q lists the records of S from the smallest id on.
Lists(q, S) == /\ q \in Surjection(1 .. Cardinality(S), S)
               /\ \A j, k \in 1 .. Cardinality(S) : j < k => q[j][2] <= q[k][2]

Distinct(S) == \A a, b \in S : a[2] = b[2] => a = b

\* Induction in the form that the proof uses: a set of numbers has a least one.
LEMMA SmallestNat ==
    ASSUME NEW T, T \subseteq Nat, T # {}
    PROVE  \E x \in T : \A y \in T : x <= y
<1>1. PICK x \in T : \A y \in T : <<y, x>> \notin OpToRel(<, Nat)
    BY NatLessThanWellFounded, WFMin, Zenon
<1>2. ASSUME NEW y \in T PROVE ~(y < x)
    BY <1>1, Zenon DEF OpToRel
<1> QED BY <1>2

\* The listing of a set is that of the set without its greatest record, and it.
LEMMA ListsAppend ==
    ASSUME NEW S \in SUBSET Records, NEW m \in S, NEW p,
           IsFiniteSet(S \ {m}), Lists(p, S \ {m}), \A b \in S : b[2] <= m[2]
    PROVE  IsFiniteSet(S) /\ \E q : Lists(q, S)
<1> DEFINE R == S \ {m}
           n == Cardinality(R)
           q == [k \in 1 .. n + 1 |-> IF k = n + 1 THEN m ELSE p[k]]
<1>1. IsFiniteSet(S) /\ Cardinality(S) = n + 1 /\ n \in Nat
    <2>1. S = R \cup {m} /\ m \notin R
        OBVIOUS
    <2>2. IsFiniteSet(R) /\ n \in Nat
        BY FS_CardinalityType
    <2>3. IsFiniteSet(R \cup {m}) /\ Cardinality(R \cup {m}) = n + 1
        <3> HIDE DEF R
        <3> QED BY <2>1, <2>2, FS_AddElement
    <2> QED BY <2>1, <2>2, <2>3
<1>2. p \in [1 .. n -> R] /\ \A t \in R : \E k \in 1 .. n : p[k] = t
    BY Zenon DEF Lists, Surjection
<1>3. q \in [1 .. n + 1 -> S]
    BY <1>1, <1>2
<1>4. \A t \in S : \E k \in 1 .. n + 1 : q[k] = t
    <2> TAKE t \in S
    <2>1. CASE t = m
        BY <1>1, <2>1
    <2>2. CASE t # m
        <3>1. PICK k \in 1 .. n : p[k] = t
            BY <1>2, <2>2
        <3>2. k \in 1 .. n + 1 /\ q[k] = t
            BY <1>1, <3>1
        <3> QED BY <3>2
    <2> QED BY <2>1, <2>2
<1>5. \A j, k \in 1 .. n + 1 : j < k => q[j][2] <= q[k][2]
    <2> SUFFICES ASSUME NEW j \in 1 .. n + 1, NEW k \in 1 .. n + 1, j < k
                 PROVE  q[j][2] <= q[k][2]
        OBVIOUS
    <2>1. j \in 1 .. n /\ q[j] = p[j] /\ p[j] \in S
        <3>1. j \in 1 .. n
            BY <1>1
        <3>2. q[j] = p[j]
            BY <1>1, <3>1
        <3>3. p[j] \in R
            <4> HIDE DEF R
            <4> QED BY <1>2, <3>1
        <3> QED BY <3>1, <3>2, <3>3
    <2>2. CASE k = n + 1
        BY <2>1, <2>2
    <2>3. CASE k # n + 1
        <3>1. k \in 1 .. n /\ q[k] = p[k]
            BY <1>1, <2>3
        <3>2. \A a, b \in 1 .. n : a < b => p[a][2] <= p[b][2]
            BY Zenon DEF Lists
        <3> QED BY <2>1, <3>1, <3>2
    <2> QED BY <2>2, <2>3
<1>6. Lists(q, S)
    <2> HIDE DEF q, n
    <2>1. q \in Surjection(1 .. n + 1, S)
        BY <1>3, <1>4, Zenon DEF Surjection
    <2> QED BY <1>1, <1>5, <2>1 DEF Lists
<1> QED BY <1>1, <1>6

\* A set of records with different ids can be listed.
LEMMA ListExists ==
    ASSUME NEW P \in SUBSET Records, Distinct(P)
    PROVE  IsFiniteSet(P) /\ \E q : Lists(q, P)
<1> DEFINE Lacks(N, S) == /\ S \in SUBSET Records /\ Distinct(S)
                          /\ \A b \in S : b[2] < N
                          /\ ~(IsFiniteSet(S) /\ \E q : Lists(q, S))
           T == {N \in Nat : \E S \in SUBSET Records : Lacks(N, S)}
<1> SUFFICES ASSUME T # {} PROVE FALSE
    <2>1. MaxMsg \in Nat /\ \A b \in P : b[2] < MaxMsg
        BY RLogAssumption DEF Records, Ids
    <2>2. MaxMsg \notin T
        OBVIOUS
    <2> QED BY <2>1, <2>2
<1>1. PICK N \in T : \A M \in T : N <= M
    <2>1. T \subseteq Nat
        OBVIOUS
    <2> HIDE DEF T
    <2> QED BY <2>1, SmallestNat
<1>2. N \in Nat /\ \E S \in SUBSET Records : Lacks(N, S)
    OBVIOUS
<1>3. PICK S \in SUBSET Records : Lacks(N, S)
    BY <1>2
<1>4. S # {}
    <2>1. IsFiniteSet({}) /\ Cardinality({}) = 0
        BY FS_EmptySet
    <2>2. Lists([k \in 1 .. 0 |-> 0], {})
        <3>1. 1 .. 0 = {}
            OBVIOUS
        <3> QED BY <2>1, <3>1 DEF Lists, Surjection
    <2> QED BY <1>3, <2>1, <2>2
<1>5. N # 0
    BY <1>3, <1>4 DEF Records, Ids
<1>6. N - 1 \in Nat /\ N - 1 \notin T
    <2>1. N - 1 \in Nat /\ ~(N <= N - 1)
        BY <1>2, <1>5
    <2> HIDE DEF T
    <2> QED BY <1>1, <2>1
<1>7. PICK m \in S : m[2] = N - 1
    <2>1. ~Lacks(N - 1, S)
        BY <1>6
    <2>2. \A b \in S : b[2] \in Nat /\ b[2] < N
        BY <1>3, RLogAssumption DEF Records, Ids
    <2>3. PICK m \in S : ~(m[2] < N - 1)
        BY <1>3, <2>1
    <2> QED BY <1>2, <2>2, <2>3
<1>8. ~Lacks(N - 1, S \ {m})
    BY <1>6
<1>9. \A b \in S : b[2] \in Nat /\ b[2] <= N - 1 /\ (b # m => b[2] < N - 1)
    <2> TAKE b \in S
    <2>1. b[2] \in Nat /\ b[2] < N
        BY <1>3, RLogAssumption DEF Records, Ids
    <2>2. b # m => b[2] # m[2]
        BY <1>3 DEF Distinct
    <2> QED BY <1>2, <1>7, <2>1, <2>2
<1>10. Distinct(S \ {m}) /\ S \ {m} \in SUBSET Records
    BY <1>3 DEF Distinct
<1>11. PICK p : IsFiniteSet(S \ {m}) /\ Lists(p, S \ {m})
    BY <1>8, <1>9, <1>10
<1>12. \A b \in S : b[2] <= m[2]
    BY <1>7, <1>9
<1> QED BY <1>3, <1>11, <1>12, ListsAppend

\* What InIdOrder returns: every record of P once, in the order of the ids.
LEMMA InIdOrderLists ==
    ASSUME NEW P \in SUBSET Records, Distinct(P)
    PROVE  LET q == InIdOrder(P)
           IN  /\ q \in Seq(P) /\ \A b \in P : \E k \in 1 .. Len(q) : q[k] = b
               /\ \A j, k \in 1 .. Len(q) : j < k => q[j][2] <= q[k][2] /\ q[j] # q[k]
<1> DEFINE q == InIdOrder(P)
           n == Cardinality(P)
<1>1. IsFiniteSet(P) /\ n \in Nat
    BY ListExists, FS_CardinalityType
<1>2. Lists(q, P)
    <2>1. PICK p : Lists(p, P)
        BY ListExists
    <2> QED BY <2>1, Zenon DEF InIdOrder, Lists
<1>3. q \in [1 .. n -> P] /\ q \in Surjection(1 .. n, P)
      /\ \A b \in P : \E k \in 1 .. n : q[k] = b
    BY <1>2, Zenon DEF Lists, Surjection
<1>4. \A j, k \in 1 .. n : j < k => q[j][2] <= q[k][2]
    BY <1>2, Zenon DEF Lists
<1>5. \A j, k \in 1 .. n : q[j] = q[k] => j = k
    <2>1. IsFiniteSet(1 .. n) /\ Cardinality(1 .. n) = n
        BY <1>1, FS_Interval
    <2>2. q \in Injection(1 .. n, P)
        <3> HIDE DEF q
        <3> QED BY <1>3, <2>1, FS_SurjSameCardinalityImpliesInj
    <2>3. DOMAIN q = 1 .. n
        BY <1>3
    <2> QED BY <2>2, <2>3, Zenon DEF Injection, IsInjective
<1>6. q \in Seq(P) /\ Len(q) = n
    <2> HIDE DEF q, n
    <2> QED BY <1>1, <1>3
<1> HIDE DEF q, n
<1>7. \A j, k \in 1 .. n : j < k => q[j] # q[k]
    BY <1>1, <1>5
<1> QED BY <1>3, <1>4, <1>6, <1>7 DEF q

-----------------------------------------------------------------------------
(* The invariant                                                           *)

\* A connection that has its tables to itself and the records it is known by.
Ordered(c) == \E n \in 0 .. MaxMsg : Sent(c, n) /\ Held(c, n) /\ Logged(c, n)

\* The inductive invariant.
IInv == /\ TypeInv /\ Tables /\ PrintedInOrder
        /\ \A c \in Conns : Current(c) /\ Alone(c) => Ordered(c)

USE DEF Conns, Local

\* The initial state satisfies the inductive invariant.
LEMMA InitIInv == Init => IInv
<1> SUFFICES ASSUME Init PROVE IInv
    OBVIOUS
<1> USE RLogAssumption DEF Init
<1>1. ident \in [Conns -> Idents]
    <2>1. (CHOOSE s \in Idents : TRUE) \in Idents
        BY Zenon
    <2> QED BY <2>1
<1>2. TypeInv
    BY <1>1 DEF TypeInv
<1>3. Tables
    BY DEF Tables
<1>4. PrintedInOrder
    BY DEF PrintedInOrder, InOrder
<1>5. \A c \in Conns : ~Current(c)
    BY DEF Current
<1> QED BY <1>2, <1>3, <1>4, <1>5 DEF IInv

\* What the types say about the records of the server.
LEMMA RecordTypes ==
    ASSUME TypeInv
    PROVE  /\ \A r \in Records : r = <<r[1], r[2]>> /\ r[1] \in Conns /\ r[2] \in Ids
           /\ \A r \in pool : r \in Records
           /\ \A s \in Idents : \A b \in buffer_[s] : b \in Records
           /\ \A k \in DOMAIN printed : k \in 1 .. Len(printed) /\ printed[k] \in Records
           /\ inits \in Nat /\ MaxMsg \in Nat /\ Ids \subseteq Nat
<1>1. \A r \in Records : r = <<r[1], r[2]>> /\ r[1] \in Conns /\ r[2] \in Ids
    BY DEF Records
<1>2. \A k \in DOMAIN printed : k \in 1 .. Len(printed) /\ printed[k] \in Records
    BY ElementOfSeq DEF TypeInv
<1> QED BY <1>1, <1>2, RLogAssumption DEF TypeInv, Ids

\* init: the tables of an ident that no connection of this run has used are new.
LEMMA InitStep == ASSUME IInv, NEW s \in Idents, init(s) PROVE IInv'
<1> USE RLogAssumption DEF init, server
<1>1. TypeInv /\ Tables /\ PrintedInOrder
    BY DEF IInv
<1>2. inits + 1 \in Conns /\ inits' = inits + 1 /\ inits \in Nat
    BY <1>1 DEF TypeInv
<1>3. TypeInv'
    <2>1. inits' \in 0 .. MaxInit /\ rp_s' \in 0 .. inits' /\ msg_counter_s' \in 0 .. MaxMsg
        BY <1>2
    <2>2. /\ ident' \in [Conns -> Idents] /\ home' \in [Conns -> 0 .. run]
          /\ status' \in [Conns -> {"up", "broken", "closed"}]
        BY <1>1 DEF TypeInv
    <2> QED BY <1>1, <2>1, <2>2 DEF TypeInv
<1>4. \A c \in Conns : c \in 1 .. inits => ident'[c] = ident[c] /\ home'[c] = home[c] /\ status'[c] = status[c]
    BY <1>1, <1>2 DEF TypeInv
<1>5. ident'[inits + 1] = s /\ home'[inits + 1] = run
    BY <1>1, <1>2 DEF TypeInv
<1>6. \A c \in Conns : Current(c) => Current(c)' /\ ident'[c] = ident[c]
    BY <1>2, <1>4 DEF Current
<1>7. \A c \in Conns : Current(c)' => Current(c) \/ c = inits + 1
    BY <1>2, <1>4 DEF Current
<1>8. \A c \in Conns : status[c] # "up"
    BY <1>1, <1>2 DEF Tables, TypeInv
<1>9. \A c \in Conns : c # inits + 1 => status'[c] = status[c]
    BY <1>1, <1>2 DEF TypeInv
<1>10. Tables'
    <2>1. \A c \in Conns : (wire[c] # <<>> \/ status[c] = "up" => Current(c))'
        BY <1>1, <1>2, <1>5, <1>6, <1>8, <1>9 DEF Tables, Current
    <2>2. \A c \in Conns : (status[c] = "up" => rp_s = c)'
        BY <1>8, <1>9
    <2>3. \A r \in pool : Current(r[1])'
        BY <1>1, <1>6, RecordTypes DEF Tables
    <2>4. \A t \in Idents : \A b \in buffer_[t] : Current(b[1])' /\ ident'[b[1]] = t
        BY <1>1, <1>6, RecordTypes DEF Tables
    <2>5. \A t \in Idents : done_[t] # 0 => \E c \in Conns : Current(c)' /\ ident'[c] = t
        BY <1>1, <1>6 DEF Tables
    <2>6. \A k \in DOMAIN printed : printed[k][1] <= inits + 1
        BY <1>1, <1>2, RecordTypes DEF Tables
    <2> QED BY <1>1, <1>2, <2>1, <2>2, <2>3, <2>4, <2>5, <2>6 DEF Tables
<1>11. \A c \in Conns : c \in 1 .. inits /\ Alone(c)' => Alone(c)
    BY <1>2, <1>4 DEF Alone
<1>12. PrintedInOrder'
    <2>1. \A k \in DOMAIN printed : printed[k][1] \in 1 .. inits
        BY <1>1, <1>2, RecordTypes DEF Tables
    <2> SUFFICES ASSUME NEW c \in Conns, Alone(c)' PROVE InOrder(c)'
        BY DEF PrintedInOrder
    <2>2. CASE c \in 1 .. inits
        <3>1. InOrder(c)
            BY <1>1, <1>11, <2>2 DEF PrintedInOrder
        <3> QED BY <3>1 DEF InOrder
    <2>3. CASE c \notin 1 .. inits
        BY <2>1, <2>3 DEF InOrder
    <2> QED BY <2>2, <2>3
<1>13. ASSUME NEW c \in Conns, Current(c)', Alone(c)' PROVE Ordered(c)'
    <2>1. CASE c = inits + 1
        <3>1. \A d \in Conns : Current(d) => ident[d] # s
            BY <1>2, <1>4, <1>5, <1>13, <2>1 DEF Alone, Current
        <3>2. done_[s] = 0 /\ buffer_[s] = {}
            <4>1. done_[s] = 0
                BY <1>1, <3>1 DEF Tables
            <4>2. \A b \in buffer_[s] : b[1] \in Conns /\ Current(b[1]) /\ ident[b[1]] = s
                BY <1>1, RecordTypes DEF Tables
            <4> QED BY <3>1, <4>1, <4>2
        <3>3. wire[c] = <<>> /\ \A i \in Ids : <<c, i>> \notin pool
            BY <1>1, <1>2, <2>1 DEF Tables, Current
        <3>4. \A k \in DOMAIN printed : printed[k][1] # c
            BY <1>1, <1>2, <2>1, RecordTypes DEF Tables
        <3>5. Sent(c, 0)'
            BY <3>3 DEF Sent
        <3>6. Held(c, 0)'
            BY <1>5, <2>1, <3>2, <3>3 DEF Held, Ids
        <3>7. Logged(c, 0)'
            BY <1>5, <2>1, <3>2, <3>4 DEF Logged
        <3> QED BY <3>5, <3>6, <3>7 DEF Ordered
    <2>2. CASE c # inits + 1
        <3>1. Current(c) /\ Alone(c) /\ ident'[c] = ident[c]
            BY <1>6, <1>7, <1>11, <1>13, <2>2 DEF Current
        <3>2. PICK n \in 0 .. MaxMsg : Sent(c, n) /\ Held(c, n) /\ Logged(c, n)
            BY <3>1 DEF IInv, Ordered
        <3>3. Sent(c, n)'
            BY <1>8, <1>9, <2>2, <3>2 DEF Sent
        <3>4. Held(c, n)' /\ Logged(c, n)'
            BY <3>1, <3>2 DEF Held, Logged
        <3> QED BY <3>3, <3>4 DEF Ordered
    <2> QED BY <2>1, <2>2
<1> QED BY <1>3, <1>10, <1>12, <1>13 DEF IInv

\* A step of the client or of the connection: the server and the identities of
\* the connections stay, no connection comes up, and what is on the wire of one
\* still follows what the server has read.
LineStep ==
    /\ TypeInv' /\ UNCHANGED <<inits, ident, home, server>>
    /\ \A c \in Conns : status'[c] = "up" => status[c] = "up" /\ rp_s' = c
    /\ \A c \in Conns : wire'[c] # <<>> => Current(c)
    /\ \A c \in Conns : \A n \in 0 .. MaxMsg : Sent(c, n) => Sent(c, n)'

\* Such a step preserves the invariant.
LEMMA LineKeeps == ASSUME IInv, LineStep PROVE IInv'
<1>1. TypeInv /\ Tables /\ PrintedInOrder
    BY DEF IInv
<1>2. UNCHANGED <<inits, ident, home, pool, buffer_, done_, printed, run>>
    BY DEF LineStep, server
<1>3. \A c : (Current(c)' <=> Current(c)) /\ (Alone(c)' <=> Alone(c))
    BY <1>2 DEF Current, Alone
<1>4. Tables'
    <2>1. \A c \in Conns : (wire[c] # <<>> \/ status[c] = "up" => Current(c))'
        BY <1>1, <1>3 DEF LineStep, Tables
    <2>2. \A c \in Conns : (status[c] = "up" => rp_s = c)'
        BY DEF LineStep
    <2> QED BY <1>1, <1>2, <1>3, <2>1, <2>2 DEF Tables
<1>5. PrintedInOrder'
    <2>1. \A c \in Conns : InOrder(c) => InOrder(c)'
        BY <1>2 DEF InOrder
    <2> QED BY <1>1, <1>3, <2>1 DEF PrintedInOrder
<1>6. ASSUME NEW c \in Conns, Current(c)', Alone(c)' PROVE Ordered(c)'
    <2>1. PICK n \in 0 .. MaxMsg : Sent(c, n) /\ Held(c, n) /\ Logged(c, n)
        BY <1>3, <1>6 DEF IInv, Ordered
    <2>2. Sent(c, n)'
        BY <2>1 DEF LineStep
    <2>3. Held(c, n)' /\ Logged(c, n)'
        BY <1>2, <2>1 DEF Held, Logged
    <2> QED BY <2>2, <2>3 DEF Ordered
<1> QED BY <1>4, <1>5, <1>6 DEF IInv, LineStep

\* What a lost suffix leaves on the wire.
LEMMA Lost ==
    ASSUME TypeInv, NEW c \in Conns, LoseSuffix(c)
    PROVE  /\ wire' \in [Conns -> Seq(Ids)]
           /\ \A d \in Conns : d # c => wire'[d] = wire[d]
           /\ \A d \in Conns : \A k \in DOMAIN wire'[d] : k \in DOMAIN wire[d] /\ wire'[d][k] = wire[d][k]
           /\ \A d \in Conns : wire'[d] # <<>> => wire[d] # <<>>
<1>1. PICK n \in 0 .. Len(wire[c]) : wire' = [wire EXCEPT ![c] = SubSeq(@, 1, n)]
    BY DEF LoseSuffix
<1>2. wire \in [Conns -> Seq(Ids)] /\ wire[c] \in Seq(Ids)
    BY DEF TypeInv
<1>3. wire'[c] = SubSeq(wire[c], 1, n) /\ \A d \in Conns : d # c => wire'[d] = wire[d]
    BY <1>1, <1>2
<1>4. /\ SubSeq(wire[c], 1, n) \in Seq(Ids) /\ Len(SubSeq(wire[c], 1, n)) = n
      /\ \A k \in 1 .. n : SubSeq(wire[c], 1, n)[k] = wire[c][k]
    BY <1>2
<1>5. \A k \in DOMAIN wire'[c] : k \in DOMAIN wire[c] /\ wire'[c][k] = wire[c][k]
    <2>1. DOMAIN wire'[c] = 1 .. n /\ DOMAIN wire[c] = 1 .. Len(wire[c])
        BY <1>2, <1>3, <1>4
    <2> QED BY <1>2, <1>3, <1>4, <2>1
<1>6. wire' \in [Conns -> Seq(Ids)]
    BY <1>1, <1>2, <1>4
<1>7. wire'[c] # <<>> => wire[c] # <<>>
    BY <1>2, <1>3, <1>4
<1> QED BY <1>3, <1>5, <1>6, <1>7

\* finalize and FallBack: the connection is closed and given up.
LEMMA CloseStep == ASSUME IInv, finalize \/ FallBack PROVE IInv'
<1>1. TypeInv /\ Tables
    BY DEF IInv
<1>2. /\ rp_s \in Conns /\ rp_s' = Local /\ LoseSuffix(rp_s)
      /\ status' = [status EXCEPT ![rp_s] = "closed"]
      /\ UNCHANGED <<msg_counter_s, inits, ident, home, server>>
    <2>1. rp_s # Local => rp_s \in Conns
        BY <1>1, RLogAssumption DEF TypeInv
    <2>2. CASE finalize
        BY <2>1, <2>2 DEF finalize, do_finalize
    <2>3. CASE FallBack
        BY <2>1, <2>3 DEF FallBack, do_finalize
    <2> QED BY <2>2, <2>3
<1>3. TypeInv'
    BY <1>1, <1>2, Lost DEF TypeInv, server
<1>4. \A c \in Conns : status'[c] # "up"
    BY <1>1, <1>2 DEF TypeInv, Tables
<1>5. \A c \in Conns : wire'[c] # <<>> => Current(c)
    BY <1>1, <1>2, Lost DEF Tables
<1>6. \A c \in Conns : \A n \in 0 .. MaxMsg : Sent(c, n) => Sent(c, n)'
    BY <1>1, <1>2, <1>4, Lost DEF Sent
<1> QED BY <1>2, <1>3, <1>4, <1>5, <1>6, LineKeeps DEF LineStep

\* A broken connection loses a suffix of what was sent, and gets nothing more.
LEMMA BreakStep == ASSUME IInv, NEW b \in Conns, Break(b) PROVE IInv'
<1>1. TypeInv /\ Tables
    BY DEF IInv
<1>2. /\ LoseSuffix(b) /\ status' = [status EXCEPT ![b] = "broken"]
      /\ UNCHANGED <<rp_s, msg_counter_s, inits, ident, home, server>>
    BY DEF Break, client
<1>3. TypeInv'
    BY <1>1, <1>2, Lost DEF TypeInv, server
<1>4. \A c \in Conns : status'[c] = "up" => c # b /\ status[c] = "up" /\ rp_s' = c
    BY <1>1, <1>2 DEF TypeInv, Tables
<1>5. \A c \in Conns : wire'[c] # <<>> => Current(c)
    BY <1>1, <1>2, Lost DEF Tables
<1>6. \A c \in Conns : \A n \in 0 .. MaxMsg : Sent(c, n) => Sent(c, n)'
    BY <1>1, <1>2, <1>4, Lost DEF Sent
<1> QED BY <1>2, <1>3, <1>4, <1>5, <1>6, LineKeeps DEF LineStep

\* The poll thread notices.
LEMMA NoticeStep == ASSUME IInv, NEW b \in Conns, Notice(b) PROVE IInv'
<1>1. TypeInv /\ Tables
    BY DEF IInv
<1>2. /\ status' = [status EXCEPT ![b] = "closed"]
      /\ UNCHANGED <<rp_s, msg_counter_s, inits, ident, home, wire, server>>
    BY DEF Notice, client
<1>3. TypeInv'
    BY <1>1, <1>2 DEF TypeInv, server
<1>4. \A c \in Conns : status'[c] = "up" => c # b /\ status[c] = "up" /\ rp_s' = c
    BY <1>1, <1>2 DEF TypeInv, Tables
<1>5. \A c \in Conns : wire'[c] # <<>> => Current(c)
    BY <1>1, <1>2 DEF Tables
<1>6. \A c \in Conns : \A n \in 0 .. MaxMsg : Sent(c, n) => Sent(c, n)'
    BY <1>2, <1>4 DEF Sent
<1> QED BY <1>2, <1>3, <1>4, <1>5, <1>6, LineKeeps DEF LineStep

\* log_v: the record follows on the wire, or is lost on a broken connection.
LEMMA LogStep == ASSUME IInv, log_v PROVE IInv'
<1>1. TypeInv /\ Tables
    BY DEF IInv
<1> DEFINE b == rp_s
<1>2. /\ b \in Conns /\ msg_counter_s \in Ids /\ msg_counter_s' = msg_counter_s + 1
      /\ UNCHANGED <<rp_s, inits, ident, home, status, server>>
    BY <1>1, RLogAssumption DEF log_v, TypeInv, Ids
<1>3. wire \in [Conns -> Seq(Ids)] /\ wire[b] \in Seq(Ids)
    BY <1>1, <1>2 DEF TypeInv
<1>4. \A c \in Conns : status[c] = "up" => c = b /\ status[b] = "up"
    BY <1>1 DEF Tables
<1>5. CASE status[b] = "up"
    <2>1. wire' = [wire EXCEPT ![b] = Append(@, msg_counter_s)]
        BY <1>5 DEF log_v
    <2>2. wire'[b] = Append(wire[b], msg_counter_s) /\ \A c \in Conns : c # b => wire'[c] = wire[c]
        BY <1>2, <1>3, <2>1
    <2>3. TypeInv'
        <3>1. wire' \in [Conns -> Seq(Ids)]
            BY <1>2, <1>3, <2>1
        <3>2. msg_counter_s' \in 0 .. MaxMsg
            BY <1>2, RLogAssumption DEF Ids
        <3> QED BY <1>1, <1>2, <3>1, <3>2 DEF TypeInv, server
    <2>4. \A c \in Conns : wire'[c] # <<>> => Current(c)
        BY <1>1, <1>2, <1>5, <2>2 DEF Tables
    <2>5. ASSUME NEW c \in Conns, NEW n \in 0 .. MaxMsg, Sent(c, n) PROVE Sent(c, n)'
        <3>1. CASE c # b
            BY <1>2, <1>4, <2>2, <2>5, <3>1 DEF Sent
        <3>2. CASE c = b
            <4>1. /\ \A k \in DOMAIN wire[b] : wire[b][k] = n + k - 1
                  /\ msg_counter_s = n + Len(wire[b])
                BY <1>5, <2>5, <3>2 DEF Sent
            <4>2. /\ Len(wire'[b]) = Len(wire[b]) + 1 /\ Len(wire[b]) \in Nat
                  /\ DOMAIN wire'[b] = 1 .. Len(wire[b]) + 1 /\ DOMAIN wire[b] = 1 .. Len(wire[b])
                  /\ \A k \in 1 .. Len(wire[b]) : wire'[b][k] = wire[b][k]
                  /\ wire'[b][Len(wire[b]) + 1] = msg_counter_s
                BY <1>2, <1>3, <2>2
            <4>3. \A k \in DOMAIN wire'[b] : wire'[b][k] = n + k - 1
                <5> SUFFICES ASSUME NEW k \in 1 .. Len(wire[b]) + 1 PROVE wire'[b][k] = n + k - 1
                    BY <4>2
                <5>1. CASE k = Len(wire[b]) + 1
                    BY <4>1, <4>2, <5>1
                <5>2. CASE k # Len(wire[b]) + 1
                    <6>1. k \in 1 .. Len(wire[b])
                        BY <4>2, <5>2
                    <6> QED BY <4>1, <4>2, <6>1
                <5> QED BY <5>1, <5>2
            <4>4. msg_counter_s' = n + Len(wire'[b])
                BY <1>2, <4>1, <4>2, RLogAssumption DEF Ids
            <4> QED BY <3>2, <4>3, <4>4 DEF Sent
        <3> QED BY <3>1, <3>2
    <2> QED BY <1>2, <1>4, <2>3, <2>4, <2>5, LineKeeps DEF LineStep
<1>6. CASE status[b] # "up"
    <2>1. wire' = wire
        BY <1>6 DEF log_v
    <2>2. TypeInv'
        BY <1>1, <1>2, <2>1, RLogAssumption DEF TypeInv, server, Ids
    <2>3. \A c \in Conns : \A n \in 0 .. MaxMsg : Sent(c, n) => Sent(c, n)'
        BY <1>2, <1>4, <1>6, <2>1 DEF Sent
    <2>4. \A c \in Conns : wire'[c] # <<>> => Current(c)
        BY <1>1, <2>1 DEF Tables
    <2> QED BY <1>2, <1>4, <2>2, <2>3, <2>4, LineKeeps DEF LineStep
<1> QED BY <1>5, <1>6

\* The server reads one more record.
LEMMA ReadStep == ASSUME IInv, NEW b \in Conns, __log__wrapper__(b) PROVE IInv'
<1>1. TypeInv /\ Tables /\ PrintedInOrder
    BY DEF IInv
<1> DEFINE w == wire[b]
           r == <<b, Head(w)>>
<1>2. /\ w # <<>> /\ pool' = pool \cup {r} /\ wire' = [wire EXCEPT ![b] = Tail(@)]
      /\ UNCHANGED <<rp_s, msg_counter_s, inits, ident, home, status, buffer_, done_, printed, run>>
    BY DEF __log__wrapper__, client
<1>3. wire \in [Conns -> Seq(Ids)] /\ w \in Seq(Ids)
    BY <1>1 DEF TypeInv
<1>4. /\ wire'[b] = Tail(w) /\ Head(w) \in Ids /\ Head(w) = w[1] /\ Len(w) \in Nat /\ Len(w) >= 1
      /\ DOMAIN w = 1 .. Len(w) /\ Tail(w) \in Seq(Ids) /\ Len(Tail(w)) = Len(w) - 1
      /\ \A k \in 1 .. Len(w) - 1 : Tail(w)[k] = w[k + 1]
    BY <1>2, <1>3
<1>5. \A c \in Conns : c # b => wire'[c] = wire[c]
    BY <1>2, <1>3
<1>6. \A c : (Current(c)' <=> Current(c)) /\ (Alone(c)' <=> Alone(c))
    BY <1>2 DEF Current, Alone
<1>7. Current(b)
    BY <1>1, <1>2 DEF Tables
<1> HIDE DEF w
<1>8. TypeInv'
    <2>1. wire' \in [Conns -> Seq(Ids)]
        BY <1>2, <1>3, <1>4
    <2>2. pool' \subseteq Records
        BY <1>1, <1>2, <1>4 DEF TypeInv, Records
    <2> QED BY <1>1, <1>2, <2>1, <2>2 DEF TypeInv
<1>9. Tables'
    <2>1. \A c \in Conns : (wire[c] # <<>> \/ status[c] = "up" => Current(c))'
        BY <1>1, <1>2, <1>5, <1>6, <1>7 DEF Tables
    <2>2. \A p \in pool' : Current(p[1])'
        BY <1>1, <1>2, <1>6, <1>7 DEF Tables
    <2> QED BY <1>1, <1>2, <1>6, <2>1, <2>2 DEF Tables
<1>10. PrintedInOrder'
    <2>1. \A c \in Conns : InOrder(c) => InOrder(c)'
        BY <1>2 DEF InOrder
    <2> QED BY <1>1, <1>6, <2>1 DEF PrintedInOrder
<1>11. ASSUME NEW c \in Conns, Current(c)', Alone(c)' PROVE Ordered(c)'
    <2>1. PICK n \in 0 .. MaxMsg : Sent(c, n) /\ Held(c, n) /\ Logged(c, n)
        BY <1>6, <1>11 DEF IInv, Ordered
    <2>2. CASE c # b
        <3>1. \A i : <<c, i>> \in pool' <=> <<c, i>> \in pool
            BY <1>2, <2>2
        <3>2. \A a \in buffer_[ident[c]] : a[1] # b /\ a \in Records
            <4>1. ident[c] \in Idents /\ Current(c) /\ Alone(c)
                BY <1>1, <1>6, <1>11 DEF TypeInv
            <4>2. ident[b] # ident[c]
                BY <1>7, <2>2, <4>1 DEF Alone, Current
            <4>3. \A a \in buffer_[ident[c]] : ident[a[1]] = ident[c] /\ a \in Records
                BY <1>1, <4>1, RecordTypes DEF Tables
            <4> QED BY <4>2, <4>3
        <3>3. Sent(c, n)'
            BY <1>2, <1>5, <2>1, <2>2 DEF Sent
        <3>4. Held(c, n)'
            BY <1>2, <2>1, <3>1, <3>2 DEF Held
        <3>5. Logged(c, n)'
            BY <1>2, <2>1, <3>1 DEF Logged
        <3> QED BY <3>3, <3>4, <3>5 DEF Ordered
    <2>3. CASE c = b
        <3>1. Head(w) = n /\ n \in Ids /\ n + 1 \in 0 .. MaxMsg /\ n \in Nat
            BY <1>4, <2>1, <2>3, RLogAssumption DEF Sent, Ids, w
        <3>2. \A i : <<c, i>> \in pool' <=> <<c, i>> \in pool \/ i = n
            BY <1>2, <2>3, <3>1
        <3>3. Sent(c, n + 1)'
            <4>1. \A k \in DOMAIN Tail(w) : Tail(w)[k] = n + 1 + k - 1
                <5> SUFFICES ASSUME NEW k \in 1 .. Len(w) - 1 PROVE Tail(w)[k] = n + 1 + k - 1
                    BY <1>4
                <5>1. k + 1 \in DOMAIN w /\ Tail(w)[k] = w[k + 1]
                    BY <1>4
                <5>2. w[k + 1] = n + (k + 1) - 1
                    BY <2>1, <2>3, <5>1 DEF Sent, w
                <5> QED BY <3>1, <5>1, <5>2
            <4>2. status[b] = "up" => msg_counter_s = n + 1 + Len(Tail(w))
                <5>1. status[b] = "up" => msg_counter_s = n + Len(w)
                    BY <2>1, <2>3 DEF Sent, w
                <5> QED BY <1>4, <3>1, <5>1
            <4> QED BY <1>2, <1>4, <2>3, <4>1, <4>2 DEF Sent
        <3>4. Held(c, n + 1)'
            <4> DEFINE s == ident[c]
            <4>1. s \in Idents /\ done_[s] \in Nat /\ \A a \in buffer_[s] : a = <<a[1], a[2]>> /\ a[2] \in Nat
                <5>1. s \in Idents /\ done_[s] \in Nat
                    BY <1>1, RLogAssumption DEF TypeInv
                <5>2. \A a \in buffer_[s] : a \in Records
                    BY <1>1, <5>1, RecordTypes
                <5> HIDE DEF s
                <5> QED BY <1>1, <5>1, <5>2, RecordTypes
            <4>2. done_[s] < n + 1 \/ done_[s] = 0
                BY <2>1, <3>1, <4>1 DEF Held
            <4>3. \A i \in Ids : <<c, i>> \in pool' => i < n + 1 /\ (i = 0 \/ i > done_[s])
                BY <2>1, <3>1, <3>2, <4>1, RecordTypes, <1>1 DEF Held
            <4>4. \A a \in buffer_[s] : a[2] < n + 1 /\ a[2] > done_[s] + 1 /\ a \notin pool'
                BY <1>2, <2>1, <2>3, <3>1, <4>1 DEF Held
            <4>5. \A i \in Ids : done_[s] < i /\ i < n + 1 => <<c, i>> \in pool' \cup buffer_[s]
                BY <2>1, <3>1, <3>2, <4>1, RecordTypes, <1>1 DEF Held
            <4> QED BY <1>2, <4>2, <4>3, <4>4, <4>5 DEF Held
        <3>5. Logged(c, n + 1)'
            <4>1. \A k \in DOMAIN printed : printed[k][2] \in Nat
                BY <1>1, RecordTypes
            <4>2. \A k \in DOMAIN printed : printed[k][1] = c =>
                     printed[k][2] < n + 1 /\ printed[k][2] <= done_[ident[c]]
                     /\ (printed[k][2] = 0 => <<c, 0>> \notin pool')
                BY <2>1, <3>1, <3>2, <4>1 DEF Logged
            <4> QED BY <1>2, <2>1, <4>2 DEF Logged
        <3> QED BY <3>1, <3>3, <3>4, <3>5 DEF Ordered
    <2> QED BY <2>2, <2>3
<1> QED BY <1>8, <1>9, <1>10, <1>11 DEF IInv

\* A restart leaves no connection to this run of the server and empty tables.
LEMMA RestartStep == ASSUME IInv, Restart PROVE IInv'
<1>1. TypeInv /\ Tables /\ PrintedInOrder
    BY DEF IInv
<1>2. UNCHANGED <<rp_s, msg_counter_s, inits, ident, home, printed>> /\ run' = run + 1 /\ pool' = {}
    BY DEF Restart, client
<1>3. \A c \in Conns : wire'[c] = <<>> /\ status'[c] # "up"
    BY DEF Restart
<1>4. TypeInv'
    BY <1>1, RLogAssumption DEF Restart, TypeInv, client
<1>5. \A c \in Conns : ~Current(c)'
    <2>1. \A c \in Conns : home[c] # run + 1
        <3>1. run \in Nat /\ \A c \in Conns : home[c] \in 0 .. run
            BY <1>1 DEF TypeInv
        <3> QED BY <3>1
    <2> QED BY <1>2, <2>1 DEF Current
<1>6. Tables'
    BY <1>1, <1>2, <1>3 DEF Restart, Tables
<1>7. PrintedInOrder'
    <2>1. \A c \in Conns : (InOrder(c) => InOrder(c)') /\ (Alone(c)' => Alone(c))
        BY <1>2 DEF InOrder, Alone
    <2> QED BY <1>1, <2>1 DEF PrintedInOrder
<1> QED BY <1>4, <1>5, <1>6, <1>7 DEF IInv

-----------------------------------------------------------------------------
(* RLogServiceImpl::log                                                    *)

\* A set of ids has a greatest one.
LEMMA MaxOf ==
    ASSUME NEW T \in SUBSET (0 .. MaxMsg), T # {}
    PROVE  Max(T) \in T /\ \A x \in T : x <= Max(T)
<1> DEFINE U == {MaxMsg - x : x \in T}
<1>1. MaxMsg \in Nat /\ \A x \in T : x \in Nat /\ x <= MaxMsg
    BY RLogAssumption
<1>2. U \subseteq Nat /\ U # {}
    <2>1. \A x \in T : MaxMsg - x \in Nat
        BY <1>1
    <2> QED BY <2>1
<1>3. PICK u \in U : \A y \in U : u <= y
    <2> HIDE DEF U
    <2> QED BY <1>2, SmallestNat
<1>4. PICK m \in T : u = MaxMsg - m
    OBVIOUS
<1>5. \A x \in T : m >= x
    <2> TAKE x \in T
    <2>1. MaxMsg - m <= MaxMsg - x
        BY <1>3, <1>4
    <2> QED BY <1>1, <2>1
<1>6. Max(T) \in T /\ \A x \in T : Max(T) >= x
    BY <1>5, Zenon DEF Max
<1> QED BY <1>1, <1>6

\* The buffer with the new record: all of one ident, no id twice.
LEMMA InsertFacts ==
    ASSUME IInv, NEW r \in pool
    PROVE  LET s == ident[r[1]]
               B == Insert(s, r)
           IN  /\ r \in Records /\ s \in Idents /\ Current(r[1]) /\ done_[s] \in 0 .. MaxMsg
               /\ B \in SUBSET Records /\ Distinct(B)
               /\ \A b \in B : Current(b[1]) /\ ident[b[1]] = s
               /\ B = buffer_[s] \/ B = buffer_[s] \cup {r}
               /\ buffer_[s] \subseteq B /\ \E b \in B : b[2] = r[2]
<1> DEFINE s == ident[r[1]]
           B == Insert(s, r)
<1>1. TypeInv /\ Tables
    BY DEF IInv
<1>2. r \in Records /\ s \in Idents /\ Current(r[1]) /\ done_[s] \in 0 .. MaxMsg
    <2>1. r \in Records /\ r[1] \in Conns /\ Current(r[1])
        BY <1>1, RecordTypes DEF Tables
    <2> QED BY <1>1, <2>1 DEF TypeInv
<1>3. /\ buffer_[s] \in SUBSET Records /\ Distinct(buffer_[s])
      /\ \A b \in buffer_[s] : Current(b[1]) /\ ident[b[1]] = s
    BY <1>1, <1>2 DEF Tables, Distinct, TypeInv
<1> HIDE DEF s
<1>4. CASE \E b \in buffer_[s] : b[2] = r[2]
    <2>1. B = buffer_[s]
        BY <1>4 DEF Insert
    <2> HIDE DEF B
    <2> QED BY <1>2, <1>3, <1>4, <2>1 DEF B, s
<1>5. CASE ~\E b \in buffer_[s] : b[2] = r[2]
    <2>1. B = buffer_[s] \cup {r}
        BY <1>5 DEF Insert
    <2> HIDE DEF B
    <2>2. Distinct(B)
        BY <1>3, <1>5, <2>1 DEF Distinct
    <2>3. \A b \in B : Current(b[1]) /\ ident[b[1]] = s
        BY <1>2, <1>3, <2>1 DEF s
    <2>4. B \in SUBSET Records /\ buffer_[s] \subseteq B /\ \E b \in B : b[2] = r[2]
        BY <1>2, <1>3, <2>1
    <2> QED BY <1>2, <2>1, <2>2, <2>3, <2>4 DEF B, s
<1> QED BY <1>4, <1>5

\* What log(r) does, in terms of the set P of the records it prints and the new
\* value m of done_: P closes the gap from done_ up to m, and stops at a gap.
LogFacts(r, s, B, P, q, m) ==
    /\ q = InIdOrder(P) /\ q \in Seq(P) /\ P \subseteq B
    /\ \A b \in P : \E k \in 1 .. Len(q) : q[k] = b
    /\ \A j, k \in 1 .. Len(q) : j < k => q[j][2] <= q[k][2] /\ q[j] # q[k]
    /\ m \in 0 .. MaxMsg /\ m >= done_[s] /\ \A b \in P : b[2] <= m
    /\ \A i \in (done_[s] + 1) .. m : \E a \in P : a[2] = i
    /\ \A b \in P : \A i \in (done_[s] + 1) .. (b[2] - 1) : \E a \in P : a[2] = i
    /\ \A b \in B \ P : b[2] > m + 1
    /\ pool' = pool \ {r} /\ printed' = printed \o q
    /\ done_' = [done_ EXCEPT ![s] = m] /\ buffer_' = [buffer_ EXCEPT ![s] = B \ P]
    /\ UNCHANGED <<rp_s, msg_counter_s, inits, ident, home, status, wire, run>>

\* log(r) does so.
LEMMA LogDoes ==
    ASSUME IInv, NEW r \in pool, log(r)
    PROVE  LET s == ident[r[1]]
               B == Insert(s, r)
               P == Printable(s, B)
           IN  \E m : LogFacts(r, s, B, P, InIdOrder(P), m)
<1> DEFINE s == ident[r[1]]
           B == Insert(s, r)
           P == Printable(s, B)
           q == InIdOrder(P)
           d == done_[s]
           T == {d} \cup {b[2] : b \in P}
           m == Max(T)
<1>1. /\ r \in Records /\ s \in Idents /\ d \in 0 .. MaxMsg /\ B \in SUBSET Records /\ Distinct(B)
    BY InsertFacts
<1>2. /\ pool' = pool \ {r} /\ printed' = printed \o q
      /\ done_' = [done_ EXCEPT ![s] = Max({@} \cup {b[2] : b \in P})]
      /\ buffer_' = [buffer_ EXCEPT ![s] = B \ P]
      /\ UNCHANGED <<rp_s, msg_counter_s, inits, ident, home, status, wire, run>>
    BY DEF log, client
<1>3. done_' = [done_ EXCEPT ![s] = m]
    BY <1>2, Zenon
<1> HIDE DEF s, B
<1>4. P \subseteq B /\ P = {b \in B : \A i \in (d + 1) .. (b[2] - 1) : \E a \in B : a[2] = i}
    BY DEF Printable
<1>5. \A b \in B : b[2] \in Nat /\ b[2] \in 0 .. MaxMsg
    BY <1>1, RLogAssumption DEF Records, Ids
<1>6. d \in Nat
    BY <1>1, RLogAssumption
<1> HIDE DEF P
<1>7. Distinct(P) /\ P \in SUBSET Records
    BY <1>1, <1>4 DEF Distinct
<1>8. /\ q \in Seq(P) /\ \A b \in P : \E k \in 1 .. Len(q) : q[k] = b
      /\ \A j, k \in 1 .. Len(q) : j < k => q[j][2] <= q[k][2] /\ q[j] # q[k]
    BY <1>7, InIdOrderLists
<1>9. m \in T /\ \A x \in T : x <= m
    <2>1. T \in SUBSET (0 .. MaxMsg) /\ T # {}
        BY <1>1, <1>4, <1>5
    <2> HIDE DEF T
    <2> QED BY <2>1, MaxOf
<1>10. m \in 0 .. MaxMsg /\ m >= d /\ \A b \in P : b[2] <= m
    BY <1>1, <1>4, <1>5, <1>6, <1>9
<1> HIDE DEF m, q, d
<1>11. \A b \in P : \A i \in (d + 1) .. (b[2] - 1) : \E a \in P : a[2] = i
    <2> SUFFICES ASSUME NEW b \in P, NEW i \in (d + 1) .. (b[2] - 1) PROVE \E a \in P : a[2] = i
        OBVIOUS
    <2>1. PICK a \in B : a[2] = i
        BY <1>4
    <2>2. b \in B /\ \A j \in (d + 1) .. (a[2] - 1) : j \in (d + 1) .. (b[2] - 1)
        BY <1>4, <1>5, <1>6, <2>1
    <2>3. a \in P
        BY <1>4, <2>1, <2>2
    <2> QED BY <2>1, <2>3
<1>12. m = d \/ \E b \in P : b[2] = m
    BY <1>9
<1>13. \A i \in (d + 1) .. m : \E a \in P : a[2] = i
    <2> TAKE i \in (d + 1) .. m
    <2>1. PICK b \in P : b[2] = m
        BY <1>6, <1>12
    <2>2. CASE i = m
        BY <2>1, <2>2
    <2>3. CASE i # m
        <3>1. i \in (d + 1) .. (b[2] - 1)
            BY <1>4, <1>5, <1>6, <2>1, <2>3
        <3> QED BY <1>11, <3>1
    <2> QED BY <2>2, <2>3
<1>14. \A b \in B \ P : b[2] > m + 1
    <2> TAKE b \in B \ P
    <2>1. PICK i \in (d + 1) .. (b[2] - 1) : \A a \in B : a[2] # i
        BY <1>4
    <2>2. ~(i \in (d + 1) .. m)
        BY <1>4, <1>13, <2>1
    <2> QED BY <1>5, <1>6, <1>10, <2>1, <2>2, RLogAssumption
<1>15. LogFacts(r, s, B, P, q, m)
    BY <1>2, <1>3, <1>4, <1>8, <1>10, <1>11, <1>13, <1>14 DEF LogFacts, q, d
<1> QED BY <1>15 DEF s, B, P, q

\* The records that log(r) prints come after those printed before.
LEMMA Concatenated ==
    ASSUME NEW p \in Seq(Records), NEW q \in Seq(Records)
    PROVE  /\ p \o q \in Seq(Records) /\ DOMAIN p = 1 .. Len(p) /\ DOMAIN q = 1 .. Len(q)
           /\ DOMAIN (p \o q) = 1 .. Len(p) + Len(q) /\ Len(p) \in Nat /\ Len(q) \in Nat
           /\ \A k \in 1 .. Len(p) : (p \o q)[k] = p[k]
           /\ \A k \in 1 .. Len(q) : Len(p) + k \in DOMAIN (p \o q) /\ (p \o q)[Len(p) + k] = q[k]
           /\ \A k \in DOMAIN (p \o q) : k \in 1 .. Len(p) \/ \E j \in 1 .. Len(q) : k = Len(p) + j
<1>1. /\ p \o q \in Seq(Records) /\ DOMAIN p = 1 .. Len(p) /\ DOMAIN q = 1 .. Len(q)
      /\ DOMAIN (p \o q) = 1 .. Len(p) + Len(q) /\ Len(p) \in Nat /\ Len(q) \in Nat
    OBVIOUS
<1>2. \A k \in 1 .. Len(p) : (p \o q)[k] = p[k]
    BY <1>1
<1>3. \A k \in 1 .. Len(q) : Len(p) + k \in DOMAIN (p \o q) /\ (p \o q)[Len(p) + k] = q[k]
    BY <1>1
<1>4. ASSUME NEW k \in 1 .. Len(p) + Len(q), k \notin 1 .. Len(p)
      PROVE  \E j \in 1 .. Len(q) : k = Len(p) + j
    <2>1. k - Len(p) \in 1 .. Len(q) /\ k = Len(p) + (k - Len(p))
        BY <1>1, <1>4
    <2> QED BY <2>1
<1> QED BY <1>1, <1>2, <1>3, <1>4

\* log(r) for the connection of r, if it has its tables to itself.
LEMMA PrintOrdered ==
    ASSUME IInv, NEW r \in pool, NEW B, NEW P, NEW q, NEW m,
           B = Insert(ident[r[1]], r), LogFacts(r, ident[r[1]], B, P, q, m),
           Alone(r[1])
    PROVE  InOrder(r[1])' /\ Ordered(r[1])'
<1> DEFINE c == r[1]
           s == ident[c]
           d == done_[s]
<1>1. TypeInv /\ Tables /\ PrintedInOrder
    BY DEF IInv
<1>2. /\ r \in Records /\ s \in Idents /\ Current(c) /\ d \in 0 .. MaxMsg
      /\ B \in SUBSET Records /\ \A b \in B : Current(b[1]) /\ ident[b[1]] = s
      /\ B = buffer_[s] \/ B = buffer_[s] \cup {r}
      /\ buffer_[s] \subseteq B /\ \E b \in B : b[2] = r[2]
    BY InsertFacts
<1>3. c \in Conns /\ r = <<c, r[2]>> /\ r[2] \in Ids
    BY <1>1, <1>2, RecordTypes
<1> HIDE DEF c, s, d
<1>4. \A b \in B : b[1] = c /\ b = <<c, b[2]>> /\ b[2] \in Nat /\ b[2] \in Ids
    <2>1. \A b \in B : b = <<b[1], b[2]>> /\ b[1] \in Conns /\ b[2] \in Ids
        BY <1>1, <1>2, RecordTypes
    <2>2. \A b \in B : b[1] = c
        BY <1>2 DEF Alone, Current, c, s
    <2> QED BY <2>1, <2>2, RLogAssumption DEF Ids
<1>5. PICK n \in 0 .. MaxMsg : Sent(c, n) /\ Held(c, n) /\ Logged(c, n)
    BY <1>2, <1>3 DEF IInv, Ordered, c
<1>6. /\ d < n \/ d = 0
      /\ \A i \in Ids : <<c, i>> \in pool => i < n /\ (i = 0 \/ i > d)
      /\ \A b \in buffer_[s] : b[2] < n /\ b[2] > d + 1 /\ b \notin pool
      /\ \A i \in Ids : d < i /\ i < n => <<c, i>> \in pool \cup buffer_[s]
    BY <1>5 DEF Held, d, s
<1>7. /\ \A k \in DOMAIN printed : printed[k][1] = c =>
             printed[k][2] < n /\ printed[k][2] <= d /\ (printed[k][2] = 0 => <<c, 0>> \notin pool)
      /\ \A i \in 1 .. d : \E k \in DOMAIN printed : printed[k] = <<c, i>>
    BY <1>5 DEF Logged, d, s
<1>8. /\ q \in Seq(P) /\ P \subseteq B /\ \A b \in P : \E k \in 1 .. Len(q) : q[k] = b
      /\ \A j, k \in 1 .. Len(q) : j < k => q[j][2] <= q[k][2] /\ q[j] # q[k]
    BY Zenon DEF LogFacts
<1>9. /\ m \in 0 .. MaxMsg /\ m >= d /\ \A b \in P : b[2] <= m
      /\ \A i \in (d + 1) .. m : \E a \in P : a[2] = i
      /\ \A b \in P : \A i \in (d + 1) .. (b[2] - 1) : \E a \in P : a[2] = i
      /\ \A b \in B \ P : b[2] > m + 1
    BY DEF LogFacts, d, s, c
<1>10. /\ pool' = pool \ {r} /\ printed' = printed \o q
       /\ done_'[s] = m /\ buffer_'[s] = B \ P
       /\ UNCHANGED <<rp_s, msg_counter_s, inits, ident, home, status, wire, run>>
    BY <1>1, <1>2 DEF LogFacts, TypeInv, s, c
<1>11. n \in Nat /\ d \in Nat /\ m \in Nat /\ MaxMsg \in Nat /\ Ids \subseteq Nat
    BY <1>2, <1>5, <1>9, RLogAssumption DEF Ids
<1>12. printed \in Seq(Records) /\ q \in Seq(Records) /\ \A k \in 1 .. Len(q) : q[k] \in P
    <2>1. P \subseteq Records
        BY <1>2, <1>8
    <2> QED BY <1>1, <1>8, <2>1 DEF TypeInv
<1> DEFINE L == Len(printed)
<1>13. /\ DOMAIN printed = 1 .. L /\ L \in Nat /\ Len(q) \in Nat
       /\ DOMAIN printed' = 1 .. L + Len(q)
       /\ \A k \in 1 .. L : k \in DOMAIN printed' /\ printed'[k] = printed[k]
       /\ \A k \in 1 .. Len(q) : L + k \in DOMAIN printed' /\ printed'[L + k] = q[k]
       /\ \A k \in DOMAIN printed' : k \in 1 .. L \/ \E j \in 1 .. Len(q) : k = L + j
    BY <1>10, <1>12, Concatenated
<1> HIDE DEF L
\* What is printed is new: above done_, or the first record, from the pool.
<1>14. \A b \in P : b[2] < n /\ (b[2] > d \/ (b[2] = 0 /\ b = r))
    <2> TAKE b \in P
    <2>1. b \in B /\ b[2] \in Nat
        BY <1>4, <1>8
    <2>2. CASE b = r
        <3>1. <<c, r[2]>> \in pool
            BY <1>3
        <3> QED BY <1>3, <1>6, <1>11, <2>2, <3>1
    <2>3. CASE b \in buffer_[s]
        BY <1>6, <1>11, <2>1, <2>3
    <2> QED BY <1>2, <2>1, <2>2, <2>3
<1>15. \A k \in 1 .. L : \A b \in P : printed[k] # b
    <2> SUFFICES ASSUME NEW k \in 1 .. L, NEW b \in P, printed[k] = b PROVE FALSE
        OBVIOUS
    <2>1. printed[k][1] = c /\ b[2] <= d /\ (b[2] = 0 => <<c, 0>> \notin pool)
        BY <1>4, <1>7, <1>8, <1>13
    <2>2. b[2] \in Nat /\ b = <<c, b[2]>>
        BY <1>4, <1>8
    <2> QED BY <1>11, <1>14, <2>1, <2>2
<1>16. InOrder(c)'
    <2>1. InOrder(c)
        BY <1>1, <1>3 DEF PrintedInOrder, c
    <2>2. ASSUME NEW k \in DOMAIN printed', printed'[k][1] = c, k \in 1 .. L
          PROVE  /\ \A j \in DOMAIN printed' : printed'[j] = printed'[k] => j = k
                 /\ printed'[k][2] > 1 => \E j \in 1 .. (k - 1) : printed'[j] = <<c, printed'[k][2] - 1>>
        <3>1. printed'[k] = printed[k] /\ k \in DOMAIN printed
            BY <1>13, <2>2
        <3>2. /\ \A j \in DOMAIN printed : printed[j] = printed[k] => j = k
              /\ printed[k][2] > 1 => \E j \in 1 .. (k - 1) : printed[j] = <<c, printed[k][2] - 1>>
            BY <2>1, <2>2, <3>1 DEF InOrder
        <3>3. \A j \in DOMAIN printed' : printed'[j] = printed'[k] => j = k
            <4> SUFFICES ASSUME NEW j \in DOMAIN printed', printed'[j] = printed[k] PROVE j = k
                BY <3>1
            <4>1. CASE j \in 1 .. L
                BY <1>13, <3>2, <4>1
            <4>2. CASE j \notin 1 .. L
                <5>1. PICK i \in 1 .. Len(q) : j = L + i
                    BY <1>13, <4>2
                <5>2. printed[k] = q[i] /\ q[i] \in P
                    BY <1>12, <1>13, <5>1
                <5> QED BY <1>15, <2>2, <5>2
            <4> QED BY <4>1, <4>2
        <3>4. \A j \in 1 .. (k - 1) : printed'[j] = printed[j]
            BY <1>13, <2>2
        <3> QED BY <3>1, <3>2, <3>3, <3>4
    <2>3. ASSUME NEW k \in DOMAIN printed', NEW i \in 1 .. Len(q), k = L + i
          PROVE  /\ \A j \in DOMAIN printed' : printed'[j] = printed'[k] => j = k
                 /\ printed'[k][2] > 1 => \E j \in 1 .. (k - 1) : printed'[j] = <<c, printed'[k][2] - 1>>
        <3>1. printed'[k] = q[i] /\ q[i] \in P /\ q[i] \in B /\ q[i][2] \in Nat
            BY <1>4, <1>8, <1>12, <1>13, <2>3
        <3>2. \A j \in DOMAIN printed' : printed'[j] = printed'[k] => j = k
            <4> SUFFICES ASSUME NEW j \in DOMAIN printed', printed'[j] = q[i] PROVE j = k
                BY <3>1
            <4>1. CASE j \in 1 .. L
                BY <1>13, <1>15, <3>1, <4>1
            <4>2. CASE j \notin 1 .. L
                <5>1. PICK l \in 1 .. Len(q) : j = L + l
                    BY <1>13, <4>2
                <5>2. q[l] = q[i]
                    BY <1>13, <5>1
                <5>3. l = i
                    BY <1>8, <1>13, <5>2
                <5> QED BY <2>3, <5>1, <5>3
            <4> QED BY <4>1, <4>2
        <3>3. ASSUME q[i][2] > 1 PROVE \E j \in 1 .. (k - 1) : printed'[j] = <<c, q[i][2] - 1>>
            <4> DEFINE y == q[i][2] - 1
            <4>1. CASE y <= d
                <5>1. PICK j \in DOMAIN printed : printed[j] = <<c, y>>
                    BY <1>7, <1>11, <3>1, <3>3, <4>1
                <5>2. j \in 1 .. (k - 1) /\ printed'[j] = <<c, y>>
                    BY <1>13, <2>3, <5>1
                <5> QED BY <5>2
            <4>2. CASE ~(y <= d)
                <5>1. PICK a \in P : a[2] = y
                    <6>1. y \in (d + 1) .. (q[i][2] - 1)
                        BY <1>11, <3>1, <3>3, <4>2
                    <6> HIDE DEF y
                    <6> QED BY <1>9, <3>1, <6>1
                <5>2. PICK l \in 1 .. Len(q) : q[l] = a
                    BY <1>8
                <5>3. ~(i < l) /\ l # i
                    <6>1. q[l][2] = q[i][2] - 1
                        BY <5>1, <5>2
                    <6>2. ~(q[i][2] <= q[l][2]) /\ q[l][2] # q[i][2]
                        BY <3>1, <6>1
                    <6> QED BY <1>8, <6>2
                <5>4. L + l \in 1 .. (k - 1) /\ printed'[L + l] = a
                    BY <1>13, <2>3, <5>2, <5>3
                <5>5. a = <<c, y>>
                    BY <1>4, <1>8, <5>1
                <5> QED BY <5>4, <5>5
            <4> QED BY <4>1, <4>2
        <3> QED BY <3>1, <3>2, <3>3
    <2> DEFINE Fits(k) == /\ \A j \in DOMAIN printed' : printed'[j] = printed'[k] => j = k
                          /\ printed'[k][2] > 1 => \E j \in 1 .. (k - 1) : printed'[j] = <<c, printed'[k][2] - 1>>
    <2>4. ASSUME NEW k \in DOMAIN printed', printed'[k][1] = c PROVE Fits(k)
        <3>1. CASE k \in 1 .. L
            BY <2>2, <2>4, <3>1
        <3>2. CASE k \notin 1 .. L
            <4>1. PICK i \in 1 .. Len(q) : k = L + i
                BY <1>13, <3>2
            <4> QED BY <2>3, <4>1
        <3> QED BY <3>1, <3>2
    <2> QED BY <2>4 DEF InOrder
<1>17. Sent(c, n)'
    BY <1>5, <1>10 DEF Sent
<1>18. Held(c, n)'
    <2>1. m < n \/ m = 0
        <3>1. m = d \/ m \in (d + 1) .. m
            BY <1>9, <1>11
        <3> QED BY <1>6, <1>9, <1>11, <1>14, <3>1
    <2>2. \A i \in Ids : <<c, i>> \in pool' => i < n /\ (i = 0 \/ i > m)
        <3> SUFFICES ASSUME NEW i \in Ids, <<c, i>> \in pool', i # 0, ~(i > m) PROVE FALSE
            BY <1>6, <1>10
        <3>1. <<c, i>> \in pool /\ <<c, i>> # r /\ i > d
            BY <1>6, <1>10
        <3>2. PICK a \in P : a[2] = i
            BY <1>9, <1>11, <3>1
        <3>3. a = <<c, i>> /\ a \in B
            BY <1>4, <1>8, <3>2
        <3> QED BY <1>2, <1>6, <3>1, <3>3
    <2>3. \A b \in B \ P : b[2] < n /\ b[2] > m + 1 /\ b \notin pool'
        BY <1>2, <1>3, <1>6, <1>9, <1>10
    <2>4. \A i \in Ids : m < i /\ i < n => <<c, i>> \in pool' \cup (B \ P)
        <3> SUFFICES ASSUME NEW i \in Ids, m < i, i < n PROVE <<c, i>> \in pool' \cup (B \ P)
            OBVIOUS
        <3>1. <<c, i>> \in pool \cup buffer_[s]
            BY <1>6, <1>9, <1>11
        <3>2. <<c, i>> \notin P
            BY <1>9, <1>11
        <3>3. r \in B
            BY <1>2, <1>3, <1>4
        <3> QED BY <1>2, <1>10, <3>1, <3>2, <3>3
    <2> QED BY <1>10, <2>1, <2>2, <2>3, <2>4 DEF Held, s
<1>19. Logged(c, n)'
    <2>1. ASSUME NEW k \in DOMAIN printed', printed'[k][1] = c
          PROVE  /\ printed'[k][2] < n /\ printed'[k][2] <= m
                 /\ (printed'[k][2] = 0 => <<c, 0>> \notin pool')
        <3>1. CASE k \in 1 .. L
            <4>1. printed'[k] = printed[k] /\ k \in DOMAIN printed /\ printed[k][2] \in Nat
                BY <1>1, <1>11, <1>13, <3>1, RecordTypes
            <4>2. printed[k][2] < n /\ printed[k][2] <= d /\ (printed[k][2] = 0 => <<c, 0>> \notin pool)
                BY <1>7, <2>1, <4>1
            <4>3. printed[k][2] <= m
                BY <1>9, <1>11, <4>1, <4>2
            <4> QED BY <1>10, <4>1, <4>2, <4>3
        <3>2. CASE k \notin 1 .. L
            <4>1. PICK j \in 1 .. Len(q) : k = L + j
                BY <1>13, <3>2
            <4>2. printed'[k] = q[j] /\ q[j] \in P /\ q[j] \in B
                BY <1>8, <1>12, <1>13, <4>1
            <4>3. q[j][2] < n /\ q[j][2] <= m
                BY <1>9, <1>14, <4>2
            <4>4. q[j][2] = 0 => <<c, 0>> \notin pool'
                <5>1. q[j][2] = 0 => q[j] = r
                    BY <1>11, <1>14, <4>2
                <5>2. r[2] = 0 => <<c, 0>> \notin pool'
                    BY <1>3, <1>10
                <5> QED BY <5>1, <5>2
            <4> QED BY <4>2, <4>3, <4>4
        <3> QED BY <3>1, <3>2
    <2>2. ASSUME NEW i \in 1 .. m PROVE \E k \in DOMAIN printed' : printed'[k] = <<c, i>>
        <3>1. CASE i <= d
            <4>1. PICK k \in DOMAIN printed : printed[k] = <<c, i>>
                BY <1>7, <1>11, <3>1
            <4> QED BY <1>13, <4>1
        <3>2. CASE ~(i <= d)
            <4>1. PICK a \in P : a[2] = i
                BY <1>9, <1>11, <3>2
            <4>2. PICK k \in 1 .. Len(q) : q[k] = a
                BY <1>8
            <4>3. a = <<c, i>>
                BY <1>4, <1>8, <4>1
            <4> QED BY <1>13, <4>2, <4>3
        <3> QED BY <3>1, <3>2
    <2> QED BY <1>10, <2>1, <2>2 DEF Logged, s
<1> QED BY <1>16, <1>17, <1>18, <1>19 DEF Ordered, c

\* log(r) for everybody: a connection with another ident sees nothing of it.
LEMMA PrintStep == ASSUME IInv, NEW r \in pool, log(r) PROVE IInv'
<1> DEFINE s == ident[r[1]]
           B == Insert(s, r)
           P == Printable(s, B)
           q == InIdOrder(P)
<1>1. TypeInv /\ Tables /\ PrintedInOrder
    BY DEF IInv
<1>2. PICK m : LogFacts(r, s, B, P, q, m)
    BY LogDoes
<1>3. /\ r \in Records /\ s \in Idents /\ Current(r[1]) /\ B \in SUBSET Records
      /\ Distinct(B) /\ \A b \in B : Current(b[1]) /\ ident[b[1]] = s
    BY InsertFacts
<1>4. ASSUME Alone(r[1]) PROVE InOrder(r[1])' /\ Ordered(r[1])'
    <2> HIDE DEF P, q
    <2> QED BY <1>2, <1>4, PrintOrdered
<1> HIDE DEF s, B, P, q
<1>5. /\ q \in Seq(P) /\ P \subseteq B /\ m \in 0 .. MaxMsg
      /\ pool' = pool \ {r} /\ printed' = printed \o q
      /\ done_' = [done_ EXCEPT ![s] = m] /\ buffer_' = [buffer_ EXCEPT ![s] = B \ P]
      /\ UNCHANGED <<rp_s, msg_counter_s, inits, ident, home, status, wire, run>>
    BY <1>2 DEF LogFacts
<1>6. printed \in Seq(Records) /\ q \in Seq(Records) /\ \A k \in 1 .. Len(q) : q[k] \in P
    <2>1. P \subseteq Records
        BY <1>3, <1>5
    <2> QED BY <1>1, <1>5, <2>1 DEF TypeInv
<1> DEFINE L == Len(printed)
<1>7. /\ printed' \in Seq(Records) /\ DOMAIN printed = 1 .. L /\ L \in Nat
      /\ \A k \in 1 .. L : k \in DOMAIN printed' /\ printed'[k] = printed[k]
      /\ \A k \in 1 .. Len(q) : printed'[L + k] = q[k]
      /\ \A k \in DOMAIN printed' : k \in 1 .. L \/ \E j \in 1 .. Len(q) : k = L + j
    BY <1>5, <1>6, Concatenated
<1> HIDE DEF L
<1>8. \A c : (Current(c)' <=> Current(c)) /\ (Alone(c)' <=> Alone(c))
    BY <1>5 DEF Current, Alone
<1>9. TypeInv'
    <2>1. buffer_' \in [Idents -> SUBSET Records] /\ done_' \in [Idents -> 0 .. MaxMsg]
        BY <1>1, <1>3, <1>5 DEF TypeInv
    <2> QED BY <1>1, <1>5, <1>7, <2>1 DEF TypeInv
<1>10. /\ buffer_'[s] = B \ P /\ \A t \in Idents : t # s => buffer_'[t] = buffer_[t] /\ done_'[t] = done_[t]
    BY <1>1, <1>3, <1>5 DEF TypeInv
<1>11. \A k \in DOMAIN printed' : k \in 1 .. L \/ (Current(printed'[k][1]) /\ ident[printed'[k][1]] = s)
    BY <1>3, <1>5, <1>6, <1>7
<1>12. Tables'
    <2>1. \A p \in pool' : Current(p[1])
        BY <1>1, <1>5 DEF Tables
    <2>2. \A t \in Idents : \A b \in buffer_'[t] : Current(b[1]) /\ ident[b[1]] = t
        BY <1>1, <1>3, <1>10 DEF Tables
    <2>3. \A t \in Idents : \A a, b \in buffer_'[t] : a[2] = b[2] => a = b
        BY <1>1, <1>3, <1>10 DEF Tables, Distinct
    <2>4. \A t \in Idents : done_'[t] # 0 => \E c \in Conns : Current(c) /\ ident[c] = t
        <3>1. r[1] \in Conns /\ Current(r[1]) /\ ident[r[1]] = s
            BY <1>1, <1>3, RecordTypes DEF s
        <3> QED BY <1>1, <1>10, <3>1 DEF Tables
    <2>5. \A k \in DOMAIN printed' : printed'[k][1] <= inits
        BY <1>1, <1>7, <1>11 DEF Tables, Current, TypeInv
    <2> QED BY <1>1, <1>5, <1>8, <2>1, <2>2, <2>3, <2>4, <2>5 DEF Tables
\* A connection other than that of r.
<1>13. ASSUME NEW c \in Conns, Alone(c), Current(c), c # r[1] PROVE ident[c] # s /\ ident[c] \in Idents
    BY <1>1, <1>3, <1>13 DEF Alone, Current, TypeInv, s
<1>14. ASSUME NEW c \in Conns, Alone(c), c # r[1] PROVE \A k \in DOMAIN printed' : k \notin 1 .. L => printed'[k][1] # c
    BY <1>3, <1>11, <1>13, <1>14 DEF Current
<1>15. ASSUME NEW c \in Conns, Alone(c)' PROVE InOrder(c)'
    <2>1. CASE c = r[1]
        BY <1>4, <1>8, <1>15, <2>1
    <2>2. CASE c # r[1]
        <3>1. InOrder(c) /\ \A k \in DOMAIN printed' : k \notin 1 .. L => printed'[k][1] # c
            BY <1>1, <1>8, <1>14, <1>15, <2>2 DEF PrintedInOrder
        <3>2. ASSUME NEW k \in DOMAIN printed', printed'[k][1] = c
              PROVE  /\ \A j \in DOMAIN printed' : printed'[j] = printed'[k] => j = k
                     /\ printed'[k][2] > 1 => \E j \in 1 .. (k - 1) : printed'[j] = <<c, printed'[k][2] - 1>>
            <4>1. k \in 1 .. L /\ printed'[k] = printed[k]
                BY <1>7, <3>1, <3>2
            <4>2. /\ \A j \in DOMAIN printed : printed[j] = printed[k] => j = k
                  /\ printed[k][2] > 1 => \E j \in 1 .. (k - 1) : printed[j] = <<c, printed[k][2] - 1>>
                BY <1>7, <3>1, <3>2, <4>1 DEF InOrder
            <4>3. \A j \in DOMAIN printed' : printed'[j] = printed'[k] => j = k
                BY <1>7, <3>1, <3>2, <4>1, <4>2
            <4>4. \A j \in 1 .. (k - 1) : printed'[j] = printed[j]
                BY <1>7, <4>1
            <4> QED BY <4>1, <4>2, <4>3, <4>4
        <3> QED BY <3>2 DEF InOrder
    <2> QED BY <2>1, <2>2
<1>16. ASSUME NEW c \in Conns, Current(c)', Alone(c)' PROVE Ordered(c)'
    <2>1. CASE c = r[1]
        BY <1>4, <1>8, <1>16, <2>1
    <2>2. CASE c # r[1]
        <3>1. Current(c) /\ Alone(c) /\ ident[c] # s /\ ident[c] \in Idents
            BY <1>8, <1>13, <1>16, <2>2
        <3>2. PICK n \in 0 .. MaxMsg : Sent(c, n) /\ Held(c, n) /\ Logged(c, n)
            BY <3>1 DEF IInv, Ordered
        <3>3. \A i : <<c, i>> \in pool' <=> <<c, i>> \in pool
            BY <1>1, <1>5, <2>2, RecordTypes
        <3>4. buffer_'[ident[c]] = buffer_[ident[c]] /\ done_'[ident[c]] = done_[ident[c]]
            BY <1>10, <3>1
        <3>5. Sent(c, n)'
            BY <1>5, <3>2 DEF Sent
        <3>6. Held(c, n)'
            BY <1>5, <3>2, <3>3, <3>4 DEF Held
        <3>7. Logged(c, n)'
            <4>1. \A k \in DOMAIN printed' : k \notin 1 .. L => printed'[k][1] # c
                BY <1>14, <2>2, <3>1
            <4>2. \A k \in DOMAIN printed' : printed'[k][1] = c => k \in DOMAIN printed /\ printed'[k] = printed[k]
                BY <1>7, <4>1
            <4>3. \A k \in DOMAIN printed : k \in DOMAIN printed' /\ printed'[k] = printed[k]
                BY <1>7
            <4> QED BY <1>5, <3>2, <3>3, <3>4, <4>2, <4>3 DEF Logged
        <3> QED BY <3>5, <3>6, <3>7 DEF Ordered
    <2> QED BY <2>1, <2>2
<1> QED BY <1>9, <1>12, <1>15, <1>16 DEF IInv, PrintedInOrder

-----------------------------------------------------------------------------
(* The theorems                                                            *)

\* Every step of the client, of a connection or of the server preserves it.
LEMMA NextIInv == IInv /\ [Next]_vars => IInv'
<1> SUFFICES ASSUME IInv, [Next]_vars PROVE IInv'
    OBVIOUS
<1>1. CASE UNCHANGED vars
    <2>1. TypeInv' /\ Tables'
        BY <1>1 DEF IInv, TypeInv, Tables, Current, vars, client, server
    <2>2. \A c \in Conns : \A n \in 0 .. MaxMsg : Sent(c, n) => Sent(c, n)'
        BY <1>1 DEF Sent, vars, client, server
    <2>3. Tables
        BY DEF IInv
    <2> QED BY <1>1, <2>1, <2>2, <2>3, LineKeeps DEF LineStep, Tables, vars, client
<1> QED
    BY <1>1, InitStep, CloseStep, LogStep, RestartStep, BreakStep, NoticeStep, ReadStep, PrintStep
    DEF Next

\* Remote logging keeps the order: whichever threads of the log server's pool
\* run RLogServiceImpl::log first, and whatever broken connections and restarts
\* lose, the records of a connection that has its ident to itself are printed
\* once, in the order of their ids and without a gap (the first one excepted).
THEOREM RecordsInOrder == Spec => []PrintedInOrder
<1>1. IInv => PrintedInOrder
    BY DEF IInv
<1> QED BY <1>1, InitIInv, NextIInv, PTL DEF Spec

\* Once the pool has handled what arrived, buffer_ keeps none of the records of
\* such a connection: only a record still in the pool can hold others back.
THEOREM BufferDrains == Spec => []NothingHeldBack
<1>1. IInv => NothingHeldBack
    <2> SUFFICES ASSUME IInv, NEW c \in Conns, Alone(c), home[c] = run, \A r \in pool : r[1] # c,
                        NEW b \in buffer_[ident[c]], b[1] = c
                 PROVE  FALSE
        BY DEF NothingHeldBack
    <2> DEFINE s == ident[c]
    <2>1. TypeInv /\ Tables
        BY DEF IInv
    <2>2. s \in Idents /\ Current(c) /\ b \in Records /\ done_[s] \in Nat
        <3>1. s \in Idents /\ done_[s] \in 0 .. MaxMsg
            BY <2>1 DEF TypeInv
        <3>2. b \in Records
            BY <2>1, <3>1, RecordTypes
        <3>3. Current(c)
            BY <2>1, <3>1 DEF Tables
        <3> QED BY <3>1, <3>2, <3>3, RLogAssumption
    <2>3. PICK n \in 0 .. MaxMsg : Held(c, n)
        BY <2>2 DEF IInv, Ordered
    <2>4. b[2] \in Ids /\ b[2] \in Nat
        BY <2>1, <2>2, RecordTypes
    <2>5. b[2] < n /\ b[2] > done_[s] + 1
        BY <2>3 DEF Held
    <2>6. done_[s] + 1 \in Ids /\ done_[s] < done_[s] + 1 /\ done_[s] + 1 < n
        BY <2>2, <2>4, <2>5, RLogAssumption DEF Ids
    <2>7. <<c, done_[s] + 1>> \in buffer_[s]
        BY <2>3, <2>6 DEF Held
    <2> QED BY <2>2, <2>3, <2>7 DEF Held
<1> QED BY <1>1, InitIInv, NextIInv, PTL DEF Spec
=============================================================================
