--------------------------- MODULE DeliveryProofs ---------------------------
(***************************************************************************)
(* Proofs of the safety properties of Delivery, for any number of classes  *)
(* and events and any size of the channel, the buffer, its segments and    *)
(* the batches.                                                            *)
(*                                                                         *)
(* The three properties lean on one order: events are numbered as they are *)
(* emitted and go through the channel into the queue of their class, so    *)
(* that the lines of a queue have increasing numbers and an event is in    *)
(* one place only (FilesInv, PlaceInv).  Hence the lines on disk can be    *)
(* counted (DiskInv) and a drop is counted once (DropsInv).  What a queue  *)
(* has consumed, and what the batch on the wire took from it, is a prefix  *)
(* of it whose events the server has, or has once the batch arrives        *)
(* (PrefixInv); a segment shed meanwhile breaks just this, which is what   *)
(* the variable overtaken records.                                         *)
(***************************************************************************)
EXTENDS Delivery, FiniteSetTheorems, SequenceTheorems, WellFoundedInduction, TLAPS

Line == [seq : Nat, id : Nat, file : Nat]

Files == [Classes -> Seq(Line)]

-----------------------------------------------------------------------------
(* The inductive invariant *)

TypeInv ==
    /\ class \in Seq(Classes) /\ chan \in Seq(Nat)
    /\ files \in Files
    /\ active \in [Classes -> Nat] /\ consumed \in [Classes -> Nat] /\ taken \in [Classes -> Nat]
    /\ total \in [Classes -> Nat] /\ reported \in [Classes -> Nat] /\ heard \in [Classes -> Nat]
    /\ next_seq \in Nat
    /\ overtaken \in BOOLEAN /\ unheard \in BOOLEAN

\* The lines of a class are in the order of their numbers and of their events.
Ordered(fs) ==
    \A c \in Classes : \A i, j \in 1..Len(fs[c]) :
        i < j => fs[c][i].seq < fs[c][j].seq /\ fs[c][i].id < fs[c][j].id

\* They are events of that class
Owned(fs, cls) ==
    \A c \in Classes : \A i \in 1..Len(fs[c]) :
        fs[c][i].id \in 1..Len(cls) /\ cls[fs[c][i].id] = c

Below(fs, n) == \A c \in Classes : \A i \in 1..Len(fs[c]) : fs[c][i].seq < n

FilesInv == Ordered(files) /\ Owned(files, class) /\ Below(files, next_seq)

\* An event is in one place: the channel holds the newest, a shed one is not on disk
PlaceInv ==
    /\ \A i, j \in 1..Len(chan) : i < j => chan[i] < chan[j]
    /\ \A j \in 1..Len(chan) :
          /\ chan[j] \in 1..Len(class)
          /\ \A x \in shed : x < chan[j]
          /\ \A c \in Classes : \A i \in 1..Len(files[c]) : files[c][i].id < chan[j]
    /\ shed \subseteq 1..Len(class)
    /\ \A c \in Classes : \A i \in 1..Len(files[c]) : files[c][i].id \notin shed

DiskInv == IsFiniteSet(OnDisk) /\ DiskBounded

DropsInv == (\A c \in Classes : reported[c] <= total[c]) /\ DropsHeardOnce

\* What is on the wire
WireInv ==
    /\ "delivery" \notin tasks => batch = {}
    /\ batch = {} => taken = Zero
    /\ answer = "202" => batch \subseteq received

\* The lines counted as consumed are received, those taken are on the wire or received
Prefix(c) ==
    /\ consumed[c] + taken[c] <= Len(files[c])
    /\ consumed[c] = 0 \/ consumed[c] < front(files[c])
    /\ \A i \in 1..consumed[c] : files[c][i].id \in received
    /\ \A i \in 1..(consumed[c] + taken[c]) : files[c][i].id \in received \cup batch

PrefixInv == overtaken \/ \A c \in Classes : Prefix(c)

\* An event is somewhere
KeptInv == overtaken \/ Emitted \subseteq Queued \cup Buffered \cup received \cup shed \cup gone

\* The size of a batch, halved on a 413, stays a number
BatchSizeInv == max_events \in Nat

IInv == TypeInv /\ FilesInv /\ PlaceInv /\ DiskInv /\ DropsInv /\ WireInv /\ PrefixInv /\ KeptInv

-----------------------------------------------------------------------------
(* Numbers and sequences of lines *)

LEMMA Minimum ==
    ASSUME NEW S \in SUBSET Nat, S # {}
    PROVE  \E x \in S : \A y \in S : x <= y
<1>1. PICK x \in S : \A y \in S : ~ (<<y, x>> \in OpToRel(<, Nat))
    BY NatLessThanWellFounded, WFMin
<1>2. \A y \in S : ~ (y < x)
    BY <1>1 DEF OpToRel
<1> QED BY <1>2

LEMMA Maximum ==
    ASSUME NEW S \in SUBSET Nat, S # {}, NEW n \in Nat, \A x \in S : x <= n
    PROVE  \E x \in S : \A y \in S : y <= x
<1> DEFINE T == {k \in Nat : \E x \in S : k = n - x}
<1>1. \A x \in S : n - x \in T
    OBVIOUS
<1>2. T \in SUBSET Nat /\ T # {}
    BY <1>1
<1>3. \A k \in T : \E x \in S : k = n - x
    OBVIOUS
<1> HIDE DEF T
<1>4. PICK k \in T : \A m \in T : k <= m
    BY <1>2, Minimum
<1>5. PICK x \in S : k = n - x
    BY <1>3
<1>6. ASSUME NEW y \in S PROVE y <= x
    <2>1. k <= n - y
        BY <1>1, <1>4
    <2> QED BY <1>5, <2>1
<1> QED BY <1>6

LEMMA RemoveFrontOf ==
    ASSUME NEW q \in Seq(Line), NEW n \in 0..Len(q)
    PROVE  /\ RemoveFront(q, n) \in Seq(Line)
           /\ Len(RemoveFront(q, n)) = Len(q) - n
           /\ \A i \in 1..(Len(q) - n) : RemoveFront(q, n)[i] = q[i + n]
<1> DEFINE L == Len(q)
           s == SubSeq(q, n + 1, L)
<1>1. L \in Nat
    BY LenProperties
<1>2. n + 1 \in 1..(L + 1) /\ L \in ((n + 1) - 1)..L
    BY <1>1
<1>3. /\ s \in Seq(Line)
      /\ Len(s) = IF n + 1 <= L THEN L - (n + 1) + 1 ELSE 0
      /\ \A i \in 1..(L - (n + 1) + 1) : s[i] = q[(n + 1) + i - 1]
    BY <1>2, SubSeqProperties
<1> HIDE DEF s, L
<1>4. Len(s) = L - n
    BY <1>1, <1>2, <1>3 DEF L
<1>5. \A i \in 1..(L - n) : s[i] = q[i + n]
    <2> SUFFICES ASSUME NEW i \in 1..(L - n) PROVE s[i] = q[i + n]
        OBVIOUS
    <2>1. L - (n + 1) + 1 = L - n /\ (n + 1) + i - 1 = i + n
        BY <1>1 DEF L
    <2> QED BY <1>3, <2>1
<1> QED BY <1>3, <1>4, <1>5 DEF RemoveFront, s, L

\* The lines of the oldest file
LEMMA FrontOf ==
    ASSUME NEW q \in Seq(Line)
    PROVE  front(q) \in Nat /\ front(q) <= Len(q) /\ (q # <<>> => front(q) >= 1)
<1> DEFINE F == {i \in 1..Len(q) : q[i].file = q[1].file}
<1>1. Len(q) \in Nat /\ (q # <<>> => Len(q) >= 1)
    BY LenProperties, EmptySeq
<1>2. IsFiniteSet(1..Len(q)) /\ Cardinality(1..Len(q)) = Len(q)
    <2> DEFINE L == Len(q)
    <2>1. L \in Int /\ 1 \in Int /\ (IF 1 > L THEN 0 ELSE L - 1 + 1) = L
        BY <1>1
    <2> HIDE DEF L
    <2>2. IsFiniteSet(1..L) /\ Cardinality(1..L) = L
        BY <2>1, FS_Interval
    <2> QED BY <2>2 DEF L
<1>3. F \in SUBSET (1..Len(q))
    OBVIOUS
<1>4. IsFiniteSet(F) /\ Cardinality(F) <= Len(q) /\ Cardinality(F) \in Nat
    BY <1>2, <1>3, FS_Subset, FS_CardinalityType
<1>5. ASSUME q # <<>> PROVE Cardinality(F) # 0
    <2>1. 1 \in F
        BY <1>1, <1>5
    <2> QED BY <1>4, <2>1, FS_EmptySet
<1> HIDE DEF F
<1>6. q # <<>> => Cardinality(F) >= 1
    BY <1>4, <1>5
<1> QED BY <1>4, <1>6 DEF front, F

LEMMA FrontGrows ==
    ASSUME NEW q \in Seq(Line), NEW l \in Line, q # <<>>
    PROVE  front(q) <= front(Append(q, l))
<1> DEFINE r == Append(q, l)
           F == {i \in 1..Len(q) : q[i].file = q[1].file}
           G == {i \in 1..Len(r) : r[i].file = r[1].file}
<1>1. Len(q) \in Nat /\ Len(q) >= 1
    BY LenProperties, EmptySeq
<1>2. r \in Seq(Line) /\ Len(r) = Len(q) + 1 /\ \A i \in 1..Len(q) : r[i] = q[i]
    BY AppendProperties
<1> HIDE DEF r
<1>3. F \subseteq G
    BY <1>1, <1>2
<1>4. IsFiniteSet(G)
    <2>1. IsFiniteSet(1..Len(r)) /\ G \in SUBSET (1..Len(r))
        BY <1>1, <1>2, FS_Interval
    <2> QED BY <2>1, FS_Subset
<1>5. Cardinality(F) <= Cardinality(G)
    BY <1>3, <1>4, FS_Subset
<1> QED BY <1>5 DEF front, r

\* Without the end of a file among them, the first k lines are fewer than the oldest file's
LEMMA WithinFront ==
    ASSUME NEW q \in Seq(Line), NEW k \in Nat, k <= Len(q),
           \A i \in 1..k : i # Len(q) /\ q[i].file = q[i + 1].file
    PROVE  k = 0 \/ k < front(q)
<1> SUFFICES ASSUME k # 0 PROVE k < front(q)
    OBVIOUS
<1> DEFINE L == Len(q)
<1>0. L \in Nat
    BY LenProperties
<1>1. k < L
    BY <1>0
<1> DEFINE bad == {j \in 1..(k + 1) : q[j].file # q[1].file}
<1>2. bad = {}
    <2> SUFFICES ASSUME bad # {} PROVE FALSE
        OBVIOUS
    <2>1. bad \in SUBSET Nat
        OBVIOUS
    <2>2. PICK j \in bad : \A m \in bad : j <= m
        BY <2>1, Minimum
    <2>3. j \in 1..(k + 1) /\ q[j].file # q[1].file /\ j # 1
        OBVIOUS
    <2>4. j - 1 \in 1..k /\ ~ (j <= j - 1) /\ (j - 1) + 1 = j /\ j - 1 \in 1..(k + 1)
        BY <2>3
    <2>5. q[j - 1].file = q[1].file
        BY <2>2, <2>4
    <2>6. q[j - 1].file = q[j].file
        BY <2>4
    <2> QED BY <2>3, <2>5, <2>6
<1> DEFINE F == {i \in 1..L : q[i].file = q[1].file}
<1>3. 1..(k + 1) \subseteq F
    BY <1>0, <1>1, <1>2
<1>4. IsFiniteSet(F)
    <2>1. IsFiniteSet(1..L) /\ F \in SUBSET (1..L)
        BY <1>0, FS_Interval
    <2> QED BY <2>1, FS_Subset
<1>5. Cardinality(1..(k + 1)) <= Cardinality(F) /\ Cardinality(F) \in Nat
    BY <1>3, <1>4, FS_Subset, FS_CardinalityType
<1>6. Cardinality(1..(k + 1)) = k + 1
    <2>1. 1 \in Int /\ k + 1 \in Int /\ ~ (1 > k + 1) /\ (k + 1) - 1 + 1 = k + 1
        OBVIOUS
    <2> HIDE DEF bad, F, L
    <2> QED BY <2>1, FS_Interval
<1> HIDE DEF F
<1>7. k < Cardinality(F)
    BY <1>5, <1>6
<1> QED BY <1>7 DEF front, F

LEMMA DeletableOf ==
    ASSUME NEW q \in Seq(Line), NEW n \in Nat
    PROVE  /\ deletable(q, n) \in 0..Len(q) /\ deletable(q, n) <= n
           /\ \A i \in 1..Len(q) : i <= n /\ deletable(q, n) < i => i # Len(q) /\ q[i].file = q[i + 1].file
<1> DEFINE ends == {i \in 1..Len(q) : i <= n /\ (i = Len(q) \/ q[i].file # q[i + 1].file)}
           d == deletable(q, n)
<1>0. Len(q) \in Nat
    BY LenProperties
<1>1. ends \in SUBSET Nat /\ \A i \in ends : i <= n /\ i \in 1..Len(q)
    OBVIOUS
<1>2. d = IF ends = {} THEN 0 ELSE CHOOSE i \in ends : \A j \in ends : j <= i
    BY DEF deletable
<1>3. CASE ends = {}
    <2>1. d = 0
        BY <1>2, <1>3
    <2> QED BY <1>0, <1>3, <2>1
<1>4. CASE ends # {}
    <2>1. \E i \in ends : \A j \in ends : j <= i
        BY <1>1, <1>4, Maximum
    <2> HIDE DEF d
    <2>2. d \in ends /\ \A j \in ends : j <= d
        BY <1>2, <1>4, <2>1
    <2>3. \A i \in 1..Len(q) : i <= n /\ d < i => i \notin ends
        BY <1>1, <2>2
    <2> QED BY <1>0, <1>1, <2>2, <2>3 DEF d
<1> QED BY <1>3, <1>4

\* Lines of increasing events are different
LEMMA SegmentSize ==
    ASSUME NEW q \in Seq(Line), NEW a \in Nat, NEW m \in Nat, a <= m, m <= Len(q),
           \A i, j \in 1..Len(q) : i < j => q[i].id < q[j].id
    PROVE  /\ IsFiniteSet({q[i] : i \in (a + 1)..m})
           /\ Cardinality({q[i] : i \in (a + 1)..m}) = m - a
<1> DEFINE S == {q[i] : i \in (a + 1)..m}
           f == [k \in 1..(m - a) |-> q[k + a]]
<1>0. Len(q) \in Nat
    BY LenProperties
<1>1. \A k \in 1..(m - a) : k + a \in (a + 1)..m /\ k + a \in 1..Len(q)
    BY <1>0
<1>2. \A i \in 1..Len(q) : q[i] \in Line /\ q[i].id \in Nat
    <2>1. \A i \in 1..Len(q) : q[i] \in Line
        BY ElementOfSeq
    <2> QED BY <2>1 DEF Line
<1>3. f \in [1..(m - a) -> S]
    BY <1>1
<1>4. ASSUME NEW x \in 1..(m - a), NEW y \in 1..(m - a), f[x] = f[y] PROVE x = y
    <2>1. q[x + a].id = q[y + a].id /\ q[x + a].id \in Nat
        BY <1>1, <1>2, <1>4
    <2>2. ~ (x + a < y + a) /\ ~ (y + a < x + a)
        BY <1>1, <2>1
    <2> QED BY <2>2
<1>5. ASSUME NEW s \in S PROVE \E k \in 1..(m - a) : f[k] = s
    <2>1. PICK i \in (a + 1)..m : s = q[i]
        BY <1>5
    <2>2. i - a \in 1..(m - a) /\ (i - a) + a = i
        OBVIOUS
    <2> QED BY <2>1, <2>2
<1>6. f \in Bijection(1..(m - a), S)
    BY <1>3, <1>4, <1>5 DEF Bijection, Injection, Surjection, IsInjective
<1>7. ExistsBijection(1..(m - a), S) /\ m - a \in Nat
    <2> HIDE DEF f, S
    <2>1. ExistsBijection(1..(m - a), S)
        BY <1>6 DEF ExistsBijection
    <2> QED BY <2>1
<1> HIDE DEF S
<1>8. Cardinality(S) = m - a
    BY <1>7, FS_CountingElements
<1>9. IsFiniteSet(S)
    BY <1>7, FS_NatBijection
<1> QED BY <1>8, <1>9 DEF S

-----------------------------------------------------------------------------
(* The lines on disk *)

Disk(fs) == UNION {{fs[c][i] : i \in 1..Len(fs[c])} : c \in Classes}

Cut(fs, cut) == [c \in Classes |-> RemoveFront(fs[c], cut[c])]
Removed(fs, cut) == UNION {{fs[c][i] : i \in 1..cut[c]} : c \in Classes}

\* Every line of gs is one of fs
SubLines(gs, fs) ==
    \A c \in Classes : \A i \in 1..Len(gs[c]) : \E j \in 1..Len(fs[c]) : gs[c][i] = fs[c][j]

LEMMA Lined ==
    ASSUME NEW fs \in Files, NEW c \in Classes
    PROVE  /\ fs[c] \in Seq(Line) /\ Len(fs[c]) \in Nat
           /\ \A i \in 1..Len(fs[c]) : fs[c][i] \in Line /\ fs[c][i].id \in Nat /\ fs[c][i].seq \in Nat
<1>1. fs[c] \in Seq(Line)
    BY DEF Files
<1>2. \A i \in 1..Len(fs[c]) : fs[c][i] \in Line
    BY <1>1, ElementOfSeq
<1>3. \A l \in Line : l.id \in Nat /\ l.seq \in Nat
    BY DEF Line
<1> QED BY <1>1, <1>2, <1>3, LenProperties

LEMMA CutOf ==
    ASSUME NEW fs \in Files, NEW cut \in [Classes -> Nat], \A c \in Classes : cut[c] <= Len(fs[c])
    PROVE  /\ Cut(fs, cut) \in Files
           /\ \A c \in Classes :
                 /\ Len(Cut(fs, cut)[c]) = Len(fs[c]) - cut[c]
                 /\ \A i \in 1..Len(Cut(fs, cut)[c]) :
                       i + cut[c] \in 1..Len(fs[c]) /\ Cut(fs, cut)[c][i] = fs[c][i + cut[c]]
<1> DEFINE gs == Cut(fs, cut)
<1>1. ASSUME NEW c \in Classes
      PROVE  /\ gs[c] \in Seq(Line) /\ Len(gs[c]) = Len(fs[c]) - cut[c]
             /\ \A i \in 1..Len(gs[c]) :
                   i + cut[c] \in 1..Len(fs[c]) /\ gs[c][i] = fs[c][i + cut[c]]
    <2>1. fs[c] \in Seq(Line) /\ Len(fs[c]) \in Nat /\ cut[c] \in Nat /\ cut[c] <= Len(fs[c])
        BY Lined
    <2>2. gs[c] = RemoveFront(fs[c], cut[c])
        BY DEF Cut
    <2>3. cut[c] \in 0..Len(fs[c])
        BY <2>1
    <2>4. \A i \in 1..(Len(fs[c]) - cut[c]) : i + cut[c] \in 1..Len(fs[c])
        BY <2>1
    <2> HIDE DEF gs
    <2>5. /\ gs[c] \in Seq(Line) /\ Len(gs[c]) = Len(fs[c]) - cut[c]
          /\ \A i \in 1..(Len(fs[c]) - cut[c]) : gs[c][i] = fs[c][i + cut[c]]
        <3> DEFINE q == fs[c]  n == cut[c]
        <3>1. q \in Seq(Line) /\ n \in 0..Len(q) /\ gs[c] = RemoveFront(q, n)
            BY <2>1, <2>2, <2>3
        <3> HIDE DEF q, n
        <3>2. /\ RemoveFront(q, n) \in Seq(Line) /\ Len(RemoveFront(q, n)) = Len(q) - n
              /\ \A i \in 1..(Len(q) - n) : RemoveFront(q, n)[i] = q[i + n]
            BY <3>1, RemoveFrontOf
        <3> QED BY <3>1, <3>2 DEF q, n
    <2> QED BY <2>4, <2>5
<1>2. gs = [c \in Classes |-> gs[c]]
    BY DEF Cut
<1> HIDE DEF gs
<1>3. gs \in Files
    BY <1>1, <1>2 DEF Files
<1> QED BY <1>1, <1>3 DEF gs

LEMMA CutKeeps ==
    ASSUME NEW fs \in Files, NEW cut \in [Classes -> Nat], \A c \in Classes : cut[c] <= Len(fs[c]),
           Ordered(fs)
    PROVE  Ordered(Cut(fs, cut)) /\ SubLines(Cut(fs, cut), fs)
<1> DEFINE gs == Cut(fs, cut)
<1>1. SubLines(gs, fs)
    <2>1. ASSUME NEW c \in Classes, NEW i \in 1..Len(gs[c])
          PROVE  \E j \in 1..Len(fs[c]) : gs[c][i] = fs[c][j]
        <3>1. i + cut[c] \in 1..Len(fs[c]) /\ gs[c][i] = fs[c][i + cut[c]]
            BY CutOf
        <3> QED BY <3>1
    <2> QED BY <2>1 DEF SubLines
<1>2. ASSUME NEW c \in Classes, NEW i \in 1..Len(gs[c]), NEW j \in 1..Len(gs[c]), i < j
      PROVE  gs[c][i].seq < gs[c][j].seq /\ gs[c][i].id < gs[c][j].id
    <2>1. /\ i + cut[c] \in 1..Len(fs[c]) /\ gs[c][i] = fs[c][i + cut[c]]
          /\ j + cut[c] \in 1..Len(fs[c]) /\ gs[c][j] = fs[c][j + cut[c]]
        BY CutOf
    <2> HIDE DEF gs
    <2>2. i + cut[c] < j + cut[c]
        <3>1. i \in Int /\ j \in Int /\ cut[c] \in Nat
            OBVIOUS
        <3> QED BY <1>2, <3>1
    <2> QED BY <2>1, <2>2 DEF Ordered
<1> QED BY <1>1, <1>2 DEF Ordered

LEMMA CutDisk ==
    ASSUME NEW fs \in Files, NEW cut \in [Classes -> Nat], \A c \in Classes : cut[c] <= Len(fs[c]),
           NEW cls, Ordered(fs), Owned(fs, cls)
    PROVE  /\ Removed(fs, cut) \subseteq Disk(fs)
           /\ Disk(Cut(fs, cut)) = Disk(fs) \ Removed(fs, cut)
<1> DEFINE gs == Cut(fs, cut)
<1>0. \A c \in Classes : Len(fs[c]) \in Nat /\ cut[c] \in Nat /\ 1..cut[c] \subseteq 1..Len(fs[c])
    BY Lined
<1>1. Removed(fs, cut) \subseteq Disk(fs)
    BY <1>0 DEF Removed, Disk
<1>2. ASSUME NEW l \in Disk(gs) PROVE l \in Disk(fs) /\ l \notin Removed(fs, cut)
    <2>0. PICK c \in Classes : \E i \in 1..Len(gs[c]) : l = gs[c][i]
        BY <1>2 DEF Disk
    <2>1. PICK i \in 1..Len(gs[c]) : l = gs[c][i]
        BY <2>0
    <2>2. i \in 1..(Len(fs[c]) - cut[c]) /\ i + cut[c] \in 1..Len(fs[c]) /\ l = fs[c][i + cut[c]]
        BY <2>1, CutOf
    <2> HIDE DEF gs
    <2>3. l \in Disk(fs)
        BY <2>2 DEF Disk
    <2>4. ASSUME NEW b \in Classes, NEW j \in 1..cut[b], l = fs[b][j] PROVE FALSE
        <3>1. j \in 1..Len(fs[b])
            BY <1>0
        <3>2. b = c
            <4>1. cls[fs[b][j].id] = b
                BY <3>1 DEF Owned
            <4>2. cls[fs[c][i + cut[c]].id] = c
                BY <2>2 DEF Owned
            <4> QED BY <2>2, <2>4, <4>1, <4>2
        <3>3. j < i + cut[c] /\ l.id \in Nat
            BY <1>0, <2>2, <3>2, Lined
        <3>4. fs[c][j].id < fs[c][i + cut[c]].id
            BY <2>2, <3>1, <3>2, <3>3 DEF Ordered
        <3>5. l.id < l.id
            BY <2>2, <2>4, <3>2, <3>4
        <3> QED BY <3>3, <3>5
    <2> QED BY <2>3, <2>4 DEF Removed
<1>3. ASSUME NEW l \in Disk(fs), l \notin Removed(fs, cut) PROVE l \in Disk(gs)
    <2>0. PICK c \in Classes : \E i \in 1..Len(fs[c]) : l = fs[c][i]
        BY <1>3 DEF Disk
    <2>1. PICK i \in 1..Len(fs[c]) : l = fs[c][i]
        BY <2>0
    <2>2. i \notin 1..cut[c]
        BY <1>3, <2>1 DEF Removed
    <2>3. i - cut[c] \in 1..(Len(fs[c]) - cut[c]) /\ (i - cut[c]) + cut[c] = i
        BY <1>0, <2>2
    <2>4. l = gs[c][i - cut[c]] /\ i - cut[c] \in 1..Len(gs[c])
        <3>1. /\ Len(gs[c]) = Len(fs[c]) - cut[c]
              /\ \A j \in 1..Len(gs[c]) : gs[c][j] = fs[c][j + cut[c]]
            BY CutOf
        <3> HIDE DEF gs
        <3> QED BY <2>1, <2>3, <3>1
    <2> QED BY <2>4 DEF Disk
<1> QED BY <1>1, <1>2, <1>3

LEMMA AppendOf ==
    ASSUME NEW fs \in Files, NEW c \in Classes, NEW l \in Line, NEW gs,
           gs = [fs EXCEPT ![c] = Append(fs[c], l)]
    PROVE  /\ gs \in Files
           /\ \A b \in Classes \ {c} : gs[b] = fs[b]
           /\ gs[c] = Append(fs[c], l)
           /\ Len(gs[c]) = Len(fs[c]) + 1
           /\ gs[c][Len(fs[c]) + 1] = l
           /\ \A b \in Classes : \A i \in 1..Len(fs[b]) : gs[b][i] = fs[b][i] /\ i \in 1..Len(gs[b])
           /\ \A b \in Classes : \A i \in 1..Len(gs[b]) :
                 i \in 1..Len(fs[b]) \/ (b = c /\ i = Len(fs[c]) + 1)
<1>1. fs[c] \in Seq(Line) /\ Len(fs[c]) \in Nat
    BY Lined
<1> DEFINE q == Append(fs[c], l)
<1>2. /\ q \in Seq(Line) /\ Len(q) = Len(fs[c]) + 1 /\ q[Len(fs[c]) + 1] = l
      /\ \A i \in 1..Len(fs[c]) : q[i] = fs[c][i]
    BY <1>1, AppendProperties
<1> HIDE DEF q
<1>3. gs = [fs EXCEPT ![c] = q]
    BY DEF q
<1>4. gs \in Files /\ gs[c] = q /\ \A b \in Classes \ {c} : gs[b] = fs[b]
    BY <1>2, <1>3 DEF Files
<1>5. \A b \in Classes : \A i \in 1..Len(fs[b]) : gs[b][i] = fs[b][i] /\ i \in 1..Len(gs[b])
    BY <1>1, <1>2, <1>4
<1>6. \A b \in Classes : \A i \in 1..Len(gs[b]) : i \in 1..Len(fs[b]) \/ (b = c /\ i = Len(fs[c]) + 1)
    BY <1>1, <1>2, <1>4
<1> QED BY <1>2, <1>4, <1>5, <1>6 DEF q

LEMMA AppendKeeps ==
    ASSUME NEW fs \in Files, NEW c \in Classes, NEW l \in Line, NEW gs,
           gs = [fs EXCEPT ![c] = Append(fs[c], l)],
           Ordered(fs), \A i \in 1..Len(fs[c]) : fs[c][i].seq < l.seq /\ fs[c][i].id < l.id
    PROVE  Ordered(gs) /\ Disk(gs) = Disk(fs) \cup {l}
<1>0. \A b \in Classes : Len(fs[b]) \in Nat
    BY Lined
<1>1. ASSUME NEW b \in Classes, NEW i \in 1..Len(gs[b]), NEW j \in 1..Len(gs[b]), i < j
      PROVE  gs[b][i].seq < gs[b][j].seq /\ gs[b][i].id < gs[b][j].id
    <2>1. i \in 1..Len(fs[b])
        BY <1>0, <1>1, AppendOf
    <2>2. CASE j \in 1..Len(fs[b])
        BY <1>1, <2>1, <2>2, AppendOf DEF Ordered
    <2>3. CASE b = c /\ j = Len(fs[c]) + 1
        BY <2>1, <2>3, AppendOf
    <2> QED BY <2>2, <2>3, AppendOf
<1>2. Disk(gs) \subseteq Disk(fs) \cup {l}
    <2> SUFFICES ASSUME NEW x \in Disk(gs) PROVE x \in Disk(fs) \cup {l}
        OBVIOUS
    <2>0. PICK b \in Classes : \E i \in 1..Len(gs[b]) : x = gs[b][i]
        BY DEF Disk
    <2>1. PICK i \in 1..Len(gs[b]) : x = gs[b][i]
        BY <2>0
    <2>2. CASE i \in 1..Len(fs[b])
        BY <2>1, <2>2, AppendOf DEF Disk
    <2>3. CASE b = c /\ i = Len(fs[c]) + 1
        BY <2>1, <2>3, AppendOf
    <2> QED BY <2>2, <2>3, AppendOf
<1>3. Disk(fs) \subseteq Disk(gs)
    BY AppendOf DEF Disk
<1>4. l \in Disk(gs)
    <2>1. Len(fs[c]) + 1 \in 1..Len(gs[c]) /\ gs[c][Len(fs[c]) + 1] = l
        BY <1>0, AppendOf
    <2> QED BY <2>1 DEF Disk
<1> QED BY <1>1, <1>2, <1>3, <1>4 DEF Ordered

-----------------------------------------------------------------------------
(* Initial states, and steps that leave a part of the invariant alone *)

LEMMA InitHolds == Init => IInv
<1> SUFFICES ASSUME Init PROVE IInv
    OBVIOUS
<1>1. /\ <<>> \in Seq(Classes) /\ <<>> \in Seq(Nat) /\ <<>> \in Seq(Line) /\ Len(<<>>) = 0
      /\ Zero \in [Classes -> Nat] /\ \A c \in Classes : Zero[c] = 0
    BY EmptySeq DEF Zero
<1>2. TypeInv
    BY <1>1 DEF Init, TypeInv, Files
<1>3. \A c \in Classes : files[c] = <<>> /\ 1..Len(files[c]) = {}
    BY <1>1 DEF Init
<1>4. 1..Len(class) = {} /\ 1..Len(chan) = {} /\ shed = {}
    BY <1>1 DEF Init
<1>5. FilesInv
    BY <1>3 DEF FilesInv, Ordered, Owned, Below
<1>6. PlaceInv
    BY <1>3, <1>4 DEF PlaceInv
<1>7. OnDisk = {}
    BY <1>3 DEF OnDisk, Lines
<1>8. DiskInv
    BY <1>7, FS_EmptySet, DeliveryAssumption DEF Init, DiskInv, DiskBounded
<1>9. DropsInv
    <2>1. ASSUME NEW c \in Classes PROVE Cardinality({e \in shed : class[e] = c}) = 0
        <3>1. {e \in shed : class[e] = c} = {}
            BY <1>4
        <3> QED BY <3>1, FS_EmptySet
    <2>2. \A c \in Classes : total[c] = 0 /\ reported[c] = 0 /\ heard[c] = 0
        BY <1>1 DEF Init
    <2>3. DropsHeardOnce
        BY <2>1, <2>2 DEF DropsHeardOnce
    <2> QED BY <2>2, <2>3 DEF DropsInv
<1>10. WireInv
    BY DEF Init, WireInv
<1>11. PrefixInv
    <2>1. ASSUME NEW c \in Classes
          PROVE  /\ consumed[c] + taken[c] <= Len(files[c])
                 /\ consumed[c] = 0
                 /\ \A i \in 1..consumed[c] : files[c][i].id \in received
                 /\ \A i \in 1..(consumed[c] + taken[c]) : files[c][i].id \in received \cup batch
        <3>1. consumed[c] = 0 /\ taken[c] = 0 /\ Len(files[c]) = 0
            BY <1>1, <1>3 DEF Init
        <3> QED BY <3>1
    <2> QED BY <2>1 DEF PrefixInv, Prefix
<1>12. KeptInv
    BY <1>4 DEF KeptInv, Emitted
<1> QED BY <1>2, <1>5, <1>6, <1>8, <1>9, <1>10, <1>11, <1>12 DEF IInv

LEMMA FrameLines ==
    ASSUME IInv, UNCHANGED <<class, chan, files, next_seq, shed>>
    PROVE  FilesInv' /\ PlaceInv'
<1>1. FilesInv'
    BY DEF IInv, FilesInv, Ordered, Owned, Below
<1>2. PlaceInv'
    BY DEF IInv, PlaceInv
<1> QED BY <1>1, <1>2

LEMMA FrameDisk ==
    ASSUME IInv, UNCHANGED <<files, stored>>, tasks' \subseteq tasks
    PROVE  DiskInv'
<1>1. OnDisk' = OnDisk
    BY DEF OnDisk, Lines
<1> QED BY <1>1 DEF IInv, DiskInv, DiskBounded, Running

LEMMA FrameDrops ==
    ASSUME IInv, UNCHANGED <<class, total, reported, heard, shed, unheard>>
    PROVE  DropsInv'
BY DEF IInv, DropsInv, DropsHeardOnce

LEMMA FrameWire ==
    ASSUME IInv, UNCHANGED <<tasks, batch, taken, answer, received>>
    PROVE  WireInv'
BY DEF IInv, WireInv, Zero

LEMMA FramePrefix ==
    ASSUME IInv, UNCHANGED <<overtaken, consumed, taken, files, batch>>, received \subseteq received'
    PROVE  PrefixInv'
BY DEF IInv, PrefixInv, Prefix, front

LEMMA FrameKept ==
    ASSUME IInv, UNCHANGED <<overtaken, class, chan, files>>,
           received \subseteq received', shed \subseteq shed', gone \subseteq gone'
    PROVE  KeptInv'
<1>1. Emitted' = Emitted /\ Queued' = Queued /\ Buffered' = Buffered
    BY DEF Emitted, Queued, Buffered, OnDisk, Lines
<1> QED BY <1>1 DEF IInv, KeptInv

Untouched == UNCHANGED <<class, chan, files, active, consumed, taken, total, reported, heard, next_seq,
                         overtaken, unheard>>

LEMMA FrameType ==
    ASSUME IInv, Untouched PROVE TypeInv'
BY DEF IInv, TypeInv, Untouched

LEMMA Step_unchanged ==
    ASSUME IInv, \/ UNCHANGED vars \/ revoke_device \/ main_shutdown \/ main_stop_provider
    PROVE  IInv'
<1>1. Untouched /\ UNCHANGED <<stored, tasks, batch, answer, received, shed, gone>>
    BY DEF Untouched, vars, agent, buffer, drops, wire, process, server, history,
           revoke_device, main_shutdown, main_stop_provider
<1>2. /\ UNCHANGED <<class, chan, files, next_seq, shed>> /\ UNCHANGED <<files, stored>>
      /\ UNCHANGED <<class, total, reported, heard, shed, unheard>>
      /\ UNCHANGED <<tasks, batch, taken, answer, received>>
      /\ UNCHANGED <<overtaken, consumed, taken, files, batch>> /\ UNCHANGED <<overtaken, class, chan, files>>
      /\ tasks' \subseteq tasks
      /\ received \subseteq received' /\ shed \subseteq shed' /\ gone \subseteq gone'
    BY <1>1 DEF Untouched
<1> QED BY <1>1, <1>2, FrameType, FrameLines, FrameDisk, FrameDrops, FrameWire, FramePrefix,
           FrameKept DEF IInv

-----------------------------------------------------------------------------
(* The answers, and attempts that end without a 202 *)

LEMMA Step_answer ==
    ASSUME IInv, \/ handle_batch \/ handle_batch_lost \/ read_batch_too_large
                 \/ refuse \/ verify_device_revoked
    PROVE  IInv'
<1>1. /\ Untouched /\ UNCHANGED <<stored, tasks, batch, shed, gone>>
      /\ received \subseteq received' /\ batch # {}
      /\ answer' = "202" => batch \subseteq received'
    BY DEF handle_batch, handle_batch_lost, read_batch_too_large, refuse, verify_device_revoked,
       Answer,
           Untouched, buffer, drops, process, history
<1>2. /\ UNCHANGED <<class, chan, files, next_seq, shed>> /\ UNCHANGED <<files, stored>>
      /\ UNCHANGED <<class, total, reported, heard, shed, unheard>>
      /\ UNCHANGED <<overtaken, consumed, taken, files, batch>> /\ UNCHANGED <<overtaken, class, chan, files>>
      /\ tasks' \subseteq tasks /\ shed \subseteq shed' /\ gone \subseteq gone'
    BY <1>1 DEF Untouched
<1>3. WireInv'
    BY <1>1 DEF IInv, WireInv, Untouched
<1> QED BY <1>1, <1>2, <1>3, FrameType, FrameLines, FrameDisk, FrameDrops, FramePrefix, FrameKept
           DEF IInv

\* An attempt ends, or the process with it: the lines on the wire are pending again
LEMMA AttemptEnds ==
    ASSUME IInv, EndAttempt, UNCHANGED <<overtaken, consumed, files, received>>
    PROVE  PrefixInv' /\ WireInv' /\ taken' \in [Classes -> Nat]
<1>1. batch' = {} /\ taken' = Zero /\ answer' = "none" /\ Zero' = Zero
    BY DEF EndAttempt, Zero
<1>2. WireInv'
    BY <1>1 DEF WireInv
<1>3. taken' \in [Classes -> Nat]
    BY <1>1 DEF Zero
<1>4. ASSUME ~overtaken', NEW c \in Classes
      PROVE  /\ consumed'[c] + taken'[c] <= Len(files'[c])
             /\ consumed'[c] = 0 \/ consumed'[c] < front(files[c])
             /\ \A i \in 1..consumed'[c] : files'[c][i].id \in received'
             /\ \A i \in 1..(consumed'[c] + taken'[c]) : files'[c][i].id \in received' \cup batch'
    <2>1. taken'[c] = 0 /\ consumed[c] \in Nat /\ taken[c] \in Nat /\ Len(files[c]) \in Nat
        BY <1>1, Lined DEF Zero, IInv, TypeInv
    <2>2. /\ consumed[c] + taken[c] <= Len(files[c])
          /\ consumed[c] = 0 \/ consumed[c] < front(files[c])
          /\ \A i \in 1..consumed[c] : files[c][i].id \in received
        BY <1>4 DEF IInv, PrefixInv, Prefix
    <2>3. consumed'[c] + taken'[c] = consumed[c] /\ consumed[c] <= Len(files[c])
        BY <2>1, <2>2
    <2> QED BY <2>2, <2>3
<1>5. PrefixInv'
    BY <1>4 DEF PrefixInv, Prefix, front
<1> QED BY <1>2, <1>3, <1>5

LEMMA Step_attempt_failed ==
    ASSUME IInv, deliver_413 \/ deliver_backoff \/ deliver_revoked
    PROVE  IInv'
<1>1. /\ EndAttempt /\ tasks' \subseteq tasks
      /\ UNCHANGED <<class, chan, files, active, consumed, total, reported, heard, next_seq, overtaken, unheard,
                     stored, received, shed, gone>>
    BY DEF deliver_413, deliver_backoff, deliver_revoked, buffer, drops, server, history, process
<1>2. PrefixInv' /\ WireInv' /\ taken' \in [Classes -> Nat]
    BY <1>1, AttemptEnds
<1>3. TypeInv'
    BY <1>1, <1>2 DEF IInv, TypeInv
<1>4. FilesInv' /\ PlaceInv' /\ DiskInv' /\ DropsInv' /\ KeptInv'
    BY <1>1, FrameLines, FrameDisk, FrameDrops, FrameKept
<1> QED BY <1>2, <1>3, <1>4 DEF IInv

LEMMA Step_EndTask ==
    ASSUME IInv, drain_ends \/ delivery_ends \/ heartbeat_ends
    PROVE  IInv'
<1>1. /\ Untouched /\ tasks' \subseteq tasks /\ UNCHANGED <<stored, batch, answer, received, shed, gone>>
      /\ "delivery" \notin tasks' => batch = {} \/ "delivery" \notin tasks
    BY DEF drain_ends, delivery_ends, heartbeat_ends, EndTask, Untouched, buffer, drops, wire,
       server, history
<1>2. /\ UNCHANGED <<class, chan, files, next_seq, shed>> /\ UNCHANGED <<files, stored>>
      /\ UNCHANGED <<class, total, reported, heard, shed, unheard>>
      /\ UNCHANGED <<overtaken, consumed, taken, files, batch>> /\ UNCHANGED <<overtaken, class, chan, files>>
      /\ received \subseteq received' /\ shed \subseteq shed' /\ gone \subseteq gone'
    BY <1>1 DEF Untouched
<1>3. WireInv'
    BY <1>1 DEF IInv, WireInv, Untouched, Zero
<1> QED BY <1>1, <1>2, <1>3, FrameType, FrameLines, FrameDisk, FrameDrops, FramePrefix, FrameKept
           DEF IInv

LEMMA Step_crash ==
    ASSUME IInv, crash PROVE IInv'
<1>1. /\ EndAttempt /\ tasks' = {} /\ chan' = <<>> /\ gone' = gone \cup Queued /\ unheard' = TRUE
      /\ UNCHANGED <<class, files, active, consumed, total, reported, heard, next_seq, overtaken,
                     stored, received, shed>>
    BY DEF crash, EndAttempt, Queued, buffer, drops, server
<1>2. PrefixInv' /\ WireInv' /\ taken' \in [Classes -> Nat]
    BY <1>1, AttemptEnds
<1>3. <<>> \in Seq(Nat) /\ 1..Len(<<>>) = {}
    BY EmptySeq
<1>4. TypeInv'
    BY <1>1, <1>2, <1>3 DEF IInv, TypeInv
<1>5. FilesInv'
    BY <1>1 DEF IInv, FilesInv, Ordered, Owned, Below
<1>6. PlaceInv'
    BY <1>1, <1>3 DEF IInv, PlaceInv
<1>7. DiskInv'
    BY <1>1, FrameDisk
<1>8. DropsInv'
    BY <1>1 DEF IInv, DropsInv, DropsHeardOnce
<1>9. KeptInv'
    <2>1. Emitted' = Emitted /\ Buffered' = Buffered
        BY <1>1 DEF Emitted, Buffered, OnDisk, Lines
    <2> QED BY <1>1, <2>1 DEF IInv, KeptInv
<1> QED BY <1>2, <1>4, <1>5, <1>6, <1>7, <1>8, <1>9 DEF IInv

-----------------------------------------------------------------------------
(* Drop counts *)

ShedOf(sh, cls, c) == {e \in sh : cls[e] = c}

LEMMA ShedOfSize ==
    ASSUME NEW n \in Nat, NEW sh \in SUBSET (1..n), NEW cls, NEW c
    PROVE  IsFiniteSet(ShedOf(sh, cls, c)) /\ Cardinality(ShedOf(sh, cls, c)) \in Nat
<1>1. IsFiniteSet(1..n)
    BY FS_Interval
<1>2. ShedOf(sh, cls, c) \in SUBSET (1..n)
    BY DEF ShedOf
<1> QED BY <1>1, <1>2, FS_Subset, FS_CardinalityType

\* New events of one class
Fresh(more, sh, cls, b) ==
    /\ IsFiniteSet(sh) /\ IsFiniteSet(more) /\ sh \cap more = {}
    /\ \A e \in more : cls[e] = b

LEMMA ShedGrows ==
    ASSUME NEW sh, NEW more, NEW cls, NEW b, Fresh(more, sh, cls, b)
    PROVE  /\ Cardinality(more) \in Nat
           /\ Cardinality(ShedOf(sh \cup more, cls, b)) = Cardinality(ShedOf(sh, cls, b)) + Cardinality(more)
<1>0. IsFiniteSet(sh) /\ IsFiniteSet(more) /\ sh \cap more = {} /\ \A e \in more : cls[e] = b
    BY DEF Fresh
<1>1. IsFiniteSet(more) /\ Cardinality(more) \in Nat
    BY <1>0, FS_CardinalityType
<1>2. IsFiniteSet(ShedOf(sh, cls, b)) /\ Cardinality(ShedOf(sh, cls, b)) \in Nat
    <2>1. ShedOf(sh, cls, b) \in SUBSET sh
        BY DEF ShedOf
    <2> QED BY <1>0, <2>1, FS_Subset, FS_CardinalityType
<1>3. ShedOf(sh \cup more, cls, b) = ShedOf(sh, cls, b) \cup more
    BY <1>0 DEF ShedOf
<1>4. ShedOf(sh, cls, b) \cap more = {}
    BY <1>0 DEF ShedOf
<1>5. Cardinality(ShedOf(sh, cls, b) \cup more) =
          Cardinality(ShedOf(sh, cls, b)) + Cardinality(more) - Cardinality(ShedOf(sh, cls, b) \cap more)
    BY <1>1, <1>2, FS_Union
<1>6. Cardinality(ShedOf(sh, cls, b) \cup more) = Cardinality(ShedOf(sh, cls, b)) + Cardinality(more)
    <2> DEFINE x == Cardinality(ShedOf(sh, cls, b) \cup more)
               y == Cardinality(ShedOf(sh, cls, b))
               z == Cardinality(more)
    <2>1. x = y + z - 0 /\ y \in Nat /\ z \in Nat
        BY <1>1, <1>2, <1>4, <1>5, FS_EmptySet
    <2> HIDE DEF x, y, z
    <2>2. x = y + z
        BY <2>1
    <2> QED BY <2>2 DEF x, y, z
<1> QED BY <1>1, <1>3, <1>6

\* Events counted as dropped once
LEMMA CountDrop ==
    ASSUME IInv, NEW b \in Classes, NEW D \in SUBSET (1..Len(class)), shed \cap D = {},
           \A e \in D : class[e] = b, count_drop(b, Cardinality(D)), shed' = shed \cup D,
           UNCHANGED <<class, reported, heard, unheard>>
    PROVE  DropsInv' /\ total' \in [Classes -> Nat]
<1>0. Len(class) \in Nat /\ shed \in SUBSET (1..Len(class))
    BY LenProperties DEF IInv, TypeInv, PlaceInv
<1>1. /\ Cardinality(D) \in Nat
      /\ Cardinality(ShedOf(shed \cup D, class, b)) = Cardinality(ShedOf(shed, class, b)) + Cardinality(D)
      /\ \A c : c # b => ShedOf(shed \cup D, class, c) = ShedOf(shed, class, c)
    <2>1. IsFiniteSet(1..Len(class))
        <3> DEFINE n == Len(class)
        <3>1. n \in Nat
            BY <1>0
        <3> HIDE DEF n
        <3>2. IsFiniteSet(1..n)
            BY <3>1, FS_Interval
        <3> QED BY <3>2 DEF n
    <2>2. IsFiniteSet(shed) /\ IsFiniteSet(D)
        BY <1>0, <2>1, FS_Subset
    <2>3. Fresh(D, shed, class, b)
        BY <2>2 DEF Fresh
    <2>4. Cardinality(D) \in Nat
        BY ONLY <2>3, ShedGrows
    <2>5. Cardinality(ShedOf(shed \cup D, class, b)) = Cardinality(ShedOf(shed, class, b)) + Cardinality(D)
        BY ONLY <2>3, ShedGrows
    <2>6. \A c : c # b => ShedOf(shed \cup D, class, c) = ShedOf(shed, class, c)
        BY DEF ShedOf
    <2> QED BY <2>4, <2>5, <2>6
<1>2. total' = [total EXCEPT ![b] = @ + Cardinality(D)]
    BY DEF count_drop
<1>3. total' \in [Classes -> Nat] /\ total'[b] = total[b] + Cardinality(D)
      /\ \A c \in Classes \ {b} : total'[c] = total[c]
    BY <1>1, <1>2 DEF IInv, TypeInv
<1>4. ASSUME NEW c \in Classes
      PROVE  LET known == heard[c] + total'[c] - reported[c]
                 counted == Cardinality(ShedOf(shed', class, c))
             IN  reported[c] <= total'[c] /\ known <= counted /\ (~unheard => known = counted)
    <2> DEFINE old == Cardinality(ShedOf(shed, class, c))
               new == Cardinality(ShedOf(shed \cup D, class, c))
    <2>0. old \in Nat
        BY <1>0, ShedOfSize
    <2>1. /\ heard[c] \in Nat /\ reported[c] \in Nat /\ total[c] \in Nat
          /\ reported[c] <= total[c] /\ heard[c] + total[c] - reported[c] <= old
          /\ ~unheard => heard[c] + total[c] - reported[c] = old
        BY DEF IInv, TypeInv, DropsInv, DropsHeardOnce, ShedOf
    <2>2. PICK d \in Nat : total'[c] = total[c] + d /\ new = old + d
        <3>1. CASE c = b
            <4>1. total'[c] = total[c] + Cardinality(D) /\ new = old + Cardinality(D)
                BY <1>1, <1>3, <3>1
            <4> QED BY <1>1, <4>1
        <3>2. CASE c # b
            <4>1. 0 \in Nat /\ total'[c] = total[c] + 0 /\ new = old + 0
                <5>1. total'[c] = total[c] /\ new = old
                    BY <1>1, <1>3, <3>2
                <5> HIDE DEF old, new
                <5> QED BY <2>0, <2>1, <5>1
            <4> QED BY <4>1
        <3> QED BY <3>1, <3>2
    <2> DEFINE r == reported[c]  h == heard[c]  t == total[c]  u == total'[c]
    <2>4. /\ h \in Nat /\ r \in Nat /\ t \in Nat /\ r <= t /\ h + t - r <= old
          /\ ~unheard => h + t - r = old
        BY <2>1
    <2>5. u = t + d /\ new = old + d
        BY <2>2
    <2> HIDE DEF old, new, r, h, t, u
    <2>6. r <= u /\ h + u - r <= new /\ (~unheard => h + u - r = new)
        BY <2>0, <2>4, <2>5
    <2>3. /\ reported[c] <= total'[c] /\ heard[c] + total'[c] - reported[c] <= new
          /\ ~unheard => heard[c] + total'[c] - reported[c] = new
        BY <2>6 DEF r, h, u
    <2> QED BY <2>3 DEF new
<1>5. DropsInv'
    BY <1>4 DEF DropsInv, DropsHeardOnce, ShedOf
<1> QED BY <1>3, <1>5

LEMMA Step_heartbeat ==
    ASSUME IInv, heartbeat_ok \/ heartbeat_failed \/ heartbeat_revoked
    PROVE  IInv'
<1>1. PICK got \in BOOLEAN, lost \in BOOLEAN, rev \in BOOLEAN :
          Heartbeat(got, lost, rev) /\ (got \/ lost)
    <2>1. CASE heartbeat_ok
        BY <2>1 DEF heartbeat_ok
    <2>2. CASE heartbeat_failed
        BY <2>2 DEF heartbeat_failed
    <2>3. CASE heartbeat_revoked
        BY <2>3 DEF heartbeat_revoked
    <2> QED BY <2>1, <2>2, <2>3
<1>2. /\ UNCHANGED <<class, chan, files, active, consumed, taken, total, next_seq, overtaken,
                     stored, batch, answer, received, shed, gone>>
      /\ tasks' \subseteq tasks /\ ("delivery" \in tasks => "delivery" \in tasks')
      /\ reported' = total
      /\ heard' = [c \in Classes |-> heard[c] + IF got THEN total[c] - reported[c] ELSE 0]
      /\ unheard' = (unheard \/ (lost /\ total # reported))
    BY <1>1 DEF Heartbeat, take_delta, buffer, wire
<1>3. ASSUME NEW c \in Classes
      PROVE  /\ heard'[c] \in Nat
             /\ LET known == heard'[c] + total[c] - total[c]
                    counted == Cardinality(ShedOf(shed, class, c))
                IN  known <= counted /\ (~unheard' => known = counted)
    <2> DEFINE count == Cardinality(ShedOf(shed, class, c))
    <2>0. count \in Nat
        <3>1. Len(class) \in Nat /\ shed \in SUBSET (1..Len(class))
            BY LenProperties DEF IInv, TypeInv, PlaceInv
        <3> QED BY <3>1, ShedOfSize
    <2>1. /\ heard[c] \in Nat /\ reported[c] \in Nat /\ total[c] \in Nat
          /\ reported[c] <= total[c] /\ heard[c] + total[c] - reported[c] <= count
          /\ ~unheard => heard[c] + total[c] - reported[c] = count
        BY DEF IInv, TypeInv, DropsInv, DropsHeardOnce, ShedOf
    <2> HIDE DEF count
    <2>2. CASE got
        <3>1. heard'[c] = heard[c] + (total[c] - reported[c])
            BY <1>2, <2>2
        <3>2. ~unheard' => ~unheard
            BY <1>2
        <3> QED BY <2>0, <2>1, <3>1, <3>2 DEF count
    <2>3. CASE ~got
        <3>1. heard'[c] = heard[c] + 0
            BY <1>2, <2>3
        <3>2. ~unheard' => ~unheard /\ total[c] = reported[c]
            BY <1>1, <1>2, <2>3
        <3> QED BY <2>0, <2>1, <3>1, <3>2 DEF count
    <2> QED BY <2>2, <2>3
<1>4. heard' \in [Classes -> Nat] /\ unheard' \in BOOLEAN
    BY <1>2, <1>3 DEF IInv, TypeInv
<1>5. TypeInv'
    BY <1>2, <1>4 DEF IInv, TypeInv
<1>6. DropsInv'
    <2>1. \A c \in Classes : reported'[c] <= total'[c]
        BY <1>2 DEF IInv, TypeInv
    <2>2. DropsHeardOnce'
        BY <1>2, <1>3 DEF DropsHeardOnce, ShedOf
    <2> QED BY <2>1, <2>2 DEF DropsInv
<1>7. WireInv'
    BY <1>2 DEF IInv, WireInv, Zero
<1>8. /\ UNCHANGED <<class, chan, files, next_seq, shed>> /\ UNCHANGED <<files, stored>>
      /\ UNCHANGED <<overtaken, consumed, taken, files, batch>> /\ UNCHANGED <<overtaken, class, chan, files>>
      /\ received \subseteq received' /\ shed \subseteq shed' /\ gone \subseteq gone'
    BY <1>2
<1>9. FilesInv' /\ PlaceInv' /\ DiskInv' /\ PrefixInv' /\ KeptInv'
    BY <1>2, <1>8, FrameLines, FrameDisk, FramePrefix, FrameKept
<1> QED BY <1>5, <1>6, <1>7, <1>9 DEF IInv

-----------------------------------------------------------------------------
(* Starting again *)

LEMMA RecoveredSeq ==
    ASSUME IInv
    PROVE  recovered_seq \in Nat /\ Below(files, recovered_seq)
<1> DEFINE S == {l.seq : l \in OnDisk}
<1>1. \A c \in Classes : \A i \in 1..Len(files[c]) :
          files[c][i].seq \in Nat /\ files[c][i].seq < next_seq /\ files[c][i] \in OnDisk
    <2> SUFFICES ASSUME NEW c \in Classes, NEW i \in 1..Len(files[c])
                 PROVE  files[c][i].seq \in Nat /\ files[c][i].seq < next_seq /\ files[c][i] \in OnDisk
        OBVIOUS
    <2>1. files[c][i].seq \in Nat
        BY Lined DEF IInv, TypeInv
    <2>2. files[c][i].seq < next_seq
        BY DEF IInv, FilesInv, Below
    <2>3. files[c][i] \in OnDisk
        BY DEF OnDisk, Lines
    <2> QED BY <2>1, <2>2, <2>3
<1>2. \A s \in S : s \in Nat /\ s <= next_seq
    <2> SUFFICES ASSUME NEW l \in OnDisk PROVE l.seq \in Nat /\ l.seq <= next_seq
        OBVIOUS
    <2>1. PICK c \in Classes : \E i \in 1..Len(files[c]) : l = files[c][i]
        BY DEF OnDisk, Lines
    <2>2. l.seq \in Nat /\ l.seq < next_seq /\ next_seq \in Nat
        BY <1>1, <2>1 DEF IInv, TypeInv
    <2> QED BY <2>2
<1>3. CASE OnDisk = {}
    <2>1. recovered_seq = 1
        BY <1>3 DEF recovered_seq, MaxSeq
    <2> QED BY <1>1, <1>3, <2>1 DEF Below
<1>4. CASE OnDisk # {}
    <2> DEFINE m == MaxSeq(OnDisk)
    <2>1. \E s \in S : \A x \in S : x <= s
        <3>1. S \in SUBSET Nat /\ S # {} /\ next_seq \in Nat
            BY <1>2, <1>4 DEF IInv, TypeInv
        <3> HIDE DEF S
        <3> QED BY <1>2, <3>1, Maximum
    <2>2. \E s \in S : \A l \in OnDisk : l.seq <= s
        BY <2>1
    <2>3. m = CHOOSE s \in S : \A l \in OnDisk : l.seq <= s
        BY <1>4 DEF MaxSeq
    <2> HIDE DEF m, S
    <2>4. m \in S /\ \A l \in OnDisk : l.seq <= m
        BY <2>2, <2>3
    <2>5. m \in Nat /\ recovered_seq = m + 1
        BY <1>2, <2>4 DEF recovered_seq, m
    <2> QED BY <1>1, <2>4, <2>5 DEF Below
<1> QED BY <1>3, <1>4

LEMMA Step_start ==
    ASSUME IInv, start PROVE IInv'
<1>1. /\ tasks = {} /\ active' = Zero /\ consumed' = Zero /\ total' = Zero /\ reported' = Zero
      /\ next_seq' = recovered_seq /\ stored' = Cardinality(OnDisk) /\ unheard' = TRUE
      /\ UNCHANGED <<class, chan, files, batch, taken, answer, received, heard, shed, gone, overtaken>>
    BY DEF start, Running, wire, server, recovered_bytes
<1>2. Zero \in [Classes -> Nat] /\ \A c \in Classes : Zero[c] = 0
    BY DEF Zero
<1>3. batch = {} /\ taken = Zero
    BY <1>1 DEF IInv, WireInv
<1>4. recovered_seq \in Nat /\ Below(files, recovered_seq)
    BY RecoveredSeq
<1>5. TypeInv'
    BY <1>1, <1>2, <1>4 DEF IInv, TypeInv
<1>6. FilesInv'
    BY <1>1, <1>4 DEF IInv, FilesInv, Ordered, Owned, Below
<1>7. PlaceInv'
    BY <1>1 DEF IInv, PlaceInv
<1>8. DiskInv'
    <2>1. OnDisk' = OnDisk
        BY <1>1 DEF OnDisk, Lines
    <2> QED BY <1>1, <2>1 DEF IInv, DiskInv, DiskBounded
<1>9. DropsInv'
    <2>1. ASSUME NEW c \in Classes
          PROVE  heard[c] + 0 - 0 <= Cardinality(ShedOf(shed, class, c))
        <3> DEFINE count == Cardinality(ShedOf(shed, class, c))
        <3>0. count \in Nat
            <4>1. Len(class) \in Nat /\ shed \in SUBSET (1..Len(class))
                BY LenProperties DEF IInv, TypeInv, PlaceInv
            <4> QED BY <4>1, ShedOfSize
        <3>1. /\ heard[c] \in Nat /\ reported[c] \in Nat /\ total[c] \in Nat
              /\ reported[c] <= total[c] /\ heard[c] + total[c] - reported[c] <= count
            BY DEF IInv, TypeInv, DropsInv, DropsHeardOnce, ShedOf
        <3> HIDE DEF count
        <3>2. heard[c] + 0 - 0 <= count
            BY <3>0, <3>1
        <3> QED BY <3>2 DEF count
    <2>2. DropsHeardOnce'
        BY <1>1, <1>2, <2>1 DEF DropsHeardOnce, ShedOf
    <2>3. \A c \in Classes : reported'[c] <= total'[c]
        BY <1>1, <1>2
    <2> QED BY <2>2, <2>3 DEF DropsInv
<1>10. WireInv'
    BY <1>1, <1>3 DEF IInv, WireInv, Zero
<1>11. PrefixInv'
    <2>1. ASSUME NEW c \in Classes
          PROVE  /\ consumed'[c] = 0 /\ consumed'[c] + taken'[c] <= Len(files'[c])
                 /\ 1..consumed'[c] = {} /\ 1..(consumed'[c] + taken'[c]) = {}
        <3>1. consumed'[c] = 0 /\ taken'[c] = 0 /\ Len(files'[c]) \in Nat
            BY <1>1, <1>2, <1>3, Lined DEF IInv, TypeInv
        <3> QED BY <3>1
    <2> QED BY <2>1 DEF PrefixInv, Prefix
<1>12. KeptInv'
    BY <1>1, FrameKept
<1> QED BY <1>5, <1>6, <1>7, <1>8, <1>9, <1>10, <1>11, <1>12 DEF IInv

-----------------------------------------------------------------------------
(* The channel *)

LEMMA Step_send_blocking ==
    ASSUME IInv, NEW c \in Classes, send_blocking(c)
    PROVE  IInv'
<1> DEFINE n == Len(class)  m == Len(chan)
<1>1. /\ class' = Append(class, c) /\ chan' = Append(chan, n + 1)
      /\ UNCHANGED <<files, active, consumed, taken, total, reported, heard, next_seq, overtaken, unheard,
                     stored, tasks, batch, answer, received, shed, gone>>
    BY DEF send_blocking, buffer, drops, wire, process, server, history
<1>2. class \in Seq(Classes) /\ chan \in Seq(Nat) /\ n \in Nat /\ m \in Nat /\ n + 1 \in Nat
    BY LenProperties DEF IInv, TypeInv
<1>3. /\ class' \in Seq(Classes) /\ Len(class') = n + 1 /\ class'[n + 1] = c
      /\ \A i \in 1..n : class'[i] = class[i]
    BY <1>1, <1>2, AppendProperties
<1>4. /\ chan' \in Seq(Nat) /\ Len(chan') = m + 1 /\ chan'[m + 1] = n + 1
      /\ \A i \in 1..m : chan'[i] = chan[i]
    BY <1>1, <1>2, AppendProperties
<1>5. 1..Len(class') = (1..n) \cup {n + 1} /\ 1..Len(chan') = (1..m) \cup {m + 1}
    BY <1>2, <1>3, <1>4
<1>6. TypeInv'
    BY <1>1, <1>3, <1>4 DEF IInv, TypeInv
<1>7. FilesInv'
    BY <1>1, <1>3, <1>5 DEF IInv, FilesInv, Ordered, Owned, Below
<1>8. PlaceInv'
    <2>1. /\ \A i \in 1..m : chan[i] \in 1..n
          /\ shed \subseteq 1..n
          /\ \A b \in Classes : \A i \in 1..Len(files[b]) : files[b][i].id \in 1..n
        BY DEF IInv, PlaceInv, FilesInv, Owned
    <2>2. \A x \in 1..n : x < n + 1
        BY <1>2
    <2>3. ASSUME NEW i \in 1..Len(chan'), NEW j \in 1..Len(chan'), i < j PROVE chan'[i] < chan'[j]
        <3>1. i \in 1..m
            BY <1>2, <1>4, <2>3
        <3>2. CASE j \in 1..m
            BY <1>4, <2>3, <3>1, <3>2 DEF IInv, PlaceInv
        <3>3. CASE j = m + 1
            BY <1>4, <2>1, <2>2, <3>1, <3>3
        <3> QED BY <1>5, <3>2, <3>3
    <2>4. ASSUME NEW j \in 1..Len(chan')
          PROVE  /\ chan'[j] \in 1..Len(class')
                 /\ \A x \in shed : x < chan'[j]
                 /\ \A b \in Classes : \A i \in 1..Len(files[b]) : files[b][i].id < chan'[j]
        <3>1. CASE j \in 1..m
            BY <1>4, <1>5, <2>1, <3>1 DEF IInv, PlaceInv
        <3>2. CASE j = m + 1
            BY <1>4, <1>5, <2>1, <2>2, <3>2
        <3> QED BY <1>5, <3>1, <3>2
    <2>5. shed \subseteq 1..Len(class')
        BY <1>5, <2>1
    <2> QED BY <1>1, <2>3, <2>4, <2>5 DEF IInv, PlaceInv
<1>9. DropsInv'
    <2>1. \A b \in Classes : {e \in shed : class'[e] = b} = {e \in shed : class[e] = b}
        BY <1>3 DEF IInv, PlaceInv
    <2> QED BY <1>1, <2>1 DEF IInv, DropsInv, DropsHeardOnce
<1>10. DiskInv' /\ WireInv' /\ PrefixInv'
    BY <1>1, FrameDisk, FrameWire, FramePrefix
<1>11. KeptInv'
    <2>1. Emitted' = Emitted \cup {n + 1} /\ Buffered' = Buffered
        BY <1>1, <1>5 DEF Emitted, Buffered, OnDisk, Lines
    <2>2. Queued \cup {n + 1} \subseteq Queued'
        BY <1>4, <1>5 DEF Queued
    <2> QED BY <1>1, <2>1, <2>2 DEF IInv, KeptInv
<1> QED BY <1>6, <1>7, <1>8, <1>9, <1>10, <1>11 DEF IInv

-----------------------------------------------------------------------------
(* The drain task *)

LEMMA HeadFacts ==
    ASSUME IInv, chan # <<>>, chan' = Tail(chan)
    PROVE  /\ Head(chan) \in 1..Len(class) /\ class[Head(chan)] \in Classes
           /\ chan' \in Seq(Nat)
           /\ \A i, j \in 1..Len(chan') : i < j => chan'[i] < chan'[j]
           /\ \A j \in 1..Len(chan') : chan'[j] \in 1..Len(class) /\ Head(chan) < chan'[j]
           /\ \A x \in shed : x < Head(chan)
           /\ \A c \in Classes : \A i \in 1..Len(files[c]) : files[c][i].id < Head(chan)
           /\ Queued \subseteq Queued' \cup {Head(chan)}
<1> DEFINE h == Head(chan)  m == Len(chan)
<1>1. chan \in Seq(Nat) /\ class \in Seq(Classes) /\ m \in Nat /\ m >= 1
    BY LenProperties, EmptySeq DEF IInv, TypeInv
<1>2. chan' \in Seq(Nat) /\ Len(chan') = m - 1 /\ \A i \in 1..Len(chan') : chan'[i] = chan[i + 1]
    BY <1>1, HeadTailProperties
<1>3. h = chan[1]
    BY <1>1
<1>4. 1 \in 1..m /\ \A i \in 1..Len(chan') : i + 1 \in 1..m /\ 1 < i + 1
    BY <1>1, <1>2
<1> HIDE DEF h, m
<1>5. /\ h \in 1..Len(class)
      /\ \A x \in shed : x < h
      /\ \A c \in Classes : \A i \in 1..Len(files[c]) : files[c][i].id < h
    BY <1>3, <1>4 DEF IInv, PlaceInv, m
<1>6. class[h] \in Classes
    BY <1>1, <1>5, ElementOfSeq
<1>7. ASSUME NEW i \in 1..Len(chan'), NEW j \in 1..Len(chan'), i < j PROVE chan'[i] < chan'[j]
    <2>1. i + 1 \in 1..m /\ j + 1 \in 1..m /\ i + 1 < j + 1
        BY <1>2, <1>4, <1>7
    <2> QED BY <1>2, <2>1 DEF IInv, PlaceInv, m
<1>8. ASSUME NEW j \in 1..Len(chan') PROVE chan'[j] \in 1..Len(class) /\ h < chan'[j]
    BY <1>2, <1>3, <1>4 DEF IInv, PlaceInv, m
<1>9. Queued \subseteq Queued' \cup {h}
    <2> SUFFICES ASSUME NEW i \in 1..m, i # 1 PROVE chan[i] \in Queued'
        BY <1>3 DEF Queued, m
    <2>1. i - 1 \in 1..Len(chan') /\ (i - 1) + 1 = i
        BY <1>1, <1>2
    <2>2. chan'[i - 1] = chan[i]
        BY <1>2, <2>1
    <2> QED BY <2>1, <2>2 DEF Queued
<1> QED BY <1>2, <1>5, <1>6, <1>7, <1>8, <1>9 DEF h

\* An event that leaves the channel is older than those left in it
LEMMA PlaceStep ==
    ASSUME IInv, chan # <<>>, chan' = Tail(chan), UNCHANGED class,
           \A x \in shed' : x \in 1..Len(class) /\ x <= Head(chan),
           \A c \in Classes : \A i \in 1..Len(files'[c]) :
               files'[c][i].id \in Nat /\ files'[c][i].id <= Head(chan) /\ files'[c][i].id \notin shed'
    PROVE  PlaceInv'
<1> DEFINE h == Head(chan)
<1>1. /\ h \in 1..Len(class)
      /\ \A i, j \in 1..Len(chan') : i < j => chan'[i] < chan'[j]
      /\ \A j \in 1..Len(chan') : chan'[j] \in 1..Len(class) /\ h < chan'[j]
    BY HeadFacts
<1> HIDE DEF h
<1>2. Len(class) \in Nat
    BY LenProperties DEF IInv, TypeInv
<1>3. ASSUME NEW j \in 1..Len(chan')
      PROVE  /\ chan'[j] \in 1..Len(class')
             /\ \A x \in shed' : x < chan'[j]
             /\ \A c \in Classes : \A i \in 1..Len(files'[c]) : files'[c][i].id < chan'[j]
    <2>1. h \in Nat /\ chan'[j] \in Nat /\ h < chan'[j] /\ chan'[j] \in 1..Len(class)
        BY <1>1, <1>2
    <2>2. ASSUME NEW x \in shed' PROVE x < chan'[j]
        BY <2>1 DEF h
    <2>3. ASSUME NEW c \in Classes, NEW i \in 1..Len(files'[c]) PROVE files'[c][i].id < chan'[j]
        BY <2>1 DEF h
    <2> QED BY <2>1, <2>2, <2>3
<1>4. shed' \subseteq 1..Len(class')
    OBVIOUS
<1> QED BY <1>1, <1>3, <1>4 DEF PlaceInv

LEMMA Step_enqueue_oversized ==
    ASSUME IInv, enqueue_oversized PROVE IInv'
<1> DEFINE h == Head(chan)
<1>1. /\ chan # <<>> /\ chan' = Tail(chan) /\ shed' = shed \cup {h} /\ count_drop(class[h], 1)
      /\ UNCHANGED <<class, files, active, consumed, taken, reported, heard, next_seq, overtaken, unheard,
                     stored, tasks, batch, answer, received, gone>>
    BY DEF enqueue_oversized, buffer, wire, process, server
<1>2. /\ h \in 1..Len(class) /\ class[h] \in Classes /\ chan' \in Seq(Nat)
      /\ \A x \in shed : x < h
      /\ \A c \in Classes : \A i \in 1..Len(files[c]) : files[c][i].id < h
      /\ Queued \subseteq Queued' \cup {h}
    BY <1>1, HeadFacts
<1> HIDE DEF h
<1>3. h \in Nat
    BY <1>2
<1>4. DropsInv' /\ total' \in [Classes -> Nat]
    <2>1. {h} \in SUBSET (1..Len(class)) /\ \A e \in {h} : class[e] = class[h]
        BY <1>2
    <2>2. shed \cap {h} = {}
        <3>1. h \notin shed
            BY <1>2, <1>3
        <3> QED BY <3>1
    <2>3. Cardinality({h}) = 1
        BY FS_Singleton
    <2>4. count_drop(class[h], Cardinality({h}))
        BY <1>1, <2>3
    <2> QED BY <1>1, <1>2, <2>1, <2>2, <2>4, CountDrop
<1>5. TypeInv'
    BY <1>1, <1>2, <1>4 DEF IInv, TypeInv
<1>6. FilesInv'
    BY <1>1 DEF IInv, FilesInv, Ordered, Owned, Below
<1>7. PlaceInv'
    <2>1. ASSUME NEW x \in shed' PROVE x \in 1..Len(class) /\ x <= h
        <3>1. CASE x \in shed
            BY <1>2, <1>3, <3>1 DEF IInv, PlaceInv
        <3>2. CASE x = h
            BY <1>2, <1>3, <3>2
        <3> QED BY <1>1, <3>1, <3>2
    <2>2. ASSUME NEW c \in Classes, NEW i \in 1..Len(files'[c])
          PROVE  files'[c][i].id \in Nat /\ files'[c][i].id <= h /\ files'[c][i].id \notin shed'
        <3>1. files'[c][i].id \in Nat /\ files'[c][i].id < h
            BY <1>1, <1>2, Lined DEF IInv, TypeInv
        <3>2. files'[c][i].id \notin shed
            BY <1>1 DEF IInv, PlaceInv
        <3> QED BY <1>1, <1>3, <3>1, <3>2
    <2> QED BY <1>1, <2>1, <2>2, PlaceStep DEF h
<1>8. DiskInv' /\ WireInv' /\ PrefixInv'
    BY <1>1, FrameDisk, FrameWire, FramePrefix
<1>9. KeptInv'
    <2>1. Emitted' = Emitted /\ Buffered' = Buffered
        BY <1>1 DEF Emitted, Buffered, OnDisk, Lines
    <2> QED BY <1>1, <1>2, <2>1 DEF IInv, KeptInv
<1> QED BY <1>4, <1>5, <1>6, <1>7, <1>8, <1>9 DEF IInv

LEMMA Step_enqueue_error ==
    ASSUME IInv, enqueue_error PROVE IInv'
<1> DEFINE h == Head(chan)
<1>1. /\ chan # <<>> /\ chan' = Tail(chan) /\ gone' = gone \cup {h}
      /\ UNCHANGED <<class, files, active, consumed, taken, total, reported, heard, next_seq, overtaken, unheard,
                     stored, tasks, batch, answer, received, shed>>
    BY DEF enqueue_error, append_error, drops, wire, process, server
<1>2. /\ h \in 1..Len(class) /\ chan' \in Seq(Nat)
      /\ \A x \in shed : x < h
      /\ \A c \in Classes : \A i \in 1..Len(files[c]) : files[c][i].id < h
      /\ Queued \subseteq Queued' \cup {h}
    BY <1>1, HeadFacts
<1> HIDE DEF h
<1>3. h \in Nat
    BY <1>2
<1>4. DropsInv'
    BY <1>1, FrameDrops
<1>5. TypeInv'
    BY <1>1, <1>2 DEF IInv, TypeInv
<1>6. FilesInv'
    BY <1>1 DEF IInv, FilesInv, Ordered, Owned, Below
<1>7. PlaceInv'
    <2>1. ASSUME NEW x \in shed' PROVE x \in 1..Len(class) /\ x <= h
        BY <1>1, <1>2, <1>3 DEF IInv, PlaceInv
    <2>2. ASSUME NEW c \in Classes, NEW i \in 1..Len(files'[c])
          PROVE  files'[c][i].id \in Nat /\ files'[c][i].id <= h /\ files'[c][i].id \notin shed'
        <3>1. files'[c][i].id \in Nat /\ files'[c][i].id < h
            BY <1>1, <1>2, Lined DEF IInv, TypeInv
        <3>2. files'[c][i].id \notin shed
            BY <1>1 DEF IInv, PlaceInv
        <3> QED BY <1>1, <1>3, <3>1, <3>2
    <2> QED BY <1>1, <2>1, <2>2, PlaceStep DEF h
<1>8. DiskInv' /\ WireInv' /\ PrefixInv'
    BY <1>1, FrameDisk, FrameWire, FramePrefix
<1>9. KeptInv'
    <2>1. Emitted' = Emitted /\ Buffered' = Buffered
        BY <1>1 DEF Emitted, Buffered, OnDisk, Lines
    <2> QED BY <1>1, <1>2, <2>1 DEF IInv, KeptInv
<1> QED BY <1>4, <1>5, <1>6, <1>7, <1>8, <1>9 DEF IInv

LEMMA AppendStep ==
    ASSUME NEW fs \in Files, NEW act \in [Classes -> Nat], next_seq \in Nat,
           NEW c \in Classes, NEW e \in Nat, append(c, e, fs, act)
    PROVE  /\ \E l \in Line : l.seq = next_seq /\ l.id = e /\ files' = [fs EXCEPT ![c] = Append(fs[c], l)]
           /\ active' \in [Classes -> Nat] /\ next_seq' = next_seq + 1 /\ next_seq' \in Nat
<1> DEFINE f == IF act[c] = 0 THEN next_seq ELSE act[c]
           l == [seq |-> next_seq, id |-> e, file |-> f]
           q == Append(fs[c], l)
           size == Cardinality({i \in 1..Len(q) : q[i].file = f})
<1>1. /\ files' = [fs EXCEPT ![c] = q] /\ next_seq' = next_seq + 1
      /\ active' = [act EXCEPT ![c] = IF size >= SegmentMax THEN 0 ELSE f]
    BY DEF append
<1>2. f \in Nat
    OBVIOUS
<1> HIDE DEF f
<1>3. l \in Line /\ l.seq = next_seq /\ l.id = e
    BY <1>2 DEF Line
<1>4. (IF size >= SegmentMax THEN 0 ELSE f) \in Nat
    BY <1>2
<1> HIDE DEF l, size
<1>5. active' \in [Classes -> Nat]
    BY <1>1, <1>4
<1>6. next_seq' \in Nat
    BY <1>1
<1>7. \E k \in Line : k.seq = next_seq /\ k.id = e /\ files' = [fs EXCEPT ![c] = Append(fs[c], k)]
    BY <1>1, <1>3
<1> QED BY <1>1, <1>5, <1>6, <1>7

\* The line of the event taken from the channel goes behind those of its class
LEMMA EnqueueStep ==
    ASSUME IInv, chan # <<>>, chan' = Tail(chan), UNCHANGED class, NEW fs \in Files, Ordered(fs),
           SubLines(fs, files), NEW l \in Line, l.seq = next_seq, l.id = Head(chan),
           files' = [fs EXCEPT ![class[Head(chan)]] = Append(fs[class[Head(chan)]], l)],
           next_seq' = next_seq + 1
    PROVE  /\ files' \in Files /\ FilesInv'
           /\ Disk(files') = Disk(fs) \cup {l} /\ l \notin Disk(fs)
           /\ \A b \in Classes : \A i \in 1..Len(files'[b]) :
                 /\ files'[b][i].id \in Nat /\ files'[b][i].id <= Head(chan)
                 /\ \/ files'[b][i].id = Head(chan)
                    \/ \E j \in 1..Len(fs[b]) : files'[b][i] = fs[b][j]
<1> DEFINE h == Head(chan)
           c == class[h]
<1>1. /\ h \in 1..Len(class) /\ c \in Classes
      /\ \A b \in Classes : \A i \in 1..Len(files[b]) : files[b][i].id < h
    BY HeadFacts
<1>2. Len(class) \in Nat /\ next_seq \in Nat /\ files \in Files
    BY LenProperties DEF IInv, TypeInv
<1>3. l.id = h /\ files' = [fs EXCEPT ![c] = Append(fs[c], l)]
    OBVIOUS
<1>4. class[h] = c
    OBVIOUS
<1> HIDE DEF h, c
<1>5. h \in Nat
    BY <1>1, <1>2
<1>6. ASSUME NEW b \in Classes, NEW i \in 1..Len(fs[b])
      PROVE  /\ fs[b][i].seq \in Nat /\ fs[b][i].id \in Nat
             /\ fs[b][i].seq < next_seq /\ fs[b][i].id < h
             /\ fs[b][i].id \in 1..Len(class) /\ class[fs[b][i].id] = b
    <2>1. PICK j \in 1..Len(files[b]) : fs[b][i] = files[b][j]
        BY DEF SubLines
    <2>2. files[b][j].seq < next_seq /\ files[b][j].id \in 1..Len(class) /\ class[files[b][j].id] = b
        BY DEF IInv, FilesInv, Below, Owned
    <2>3. files[b][j].id < h
        BY <1>1
    <2>4. fs[b][i].seq \in Nat /\ fs[b][i].id \in Nat
        BY Lined
    <2> QED BY <2>1, <2>2, <2>3, <2>4
<1>7. \A i \in 1..Len(fs[c]) : fs[c][i].seq < l.seq /\ fs[c][i].id < l.id
    BY <1>1, <1>3, <1>6
<1>8. Ordered(files') /\ Disk(files') = Disk(fs) \cup {l}
    BY <1>1, <1>3, <1>7, AppendKeeps, ZenonT(60)
<1>9. l \notin Disk(fs)
    <2> SUFFICES ASSUME l \in Disk(fs) PROVE FALSE
        OBVIOUS
    <2>1. PICK b \in Classes : \E i \in 1..Len(fs[b]) : l = fs[b][i]
        BY DEF Disk
    <2>2. l.id < h
        BY <1>6, <2>1
    <2> QED BY <1>3, <1>5, <2>2
<1>10. /\ files' \in Files
       /\ files'[c][Len(fs[c]) + 1] = l
       /\ \A b \in Classes : \A i \in 1..Len(fs[b]) : files'[b][i] = fs[b][i]
       /\ \A b \in Classes : \A i \in 1..Len(files'[b]) :
             i \in 1..Len(fs[b]) \/ (b = c /\ i = Len(fs[c]) + 1)
    <2>1. files' \in Files /\ files'[c][Len(fs[c]) + 1] = l
        BY <1>1, <1>3 DEF Files
    <2>2. \A b \in Classes : \A i \in 1..Len(fs[b]) : files'[b][i] = fs[b][i]
        BY <1>1, <1>3, AppendOf
    <2>3. \A b \in Classes : \A i \in 1..Len(files'[b]) :
              i \in 1..Len(fs[b]) \/ (b = c /\ i = Len(fs[c]) + 1)
        <3>1. files'[c] = Append(fs[c], l) /\ \A b \in Classes \ {c} : files'[b] = fs[b]
            BY <1>1, <1>3, AppendOf
        <3>2. fs[c] \in Seq(Line) /\ Len(fs[c]) \in Nat
            BY <1>1, Lined
        <3>3. Len(files'[c]) = Len(fs[c]) + 1
            BY <3>1, <3>2, AppendProperties
        <3> QED BY <3>1, <3>2, <3>3
    <2> QED BY <2>1, <2>2, <2>3
<1>11. ASSUME NEW b \in Classes, NEW i \in 1..Len(files'[b])
       PROVE  /\ files'[b][i].id \in Nat /\ files'[b][i].id <= h
              /\ files'[b][i].id \in 1..Len(class) /\ class[files'[b][i].id] = b
              /\ files'[b][i].seq < next_seq + 1
              /\ files'[b][i].id = h \/ \E j \in 1..Len(fs[b]) : files'[b][i] = fs[b][j]
    <2>1. CASE i \in 1..Len(fs[b])
        <3>1. files'[b][i] = fs[b][i]
            BY <1>10, <2>1
        <3>2. /\ fs[b][i].seq \in Nat /\ fs[b][i].id \in Nat
              /\ fs[b][i].seq < next_seq /\ fs[b][i].id < h
              /\ fs[b][i].id \in 1..Len(class) /\ class[fs[b][i].id] = b
            BY <1>6, <2>1
        <3>3. fs[b][i].seq < next_seq + 1 /\ fs[b][i].id <= h
            <4> DEFINE x == fs[b][i].seq  y == fs[b][i].id
            <4>1. x \in Nat /\ y \in Nat /\ x < next_seq /\ y < h
                BY <3>2
            <4> HIDE DEF x, y
            <4>2. x < next_seq + 1 /\ y <= h
                BY <1>2, <1>5, <4>1
            <4> QED BY <4>2 DEF x, y
        <3> QED BY <2>1, <3>1, <3>2, <3>3
    <2>2. CASE b = c /\ i = Len(fs[c]) + 1
        <3>1. files'[b][i] = l
            BY <1>10, <2>2
        <3>2. l.seq < next_seq + 1 /\ h <= h
            BY <1>2, <1>5
        <3> QED BY <1>1, <1>3, <1>4, <1>5, <2>2, <3>1, <3>2
    <2> QED BY <1>10, <2>1, <2>2
<1>12. FilesInv'
    <2>1. Owned(files', class)
        BY <1>11 DEF Owned
    <2>2. Below(files', next_seq + 1)
        BY <1>11 DEF Below
    <2>3. Owned(files, class)' /\ Below(files, next_seq)' /\ Ordered(files)'
        <3>1. Owned(files, class)'
            BY <2>1 DEF Owned
        <3>2. Below(files, next_seq)'
            BY <2>2 DEF Below
        <3>3. Ordered(files)'
            BY <1>8 DEF Ordered
        <3> QED BY <3>1, <3>2, <3>3
    <2> QED BY <2>3 DEF FilesInv
<1>13. \A b \in Classes : \A i \in 1..Len(files'[b]) :
           /\ files'[b][i].id \in Nat /\ files'[b][i].id <= h
           /\ files'[b][i].id = h \/ \E j \in 1..Len(fs[b]) : files'[b][i] = fs[b][j]
    BY <1>11
<1> QED BY <1>8, <1>9, <1>10, <1>12, <1>13 DEF h

\* A line behind the others leaves the consumed ones where they are
LEMMA PrefixGrows ==
    ASSUME IInv, ~overtaken, NEW c \in Classes, UNCHANGED <<taken, batch, received>>,
           consumed'[c] = consumed[c],
           \/ files'[c] = files[c]
           \/ \E l \in Line : files'[c] = Append(files[c], l)
    PROVE  Prefix(c)'
<1>1. Prefix(c)
    BY DEF IInv, PrefixInv, Prefix
<1>2. CASE files'[c] = files[c]
    BY <1>1, <1>2 DEF Prefix, front
<1>3. CASE \E l \in Line : files'[c] = Append(files[c], l)
    <2>1. PICK l \in Line : files'[c] = Append(files[c], l)
        BY <1>3
    <2>2. files[c] \in Seq(Line) /\ Len(files[c]) \in Nat /\ consumed[c] \in Nat /\ taken[c] \in Nat
        BY Lined DEF IInv, TypeInv
    <2>3. /\ files'[c] \in Seq(Line)
          /\ Len(files'[c]) = Len(files[c]) + 1
          /\ \A i \in 1..Len(files[c]) : files'[c][i] = files[c][i]
        BY <2>1, <2>2, AppendProperties
    <2>4. consumed[c] + taken[c] <= Len(files[c]) /\ consumed[c] <= Len(files[c])
        BY <1>1, <2>2 DEF Prefix
    <2>5. consumed'[c] + taken'[c] <= Len(files'[c])
        BY <2>2, <2>3, <2>4
    <2>6. consumed[c] = 0 \/ consumed[c] < front(files'[c])
        <3>1. CASE files[c] = <<>>
            <4>1. Len(files[c]) = 0
                BY <3>1, EmptySeq
            <4> QED BY <2>2, <2>4, <4>1
        <3>2. CASE files[c] # <<>>
            <4>1. front(files[c]) <= front(files'[c])
                BY <2>1, <2>2, <3>2, FrontGrows
            <4>2. front(files[c]) \in Nat /\ front(files'[c]) \in Nat
                BY <2>2, <2>3, FrontOf
            <4>3. consumed[c] = 0 \/ consumed[c] < front(files[c])
                BY <1>1 DEF Prefix
            <4> QED BY <2>2, <4>1, <4>2, <4>3
        <3> QED BY <3>1, <3>2
    <2>7. 1..consumed[c] \subseteq 1..Len(files[c]) /\ 1..(consumed[c] + taken[c]) \subseteq 1..Len(files[c])
        BY <2>2, <2>4
    <2>8. /\ \A i \in 1..consumed[c] : files'[c][i].id \in received
          /\ \A i \in 1..(consumed[c] + taken[c]) : files'[c][i].id \in received \cup batch
        BY <1>1, <2>3, <2>7 DEF Prefix
    <2> QED BY <2>5, <2>6, <2>8 DEF Prefix, front
<1> QED BY <1>2, <1>3

LEMMA Step_enqueue_fits ==
    ASSUME IInv, enqueue_fits PROVE IInv'
<1> DEFINE h == Head(chan)
           c == class[h]
<1>1. /\ "drain" \in tasks /\ chan # <<>> /\ chan' = Tail(chan) /\ append(c, h, files, active)
      /\ stored + 1 <= MaxTotal /\ stored' = stored + 1
      /\ UNCHANGED <<class, consumed, taken, total, reported, heard, overtaken, unheard,
                     tasks, batch, answer, received, shed, gone>>
    BY DEF enqueue_fits, drops, wire, process, server, history
<1>2. /\ h \in 1..Len(class) /\ c \in Classes /\ chan' \in Seq(Nat)
      /\ \A x \in shed : x < h
      /\ \A b \in Classes : \A i \in 1..Len(files[b]) : files[b][i].id < h
      /\ Queued \subseteq Queued' \cup {h}
    BY <1>1, HeadFacts
<1>3. h \in Nat /\ files \in Files /\ active \in [Classes -> Nat] /\ next_seq \in Nat
    <2> HIDE DEF h
    <2>1. h \in Nat
        BY <1>2
    <2> QED BY <2>1 DEF IInv, TypeInv
<1>4. Ordered(files) /\ SubLines(files, files)
    BY DEF IInv, FilesInv, SubLines
<1> HIDE DEF c
<1>5. /\ \E l \in Line : l.seq = next_seq /\ l.id = h /\ files' = [files EXCEPT ![c] = Append(files[c], l)]
      /\ active' \in [Classes -> Nat] /\ next_seq' = next_seq + 1 /\ next_seq' \in Nat
    BY <1>1, <1>2, <1>3, AppendStep
<1>6. PICK l \in Line : l.seq = next_seq /\ l.id = h /\ files' = [files EXCEPT ![c] = Append(files[c], l)]
    BY <1>5
<1>7. /\ files' \in Files /\ FilesInv'
      /\ Disk(files') = Disk(files) \cup {l} /\ l \notin Disk(files)
      /\ \A b \in Classes : \A i \in 1..Len(files'[b]) :
            /\ files'[b][i].id \in Nat /\ files'[b][i].id <= h
            /\ files'[b][i].id = h \/ \E j \in 1..Len(files[b]) : files'[b][i] = files[b][j]
    BY <1>1, <1>3, <1>4, <1>5, <1>6, EnqueueStep DEF c
<1> HIDE DEF h
<1>8. TypeInv'
    BY <1>1, <1>2, <1>5, <1>7 DEF IInv, TypeInv
<1>9. PlaceInv'
    <2>1. ASSUME NEW x \in shed' PROVE x \in 1..Len(class) /\ x <= h
        BY <1>1, <1>2, <1>3 DEF IInv, PlaceInv
    <2>2. ASSUME NEW b \in Classes, NEW i \in 1..Len(files'[b])
          PROVE  files'[b][i].id \in Nat /\ files'[b][i].id <= h /\ files'[b][i].id \notin shed'
        <3>1. h \notin shed
            BY <1>2, <1>3
        <3>2. files'[b][i].id \notin shed
            BY <1>7, <3>1 DEF IInv, PlaceInv
        <3> QED BY <1>1, <1>7, <3>2
    <2> QED BY <1>1, <2>1, <2>2, PlaceStep DEF h
<1>10. OnDisk' = OnDisk \cup {l} /\ l \notin OnDisk
    BY <1>7 DEF OnDisk, Lines, Disk
<1>11. DiskInv'
    <2>1. IsFiniteSet(OnDisk) /\ stored = Cardinality(OnDisk)
        BY <1>1 DEF IInv, DiskInv, DiskBounded, Running
    <2>2. IsFiniteSet(OnDisk') /\ Cardinality(OnDisk') = Cardinality(OnDisk) + 1
        BY <1>10, <2>1, FS_AddElement
    <2> QED BY <1>1, <2>1, <2>2 DEF DiskInv, DiskBounded
<1>12. DropsInv' /\ WireInv'
    BY <1>1, FrameDrops, FrameWire DEF IInv
<1>13. PrefixInv'
    <2> SUFFICES ASSUME ~overtaken, NEW b \in Classes PROVE Prefix(b)'
        BY <1>1 DEF PrefixInv, Prefix
    <2>1. files'[b] = files[b] \/ \E k \in Line : files'[b] = Append(files[b], k)
        <3>1. files'[c] = Append(files[c], l) /\ \A d \in Classes \ {c} : files'[d] = files[d]
            BY <1>2, <1>3, <1>6, AppendOf
        <3> QED BY <3>1
    <2>2. UNCHANGED <<taken, batch, received>> /\ consumed'[b] = consumed[b]
        BY <1>1
    <2> QED BY <2>1, <2>2, PrefixGrows
<1>14. KeptInv'
    <2>1. Emitted' = Emitted /\ Buffered' = Buffered \cup {h}
        BY <1>1, <1>6, <1>10 DEF Emitted, Buffered
    <2> QED BY <1>1, <1>2, <2>1 DEF IInv, KeptInv
<1> QED BY <1>7, <1>8, <1>9, <1>11, <1>12, <1>13, <1>14 DEF IInv

\* A whole class loses its front, the others nothing
OneCut(fs, b, n, gs, cut) ==
    /\ n <= Len(fs[b])
    /\ gs = [fs EXCEPT ![b] = RemoveFront(fs[b], n)]
    /\ cut = [c \in Classes |-> IF c = b THEN n ELSE 0]

LEMMA CutOne ==
    ASSUME NEW fs \in Files, NEW b \in Classes, NEW n \in Nat, NEW gs, NEW cut, OneCut(fs, b, n, gs, cut)
    PROVE  /\ cut \in [Classes -> Nat] /\ \A c \in Classes : cut[c] <= Len(fs[c])
           /\ cut[b] = n /\ \A c \in Classes \ {b} : cut[c] = 0 /\ gs[c] = fs[c]
           /\ gs = Cut(fs, cut)
           /\ Removed(fs, cut) = {fs[b][i] : i \in 1..n}
<1>1. \A c \in Classes : fs[c] \in Seq(Line) /\ Len(fs[c]) \in Nat
    BY Lined
<1>0. /\ n <= Len(fs[b]) /\ gs = [fs EXCEPT ![b] = RemoveFront(fs[b], n)]
      /\ cut = [c \in Classes |-> IF c = b THEN n ELSE 0]
    BY DEF OneCut
<1>2. cut[b] = n /\ \A c \in Classes \ {b} : cut[c] = 0
    BY <1>0
<1>3. cut \in [Classes -> Nat]
    BY <1>0
<1>4. \A c \in Classes : cut[c] <= Len(fs[c])
    <2> SUFFICES ASSUME NEW c \in Classes PROVE cut[c] <= Len(fs[c])
        OBVIOUS
    <2>1. CASE c = b
        BY <1>0, <1>2, <2>1
    <2>2. CASE c # b
        BY <1>1, <1>2, <2>2
    <2> QED BY <2>1, <2>2
<1>5. \A c \in Classes \ {b} : gs[c] = fs[c]
    BY <1>0 DEF Files
<1>6. gs[b] = RemoveFront(fs[b], n)
    BY <1>0 DEF Files
<1>7. ASSUME NEW c \in Classes PROVE gs[c] = RemoveFront(fs[c], cut[c])
    <2>1. CASE c = b
        BY <1>2, <1>6, <2>1
    <2>2. CASE c # b
        <3>1. RemoveFront(fs[c], 0) = fs[c]
            <4>1. SubSeq(fs[c], 1, Len(fs[c])) = fs[c]
                BY <1>1, SubSeqFull
            <4>2. 0 + 1 = 1
                OBVIOUS
            <4> QED BY <4>1, <4>2 DEF RemoveFront
        <3> QED BY <1>2, <1>5, <2>2, <3>1
    <2> QED BY <2>1, <2>2
<1>8. gs = [c \in Classes |-> gs[c]]
    BY <1>0 DEF Files
<1>9. gs = Cut(fs, cut)
    BY <1>7, <1>8 DEF Cut
<1>10. Removed(fs, cut) = {fs[b][i] : i \in 1..n}
    <2>1. ASSUME NEW c \in Classes, c # b PROVE 1..cut[c] = {}
        <3>1. cut[c] = 0
            BY <1>2, <2>1
        <3> QED BY <3>1
    <2>2. ASSUME NEW x \in Removed(fs, cut) PROVE x \in {fs[b][i] : i \in 1..n}
        <3>1. PICK c \in Classes : \E i \in 1..cut[c] : x = fs[c][i]
            BY <2>2 DEF Removed
        <3>2. c = b
            BY <2>1, <3>1
        <3> QED BY <1>2, <3>1, <3>2
    <2>3. ASSUME NEW x \in {fs[b][i] : i \in 1..n} PROVE x \in Removed(fs, cut)
        BY <1>2, <2>3 DEF Removed
    <2> QED BY <2>2, <2>3
<1> QED BY <1>2, <1>3, <1>4, <1>5, <1>9, <1>10

\* What becomes of the files fs that are left and of the event h
ShedOutcome(fs, h, n) ==
    /\ files' \in Files /\ FilesInv' /\ active' \in [Classes -> Nat] /\ next_seq' \in Nat
    /\ \A d \in Classes : \A i \in 1..Len(files'[d]) :
          /\ files'[d][i].id \in Nat /\ files'[d][i].id <= h
          /\ files'[d][i].id = h \/ \E j \in 1..Len(fs[d]) : files'[d][i] = fs[d][j]
    /\ \A d \in Classes : files'[d] = fs[d] \/ \E k \in Line : files'[d] = Append(fs[d], k)
    /\ \/ /\ \E l \in Line : l \notin Disk(fs) /\ Disk(files') = Disk(fs) \cup {l}
          /\ stored' = stored - n + 1
       \/ Disk(files') = Disk(fs) /\ stored' = stored - n
    /\ {x.id : x \in Disk(fs)} \subseteq {x.id : x \in Disk(files')}
    /\ h \in {x.id : x \in Disk(files')} \cup gone' /\ gone \subseteq gone'

LEMMA Step_enqueue_shed ==
    ASSUME IInv, enqueue_shed PROVE IInv'
<1> DEFINE h == Head(chan)
           c == class[h]
<1>1. /\ "drain" \in tasks /\ chan # <<>> /\ chan' = Tail(chan) /\ stored + 1 > MaxTotal
      /\ UNCHANGED <<class, taken, reported, heard, unheard, tasks, batch, answer, received>>
    BY DEF enqueue_shed, wire, process, server
<1>2. PICK b \in sheddable :
        LET n == front(files[b])
            left == [files EXCEPT ![b] = RemoveFront(@, n)]
            act == [active EXCEPT ![b] = IF HasFile(left[b], @) THEN @ ELSE 0]
            dropped == unconsumed(files[b], n, consumed[b])
        IN  /\ consumed' = [consumed EXCEPT ![b] = 0]
            /\ count_drop(b, Cardinality(dropped))
            /\ shed' = shed \cup dropped
            /\ overtaken' = (overtaken \/ taken[b] > 0)
            /\ \/ append(c, h, left, act) /\ stored' = stored - n + 1 /\ UNCHANGED gone
               \/ append_error(left, act) /\ stored' = stored - n
    BY DEF enqueue_shed
<1> DEFINE n == front(files[b])
           fs == [files EXCEPT ![b] = RemoveFront(files[b], n)]
           act == [active EXCEPT ![b] = IF HasFile(fs[b], active[b]) THEN active[b] ELSE 0]
           D == {files[b][i].id : i \in (consumed[b] + 1)..n}
           cut == [d \in Classes |-> IF d = b THEN n ELSE 0]
<1>3. files \in Files /\ active \in [Classes -> Nat] /\ consumed \in [Classes -> Nat] /\ taken \in [Classes -> Nat]
      /\ next_seq \in Nat /\ b \in Classes /\ files[b] # <<>>
    BY DEF IInv, TypeInv, sheddable
<1>4. /\ consumed' = [consumed EXCEPT ![b] = 0]
      /\ count_drop(b, Cardinality(D)) /\ shed' = shed \cup D
      /\ overtaken' = (overtaken \/ taken[b] > 0)
      /\ \/ append(c, h, fs, act) /\ stored' = stored - n + 1 /\ UNCHANGED gone
         \/ append_error(fs, act) /\ stored' = stored - n
    BY <1>2, <1>3 DEF unconsumed
<1>5. /\ h \in 1..Len(class) /\ c \in Classes /\ chan' \in Seq(Nat)
      /\ \A x \in shed : x < h
      /\ \A d \in Classes : \A i \in 1..Len(files[d]) : files[d][i].id < h
      /\ Queued \subseteq Queued' \cup {h}
    BY <1>1, HeadFacts
<1> HIDE DEF c
<1>6. h \in Nat
    <2> HIDE DEF h
    <2> QED BY <1>5
<1>7. n \in Nat /\ n >= 1 /\ n <= Len(files[b]) /\ Len(files[b]) \in Nat /\ files[b] \in Seq(Line)
    <2>1. files[b] \in Seq(Line) /\ Len(files[b]) \in Nat
        BY <1>3, Lined
    <2> QED BY <1>3, <2>1, FrontOf
<1>8. act \in [Classes -> Nat]
    <2>1. (IF HasFile(fs[b], active[b]) THEN active[b] ELSE 0) \in Nat
        BY <1>3
    <2> HIDE DEF fs
    <2> QED BY <1>3, <2>1
<1> HIDE DEF n
<1>9. /\ cut \in [Classes -> Nat] /\ \A d \in Classes : cut[d] <= Len(files[d])
      /\ cut[b] = n /\ \A d \in Classes \ {b} : cut[d] = 0 /\ fs[d] = files[d]
      /\ fs = Cut(files, cut)
      /\ Removed(files, cut) = {files[b][i] : i \in 1..n}
    <2>1. OneCut(files, b, n, fs, cut)
        BY <1>7 DEF OneCut
    <2> HIDE DEF fs, cut
    <2>2. /\ cut \in [Classes -> Nat] /\ \A d \in Classes : cut[d] <= Len(files[d])
          /\ cut[b] = n /\ \A d \in Classes \ {b} : cut[d] = 0 /\ fs[d] = files[d]
        BY <1>3, <1>7, <2>1, CutOne
    <2>3. fs = Cut(files, cut)
        BY <1>3, <1>7, <2>1, CutOne
    <2>4. Removed(files, cut) = {files[b][i] : i \in 1..n}
        BY <1>3, <1>7, <2>1, CutOne
    <2> QED BY <2>2, <2>3, <2>4
<1> HIDE DEF fs, cut, act
<1>10. Ordered(files) /\ Owned(files, class)
    BY DEF IInv, FilesInv
<1>11. fs \in Files /\ Ordered(fs) /\ SubLines(fs, files)
    BY <1>3, <1>9, <1>10, CutOf, CutKeeps
\* The line of the event goes behind those that are left, or the event is gone
<1>12. ASSUME append(c, h, fs, act), stored' = stored - n + 1, UNCHANGED gone
       PROVE  ShedOutcome(fs, h, n)
    <2>1. /\ \E l \in Line : l.seq = next_seq /\ l.id = h /\ files' = [fs EXCEPT ![c] = Append(fs[c], l)]
          /\ active' \in [Classes -> Nat] /\ next_seq' = next_seq + 1 /\ next_seq' \in Nat
        BY <1>3, <1>5, <1>6, <1>8, <1>11, <1>12, AppendStep
    <2>2. PICK l \in Line : l.seq = next_seq /\ l.id = h /\ files' = [fs EXCEPT ![c] = Append(fs[c], l)]
        BY <2>1
    <2>3. /\ files' \in Files /\ FilesInv'
          /\ Disk(files') = Disk(fs) \cup {l} /\ l \notin Disk(fs)
          /\ \A d \in Classes : \A i \in 1..Len(files'[d]) :
                /\ files'[d][i].id \in Nat /\ files'[d][i].id <= h
                /\ files'[d][i].id = h \/ \E j \in 1..Len(fs[d]) : files'[d][i] = fs[d][j]
        BY <1>1, <1>11, <2>1, <2>2, EnqueueStep DEF c
    <2>4. \A d \in Classes : files'[d] = fs[d] \/ \E k \in Line : files'[d] = Append(fs[d], k)
        <3>1. files'[c] = Append(fs[c], l) /\ \A a \in Classes \ {c} : files'[a] = fs[a]
            BY <1>5, <1>11, <2>2, AppendOf
        <3> QED BY <3>1
    <2>5. {x.id : x \in Disk(fs)} \cup {h} \subseteq {x.id : x \in Disk(files')}
        BY <2>2, <2>3
    <2> HIDE DEF h
    <2>6. ShedOutcome(fs, h, n)
        BY <1>12, <2>1, <2>3, <2>4, <2>5 DEF ShedOutcome
    <2> QED BY <2>6
<1>13. ASSUME append_error(fs, act), stored' = stored - n
       PROVE  ShedOutcome(fs, h, n)
    <2>1. files' = fs /\ active' = act /\ next_seq' = next_seq /\ gone' = gone \cup {h}
        BY <1>13 DEF append_error
    <2>2. ASSUME NEW d \in Classes, NEW i \in 1..Len(fs[d])
          PROVE  /\ fs[d][i].id \in Nat /\ fs[d][i].id < h /\ fs[d][i].seq < next_seq
                 /\ fs[d][i].id \in 1..Len(class) /\ class[fs[d][i].id] = d
        <3>1. PICK j \in 1..Len(files[d]) : fs[d][i] = files[d][j]
            BY <1>11 DEF SubLines
        <3>2. files[d][j].id < h /\ files[d][j].seq < next_seq
            BY <1>5 DEF IInv, FilesInv, Below
        <3>3. files[d][j].id \in Nat /\ files[d][j].id \in 1..Len(class) /\ class[files[d][j].id] = d
            BY <1>3, <1>10, Lined DEF Owned
        <3> QED BY <3>1, <3>2, <3>3
    <2>3. FilesInv'
        <3>1. Ordered(files)'
            BY <1>11, <2>1 DEF Ordered
        <3>2. Owned(files, class)'
            BY <1>1, <2>1, <2>2 DEF Owned
        <3>3. Below(files, next_seq)'
            BY <2>1, <2>2 DEF Below
        <3> QED BY <3>1, <3>2, <3>3 DEF FilesInv
    <2>4. \A d \in Classes : \A i \in 1..Len(files'[d]) :
             /\ files'[d][i].id \in Nat /\ files'[d][i].id <= h
             /\ \E j \in 1..Len(fs[d]) : files'[d][i] = fs[d][j]
        <3> HIDE DEF h
        <3> QED BY <1>6, <2>1, <2>2
    <2> HIDE DEF h
    <2>5. ShedOutcome(fs, h, n)
        BY <1>3, <1>8, <1>11, <1>13, <2>1, <2>3, <2>4 DEF ShedOutcome
    <2> QED BY <2>5
<1>14. ShedOutcome(fs, h, n)
    BY <1>4, <1>12, <1>13
<1> HIDE DEF h
\* The dropped events
<1>15. ASSUME NEW x \in D PROVE \E i \in 1..Len(files[b]) : i <= n /\ x = files[b][i].id
    <2>1. PICK i \in (consumed[b] + 1)..n : x = files[b][i].id
        BY <1>15
    <2>2. consumed[b] \in Nat
        BY <1>3
    <2>3. i \in 1..Len(files[b]) /\ i <= n
        BY <1>7, <2>2
    <2> QED BY <2>1, <2>3
<1>16. ASSUME NEW x \in D PROVE x \in 1..Len(class) /\ class[x] = b /\ x \notin shed /\ x < h
    <2>1. PICK i \in 1..Len(files[b]) : i <= n /\ x = files[b][i].id
        BY <1>15
    <2>2. x \in 1..Len(class) /\ class[x] = b
        BY <1>3, <1>10, <2>1 DEF Owned
    <2>3. x \notin shed
        BY <1>3, <2>1 DEF IInv, PlaceInv
    <2>4. x < h
        BY <1>3, <1>5, <2>1
    <2> QED BY <2>2, <2>3, <2>4
<1> HIDE DEF D
<1>17. DropsInv' /\ total' \in [Classes -> Nat]
    <2>1. D \in SUBSET (1..Len(class)) /\ shed \cap D = {} /\ \A e \in D : class[e] = b
        BY <1>16
    <2> QED BY <1>1, <1>3, <1>4, <2>1, CountDrop
<1>18. consumed' \in [Classes -> Nat] /\ consumed'[b] = 0 /\ \A d \in Classes \ {b} : consumed'[d] = consumed[d]
    BY <1>3, <1>4
<1>19. TypeInv'
    <2>1. overtaken' \in BOOLEAN
        BY <1>4 DEF IInv, TypeInv
    <2> QED BY <1>1, <1>5, <1>14, <1>17, <1>18, <2>1 DEF IInv, TypeInv, ShedOutcome
\* A line that is left is not of a dropped event
<1>20. ASSUME NEW d \in Classes, NEW j \in 1..Len(fs[d]) PROVE fs[d][j].id \notin D /\ fs[d][j].id \notin shed
    <2>1. /\ j + cut[d] \in 1..Len(files[d]) /\ fs[d][j] = files[d][j + cut[d]]
          /\ j \in Nat /\ j >= 1
        <3>1. \A i \in 1..Len(Cut(files, cut)[d]) :
                  i + cut[d] \in 1..Len(files[d]) /\ Cut(files, cut)[d][i] = files[d][i + cut[d]]
            BY <1>3, <1>9, CutOf
        <3>2. j \in Nat /\ j >= 1
            BY <1>11, Lined
        <3> QED BY <1>9, <3>1, <3>2
    <2>2. files[d][j + cut[d]].id \notin shed /\ class[files[d][j + cut[d]].id] = d
        BY <1>10, <2>1 DEF IInv, PlaceInv, Owned
    <2>3. CASE d # b
        BY <1>16, <2>1, <2>2, <2>3
    <2>4. CASE d = b
        <3>1. j + n \in 1..Len(files[b]) /\ fs[d][j] = files[b][j + n]
            BY <1>9, <2>1, <2>4
        <3>2. ASSUME fs[d][j].id \in D PROVE FALSE
            <4>1. PICK i \in 1..Len(files[b]) : i <= n /\ fs[d][j].id = files[b][i].id
                BY <1>15, <3>2
            <4>2. i < j + n
                BY <1>7, <2>1, <4>1
            <4>3. files[b][i].id < files[b][j + n].id /\ files[b][i].id \in Nat
                BY <1>3, <1>10, <3>1, <4>2, Lined DEF Ordered
            <4> QED BY <3>1, <4>1, <4>3
        <3> QED BY <2>1, <2>2, <3>2
    <2> QED BY <2>3, <2>4
<1>21. PlaceInv'
    <2>1. ASSUME NEW x \in shed' PROVE x \in 1..Len(class) /\ x <= h
        <3>1. CASE x \in shed
            BY <1>5, <1>6, <3>1 DEF IInv, PlaceInv
        <3>2. CASE x \in D
            BY <1>6, <1>16, <3>2
        <3> QED BY <1>4, <3>1, <3>2
    <2>2. ASSUME NEW d \in Classes, NEW i \in 1..Len(files'[d])
          PROVE  files'[d][i].id \in Nat /\ files'[d][i].id <= h /\ files'[d][i].id \notin shed'
        <3>1. h \notin shed /\ h \notin D
            BY <1>5, <1>6, <1>16
        <3>2. files'[d][i].id \notin shed /\ files'[d][i].id \notin D
            <4>1. files'[d][i].id = h \/ \E j \in 1..Len(fs[d]) : files'[d][i] = fs[d][j]
                BY <1>14 DEF ShedOutcome
            <4>2. ASSUME NEW j \in 1..Len(fs[d]), files'[d][i] = fs[d][j]
                  PROVE  files'[d][i].id \notin shed /\ files'[d][i].id \notin D
                BY <1>20, <4>2
            <4> QED BY <3>1, <4>1, <4>2
        <3> QED BY <1>4, <1>14, <3>2 DEF ShedOutcome
    <2> QED BY <1>1, <2>1, <2>2, PlaceStep DEF h
<1>22. DiskInv'
    <2> DEFINE R == Removed(files, cut)
    <2>1. IsFiniteSet(OnDisk) /\ stored = Cardinality(OnDisk) /\ OnDisk = Disk(files) /\ OnDisk' = Disk(files')
          /\ Cardinality(OnDisk) <= MaxTotal /\ MaxTotal \in Nat
        BY <1>1, DeliveryAssumption DEF IInv, DiskInv, DiskBounded, Running, OnDisk, Lines, Disk
    <2>2. R \subseteq OnDisk /\ Disk(fs) = OnDisk \ R
        BY <1>3, <1>9, <1>10, <2>1, CutDisk
    <2>3. Cardinality(R) = n
        <3>1. \A i, j \in 1..Len(files[b]) : i < j => files[b][i].id < files[b][j].id
            BY <1>3, <1>10 DEF Ordered
        <3>2. Cardinality({files[b][i] : i \in (0 + 1)..n}) = n - 0
            <4> DEFINE q == files[b]
            <4>1. q \in Seq(Line) /\ 0 \in Nat /\ 0 <= n /\ n <= Len(q)
                BY <1>7
            <4>2. \A i, j \in 1..Len(q) : i < j => q[i].id < q[j].id
                BY <3>1
            <4> HIDE DEF q
            <4>3. Cardinality({q[i] : i \in (0 + 1)..n}) = n - 0
                BY <1>7, <4>1, <4>2, SegmentSize
            <4> QED BY <4>3 DEF q
        <3>3. 0 + 1 = 1 /\ n - 0 = n
            BY <1>7
        <3> QED BY <1>9, <3>2, <3>3
    <2>4. IsFiniteSet(Disk(fs)) /\ Cardinality(Disk(fs)) = Cardinality(OnDisk) - n
        <3> HIDE DEF R
        <3>1. OnDisk \cap R = R
            BY <2>2
        <3> QED BY <2>1, <2>2, <2>3, <3>1, FS_Difference
    <2>5. /\ IsFiniteSet(OnDisk')
          /\ \/ Cardinality(OnDisk') = Cardinality(Disk(fs)) + 1 /\ stored' = stored - n + 1
             \/ Cardinality(OnDisk') = Cardinality(Disk(fs)) /\ stored' = stored - n
        <3>1. CASE /\ \E l \in Line : l \notin Disk(fs) /\ Disk(files') = Disk(fs) \cup {l}
                   /\ stored' = stored - n + 1
            <4>1. PICK l \in Line : l \notin Disk(fs) /\ Disk(files') = Disk(fs) \cup {l}
                BY <3>1
            <4>2. IsFiniteSet(OnDisk') /\ Cardinality(OnDisk') = Cardinality(Disk(fs)) + 1
                BY <2>1, <2>4, <4>1, FS_AddElement
            <4> QED BY <3>1, <4>2
        <3>2. CASE Disk(files') = Disk(fs) /\ stored' = stored - n
            BY <2>1, <2>4, <3>2
        <3> QED BY <1>14, <3>1, <3>2 DEF ShedOutcome
    <2> DEFINE x == Cardinality(OnDisk)  y == Cardinality(OnDisk')
    <2>6. /\ x \in Nat /\ x <= MaxTotal
          /\ (y = (x - n) + 1 /\ stored' = (x - n) + 1) \/ (y = x - n /\ stored' = x - n)
        BY <2>1, <2>4, <2>5, FS_CardinalityType
    <2> HIDE DEF x, y
    <2>7. y <= MaxTotal /\ stored' = y
        BY <1>7, <2>1, <2>6
    <2> QED BY <2>5, <2>7 DEF DiskInv, DiskBounded, y
<1>23. WireInv'
    BY <1>1, FrameWire
<1>24. PrefixInv'
    <2> SUFFICES ASSUME ~overtaken', NEW d \in Classes PROVE Prefix(d)'
        BY DEF PrefixInv, Prefix
    <2>1. ~overtaken /\ ~(taken[b] > 0)
        BY <1>4
    <2>2. CASE d = b
        <3>1. consumed'[d] = 0 /\ taken'[d] = 0 /\ Len(files'[d]) \in Nat
            BY <1>1, <1>3, <1>14, <1>18, <2>1, <2>2, Lined DEF ShedOutcome
        <3>2. consumed'[d] + taken'[d] <= Len(files'[d]) /\ 1..consumed'[d] = {} /\ 1..(consumed'[d] + taken'[d]) = {}
            BY <3>1
        <3> QED BY <3>1, <3>2 DEF Prefix
    <2>3. CASE d # b
        <3>1. fs[d] = files[d]
            BY <1>9, <2>3
        <3>2. files'[d] = fs[d] \/ \E k \in Line : files'[d] = Append(fs[d], k)
            BY <1>14 DEF ShedOutcome
        <3>3. UNCHANGED <<taken, batch, received>> /\ consumed'[d] = consumed[d]
            BY <1>1, <1>18, <2>3
        <3> QED BY <2>1, <3>1, <3>2, <3>3, PrefixGrows
    <2> QED BY <2>2, <2>3
<1>25. KeptInv'
    <2> SUFFICES ASSUME ~overtaken' PROVE Emitted' \subseteq Queued' \cup Buffered' \cup received' \cup shed' \cup gone'
        BY DEF KeptInv
    <2>1. ~overtaken
        BY <1>4
    <2>2. {x.id : x \in Disk(fs)} \subseteq Buffered' /\ h \in Buffered' \cup gone' /\ gone \subseteq gone'
        BY <1>14 DEF ShedOutcome, Buffered, OnDisk, Lines, Disk
    <2>3. ASSUME NEW d \in Classes, NEW i \in 1..Len(files[d])
          PROVE  files[d][i].id \in Buffered' \cup received \cup D
        <3>1. CASE i \in 1..cut[d]
            <4>1. d = b /\ i <= n
                <5>1. i <= cut[d] /\ ~(i <= 0)
                    BY <1>9, <3>1
                <5> QED BY <1>9, <5>1
            <4>2. CASE i \in 1..consumed[b]
                BY <2>1, <4>1, <4>2 DEF IInv, PrefixInv, Prefix
            <4>3. CASE i \notin 1..consumed[b]
                <5>1. i \in (consumed[b] + 1)..n
                    BY <1>3, <1>7, <4>1, <4>3
                <5> QED BY <4>1, <5>1 DEF D
            <4> QED BY <4>2, <4>3
        <3>2. CASE i \notin 1..cut[d]
            <4>1. Disk(fs) = Disk(files) \ Removed(files, cut)
                BY <1>3, <1>9, <1>10, CutDisk
            <4>2. files[d][i] \in Disk(files)
                BY DEF Disk
            <4>3. files[d][i] \notin Removed(files, cut)
                <5> SUFFICES ASSUME files[d][i] \in Removed(files, cut) PROVE FALSE
                    OBVIOUS
                <5>1. PICK j \in 1..n : files[d][i] = files[b][j]
                    BY <1>9
                <5>2. j \in 1..Len(files[b])
                    BY <1>7
                <5>3. d = b
                    <6>1. class[files[d][i].id] = d
                        BY <1>10 DEF Owned
                    <6>2. class[files[b][j].id] = b
                        BY <1>3, <1>10, <5>2 DEF Owned
                    <6> QED BY <5>1, <6>1, <6>2
                <5>4. cut[d] = n /\ j < i
                    BY <1>7, <1>9, <3>2, <5>3
                <5>5. files[b][j].id < files[b][i].id /\ files[b][j].id \in Nat
                    BY <1>3, <1>10, <5>2, <5>3, <5>4, Lined DEF Ordered
                <5> QED BY <5>1, <5>3, <5>5
            <4> QED BY <2>2, <4>1, <4>2, <4>3
        <3> QED BY <3>1, <3>2
    <2>4. Buffered \subseteq Buffered' \cup received \cup D
        BY <2>3 DEF Buffered, OnDisk, Lines
    <2>5. Emitted \subseteq Queued \cup Buffered \cup received \cup shed \cup gone
        BY <2>1 DEF IInv, KeptInv
    <2>6. Emitted' = Emitted
        BY <1>1 DEF Emitted
    <2> QED BY <1>1, <1>4, <1>5, <2>2, <2>4, <2>5, <2>6
<1>26. FilesInv'
    BY <1>14 DEF ShedOutcome
<1> QED BY <1>26, <1>17, <1>19, <1>21, <1>22, <1>23, <1>24, <1>25 DEF IInv

-----------------------------------------------------------------------------
(* The delivery task *)

LEMMA Step_deliver_2xx ==
    ASSUME IInv, deliver_2xx PROVE IInv'
<1> DEFINE n == [c \in Classes |-> deletable(files[c], consumed[c] + taken[c])]
           R == Removed(files, n)
<1>1. /\ "delivery" \in tasks /\ answer = "202" /\ commit /\ EndAttempt
      /\ UNCHANGED <<class, chan, next_seq, total, reported, heard, overtaken, unheard, tasks,
                     received, shed, gone>>
    BY DEF deliver_2xx, drops, process, server, history
<1>2. /\ files \in Files /\ active \in [Classes -> Nat] /\ consumed \in [Classes -> Nat]
      /\ taken \in [Classes -> Nat]
    BY DEF IInv, TypeInv
<1>3. /\ files' = Cut(files, n)
      /\ consumed' = [c \in Classes |-> consumed[c] + taken[c] - n[c]]
      /\ stored' = stored - Cardinality(R)
    BY <1>1 DEF commit, Cut, Removed
<1>4. active' \in [Classes -> Nat]
    <2> DEFINE left == [c \in Classes |-> RemoveFront(files[c], n[c])]
    <2>1. active' = [c \in Classes |-> IF HasFile(left[c], active[c]) THEN active[c] ELSE 0]
        BY <1>1 DEF commit
    <2> HIDE DEF left
    <2> QED BY <1>2, <2>1
<1>5. batch' = {} /\ taken' = Zero /\ answer' = "none" /\ batch \subseteq received
    BY <1>1 DEF EndAttempt, IInv, WireInv
<1>6. ASSUME NEW c \in Classes
      PROVE  /\ files[c] \in Seq(Line) /\ Len(files[c]) \in Nat
             /\ consumed[c] \in Nat /\ taken[c] \in Nat
             /\ n[c] \in Nat /\ n[c] <= Len(files[c]) /\ n[c] <= consumed[c] + taken[c]
             /\ \A i \in 1..Len(files[c]) : i <= consumed[c] + taken[c] /\ n[c] < i =>
                   i # Len(files[c]) /\ files[c][i].file = files[c][i + 1].file
    <2>1. files[c] \in Seq(Line) /\ Len(files[c]) \in Nat /\ consumed[c] \in Nat /\ taken[c] \in Nat
        BY <1>2, Lined
    <2> DEFINE q == files[c]  k == consumed[c] + taken[c]  d == deletable(q, k)
    <2>2. q \in Seq(Line) /\ k \in Nat /\ n[c] = d /\ Len(q) \in Nat
        BY <2>1
    <2>3. /\ d \in 0..Len(q) /\ d <= k
          /\ \A i \in 1..Len(q) : i <= k /\ d < i => i # Len(q) /\ q[i].file = q[i + 1].file
        BY <2>2, DeletableOf
    <2> HIDE DEF n, d
    <2>4. d \in Nat /\ d <= Len(q)
        BY <2>2, <2>3
    <2> QED BY <2>1, <2>2, <2>3, <2>4
<1>7. n \in [Classes -> Nat] /\ \A c \in Classes : n[c] <= Len(files[c])
    <2>1. n = [c \in Classes |-> n[c]]
        OBVIOUS
    <2> HIDE DEF n
    <2> QED BY <1>6, <2>1
<1> HIDE DEF n
<1>8. Ordered(files) /\ Owned(files, class) /\ Below(files, next_seq)
    BY DEF IInv, FilesInv
<1>9. /\ files' \in Files /\ Ordered(files') /\ SubLines(files', files)
      /\ \A c \in Classes :
            /\ Len(files'[c]) = Len(files[c]) - n[c]
            /\ \A i \in 1..Len(files'[c]) :
                  i + n[c] \in 1..Len(files[c]) /\ files'[c][i] = files[c][i + n[c]]
    <2>1. Cut(files, n) \in Files
          /\ \A c \in Classes :
            /\ Len(Cut(files, n)[c]) = Len(files[c]) - n[c]
            /\ \A i \in 1..Len(Cut(files, n)[c]) :
                  i + n[c] \in 1..Len(files[c]) /\ Cut(files, n)[c][i] = files[c][i + n[c]]
        BY <1>2, <1>7, CutOf
    <2>2. Ordered(Cut(files, n)) /\ SubLines(Cut(files, n), files)
        BY <1>2, <1>7, <1>8, CutKeeps
    <2> QED BY <1>3, <2>1, <2>2
<1>10. ASSUME NEW c \in Classes, NEW i \in 1..Len(files'[c])
       PROVE  \E j \in 1..Len(files[c]) : files'[c][i] = files[c][j]
    BY <1>9 DEF SubLines
<1>11. FilesInv'
    <2>1. Owned(files', class) /\ Below(files', next_seq)
        BY <1>8, <1>10 DEF Owned, Below
    <2> QED BY <1>1, <1>9, <2>1 DEF FilesInv, Ordered, Owned, Below
<1>12. PlaceInv'
    <2>1. ASSUME NEW c \in Classes, NEW i \in 1..Len(files'[c])
          PROVE  files'[c][i].id \notin shed /\ \A j \in 1..Len(chan) : files'[c][i].id < chan[j]
        <3>1. PICK k \in 1..Len(files[c]) : files'[c][i] = files[c][k]
            BY <1>10
        <3>2. files[c][k].id \notin shed /\ \A j \in 1..Len(chan) : files[c][k].id < chan[j]
            BY DEF IInv, PlaceInv
        <3> QED BY <3>1, <3>2
    <2>2. /\ \A i, j \in 1..Len(chan) : i < j => chan[i] < chan[j]
          /\ \A j \in 1..Len(chan) : chan[j] \in 1..Len(class) /\ \A x \in shed : x < chan[j]
          /\ shed \subseteq 1..Len(class)
        BY DEF IInv, PlaceInv
    <2> QED BY <1>1, <2>1, <2>2 DEF PlaceInv
<1>13. ASSUME NEW c \in Classes PROVE consumed'[c] \in Nat /\ consumed'[c] = consumed[c] + taken[c] - n[c]
    BY <1>3, <1>6
<1>14. TypeInv'
    <2>1. consumed' \in [Classes -> Nat]
        BY <1>3, <1>13
    <2>2. taken' \in [Classes -> Nat]
        BY <1>5 DEF Zero
    <2> QED BY <1>1, <1>4, <1>9, <2>1, <2>2 DEF IInv, TypeInv
<1>15. OnDisk' = OnDisk \ R /\ R \subseteq OnDisk
    <2>1. R \subseteq Disk(files) /\ Disk(Cut(files, n)) = Disk(files) \ R
        BY <1>2, <1>7, <1>8, CutDisk
    <2>2. OnDisk = Disk(files) /\ OnDisk' = Disk(files')
        BY DEF OnDisk, Lines, Disk
    <2> HIDE DEF R
    <2> QED BY <1>3, <2>1, <2>2
<1> HIDE DEF R
<1>16. DiskInv'
    <2>1. IsFiniteSet(OnDisk) /\ stored = Cardinality(OnDisk) /\ Cardinality(OnDisk) <= MaxTotal /\ MaxTotal \in Nat
        BY <1>1, DeliveryAssumption DEF IInv, DiskInv, DiskBounded, Running
    <2>2. OnDisk \cap R = R
        BY <1>15
    <2>3. IsFiniteSet(OnDisk') /\ Cardinality(OnDisk') = Cardinality(OnDisk) - Cardinality(R)
        BY <1>15, <2>1, <2>2, FS_Difference
    <2>4. Cardinality(R) \in Nat /\ Cardinality(OnDisk) \in Nat
        BY <1>15, <2>1, FS_Subset, FS_CardinalityType
    <2> DEFINE x == Cardinality(OnDisk)  y == Cardinality(OnDisk')  r == Cardinality(R)
    <2>5. x \in Nat /\ r \in Nat /\ x <= MaxTotal /\ y = x - r /\ stored' = x - r
        BY <1>3, <2>1, <2>3, <2>4
    <2> HIDE DEF x, y, r
    <2>6. y <= MaxTotal /\ stored' = y
        BY <2>1, <2>5
    <2> QED BY <2>3, <2>6 DEF DiskInv, DiskBounded, y
<1>17. DropsInv'
    BY <1>1, FrameDrops
<1>18. WireInv'
    BY <1>5 DEF WireInv, Zero
<1>19. PrefixInv'
    <2> SUFFICES ASSUME ~overtaken', NEW c \in Classes PROVE Prefix(c)'
        BY DEF PrefixInv, Prefix
    <2>0. Prefix(c)
        BY <1>1 DEF IInv, PrefixInv, Prefix
    <2> DEFINE k == consumed'[c]  q == files'[c]  L == Len(files[c])  m == n[c]  t == consumed[c] + taken[c]
    <2>1. /\ k \in Nat /\ k = t - m /\ t \in Nat /\ m \in Nat /\ m <= t /\ m <= L /\ L \in Nat
          /\ taken'[c] = 0
        BY <1>5, <1>6, <1>13 DEF Zero
    <2>2. t <= L
        BY <2>0 DEF Prefix
    <2>3. q \in Seq(Line) /\ Len(q) = L - m /\ \A i \in 1..Len(q) : i + m \in 1..L /\ q[i] = files[c][i + m]
        BY <1>9, Lined
    <2>4. \A i \in 1..L : i <= t /\ m < i => i # L /\ files[c][i].file = files[c][i + 1].file
        BY <1>6
    <2>5. \A i \in 1..t : files[c][i].id \in received
        BY <1>5, <2>0 DEF Prefix
    <2> HIDE DEF k, q, L, m, t
    <2>6. k <= Len(q) /\ Len(q) \in Nat
        BY <2>1, <2>2, <2>3
    <2>7. ASSUME NEW i \in 1..k PROVE i # Len(q) /\ q[i].file = q[i + 1].file
        <3>1. i + m \in 1..L /\ i + m <= t /\ m < i + m
            BY <2>1, <2>2
        <3>2. i + m # L /\ files[c][i + m].file = files[c][(i + m) + 1].file
            BY <2>4, <3>1
        <3>3. i # Len(q) /\ i \in 1..Len(q)
            BY <2>1, <2>3, <2>6, <3>2
        <3>4. i + 1 \in 1..Len(q) /\ (i + 1) + m = (i + m) + 1
            BY <2>1, <2>6, <3>3
        <3>5. q[i] = files[c][i + m] /\ q[i + 1] = files[c][(i + m) + 1]
            BY <2>3, <3>3, <3>4
        <3> QED BY <3>2, <3>3, <3>5
    <2>8. k = 0 \/ k < front(q)
        BY <2>1, <2>3, <2>6, <2>7, WithinFront
    <2>9. ASSUME NEW i \in 1..k PROVE q[i].id \in received
        <3>1. i + m \in 1..t /\ i \in 1..Len(q)
            BY <2>1, <2>6
        <3> QED BY <2>3, <2>5, <3>1
    <2>10. k + taken'[c] = k
        BY <2>1
    <2> QED BY <1>1, <2>6, <2>8, <2>9, <2>10 DEF Prefix, front, k, q
<1>20. KeptInv'
    <2> SUFFICES ASSUME ~overtaken PROVE Emitted' \subseteq Queued' \cup Buffered' \cup received' \cup shed' \cup gone'
        BY <1>1 DEF KeptInv
    <2>1. ASSUME NEW l \in R PROVE l.id \in received
        <3>1. PICK c \in Classes : \E i \in 1..n[c] : l = files[c][i]
            BY <2>1 DEF R, Removed
        <3>2. PICK i \in 1..n[c] : l = files[c][i]
            BY <3>1
        <3>3. i \in 1..(consumed[c] + taken[c])
            <4> DEFINE t == consumed[c] + taken[c]
            <4>1. n[c] \in Nat /\ t \in Nat /\ n[c] <= t
                BY <1>6
            <4> HIDE DEF t
            <4>2. i \in 1..t
                BY <4>1
            <4> QED BY <4>2 DEF t
        <3> QED BY <1>5, <3>2, <3>3 DEF IInv, PrefixInv, Prefix
    <2>2. Buffered \subseteq Buffered' \cup received
        BY <1>15, <2>1 DEF Buffered
    <2>3. Emitted' = Emitted /\ Queued' = Queued
        BY <1>1 DEF Emitted, Queued
    <2> QED BY <1>1, <2>2, <2>3 DEF IInv, KeptInv
<1> QED BY <1>11, <1>12, <1>14, <1>16, <1>17, <1>18, <1>19, <1>20 DEF IInv

LEMMA Step_deliver_once ==
    ASSUME IInv, BatchSizeInv, deliver_once PROVE IInv'
<1> DEFINE B == next_batch
<1>1. /\ "delivery" \in tasks /\ batch = {}
      /\ batch' = {l.id : l \in B} /\ taken' = [c \in Classes |-> Cardinality(B \cap Lines(c))]
      /\ answer' = "none"
      /\ UNCHANGED <<class, chan, files, active, consumed, next_seq, stored, total, reported, heard,
                     overtaken, unheard, tasks, received, shed, gone>>
    BY DEF deliver_once, buffer, drops, process, server, history
<1>2. files \in Files /\ consumed \in [Classes -> Nat] /\ Ordered(files) /\ Owned(files, class)
    BY DEF IInv, TypeInv, FilesInv
<1>3. ASSUME NEW c \in Classes
      PROVE  /\ files[c] \in Seq(Line) /\ Len(files[c]) \in Nat /\ consumed[c] \in Nat
             /\ front(files[c]) \in Nat /\ (files[c] # <<>> => front(files[c]) >= 1)
             /\ first_unread(c) \in Nat /\ first_unread(c) >= 1
    <2>1. files[c] \in Seq(Line) /\ Len(files[c]) \in Nat /\ consumed[c] \in Nat
        BY <1>2, Lined
    <2>2. front(files[c]) \in Nat /\ (files[c] # <<>> => front(files[c]) >= 1)
        BY <2>1, FrontOf
    <2>3. first_unread(c) = consumed[c] + 1 \/ first_unread(c) = front(files[c]) + 1
        BY DEF first_unread
    <2> QED BY <2>1, <2>2, <2>3
<1>4. ASSUME NEW c \in Classes PROVE Unread(c) \subseteq Lines(c)
    <2>1. first_unread(c)..Len(files[c]) \subseteq 1..Len(files[c])
        BY <1>3
    <2> QED BY <2>1 DEF Unread, Lines
<1>5. Pending \subseteq OnDisk
    BY <1>4 DEF Pending, OnDisk
<1>6. IsFiniteSet(Pending) /\ B \subseteq Pending /\ IsFiniteSet(B)
    <2>1. IsFiniteSet(OnDisk)
        BY DEF IInv, DiskInv
    <2>2. IsFiniteSet(Pending)
        BY <1>5, <2>1, FS_Subset
    <2>3. B \subseteq Pending
        BY DEF next_batch
    <2> HIDE DEF B
    <2> QED BY <2>2, <2>3, FS_Subset
<1>7. ASSUME NEW l \in B, NEW k \in Pending, k.seq \in Nat, l.seq \in Nat, k.seq <= l.seq,
             \A p \in Pending : p.seq \in Nat
      PROVE  k \in B
    <2> DEFINE K == {p \in Pending : p.seq <= k.seq}
               M == {p \in Pending : p.seq <= l.seq}
    <2>1. Cardinality(M) <= max_events
        BY <1>7 DEF next_batch
    <2>2. K \subseteq M /\ M \subseteq Pending
        BY <1>7
    <2>3. IsFiniteSet(M)
        BY <1>6, <2>2, FS_Subset
    <2>4. Cardinality(K) <= Cardinality(M) /\ Cardinality(K) \in Nat /\ Cardinality(M) \in Nat
        BY <2>2, <2>3, FS_Subset, FS_CardinalityType
    <2>5. Cardinality(K) <= max_events
        <3> DEFINE x == Cardinality(K)  y == Cardinality(M)
        <3>1. x \in Nat /\ y \in Nat /\ x <= y /\ y <= max_events /\ max_events \in Nat
            BY <2>1, <2>4 DEF BatchSizeInv
        <3> HIDE DEF x, y
        <3>2. x <= max_events
            BY <3>1
        <3> QED BY <3>2 DEF x
    <2> QED BY <2>5 DEF next_batch
<1> HIDE DEF B
<1>8. \A p \in Pending : p.seq \in Nat
    <2> SUFFICES ASSUME NEW p \in Pending PROVE p.seq \in Nat
        OBVIOUS
    <2>1. PICK c \in Classes : \E i \in 1..Len(files[c]) : p = files[c][i]
        BY <1>5 DEF OnDisk, Lines
    <2> QED BY <1>2, <2>1, Lined
<1>9. taken' \in [Classes -> Nat]
    <2>1. ASSUME NEW c \in Classes PROVE Cardinality(B \cap Lines(c)) \in Nat
        <3>1. B \cap Lines(c) \in SUBSET B
            OBVIOUS
        <3> QED BY <1>6, <3>1, FS_Subset, FS_CardinalityType
    <2> QED BY <1>1, <2>1
<1>10. TypeInv'
    BY <1>1, <1>9 DEF IInv, TypeInv
<1>11. FilesInv' /\ PlaceInv' /\ DiskInv' /\ DropsInv' /\ KeptInv'
    <2>1. /\ UNCHANGED <<class, chan, files, next_seq, shed>> /\ UNCHANGED <<files, stored>>
          /\ UNCHANGED <<class, total, reported, heard, shed, unheard>>
          /\ UNCHANGED <<overtaken, class, chan, files>> /\ tasks' \subseteq tasks
          /\ received \subseteq received' /\ shed \subseteq shed' /\ gone \subseteq gone'
        BY <1>1
    <2> QED BY <2>1, FrameLines, FrameDisk, FrameDrops, FrameKept
<1>12. WireInv'
    <2>1. ASSUME batch' = {} PROVE taken' = Zero
        <3>1. B = {}
            BY <1>1, <2>1
        <3>2. ASSUME NEW c \in Classes PROVE Cardinality(B \cap Lines(c)) = 0
            <4>1. B \cap Lines(c) = {}
                BY <3>1
            <4> QED BY <4>1, FS_EmptySet
        <3> QED BY <1>1, <3>2 DEF Zero
    <2> QED BY <1>1, <2>1 DEF WireInv, Zero
<1>13. PrefixInv'
    <2> SUFFICES ASSUME ~overtaken, NEW c \in Classes PROVE Prefix(c)'
        BY <1>1 DEF PrefixInv, Prefix
    <2> DEFINE q == files[c]  a == consumed[c]  L == Len(q)
    <2>1. /\ a + taken[c] <= L /\ (a = 0 \/ a < front(q))
          /\ \A i \in 1..a : q[i].id \in received
        BY DEF IInv, PrefixInv, Prefix
    <2>2. a \in Nat /\ L \in Nat /\ q \in Seq(Line) /\ front(q) \in Nat /\ (q # <<>> => front(q) >= 1)
        BY <1>3
    <2>3. taken[c] \in Nat
        BY DEF IInv, TypeInv
    <2>4. a <= L
        BY <2>1, <2>2, <2>3
    <2>5. first_unread(c) = a + 1
        <3>1. q = <<>> \/ a < front(q)
            BY <2>1, <2>2
        <3> QED BY <3>1 DEF first_unread
    <2>6. Unread(c) = {q[i] : i \in (a + 1)..L}
        BY <2>5 DEF Unread
    <2>7. \A i, j \in 1..L : i < j => q[i].seq < q[j].seq /\ q[i].id < q[j].id
        BY <1>2 DEF Ordered
    <2>8. \A i \in 1..L : q[i].seq \in Nat /\ q[i] \in Lines(c)
        BY <1>2, Lined DEF Lines
    <2>9. \A i \in (a + 1)..L : q[i] \in Pending
        BY <2>6 DEF Pending
    \* A line of the batch that is of this class is an unread one
    <2>10. ASSUME NEW l \in B, l \in Lines(c) PROVE \E i \in (a + 1)..L : l = q[i]
        <3>1. PICK d \in Classes : l \in Unread(d)
            BY <1>6 DEF Pending
        <3>2. PICK i \in 1..Len(files[d]) : l = files[d][i]
            BY <1>4, <3>1 DEF Lines
        <3>3. PICK j \in 1..Len(files[c]) : l = files[c][j]
            BY <2>10 DEF Lines
        <3>4. class[l.id] = d
            BY <1>2, <3>2 DEF Owned
        <3>5. class[l.id] = c
            BY <1>2, <3>3 DEF Owned
        <3> QED BY <2>6, <3>1, <3>4, <3>5
    <2> DEFINE T == {i \in (a + 1)..L : q[i] \in B}
    <2>11. ASSUME NEW i \in T, NEW j \in (a + 1)..i PROVE j \in T
        <3>1. i \in (a + 1)..L /\ q[i] \in B /\ j \in (a + 1)..L /\ i \in 1..L /\ j \in 1..L
            BY <2>2, <2>11
        <3>2. CASE i = j
            BY <3>2
        <3>3. CASE i # j
            <4>1. j < i
                BY <3>1, <3>3
            <4>2. q[j].seq \in Nat /\ q[i].seq \in Nat /\ q[j].seq < q[i].seq /\ q[j] \in Pending
                BY <2>7, <2>8, <2>9, <3>1, <4>1
            <4>3. q[j].seq <= q[i].seq
                BY <4>2
            <4>4. q[j] \in B
                BY <1>7, <1>8, <3>1, <4>2, <4>3
            <4> QED BY <3>1, <4>4
        <3> QED BY <3>2, <3>3
    <2>12. PICK m \in Nat : a <= m /\ m <= L /\ T = (a + 1)..m
        <3>1. T \in SUBSET Nat /\ \A i \in T : i <= L /\ i >= a + 1
            BY <2>2
        <3>2. CASE T = {}
            <4>1. (a + 1)..a = {}
                BY <2>2
            <4> QED BY <2>2, <2>4, <3>2, <4>1
        <3>3. CASE T # {}
            <4> HIDE DEF T, L
            <4>1. PICK m \in T : \A i \in T : i <= m
                BY <2>2, <3>1, <3>3, Maximum
            <4>2. m \in Nat /\ a <= m /\ m <= L
                BY <2>2, <3>1
            <4>3. T \subseteq (a + 1)..m
                BY <2>2, <3>1, <4>1
            <4>4. (a + 1)..m \subseteq T
                BY <2>11
            <4> QED BY <4>2, <4>3, <4>4
        <3> QED BY <3>2, <3>3
    <2>13. B \cap Lines(c) = {q[i] : i \in (a + 1)..m}
        <3>1. ASSUME NEW l \in B \cap Lines(c) PROVE l \in {q[i] : i \in (a + 1)..m}
            <4>1. PICK i \in (a + 1)..L : l = q[i]
                BY <2>10
            <4>2. i \in T
                BY <4>1
            <4> QED BY <2>12, <4>1, <4>2
        <3>2. ASSUME NEW i \in (a + 1)..m PROVE q[i] \in B \cap Lines(c)
            <4>1. i \in T
                BY <2>12
            <4>2. q[i] \in B /\ i \in 1..L
                BY <2>2, <4>1
            <4> QED BY <2>8, <4>2
        <3> QED BY <3>1, <3>2
    <2> HIDE DEF q, a, L, T
    <2>14. Cardinality(B \cap Lines(c)) = m - a
        BY <2>2, <2>7, <2>12, <2>13, SegmentSize DEF L
    <2>15. taken'[c] = m - a
        BY <1>1, <2>14
    <2>16. a + taken'[c] = m
        BY <2>2, <2>15
    <2>17. ASSUME NEW i \in 1..m PROVE q[i].id \in received \cup batch'
        <3>1. CASE i \in 1..a
            BY <2>1, <3>1
        <3>2. CASE i \notin 1..a
            <4>1. i \in (a + 1)..m
                BY <2>2, <2>12, <3>2
            <4>2. q[i] \in B
                BY <2>13, <4>1
            <4> QED BY <1>1, <4>2
        <3> QED BY <3>1, <3>2
    <2>18. consumed'[c] = a /\ files'[c] = q
        BY <1>1 DEF a, q
    <2>19. /\ consumed'[c] + taken'[c] <= Len(files'[c])
           /\ consumed'[c] = 0 \/ consumed'[c] < front(files'[c])
           /\ \A i \in 1..consumed'[c] : files'[c][i].id \in received'
           /\ \A i \in 1..(consumed'[c] + taken'[c]) : files'[c][i].id \in received' \cup batch'
        BY <1>1, <2>1, <2>12, <2>16, <2>17, <2>18 DEF L
    <2> QED BY <2>19 DEF Prefix, front
<1> QED BY <1>10, <1>11, <1>12, <1>13 DEF IInv

-----------------------------------------------------------------------------
(* The theorems *)

LEMMA BatchSizeStep ==
    ASSUME BatchSizeInv, [Next]_vars PROVE BatchSizeInv'
<1>1. max_events \in Nat /\ MaxBatch \in Nat
    BY DeliveryAssumption DEF BatchSizeInv
<1>2. CASE deliver_413
    <2>1. max_events' = max_events \div 2 \/ max_events' = 1
        BY <1>2 DEF deliver_413
    <2>2. max_events \div 2 \in Nat
        BY <1>1
    <2> QED BY <2>1, <2>2 DEF BatchSizeInv
<1>3. CASE start
    BY <1>1, <1>3 DEF start, BatchSizeInv
<1>4. CASE max_events' = max_events
    BY <1>4 DEF BatchSizeInv
<1>5. deliver_413 \/ start \/ max_events' = max_events
    <2>1. CASE UNCHANGED vars
        BY <2>1 DEF vars, agent
    <2>2. CASE \E c \in Classes : send_blocking(c)
        BY <2>2 DEF send_blocking
    <2>3. CASE enqueue_oversized \/ enqueue_fits \/ enqueue_shed \/ enqueue_error
        BY <2>3 DEF enqueue_oversized, enqueue_fits, enqueue_shed, enqueue_error
    <2>4. CASE deliver_once \/ deliver_2xx \/ deliver_413 \/ deliver_backoff \/ deliver_revoked
        BY <2>4 DEF deliver_once, deliver_2xx, deliver_backoff, deliver_revoked
    <2>5. CASE handle_batch \/ handle_batch_lost \/ read_batch_too_large \/ refuse \/ verify_device_revoked
        BY <2>5 DEF handle_batch, handle_batch_lost, read_batch_too_large, refuse,
           verify_device_revoked, Answer
    <2>6. CASE heartbeat_ok \/ heartbeat_failed \/ heartbeat_revoked
        BY <2>6 DEF heartbeat_ok, heartbeat_failed, heartbeat_revoked, Heartbeat
    <2>7. CASE revoke_device \/ main_shutdown \/ main_stop_provider
        BY <2>7 DEF revoke_device, main_shutdown, main_stop_provider, agent
    <2>8. CASE drain_ends \/ delivery_ends \/ heartbeat_ends
        BY <2>8 DEF drain_ends, delivery_ends, heartbeat_ends, EndTask
    <2>9. CASE crash \/ start
        BY <2>9 DEF crash
    <2> QED BY <2>1, <2>2, <2>3, <2>4, <2>5, <2>6, <2>7, <2>8, <2>9 DEF Next
<1> QED BY <1>2, <1>3, <1>4, <1>5

LEMMA StepHolds ==
    ASSUME IInv, BatchSizeInv, [Next]_vars PROVE IInv'
<1>1. CASE UNCHANGED vars \/ revoke_device \/ main_shutdown \/ main_stop_provider
    BY <1>1, Step_unchanged
<1>2. CASE \E c \in Classes : send_blocking(c)
    BY <1>2, Step_send_blocking
<1>3. CASE enqueue_oversized \/ enqueue_fits \/ enqueue_shed \/ enqueue_error
    BY <1>3, Step_enqueue_oversized, Step_enqueue_fits, Step_enqueue_shed, Step_enqueue_error
<1>4. CASE deliver_once
    BY <1>4, Step_deliver_once
<1>5. CASE deliver_2xx
    BY <1>5, Step_deliver_2xx
<1>6. CASE deliver_413 \/ deliver_backoff \/ deliver_revoked
    BY <1>6, Step_attempt_failed
<1>7. CASE handle_batch \/ handle_batch_lost \/ read_batch_too_large \/ refuse \/ verify_device_revoked
    BY <1>7, Step_answer
<1>8. CASE heartbeat_ok \/ heartbeat_failed \/ heartbeat_revoked
    BY <1>8, Step_heartbeat
<1>9. CASE drain_ends \/ delivery_ends \/ heartbeat_ends
    BY <1>9, Step_EndTask
<1>10. CASE crash
    BY <1>10, Step_crash
<1>11. CASE start
    BY <1>11, Step_start
<1> QED BY <1>1, <1>2, <1>3, <1>4, <1>5, <1>6, <1>7, <1>8, <1>9, <1>10, <1>11 DEF Next

(* The inductive invariant of the buffer, the wire and the drop counts. *)
THEOREM DeliveryInvariant == Spec => [](IInv /\ BatchSizeInv)
<1>1. Init => IInv /\ BatchSizeInv
    <2>1. Init => BatchSizeInv
        BY DeliveryAssumption DEF Init, BatchSizeInv
    <2> QED BY <2>1, InitHolds
<1>2. (IInv /\ BatchSizeInv) /\ [Next]_vars => (IInv /\ BatchSizeInv)'
    BY StepHolds, BatchSizeStep
<1> QED BY <1>1, <1>2, PTL DEF Spec

(* The lines on disk never exceed buffer.max_bytes, and the counter that decides about        *)
(* shedding is their number, through commit, drop_front, crashes and open.                    *)
THEOREM DiskBoundedHolds == Spec => []DiskBounded
<1>1. IInv => DiskBounded
    BY DEF IInv, DiskInv
<1> QED BY <1>1, DeliveryInvariant, PTL

(* The server hears of every dropped event once, unless a heartbeat failed or the agent       *)
(* stopped (take_delta against count_drop).                                                   *)
THEOREM DropsHeardOnceHolds == Spec => []DropsHeardOnce
<1>1. IInv => DropsHeardOnce
    BY DEF IInv, DropsInv
<1> QED BY <1>1, DeliveryInvariant, PTL

\* A line is received or will be sent again
LEMMA BufferedWaits ==
    ASSUME IInv, ~overtaken PROVE Buffered \subseteq Waiting \cup received
<1>1. CASE ~Running
    BY <1>1 DEF Waiting
<1>2. CASE Running
    <2>1. ASSUME NEW c \in Classes, NEW i \in 1..Len(files[c])
          PROVE  files[c][i].id \in Waiting \cup received
        <3> DEFINE a == consumed[c]
        <3>1. /\ a \in Nat /\ files[c] \in Seq(Line) /\ Len(files[c]) \in Nat
              /\ files \in Files
            BY Lined DEF IInv, TypeInv
        <3>2. front(files[c]) \in Nat /\ (files[c] # <<>> => front(files[c]) >= 1)
            BY <3>1, FrontOf
        <3>3. (a = 0 \/ a < front(files[c])) /\ \A j \in 1..a : files[c][j].id \in received
            BY DEF IInv, PrefixInv, Prefix
        <3>4. first_unread(c) = a + 1
            <4>1. files[c] = <<>> \/ a < front(files[c])
                BY <3>1, <3>2, <3>3
            <4> QED BY <4>1 DEF first_unread
        <3>5. CASE i \in 1..a
            BY <3>3, <3>5
        <3>6. CASE i \notin 1..a
            <4>1. i \in (a + 1)..Len(files[c])
                BY <3>1, <3>6
            <4>2. files[c][i] \in Pending
                BY <3>4, <4>1 DEF Unread, Pending
            <4> QED BY <1>2, <4>2 DEF Waiting
        <3> QED BY <3>5, <3>6
    <2> QED BY <2>1 DEF Buffered, OnDisk, Lines
<1> QED BY <1>1, <1>2

(* An event the agent took is queued, will be sent, was received or was counted as dropped:   *)
(* retries, 413, lost answers, crashes and shedding between requests lose none.               *)
THEOREM AccountedUnlessOvertakenHolds == Spec => []AccountedUnlessOvertaken
<1>1. IInv => AccountedUnlessOvertaken
    BY BufferedWaits DEF IInv, KeptInv, AccountedUnlessOvertaken, AccountedFor
<1> QED BY <1>1, DeliveryInvariant, PTL
=============================================================================
