---------------------------- MODULE Files_proofs ----------------------------
(***************************************************************************)
(* Proofs about the files that outlive the program: those the reports are  *)
(* made from (History), the reports (Reports) and the statistics of the    *)
(* digest (TgReport).                                                      *)
(*                                                                         *)
(* Nothing is lost between syncs: a trade that was final when a sync began *)
(* was either newer than what the sync asked for, and then it is on one of *)
(* the pages, or it was final already when the sync before began, and then *)
(* it is on file.  The first half is a fact about the pages of each of the *)
(* eight exchanges, for any page size: a page leaves no trade between what *)
(* it reads and where the next one starts, although trades are added       *)
(* meanwhile (PageOf).  The second is what Lookback is for.                *)
(*                                                                         *)
(* What a bot counts must be found again when it dies, so the invariant of *)
(* TgReport says where its trades are besides its memory (BackedUp); what  *)
(* one bot alone guarantees is an invariant under ~mixed (Alone).          *)
(*                                                                         *)
(* A record on file is of a trade that happened (StoredInv), so it has a   *)
(* date, and a report of the records of a state is a sum over finite sets  *)
(* of rows.  That two reports agree is that each parts the same rows; that *)
(* a label without a year is selected by its own week is that of the weeks *)
(* of a year it is tried in (PeriodEndWeeks) only its own is asked for.    *)
(***************************************************************************)
EXTENDS Reports, TgReport, Sums_proofs, FiniteSetTheorems, SequenceTheorems,
        WellFoundedInduction, TLAPS

-----------------------------------------------------------------------------
(* Least and greatest elements of finite sets.                             *)

(* The elements of a set of numbers on either side of one.                 *)
Above(S, i) == {j \in S : j > i}
Below(S, i) == {j \in S : j < i}

LEMMA Nested ==
  ASSUME NEW S, \A x \in S : x \in Int, NEW i \in Int, NEW j \in Int, i < j
  PROVE  Above(S, j) \subseteq Above(S, i) /\ Below(S, i) \subseteq Below(S, j)
<1>1. ASSUME NEW x \in Above(S, j) PROVE x \in Above(S, i)
  <2>1. x \in S /\ x \in Int /\ x > j
    BY DEF Above
  <2>2. x > i
    BY <2>1
  <2> QED BY <2>1, <2>2 DEF Above
<1>2. ASSUME NEW x \in Below(S, i) PROVE x \in Below(S, j)
  <2>1. x \in S /\ x \in Int /\ x < i
    BY DEF Below
  <2>2. x < j
    BY <2>1
  <2> QED BY <2>1, <2>2 DEF Below
<1> QED BY <1>1, <1>2

(* The greatest element is the one with nothing above it, and Max chooses  *)
(* it.                                                                     *)
LEMMA MaxIs ==
  ASSUME NEW S, IsFiniteSet(S), \A x \in S : x \in Int, S # {}
  PROVE  Max(S) \in S /\ \A i \in S : i <= Max(S)
<1> DEFINE C == {Above(S, i) : i \in S}
<1>1. PICK T \in C : \A U \in C : U \subseteq T => U = T
  <2>1. C \in SUBSET (SUBSET S)
    BY DEF Above
  <2>2. C # {}
    OBVIOUS
  <2> HIDE DEF C
  <2> QED BY <2>1, <2>2, MinimalSet
<1>2. PICK m \in S : T = Above(S, m)
  OBVIOUS
<1>3. m \in Int
  OBVIOUS
<1>4. ASSUME NEW i \in S PROVE m >= i
  <2> SUFFICES ASSUME i > m PROVE FALSE
    OBVIOUS
  <2>1. i \in Int /\ Above(S, i) \in C
    OBVIOUS
  <2>2. Above(S, i) \subseteq T
    BY <1>2, <1>3, <2>1, Nested
  <2>3. i \in T /\ i \notin Above(S, i)
    BY <1>2, <1>3, <2>1 DEF Above
  <2> HIDE DEF C
  <2> QED BY <1>1, <2>1, <2>2, <2>3
<1>5. Max(S) \in S /\ \A i \in S : Max(S) >= i
  BY <1>4 DEF Max
<1> QED BY <1>5

LEMMA MinIs ==
  ASSUME NEW S, IsFiniteSet(S), \A x \in S : x \in Int, S # {}
  PROVE  Min(S) \in S /\ \A i \in S : Min(S) <= i
<1> DEFINE C == {Below(S, i) : i \in S}
<1>1. PICK T \in C : \A U \in C : U \subseteq T => U = T
  <2>1. C \in SUBSET (SUBSET S)
    BY DEF Below
  <2>2. C # {}
    OBVIOUS
  <2> HIDE DEF C
  <2> QED BY <2>1, <2>2, MinimalSet
<1>2. PICK m \in S : T = Below(S, m)
  OBVIOUS
<1>3. m \in Int
  OBVIOUS
<1>4. ASSUME NEW i \in S PROVE m <= i
  <2> SUFFICES ASSUME i < m PROVE FALSE
    OBVIOUS
  <2>1. i \in Int /\ Below(S, i) \in C
    OBVIOUS
  <2>2. Below(S, i) \subseteq T
    BY <1>2, <1>3, <2>1, Nested
  <2>3. i \in T /\ i \notin Below(S, i)
    BY <1>2, <1>3, <2>1 DEF Below
  <2> HIDE DEF C
  <2> QED BY <1>1, <2>1, <2>2, <2>3
<1>5. Min(S) \in S /\ \A i \in S : Min(S) <= i
  BY <1>4 DEF Min
<1> QED BY <1>5

-----------------------------------------------------------------------------
(* What a page holds.                                                      *)

(* The oldest come before the others, and are all if they do not fill a    *)
(* page.                                                                   *)
LEMMA OldestIs ==
  ASSUME NEW S, IsFiniteSet(S), \A x \in S : x \in Int
  PROVE  /\ Oldest(S) \subseteq S
         /\ \A i \in Oldest(S), j \in S \ Oldest(S) : i < j
         /\ Cardinality(Oldest(S)) < PageSize => Oldest(S) = S
<1> PageSize \in Nat \ {0}
  BY HistoryAssumption
<1>1. \A i : IsFiniteSet(Below(S, i)) /\ Cardinality(Below(S, i)) \in Nat
  BY FS_Subset, FS_CardinalityType DEF Below
<1>2. /\ Oldest(S) = {i \in S : Cardinality(Below(S, i)) < PageSize}
      /\ Oldest(S) \subseteq S /\ IsFiniteSet(Oldest(S)) /\ Cardinality(Oldest(S)) \in Nat
  BY FS_Subset, FS_CardinalityType DEF Oldest, Below
<1>3. ASSUME NEW i \in Oldest(S), NEW j \in S \ Oldest(S) PROVE i < j
  <2>0. i \in Int /\ j \in Int /\ i # j
    BY <1>2
  <2> SUFFICES ASSUME j < i PROVE FALSE
    BY <2>0
  <2>1. Below(S, j) \subseteq Below(S, i)
    BY <2>0, Nested
  <2>2. Cardinality(Below(S, j)) <= Cardinality(Below(S, i))
    BY <1>1, <2>1, FS_Subset
  <2> QED BY <1>1, <1>2, <2>2
<1>4. ASSUME Oldest(S) # S PROVE Cardinality(Oldest(S)) >= PageSize
  <2> DEFINE m == Min(S \ Oldest(S))
  <2>1. m \in S \ Oldest(S) /\ \A i \in S \ Oldest(S) : m <= i
    <3>1. S \ Oldest(S) # {} /\ IsFiniteSet(S \ Oldest(S)) /\ \A x \in S \ Oldest(S) : x \in Int
      BY <1>2, <1>4, FS_Subset
    <3> QED BY <3>1, MinIs
  <2> HIDE DEF m
  <2>2. Below(S, m) \subseteq Oldest(S)
    <3>1. \A i \in Below(S, m) : i \in S /\ ~ (m <= i)
      BY <2>1 DEF Below
    <3> QED BY <2>1, <3>1
  <2>3. Cardinality(Below(S, m)) <= Cardinality(Oldest(S))
    BY <1>2, <2>2, FS_Subset
  <2>4. ~ (Cardinality(Below(S, m)) < PageSize)
    BY <1>2, <2>1
  <2> QED BY <1>1, <1>2, <2>3, <2>4
<1> QED BY <1>2, <1>3, <1>4

(* The newest come after the others; there is one if there are any, and    *)
(* they are all if they do not fill a page.                                *)
LEMMA NewestIs ==
  ASSUME NEW S, IsFiniteSet(S), \A x \in S : x \in Int
  PROVE  /\ Newest(S) \subseteq S
         /\ \A i \in Newest(S), j \in S \ Newest(S) : j < i
         /\ S # {} => Newest(S) # {}
         /\ Cardinality(Newest(S)) # PageSize => Newest(S) = S
<1> PageSize \in Nat \ {0}
  BY HistoryAssumption
<1>1. \A i : IsFiniteSet(Above(S, i)) /\ Cardinality(Above(S, i)) \in Nat
  BY FS_Subset, FS_CardinalityType DEF Above
<1>2. /\ Newest(S) = {i \in S : Cardinality(Above(S, i)) < PageSize}
      /\ Newest(S) \subseteq S /\ IsFiniteSet(Newest(S)) /\ Cardinality(Newest(S)) \in Nat
  BY FS_Subset, FS_CardinalityType DEF Newest, Above
<1>3. ASSUME NEW i \in Newest(S), NEW j \in S \ Newest(S) PROVE j < i
  <2>0. i \in Int /\ j \in Int /\ i # j
    BY <1>2
  <2> SUFFICES ASSUME i < j PROVE FALSE
    BY <2>0
  <2>1. Above(S, j) \subseteq Above(S, i)
    BY <2>0, Nested
  <2>2. Cardinality(Above(S, j)) <= Cardinality(Above(S, i))
    BY <1>1, <2>1, FS_Subset
  <2> QED BY <1>1, <1>2, <2>2
<1>4. ASSUME Newest(S) # S PROVE Cardinality(Newest(S)) >= PageSize
  <2> DEFINE m == Max(S \ Newest(S))
  <2>1. m \in S \ Newest(S) /\ \A i \in S \ Newest(S) : i <= m
    <3>1. S \ Newest(S) # {} /\ IsFiniteSet(S \ Newest(S)) /\ \A x \in S \ Newest(S) : x \in Int
      BY <1>2, <1>4, FS_Subset
    <3> QED BY <3>1, MaxIs
  <2> HIDE DEF m
  <2>2. Above(S, m) \subseteq Newest(S)
    <3>1. \A i \in Above(S, m) : i \in S /\ ~ (i <= m)
      BY <2>1 DEF Above
    <3> QED BY <2>1, <3>1
  <2>3. Cardinality(Above(S, m)) <= Cardinality(Newest(S))
    BY <1>2, <2>2, FS_Subset
  <2>4. ~ (Cardinality(Above(S, m)) < PageSize)
    BY <1>2, <2>1
  <2> QED BY <1>1, <1>2, <2>3, <2>4
<1>5. ASSUME S # {} PROVE Newest(S) # {}
  <2>1. Max(S) \in S /\ \A i \in S : i <= Max(S)
    BY <1>5, MaxIs
  <2>2. Above(S, Max(S)) = {}
    <3>1. \A i \in Above(S, Max(S)) : ~ (i <= Max(S)) /\ i \in S
      BY <2>1 DEF Above
    <3> QED BY <2>1, <3>1
  <2>3. Cardinality(Above(S, Max(S))) < PageSize
    BY <2>2, FS_EmptySet
  <2> QED BY <1>2, <2>1, <2>3
<1>6. Cardinality(Newest(S)) <= PageSize
  <2>1. CASE Newest(S) = {}
    BY <2>1, FS_EmptySet
  <2>2. CASE Newest(S) # {}
    <3> DEFINE m == Min(Newest(S))
    <3>1. m \in Newest(S) /\ \A i \in Newest(S) : m <= i
      BY <1>2, <2>2, MinIs
    <3> HIDE DEF m
    <3>2. Newest(S) \ {m} \subseteq Above(S, m)
      <4>1. \A i \in Newest(S) : i \in S /\ i \in Int /\ m <= i
        BY <1>2, <3>1
      <4>2. m \in Int
        BY <1>2, <3>1
      <4> QED BY <4>1, <4>2 DEF Above
    <3>3. Cardinality(Newest(S) \ {m}) <= Cardinality(Above(S, m))
      BY <1>1, <3>2, FS_Subset
    <3>4. Cardinality(Newest(S) \ {m}) = Cardinality(Newest(S)) - 1
      BY <1>2, <3>1, FS_RemoveElement
    <3>5. Cardinality(Above(S, m)) < PageSize
      BY <1>2, <3>1
    <3> QED BY <1>1, <1>2, <3>3, <3>4, <3>5
  <2> QED BY <2>1, <2>2
<1> QED BY <1>2, <1>3, <1>4, <1>5, <1>6

(* Counted from the newest: what is not on the page at an offset is at the *)
(* next offset, or newer.                                                  *)
LEMMA OffsetIs ==
  ASSUME NEW S, IsFiniteSet(S), \A x \in S : x \in Int, NEW offset \in Nat,
         NEW rest, rest = {i \in S : Cardinality(Above(S, i)) >= offset},
         NEW i \in rest \ Newest(rest)
  PROVE  Cardinality(Above(S, i)) >= offset + PageSize
<1> PageSize \in Nat \ {0}
  BY HistoryAssumption
<1>1. rest \subseteq S /\ (\A x \in rest : x \in Int) /\ IsFiniteSet(rest) /\ rest # {}
  BY FS_Subset
<1> DEFINE m == Max(rest)
<1>2. m \in rest /\ \A j \in rest : j <= m
  BY <1>1, MaxIs
<1> HIDE DEF m
<1> DEFINE A == Above(rest, i)
           B == Above(S, m)
<1>3. Cardinality(A) >= PageSize
  <2>1. ~ (Cardinality(A) < PageSize)
    BY DEF Newest, Above
  <2>2. Cardinality(A) \in Nat
    BY <1>1, FS_Subset, FS_CardinalityType DEF Above
  <2> QED BY <2>1, <2>2
<1>4. Cardinality(B) >= offset
  BY <1>2
<1>5. /\ A \cap B = {} /\ A \cup B \subseteq Above(S, i)
      /\ IsFiniteSet(A) /\ IsFiniteSet(B) /\ IsFiniteSet(Above(S, i))
  <2>1. i \in Int /\ m \in Int /\ i <= m /\ m \in S
    BY <1>1, <1>2
  <2>2. A \subseteq rest /\ B \subseteq S /\ Above(S, i) \subseteq S
    BY DEF Above
  <2>3. \A j \in B : j \in Int /\ ~ (j <= m) /\ j > i
    BY <2>1 DEF Above
  <2>4. A \cap B = {}
    BY <1>2, <2>2, <2>3
  <2>5. A \cup B \subseteq Above(S, i)
    <3>1. \A j \in A : j \in S /\ j > i
      BY <1>1 DEF Above
    <3> QED BY <2>2, <2>3, <3>1 DEF Above
  <2> HIDE DEF A, B
  <2> QED BY <1>1, <2>2, <2>4, <2>5, FS_Subset
<1>6. /\ Cardinality(A \cup B) = Cardinality(A) + Cardinality(B) - Cardinality(A \cap B)
      /\ Cardinality(A \cap B) = 0
      /\ Cardinality(A \cup B) <= Cardinality(Above(S, i))
      /\ Cardinality(A) \in Nat /\ Cardinality(B) \in Nat /\ Cardinality(Above(S, i)) \in Nat
      /\ Cardinality(A \cup B) \in Nat
  BY <1>5, FS_Union, FS_Subset, FS_EmptySet, FS_CardinalityType
<1> HIDE DEF A, B
<1> QED BY <1>3, <1>4, <1>6

-----------------------------------------------------------------------------
(* The pages of the exchanges.                                             *)

(* Every list is in the order of the time stamps.                          *)
Sorted == \A i, j \in DOMAIN stamp : i < j => stamp[i] <= stamp[j]

(* A trade that another one of the same time may hide from a page.         *)
SameTime(i) ==
  kind \in {"hyena", "onyx"} /\ \E j \in DOMAIN stamp : j < i /\ stamp[j] = stamp[i]

(* A trade that the pages from `next` on will have.                        *)
Offset(next) == IF next = None THEN 0 ELSE next

ToCome(since, next, i) ==
  /\ kind \in {"hyena", "onyx"} => next = None \/ stamp[i] >= next
  /\ kind = "zero1" => next = None \/ i >= next
  /\ kind \in {"pacifica", "nado", "ethereal"} => next = None \/ i < next
  /\ kind = "rise" => Cardinality(Above(Listed, i)) >= Offset(next)
  /\ kind = "omni" => Cardinality(Above(Since(since), i)) >= Offset(next)

(* A page reads what is new, except what is still to come.                 *)
NoGap(page, since, next) ==
  /\ page.read \subseteq Listed
  /\ page.next \in Nat \cup {None}
  /\ page.more \in BOOLEAN
  /\ \A i \in Listed :
       stamp[i] > since /\ ToCome(since, next, i) =>
         i \in page.read \/ SameTime(i) \/ (page.more /\ ToCome(since, page.next, i))

LEMMA PageIs ==
  ASSUME NEW since, NEW next,
         NEW read \in SUBSET Listed, NEW n \in Nat \cup {None}, NEW more \in BOOLEAN,
         \A i \in Listed :
           stamp[i] > since /\ ToCome(since, next, i) =>
             i \in read \/ SameTime(i) \/ (more /\ ToCome(since, n, i))
  PROVE  NoGap(Page(read, n, more), since, next)
<1>1. /\ Page(read, n, more).read = read
      /\ Page(read, n, more).next = n
      /\ Page(read, n, more).more = more
  BY DEF Page
<1> HIDE DEF Page
<1> QED BY <1>1 DEF NoGap

(* The trades, and what the exchange lists of them.                        *)
LEMMA TradesAre ==
  ASSUME TypeOK
  PROVE  /\ Len(stamp) \in Nat /\ DOMAIN stamp = 1 .. Len(stamp) /\ DOMAIN stamp \subseteq Ids
         /\ IsFiniteSet(DOMAIN stamp) /\ clock \in Nat
         /\ \A i \in DOMAIN stamp : i \in Nat \ {0} /\ stamp[i] \in Nat /\ stamp[i] <= clock
<1>1. Len(stamp) \in Nat /\ DOMAIN stamp = 1 .. Len(stamp) /\ stamp \in [1 .. Len(stamp) -> 0 .. clock]
  BY LenProperties DEF TypeOK
<1>2. IsFiniteSet(1 .. Len(stamp))
  BY <1>1, FS_Interval
<1>3. clock \in Nat
  BY HistoryAssumption DEF TypeOK
<1>4. Cardinality(Ids) \in Nat /\ Ids = 1 .. Cardinality(Ids) /\ Len(stamp) <= Cardinality(Ids)
  BY HistoryAssumption, FS_CardinalityType DEF TypeOK
<1>5. 1 .. Len(stamp) \subseteq Ids
  BY <1>1, <1>4
<1> QED BY <1>1, <1>2, <1>3, <1>5

LEMMA ListedAre ==
  ASSUME TypeOK
  PROVE  /\ Listed \subseteq DOMAIN stamp
         /\ \A i \in Listed : i \in Nat /\ i \in Int /\ stamp[i] \in Nat
         /\ \A S \in SUBSET Listed : IsFiniteSet(S) /\ \A i \in S : i \in Int
<1>1. Listed \subseteq DOMAIN stamp
  BY DEF Listed
<1>2. \A S \in SUBSET Listed : IsFiniteSet(S)
  BY <1>1, TradesAre, FS_Subset
<1> QED BY <1>1, <1>2, TradesAre

(* Hyperliquid: what follows a full page is from the time of its last      *)
(* trade, and hidden, or later.                                            *)
LEMMA HyperliquidPages ==
  ASSUME TypeOK, Sorted, kind \in {"hyena", "onyx"},
         NEW since \in Int, NEW next \in Nat \cup {None}
  PROVE  NoGap(HyperliquidFills(since, next), since, next)
<1> DEFINE from == IF next = None THEN since ELSE next
           S == Since(from)
           page == Oldest(S)
<1>1. S \in SUBSET Listed /\ IsFiniteSet(S) /\ \A i \in S : i \in Int
  BY ListedAre DEF Since
<1>2. /\ page \subseteq S
      /\ \A i \in page, j \in S \ page : i < j
      /\ Cardinality(page) < PageSize => page = S
  <2> HIDE DEF S
  <2> QED BY <1>1, OldestIs
<1>3. ASSUME NEW i \in Listed, stamp[i] > since, ToCome(since, next, i) PROVE i \in S
  <2>1. stamp[i] \in Nat
    BY ListedAre
  <2>2. CASE next = None
    BY <1>3, <2>1, <2>2 DEF Since
  <2>3. CASE next # None
    <3>1. stamp[i] >= next
      BY <1>3, <2>3 DEF ToCome
    <3> QED BY <2>3, <3>1 DEF Since
  <2> QED BY <2>2, <2>3
<1>4. page \in SUBSET Listed
  BY <1>1, <1>2
<1>5. CASE Cardinality(page) < PageSize
  <2>1. HyperliquidFills(since, next) = Page(page, next, FALSE)
    BY <1>5 DEF HyperliquidFills
  <2>2. \A i \in Listed : stamp[i] > since /\ ToCome(since, next, i) => i \in page
    BY <1>2, <1>3, <1>5
  <2> HIDE DEF page
  <2> QED BY <1>4, <2>1, <2>2, PageIs
<1>6. CASE ~ (Cardinality(page) < PageSize)
  <2> DEFINE m == Max(page)
  <2>1. HyperliquidFills(since, next) = Page(page, stamp[m] + 1, TRUE)
    BY <1>6 DEF HyperliquidFills
  <2>2. page # {}
    <3>1. PageSize \in Nat \ {0}
      BY HistoryAssumption
    <3>2. Cardinality({}) < PageSize
      BY <3>1, FS_EmptySet
    <3> HIDE DEF page
    <3> QED BY <1>6, <3>2
  <2>3. m \in page /\ m \in Listed /\ m \in Int /\ stamp[m] \in Nat
    <3>1. IsFiniteSet(page) /\ \A i \in page : i \in Int
      BY <1>4, ListedAre
    <3>2. m \in page
      <4> HIDE DEF page
      <4> QED BY <2>2, <3>1, MaxIs
    <3> QED BY <1>4, <3>2, ListedAre
  <2> HIDE DEF m, page, S
  <2>4. ASSUME NEW i \in Listed, stamp[i] > since, ToCome(since, next, i), i \notin page
        PROVE  SameTime(i) \/ ToCome(since, stamp[m] + 1, i)
    <3>1. i \in S /\ m < i /\ i \in Int /\ stamp[i] \in Nat /\ i \in DOMAIN stamp /\ m \in DOMAIN stamp
      BY <1>2, <1>3, <2>3, <2>4, ListedAre
    <3>2. stamp[m] <= stamp[i]
      BY <2>3, <3>1 DEF Sorted
    <3>3. stamp[m] = stamp[i] \/ stamp[i] >= stamp[m] + 1
      BY <2>3, <3>1, <3>2
    <3> QED BY <3>1, <3>3 DEF SameTime, ToCome
  <2>5. stamp[m] + 1 \in Nat \cup {None}
    BY <2>3
  <2> QED BY <1>4, <2>1, <2>4, <2>5, PageIs
<1> QED BY <1>5, <1>6

(* 01: the next page begins with the first trade that is left.             *)
LEMMA ZeroOnePages ==
  ASSUME TypeOK, kind = "zero1", NEW since \in Int, NEW next \in Nat \cup {None}
  PROVE  NoGap(ZeroOnePaged(since, next), since, next)
<1> DEFINE left == IF next = None THEN Since(since) ELSE {i \in Listed : i >= next}
           page == Oldest(left)
<1>1. left \in SUBSET Listed /\ IsFiniteSet(left) /\ \A i \in left : i \in Int
  <2>1. left \in SUBSET Listed
    BY DEF Since
  <2> HIDE DEF left
  <2> QED BY <2>1, ListedAre
<1>2. page \subseteq left
  <2> HIDE DEF left
  <2> QED BY <1>1, OldestIs
<1>3. ASSUME NEW i \in Listed, stamp[i] > since, ToCome(since, next, i) PROVE i \in left
  <2>1. stamp[i] \in Nat
    BY ListedAre
  <2>2. CASE next = None
    BY <1>3, <2>1, <2>2 DEF Since
  <2>3. CASE next # None
    BY <1>3, <2>3 DEF ToCome
  <2> QED BY <2>2, <2>3
<1>4. page \in SUBSET Listed
  BY <1>1, <1>2
<1>5. CASE left = page
  <2>1. ZeroOnePaged(since, next) = Page(page, next, FALSE)
    BY <1>5 DEF ZeroOnePaged
  <2>2. \A i \in Listed : stamp[i] > since /\ ToCome(since, next, i) => i \in page
    BY <1>3, <1>5
  <2> HIDE DEF page, left
  <2> QED BY <1>4, <2>1, <2>2, PageIs
<1>6. CASE left # page
  <2> DEFINE m == Min(left \ page)
  <2>1. ZeroOnePaged(since, next) = Page(page, m, TRUE)
    BY <1>6 DEF ZeroOnePaged
  <2> HIDE DEF page, left
  <2>2. left \ page # {} /\ IsFiniteSet(left \ page) /\ \A i \in left \ page : i \in Int
    BY <1>1, <1>2, <1>6, FS_Subset
  <2>3. m \in left \ page /\ \A i \in left \ page : m <= i
    BY <2>2, MinIs
  <2>4. m \in Nat \cup {None}
    BY <1>1, <2>3, ListedAre
  <2> HIDE DEF m
  <2>5. \A i \in Listed : stamp[i] > since /\ ToCome(since, next, i) => i \in page \/ ToCome(since, m, i)
    <3> SUFFICES ASSUME NEW i \in Listed, stamp[i] > since, ToCome(since, next, i), i \notin page
                 PROVE  ToCome(since, m, i)
      OBVIOUS
    <3>1. m <= i /\ i \in Int /\ m \in Int
      BY <1>1, <1>3, <2>3
    <3>2. i >= m
      BY <3>1
    <3> QED BY <3>2 DEF ToCome
  <2> QED BY <1>4, <2>1, <2>4, <2>5, PageIs
<1> QED BY <1>5, <1>6

(* Newest first: a page, and what is older than it.                        *)
LEMMA NewestFirst ==
  ASSUME TypeOK, NEW next \in Nat \cup {None}, NEW page, page = Newest(Before(next))
  PROVE  /\ page \in SUBSET Listed /\ page \subseteq Before(next)
         /\ \A i \in Listed : next = None \/ i < next => i \in Before(next)
         /\ \A i \in page, j \in Before(next) \ page : j < i
         /\ Cardinality(page) # PageSize => page = Before(next)
         /\ page # {} => /\ Min(page) \in page /\ Min(page) \in Nat
                         /\ \A j \in Before(next) \ page : j < Min(page)
         /\ page # Before(next) => page # {}
<1>1. Before(next) \in SUBSET Listed
  BY DEF Before
<1>2. IsFiniteSet(Before(next)) /\ \A i \in Before(next) : i \in Int
  BY <1>1, ListedAre
<1>3. /\ page \subseteq Before(next)
      /\ \A i \in page, j \in Before(next) \ page : j < i
      /\ Before(next) # {} => page # {}
      /\ Cardinality(page) # PageSize => page = Before(next)
  BY <1>2, NewestIs
<1>4. \A i \in Listed : next = None \/ i < next => i \in Before(next)
  BY DEF Before
<1>5. ASSUME page # {}
      PROVE  /\ Min(page) \in page /\ Min(page) \in Nat
             /\ \A j \in Before(next) \ page : j < Min(page)
  <2>1. page \in SUBSET Listed
    BY <1>1, <1>3
  <2>2. IsFiniteSet(page) /\ \A i \in page : i \in Int
    BY <2>1, ListedAre
  <2>3. Min(page) \in page
    BY <1>5, <2>2, MinIs
  <2> QED BY <1>3, <2>1, <2>3, ListedAre
<1> QED BY <1>1, <1>3, <1>4, <1>5

(* Pacifica: newest first, up to a trade that is too old.                  *)
LEMMA PacificaPages ==
  ASSUME TypeOK, Sorted, kind = "pacifica", NEW since \in Int, NEW next \in Nat \cup {None}
  PROVE  NoGap(PacificaTrades(since, next), since, next)
<1> DEFINE page == Newest(Before(next))
           new == page \cap Since(since)
<1>1. /\ page \in SUBSET Listed /\ page \subseteq Before(next)
      /\ \A i \in Listed : next = None \/ i < next => i \in Before(next)
      /\ \A i \in page, j \in Before(next) \ page : j < i
      /\ page # Before(next) =>
           /\ Min(page) \in Nat /\ \A j \in Before(next) \ page : j < Min(page)
  <2> HIDE DEF page
  <2>1. page = Newest(Before(next))
    BY DEF page
  <2> QED BY <2>1, NewestFirst
<1>2. ASSUME NEW i \in Listed, stamp[i] > since, ToCome(since, next, i)
      PROVE  i \in Before(next) /\ i \in Since(since)
  <2>1. next = None \/ i < next
    BY <1>2 DEF ToCome
  <2>2. stamp[i] \in Nat
    BY ListedAre
  <2>3. stamp[i] >= since
    BY <1>2, <2>2
  <2> QED BY <1>1, <2>1, <2>3 DEF Since
<1>3. CASE new = page /\ page # Before(next)
  <2>1. PacificaTrades(since, next) = Page(new, Min(page), TRUE)
    BY <1>3 DEF PacificaTrades
  <2> HIDE DEF page
  <2>2. \A i \in Listed : stamp[i] > since /\ ToCome(since, next, i) =>
          i \in new \/ ToCome(since, Min(page), i)
    BY <1>1, <1>2, <1>3 DEF ToCome
  <2>3. new \in SUBSET Listed
    BY <1>1
  <2> HIDE DEF new
  <2> QED BY <1>1, <1>3, <2>1, <2>2, <2>3, PageIs
<1>4. CASE ~ (new = page /\ page # Before(next))
  <2>1. PacificaTrades(since, next) = Page(new, next, FALSE)
    BY <1>4 DEF PacificaTrades
  <2> HIDE DEF page
  <2>2. ASSUME NEW i \in Listed, stamp[i] > since, ToCome(since, next, i) PROVE i \in new
    <3>1. CASE i \in page
      BY <1>2, <2>2, <3>1
    <3>2. CASE i \notin page
      <4>1. i \in Before(next) /\ i \in Since(since)
        BY <1>2, <2>2
      <4>2. new # page
        BY <1>4, <3>2, <4>1
      <4>3. PICK k \in page : k \notin Since(since)
        BY <4>2
      <4>4. i < k /\ i \in DOMAIN stamp /\ k \in DOMAIN stamp /\ k \in Listed
        BY <1>1, <3>2, <4>1, <4>3, ListedAre
      <4>5. stamp[i] <= stamp[k] /\ stamp[i] \in Nat /\ stamp[k] \in Nat
        BY <4>4, ListedAre DEF Sorted
      <4>6. ~ (stamp[k] >= since)
        BY <4>3, <4>4 DEF Since
      <4> QED BY <2>2, <4>5, <4>6
    <3> QED BY <3>1, <3>2
  <2>3. new \in SUBSET Listed
    BY <1>1
  <2> HIDE DEF new
  <2> QED BY <2>1, <2>2, <2>3, PageIs
<1> QED BY <1>3, <1>4

(* Nado: newest first, up to the first one that is too old.                *)
LEMMA NadoPages ==
  ASSUME TypeOK, Sorted, kind = "nado", NEW since \in Int, NEW next \in Nat \cup {None}
  PROVE  NoGap(NadoTrades(since, next), since, next)
<1> DEFINE page == Newest(Before(next))
           old == {i \in page : stamp[i] <= since}
<1>1. /\ page \in SUBSET Listed /\ page \subseteq Before(next)
      /\ \A i \in Listed : next = None \/ i < next => i \in Before(next)
      /\ \A i \in page, j \in Before(next) \ page : j < i
      /\ Cardinality(page) # PageSize => page = Before(next)
      /\ page # {} => /\ Min(page) \in Nat /\ \A j \in Before(next) \ page : j < Min(page)
      /\ page # Before(next) => page # {}
  <2> HIDE DEF page
  <2>1. page = Newest(Before(next))
    BY DEF page
  <2> QED BY <2>1, NewestFirst
<1>2. ASSUME NEW i \in Listed, stamp[i] > since, ToCome(since, next, i)
      PROVE  i \in Before(next) /\ i \notin old
  <2>1. next = None \/ i < next
    BY <1>2 DEF ToCome
  <2>2. stamp[i] \in Nat
    BY ListedAre
  <2>3. ~ (stamp[i] <= since)
    BY <1>2, <2>2
  <2> QED BY <1>1, <2>1, <2>3
<1>3. CASE old = {} /\ Cardinality(page) = PageSize
  <2>1. NadoTrades(since, next) = Page(page, Min(page), TRUE)
    BY <1>3 DEF NadoTrades
  <2>2. page # {}
    <3>1. PageSize # 0
      BY HistoryAssumption
    <3> HIDE DEF page
    <3> QED BY <1>3, <3>1, FS_EmptySet
  <2> HIDE DEF page
  <2>3. \A i \in Listed : stamp[i] > since /\ ToCome(since, next, i) =>
          i \in page \/ ToCome(since, Min(page), i)
    BY <1>1, <1>2, <2>2 DEF ToCome
  <2> QED BY <1>1, <2>1, <2>2, <2>3, PageIs
<1>4. CASE ~ (old = {} /\ Cardinality(page) = PageSize)
  <2> DEFINE read == {i \in page : \A j \in old : i >= j}
  <2>1. NadoTrades(since, next) = Page(read, next, FALSE)
    BY <1>4 DEF NadoTrades
  <2>2. ASSUME NEW i \in Listed, stamp[i] > since, ToCome(since, next, i) PROVE i \in read
    <3> HIDE DEF page
    <3>1. i \in Before(next) /\ i \notin old /\ i \in Int /\ i \in DOMAIN stamp
      BY <1>2, <2>2, ListedAre
    <3>2. ASSUME NEW j \in old PROVE j < i
      <4> SUFFICES ASSUME i < j PROVE FALSE
        BY <1>1, <3>1, ListedAre
      <4>1. j \in DOMAIN stamp /\ j \in Listed /\ stamp[j] <= since
        BY <1>1, ListedAre
      <4>2. stamp[i] <= stamp[j] /\ stamp[i] \in Nat /\ stamp[j] \in Nat
        BY <3>1, <4>1, ListedAre DEF Sorted
      <4> QED BY <2>2, <4>1, <4>2
    <3>3. i \in page
      <4> SUFFICES ASSUME i \notin page PROVE FALSE
        OBVIOUS
      <4>1. old # {}
        BY <1>1, <1>4, <3>1
      <4>2. PICK j \in old : TRUE
        BY <4>1
      <4>3. i < j /\ j \in Int
        BY <1>1, <3>1, <4>2, ListedAre
      <4> QED BY <3>1, <3>2, <4>2, <4>3
    <3>4. \A j \in old : j \in Int
      BY <1>1, ListedAre
    <3> QED BY <3>1, <3>2, <3>3, <3>4
  <2>3. read \in SUBSET Listed
    BY <1>1
  <2> HIDE DEF read
  <2> QED BY <2>1, <2>2, <2>3, PageIs
<1> QED BY <1>3, <1>4

(* Ethereal: newest first, all there are.                                  *)
LEMMA EtherealPages ==
  ASSUME TypeOK, kind = "ethereal", NEW since \in Int, NEW next \in Nat \cup {None}
  PROVE  NoGap(EtherealRawPositions(since, next), since, next)
<1> DEFINE page == Newest(Before(next))
<1>1. /\ page \in SUBSET Listed
      /\ \A i \in Listed : next = None \/ i < next => i \in Before(next)
      /\ page # Before(next) =>
           /\ Min(page) \in Nat /\ \A j \in Before(next) \ page : j < Min(page)
  <2> HIDE DEF page
  <2>1. page = Newest(Before(next))
    BY DEF page
  <2> QED BY <2>1, NewestFirst
<1>2. \A i \in Listed : ToCome(since, next, i) => i \in Before(next)
  BY <1>1 DEF ToCome
<1>3. CASE page = Before(next)
  <2>1. EtherealRawPositions(since, next) = Page(page, next, FALSE)
    BY <1>3 DEF EtherealRawPositions
  <2> HIDE DEF page
  <2> QED BY <1>1, <1>2, <1>3, <2>1, PageIs
<1>4. CASE page # Before(next)
  <2>1. EtherealRawPositions(since, next) = Page(page, Min(page), TRUE)
    BY <1>4 DEF EtherealRawPositions
  <2> HIDE DEF page
  <2>2. \A i \in Listed : stamp[i] > since /\ ToCome(since, next, i) =>
          i \in page \/ ToCome(since, Min(page), i)
    BY <1>1, <1>2, <1>4 DEF ToCome
  <2> QED BY <1>1, <1>4, <2>1, <2>2, PageIs
<1> QED BY <1>3, <1>4

(* Rise: page numbers count from the newest, and trades that appear only   *)
(* push the others on.                                                     *)
LEMMA RisePages ==
  ASSUME TypeOK, Sorted, kind = "rise", NEW since \in Int, NEW next \in Nat \cup {None}
  PROVE  NoGap(RiseTradeHistory(since, next), since, next)
<1> DEFINE offset == Offset(next)
           rest == {i \in Listed : Cardinality(Above(Listed, i)) >= offset}
           page == Newest(rest)
           new == page \cap Since(since)
<1>1. offset \in Nat /\ PageSize \in Nat /\ offset + PageSize \in Nat \cup {None}
      /\ Offset(offset + PageSize) = offset + PageSize
  <2>1. offset \in Nat /\ PageSize \in Nat
    BY HistoryAssumption DEF Offset
  <2> HIDE DEF offset
  <2> QED BY <2>1 DEF Offset, None
<1>2. RiseTradeHistory(since, next) = Page(new, offset + PageSize, new = page /\ page # rest)
  BY DEF RiseTradeHistory, Above, Offset
<1> HIDE DEF offset
<1>3. rest \in SUBSET Listed /\ IsFiniteSet(Listed) /\ \A i \in Listed : i \in Int
  BY ListedAre
<1>4. IsFiniteSet(rest) /\ \A i \in rest : i \in Int
  BY <1>3, FS_Subset
<1>5. page \subseteq rest /\ \A i \in page, j \in rest \ page : j < i
  <2> HIDE DEF rest
  <2> QED BY <1>4, NewestIs
<1>6. \A i \in rest \ page : Cardinality(Above(Listed, i)) >= offset + PageSize
  <2>1. rest = {i \in Listed : Cardinality(Above(Listed, i)) >= offset}
    OBVIOUS
  <2> HIDE DEF rest
  <2> QED BY <1>1, <1>3, <2>1, OffsetIs
<1>7. ASSUME NEW i \in Listed, stamp[i] > since, ToCome(since, next, i)
      PROVE  i \in rest /\ i \in Since(since)
  <2>1. Cardinality(Above(Listed, i)) >= offset
    BY <1>7 DEF ToCome, offset
  <2>2. stamp[i] \in Nat
    BY ListedAre
  <2>3. stamp[i] >= since
    BY <1>7, <2>2
  <2> QED BY <2>1, <2>3 DEF Since
<1> DEFINE n == offset + PageSize
           more == (new = page /\ page # rest)
<1>8. ASSUME NEW i \in Listed, stamp[i] > since, ToCome(since, next, i), i \notin new
      PROVE  more /\ ToCome(since, n, i)
  <2> HIDE DEF rest, page
  <2>1. i \in rest /\ i \in Since(since) /\ i \notin page
    BY <1>7, <1>8
  <2>2. ToCome(since, n, i)
    <3>1. Cardinality(Above(Listed, i)) >= Offset(n)
      BY <1>1, <1>6, <2>1
    <3> HIDE DEF n
    <3> QED BY <3>1 DEF ToCome
  <2>3. new = page
    <3> SUFFICES ASSUME new # page PROVE FALSE
      OBVIOUS
    <3>1. PICK k \in page : k \notin Since(since)
      OBVIOUS
    <3>2. i < k /\ i \in DOMAIN stamp /\ k \in DOMAIN stamp /\ k \in Listed
      BY <1>3, <1>5, <2>1, <3>1, ListedAre
    <3>3. stamp[i] <= stamp[k] /\ stamp[i] \in Nat /\ stamp[k] \in Nat
      BY <3>2, ListedAre DEF Sorted
    <3>4. ~ (stamp[k] >= since)
      BY <3>1, <3>2 DEF Since
    <3> QED BY <1>8, <3>3, <3>4
  <2> QED BY <2>1, <2>2, <2>3
<1>9. new \in SUBSET Listed /\ n \in Nat \cup {None} /\ more \in BOOLEAN
  <2>1. new \in SUBSET Listed
    <3> HIDE DEF rest, page
    <3> QED BY <1>3, <1>5
  <2>2. more \in BOOLEAN
    OBVIOUS
  <2> HIDE DEF new, more
  <2> QED BY <1>1, <2>1, <2>2
<1>10. RiseTradeHistory(since, next) = Page(new, n, more)
  BY <1>2
<1> HIDE DEF new, n, more
<1> QED BY <1>8, <1>9, <1>10, PageIs

(* Omni: the same of what is new.                                          *)
LEMMA OmniPages ==
  ASSUME TypeOK, kind = "omni", NEW since \in Int, NEW next \in Nat \cup {None}
  PROVE  NoGap(OmniFetchHistory(since, next), since, next)
<1> DEFINE offset == Offset(next)
           S == Since(since)
           rest == {i \in S : Cardinality(Above(S, i)) >= offset}
           page == Newest(rest)
           n == offset + PageSize
           more == (page # rest)
<1>1. offset \in Nat /\ PageSize \in Nat /\ n \in Nat \cup {None} /\ Offset(n) = n
  <2>1. offset \in Nat /\ PageSize \in Nat
    BY HistoryAssumption DEF Offset
  <2> HIDE DEF offset
  <2> QED BY <2>1 DEF Offset, None
<1>2. OmniFetchHistory(since, next) = Page(page, n, more)
  BY DEF OmniFetchHistory, Above, Offset
<1>3. S \in SUBSET Listed /\ IsFiniteSet(S) /\ \A i \in S : i \in Int
  BY ListedAre DEF Since
<1> HIDE DEF offset, S
<1>4. rest \in SUBSET S /\ IsFiniteSet(rest) /\ \A i \in rest : i \in Int
  BY <1>3, FS_Subset
<1>5. page \subseteq rest
  <2> HIDE DEF rest
  <2> QED BY <1>4, NewestIs
<1>6. \A i \in rest \ page : Cardinality(Above(S, i)) >= n
  <2>1. rest = {i \in S : Cardinality(Above(S, i)) >= offset}
    OBVIOUS
  <2> HIDE DEF rest
  <2> QED BY <1>1, <1>3, <2>1, OffsetIs
<1>7. ASSUME NEW i \in Listed, stamp[i] > since, ToCome(since, next, i) PROVE i \in rest
  <2>1. Cardinality(Above(S, i)) >= offset
    BY <1>7 DEF ToCome, offset, S
  <2>2. stamp[i] \in Nat
    BY ListedAre
  <2>3. stamp[i] >= since
    BY <1>7, <2>2
  <2> QED BY <2>1, <2>3 DEF Since, S
<1>8. ASSUME NEW i \in Listed, stamp[i] > since, ToCome(since, next, i), i \notin page
      PROVE  more /\ ToCome(since, n, i)
  <2> HIDE DEF rest, page
  <2>1. i \in rest
    BY <1>7, <1>8
  <2>2. Cardinality(Above(S, i)) >= Offset(n)
    BY <1>1, <1>6, <1>8, <2>1
  <2> HIDE DEF n
  <2>3. ToCome(since, n, i)
    BY <2>2 DEF ToCome, S
  <2> QED BY <1>8, <2>1, <2>3
<1>9. page \in SUBSET Listed /\ more \in BOOLEAN
  BY <1>3, <1>4, <1>5
<1> HIDE DEF page, n, more
<1> QED BY <1>1, <1>2, <1>8, <1>9, PageIs

(* No exchange's pages have gaps.                                          *)
LEMMA PagesHaveNoGaps ==
  ASSUME TypeOK, Sorted, NEW since \in Int, NEW next \in Nat \cup {None}
  PROVE  NoGap(PageOf(since, next), since, next)
<1>1. kind \in Exchanges
  BY HistoryAssumption DEF TypeOK
<1>2. CASE kind \in {"hyena", "onyx"}
  <2>1. PageOf(since, next) = HyperliquidFills(since, next)
    BY <1>2 DEF PageOf
  <2> QED BY <1>2, <2>1, HyperliquidPages
<1>3. CASE kind = "zero1"
  <2>1. PageOf(since, next) = ZeroOnePaged(since, next)
    BY <1>3 DEF PageOf
  <2> QED BY <1>3, <2>1, ZeroOnePages
<1>4. CASE kind = "pacifica"
  <2>1. PageOf(since, next) = PacificaTrades(since, next)
    BY <1>4 DEF PageOf
  <2> QED BY <1>4, <2>1, PacificaPages
<1>5. CASE kind = "rise"
  <2>1. PageOf(since, next) = RiseTradeHistory(since, next)
    BY <1>5 DEF PageOf
  <2> QED BY <1>5, <2>1, RisePages
<1>6. CASE kind = "nado"
  <2>1. PageOf(since, next) = NadoTrades(since, next)
    BY <1>6 DEF PageOf
  <2> QED BY <1>6, <2>1, NadoPages
<1>7. CASE kind = "omni"
  <2>1. PageOf(since, next) = OmniFetchHistory(since, next)
    BY <1>7 DEF PageOf
  <2> QED BY <1>7, <2>1, OmniPages
<1>8. CASE kind = "ethereal"
  <2>1. PageOf(since, next) = EtherealRawPositions(since, next)
    BY <1>8 DEF PageOf
  <2> QED BY <1>8, <2>1, EtherealPages
<1> QED BY <1>1, <1>2, <1>3, <1>4, <1>5, <1>6, <1>7, <1>8 DEF Exchanges

-----------------------------------------------------------------------------
(* The inductive invariant of History.                                     *)

(* What a sync is due to find final: what was final when it began.         *)
Due(s) == {i \in DOMAIN stamp : stamp[i] + MaxLag < s.began}

(* Its record may be stored as that of another trade.                      *)
SameHash(d, i) ==
  kind \in {"hyena", "onyx"} /\ \E j \in Ids \ {i} : HashOf[j] = HashOf[i] /\ d.recs[j] > 0

Kept(d, i) == d.recs[i] = 2 \/ SameHash(d, i) \/ SameTime(i) \/ Dropped(i)

(* Records without holes have what was final when their sync began.        *)
Complete(d) ==
  MaxLag + MaxFetch < Lookback /\ ~d.holes =>
    \A i \in DOMAIN stamp : stamp[i] + MaxLag < d.last - MaxFetch => Kept(d, i)

(* What is due is read in its final version; what is newer than what was   *)
(* asked from is read, or still to come.                                   *)
Found(s, i) ==
  s.got[i] = 2 \/ SameTime(i) \/ (s.more /\ ToCome(AsksFrom(s.data), s.next, i))

FetchOK(s) ==
  s.at = "fetching" =>
    \A i \in Due(s) :
      /\ s.got[i] \in {0, 2}
      /\ ~s.data.holes /\ stamp[i] > AsksFrom(s.data) => Found(s, i)

(* Onyx has confirmed what is due and does not drop.                       *)
ConfirmOK(s) ==
  s.at = "fetching" /\ ~s.data.holes /\ s.asked /\ kind = "onyx" => Due(s) \subseteq s.oids \cup Doubtful

(* A sync is not older than it may be, and no file is from later than now. *)
SyncInTime(s) ==
  /\ s.data.last <= clock
  /\ s.at = "fetching" => s.began <= clock /\ clock <= s.began + MaxFetch

(* Trades are final in time.                                               *)
InTime == \A i \in DOMAIN stamp : shown[i] = 2 \/ clock <= stamp[i] + MaxLag

SyncOK(s) == SyncInTime(s) /\ Complete(s.data) /\ FetchOK(s) /\ ConfirmOK(s)

HistoryInv ==
  /\ TypeOK /\ Sorted /\ InTime
  /\ file.data.last <= clock /\ Complete(file.data)
  /\ \A c \in Commands : SyncOK(sync[c])

(* The bounds are natural numbers.                                         *)
LEMMA Bounds ==
  /\ MaxLag \in Nat /\ MaxFetch \in Nat /\ Lookback \in Nat /\ MaxTime \in Nat /\ Ttl \in Nat
  /\ ArchiveLag \in Nat \ {0}
BY HistoryAssumption

(* Nothing has been stored, and nothing is due.                            *)
LEMMA NothingStored ==
  ASSUME TypeOK
  PROVE  /\ Empty \in Contents /\ Empty.last = None /\ Empty.last <= clock /\ Complete(Empty)
         /\ Idle \in Syncs /\ Idle.at = "out" /\ Idle.oids = {} /\ SyncOK(Idle)
<1>1. Empty \in Contents /\ Empty.last = None /\ clock \in Nat
  BY Bounds, TradesAre DEF Empty, Contents, None, Nothing
<1>2. Empty.last <= clock
  BY <1>1 DEF None
<1>3. Complete(Empty)
  <2> SUFFICES ASSUME NEW i \in DOMAIN stamp, stamp[i] + MaxLag < Empty.last - MaxFetch PROVE FALSE
    BY DEF Complete
  <2>1. stamp[i] \in Nat
    BY TradesAre
  <2> QED BY <1>1, <2>1, Bounds DEF None
<1>4. /\ Idle \in Syncs /\ Idle.at = "out" /\ Idle.oids = {} /\ Idle.data = Empty
  BY <1>1, Bounds DEF Idle, Syncs, Nothing
<1> HIDE DEF Empty, Idle
<1>5. SyncOK(Idle)
  BY <1>2, <1>3, <1>4 DEF SyncOK, SyncInTime, FetchOK, ConfirmOK
<1> QED BY <1>1, <1>2, <1>3, <1>4, <1>5

(* Commands change nothing about the exchange.                             *)
LEMMA CompleteKept ==
  ASSUME NEW d, Complete(d), UNCHANGED venue
  PROVE  Complete(d)'
BY DEF Complete, Kept, SameHash, SameTime, Dropped, venue

LEMMA SyncKept ==
  ASSUME NEW s, SyncOK(s), UNCHANGED venue
  PROVE  SyncOK(s)'
<1>1. Complete(s.data)'
  BY CompleteKept DEF SyncOK
<1>2. SyncInTime(s)'
  BY DEF SyncOK, SyncInTime, venue
<1>3. ConfirmOK(s)'
  BY DEF SyncOK, ConfirmOK, Due, venue
<1>4. \A i : ToCome(AsksFrom(s.data), s.next, i)' <=> ToCome(AsksFrom(s.data), s.next, i)
  BY DEF ToCome, Above, Listed, Since, venue
<1>5. \A i : Found(s, i)' <=> Found(s, i)
  BY <1>4 DEF Found, SameTime, venue
<1>6. Due(s)' = Due(s)
  BY DEF Due, venue
<1>7. FetchOK(s)'
  BY <1>5, <1>6 DEF SyncOK, FetchOK, venue
<1> QED BY <1>1, <1>2, <1>3, <1>7 DEF SyncOK

(* One command moves, the others stay.                                     *)
LEMMA OneMoves ==
  ASSUME HistoryInv, UNCHANGED venue, NEW c \in Commands, NEW s, SyncOK(s),
         sync' = [sync EXCEPT ![c] = s]
  PROVE  \A e \in Commands : SyncOK(sync[e])'
<1> SUFFICES ASSUME NEW e \in Commands PROVE SyncOK(sync[e])'
  OBVIOUS
<1> PICK t : t = sync'[e]
  OBVIOUS
<1>1. t = s \/ t = sync[e]
  BY DEF HistoryInv, TypeOK
<1>2. SyncOK(t)
  BY <1>1 DEF HistoryInv
<1>3. SyncOK(t)'
  BY <1>2, SyncKept
<1> QED BY <1>3

(* Nothing that is in the list of the invariant changes.                   *)
LEMMA InvOfParts ==
  ASSUME HistoryInv, UNCHANGED venue, TypeOK',
         NEW d, d = file'.data, d.last <= clock, Complete(d),
         \A c \in Commands : SyncOK(sync[c])'
  PROVE  HistoryInv'
<1>1. Complete(d)' /\ (d.last <= clock)'
  BY CompleteKept DEF venue
<1>2. Sorted' /\ InTime'
  BY DEF HistoryInv, Sorted, InTime, venue
<1> QED BY <1>1, <1>2 DEF HistoryInv

(* What the types say of a command that moves.                             *)
LEMMA TypesKept ==
  ASSUME TypeOK, UNCHANGED venue, NEW c \in Commands, NEW s \in Syncs, s.oids \subseteq Listed,
         sync' = [sync EXCEPT ![c] = s],
         file' \in [state : {"none", "torn", "ok"}, data : Contents],
         archive' \in [upto : None..MaxTime, keys : SUBSET Listed],
         \A e \in writers' : IF e = c THEN s.at = "writing" ELSE e \in writers
  PROVE  TypeOK'
<1>1. Listed' = Listed
  BY DEF Listed, venue
<1>2. sync' \in [Commands -> Syncs] /\ \A e \in Commands : sync'[e] = IF e = c THEN s ELSE sync[e]
  BY DEF TypeOK
<1>3. \A e \in writers' : e \in Commands /\ sync'[e].at = "writing"
  BY <1>2 DEF TypeOK
<1>4. \A e \in Commands : sync'[e].oids \subseteq Listed
  BY <1>2 DEF TypeOK
<1> QED BY <1>1, <1>2, <1>3, <1>4 DEF TypeOK, venue

-----------------------------------------------------------------------------
(* The steps of a command.                                                 *)

(* A sync as it begins.                                                    *)
BegunSync(data) ==
  [Idle EXCEPT !.at = "fetching", !.data = data, !.more = TRUE, !.began = clock,
               !.asked = (kind # "onyx")]

LEMMA BegunSyncIs ==
  ASSUME TypeOK, NEW data \in Contents
  PROVE  /\ BegunSync(data) \in Syncs
         /\ BegunSync(data).at = "fetching" /\ BegunSync(data).data = data
         /\ BegunSync(data).got = Nothing /\ BegunSync(data).more
         /\ BegunSync(data).began = clock /\ BegunSync(data).next = None
         /\ BegunSync(data).oids = {} /\ (BegunSync(data).asked => kind # "onyx")
<1>1. clock \in 0..MaxTime /\ Nothing \in [Ids -> 0..2]
  BY DEF TypeOK, Nothing
<1>2. Idle \in Syncs
  BY NothingStored
<1>3. BegunSync(data) \in Syncs
  BY <1>1, <1>2 DEF BegunSync, Syncs
<1> HIDE DEF Nothing
<1>4. LET r == BegunSync(data) IN
      /\ r.at = "fetching" /\ r.data = data /\ r.got = Nothing /\ r.more
      /\ r.began = clock /\ r.next = None /\ r.oids = {}
  BY DEF BegunSync, Idle
<1>5. BegunSync(data).asked => kind # "onyx"
  BY DEF BegunSync, Idle
<1> QED BY <1>3, <1>4, <1>5

(* A sync begins: everything is still to come.                             *)
LEMMA OpensStep ==
  ASSUME HistoryInv, NEW c \in Commands, Opens(c)
  PROVE  HistoryInv'
<1>1. TypeOK /\ SyncOK(sync[c]) /\ clock \in Nat /\ sync[c].at = "out" /\ UNCHANGED <<venue, archive>>
  BY TradesAre DEF HistoryInv, Opens
<1>0. PICK s : s = BegunSync(file.data)
  OBVIOUS
<1>2. sync' = [sync EXCEPT ![c] = s]
  BY <1>0 DEF Opens, BegunSync
<1>3. file.data \in Contents /\ file.data.last <= clock /\ Complete(file.data)
  BY <1>1 DEF HistoryInv, TypeOK
<1>4. /\ s \in Syncs /\ s.at = "fetching" /\ s.data = file.data /\ s.more /\ s.began = clock
      /\ (s.asked => kind # "onyx") /\ s.next = None /\ s.oids = {} /\ s.got = Nothing
  BY <1>1, <1>3, <1>0, BegunSyncIs
<1>5. SyncOK(s)
  <2>1. SyncInTime(s)
    BY <1>1, <1>3, <1>4, Bounds DEF SyncInTime
  <2>2. ConfirmOK(s)
    BY <1>4 DEF ConfirmOK
  <2>3. ASSUME NEW i PROVE ToCome(AsksFrom(s.data), s.next, i)
    <3>1. \A S \in SUBSET Listed : Cardinality(Above(S, i)) \in Nat
      <4> SUFFICES ASSUME NEW S \in SUBSET Listed PROVE Cardinality(Above(S, i)) \in Nat
        OBVIOUS
      <4>1. Above(S, i) \in SUBSET Listed
        BY DEF Above
      <4> QED BY <1>1, <4>1, ListedAre, FS_CardinalityType
    <3>2. Since(AsksFrom(s.data)) \in SUBSET Listed
      BY DEF Since
    <3>3. Offset(s.next) = 0
      BY <1>4 DEF Offset
    <3>4. /\ Cardinality(Above(Listed, i)) >= Offset(s.next)
          /\ Cardinality(Above(Since(AsksFrom(s.data)), i)) >= Offset(s.next)
      BY <3>1, <3>2, <3>3
    <3> QED BY <1>4, <3>4 DEF ToCome
  <2>4. FetchOK(s)
    <3>1. \A i \in Due(s) : s.got[i] \in {0, 2}
      BY <1>1, <1>4, TradesAre DEF Due, Nothing
    <3> QED BY <1>4, <2>3, <3>1 DEF FetchOK, Found
  <2> QED BY <1>3, <1>4, <2>1, <2>2, <2>4 DEF SyncOK
<1>6. \A e \in Commands : SyncOK(sync[e])'
  BY <1>1, <1>2, <1>5, OneMoves
<1>7. /\ file' \in [state : {"none", "torn", "ok"}, data : Contents]
      /\ file'.data.last <= clock /\ Complete(file'.data)
  <2>1. CASE file' = file
    BY <1>1, <1>3, <2>1 DEF TypeOK
  <2>2. CASE file' = NoFile
    <3>1. NoFile \in [state : {"none", "torn", "ok"}, data : Contents] /\ NoFile.data = Empty
      BY <1>1, NothingStored DEF NoFile, File
    <3> QED BY <1>1, <2>2, <3>1, NothingStored
  <2> QED BY <2>1, <2>2 DEF Opens
<1>8. \A e \in writers' : e \in writers /\ e # c
  BY <1>1 DEF Opens, TypeOK
<1>9. TypeOK'
  BY <1>1, <1>2, <1>4, <1>7, <1>8, TypesKept DEF TypeOK
<1> QED BY <1>1, <1>6, <1>7, <1>9, InvOfParts

(* A step of a command between the beginning and the end of its sync.      *)
LEMMA FetchStep ==
  ASSUME HistoryInv, NEW c \in Commands, NEW s \in Syncs,
         s.at # "writing", s.oids \subseteq Listed, SyncOK(s),
         sync' = [sync EXCEPT ![c] = s], sync[c].at = "fetching",
         UNCHANGED <<venue, file, writers>>,
         archive' \in [upto : None..MaxTime, keys : SUBSET Listed]
  PROVE  HistoryInv'
<1>1. TypeOK
  BY DEF HistoryInv
<1>2. \A e \in writers' : e # c
  BY <1>1 DEF TypeOK
<1>3. TypeOK'
  BY <1>1, <1>2, TypesKept DEF TypeOK
<1>4. \A e \in Commands : SyncOK(sync[e])'
  BY OneMoves
<1> QED BY <1>3, <1>4, InvOfParts DEF HistoryInv

(* A page is read.                                                         *)
LEMMA ReadsStep ==
  ASSUME HistoryInv, NEW c \in Commands, Reads(c)
  PROVE  HistoryInv'
<1> PICK s : s = sync[c]
  OBVIOUS
<1> PICK since : since = AsksFrom(s.data)
  OBVIOUS
<1> PICK page : page = PageOf(since, s.next)
  OBVIOUS
<1> PICK t : t = [s EXCEPT !.got = [i \in Ids |-> IF i \in page.read THEN shown[i] ELSE s.got[i]],
                           !.next = page.next, !.more = page.more]
  OBVIOUS
<1>1. TypeOK /\ Sorted /\ InTime /\ s \in Syncs /\ SyncOK(s) /\ s.oids \subseteq Listed
  BY DEF HistoryInv, TypeOK
<1>2. s.at = "fetching" /\ s.more /\ UNCHANGED <<venue, file, writers, archive>>
  BY DEF Reads
<1>3. since \in Int
  BY <1>1, Bounds DEF AsksFrom, Syncs, Contents, None
<1>4. NoGap(page, since, s.next)
  BY <1>1, <1>3, PagesHaveNoGaps DEF Syncs
<1>5. /\ t \in Syncs /\ t.at = s.at /\ t.data = s.data /\ t.began = s.began
      /\ t.asked = s.asked /\ t.oids = s.oids /\ t.next = page.next /\ t.more = page.more
      /\ \A i \in Ids : t.got[i] = IF i \in page.read THEN shown[i] ELSE s.got[i]
  <2>1. shown \in [Ids -> 0..2] /\ s.got \in [Ids -> 0..2]
    BY <1>1 DEF TypeOK, Syncs
  <2>2. [i \in Ids |-> IF i \in page.read THEN shown[i] ELSE s.got[i]] \in [Ids -> 0..2]
    BY <2>1
  <2> QED BY <1>1, <1>4, <2>2 DEF Syncs, NoGap
<1>6. sync' = [sync EXCEPT ![c] = t]
  <2>1. sync' = [sync EXCEPT
       ![c].got = [i \in Ids |-> IF i \in page.read THEN shown[i] ELSE s.got[i]],
       ![c].next = page.next,
       ![c].more = page.more]
    BY DEF Reads
  <2> QED BY <1>1, <2>1 DEF TypeOK, Syncs
<1>7. \A i \in Due(s) : i \in DOMAIN stamp /\ i \in Ids /\ shown[i] = 2 /\ i \in Listed
  <2> SUFFICES ASSUME NEW i \in Due(s) PROVE i \in DOMAIN stamp /\ i \in Ids /\ shown[i] = 2 /\ i \in Listed
    OBVIOUS
  <2>1. i \in DOMAIN stamp /\ stamp[i] + MaxLag < s.began /\ s.began <= clock
    BY <1>1, <1>2 DEF Due, SyncOK, SyncInTime
  <2>2. stamp[i] \in Nat /\ clock \in Nat /\ i \in Ids /\ s.began \in Nat
    BY <1>1, <2>1, TradesAre DEF Syncs
  <2>3. shown[i] = 2
    BY <1>1, <2>1, <2>2, Bounds DEF InTime
  <2> QED BY <2>1, <2>2, <2>3 DEF Listed
<1>8. FetchOK(t)
  <2> SUFFICES ASSUME NEW i \in Due(s)
               PROVE  /\ t.got[i] \in {0, 2}
                      /\ ~s.data.holes /\ stamp[i] > since => Found(t, i)
    BY <1>5 DEF FetchOK, Due
  <2>1. /\ s.got[i] \in {0, 2}
        /\ ~s.data.holes /\ stamp[i] > since => Found(s, i)
    BY <1>1, <1>2 DEF SyncOK, FetchOK
  <2>2. t.got[i] = IF i \in page.read THEN 2 ELSE s.got[i]
    BY <1>5, <1>7
  <2>3. ASSUME ~s.data.holes, stamp[i] > since PROVE Found(t, i)
    <3>1. s.got[i] = 2 \/ SameTime(i) \/ ToCome(since, s.next, i)
      BY <2>1, <2>3 DEF Found
    <3>2. CASE ToCome(since, s.next, i)
      <4>1. i \in page.read \/ SameTime(i) \/ (page.more /\ ToCome(since, page.next, i))
        BY <1>4, <1>7, <2>3, <3>2 DEF NoGap
      <4> QED BY <1>5, <2>2, <4>1 DEF Found
    <3>3. CASE s.got[i] = 2 \/ SameTime(i)
      BY <2>2, <3>3 DEF Found
    <3> QED BY <3>1, <3>2, <3>3
  <2> QED BY <2>1, <2>2, <2>3
<1>9. SyncOK(t)
  BY <1>1, <1>5, <1>8 DEF SyncOK, SyncInTime, ConfirmOK, Due
<1> QED BY <1>1, <1>2, <1>5, <1>6, <1>9, FetchStep DEF TypeOK

(* A page of 01 is given up: there are holes from now on.                  *)
LEMMA GivesUpStep ==
  ASSUME HistoryInv, NEW c \in Commands, ZeroOneGivesUp(c)
  PROVE  HistoryInv'
<1> PICK s : s = sync[c]
  OBVIOUS
<1> PICK t : t = [s EXCEPT !.more = FALSE, !.data = [@ EXCEPT !.holes = TRUE]]
  OBVIOUS
<1>1. TypeOK /\ s \in Syncs /\ SyncOK(s) /\ s.oids \subseteq Listed
  BY DEF HistoryInv, TypeOK
<1>2. s.at = "fetching" /\ UNCHANGED <<venue, file, writers, archive>>
  BY DEF ZeroOneGivesUp
<1>3. /\ t \in Syncs /\ t.at = s.at /\ t.began = s.began /\ t.oids = s.oids /\ t.got = s.got
      /\ t.data.last = s.data.last /\ t.data.holes = TRUE
  BY <1>1 DEF Syncs, Contents
<1>4. sync' = [sync EXCEPT ![c] = t]
  <2>1. sync' = [sync EXCEPT ![c].more = FALSE, ![c].data.holes = TRUE]
    BY DEF ZeroOneGivesUp
  <2> QED BY <1>1, <2>1 DEF TypeOK, Syncs, Contents
<1>5. SyncOK(t)
  BY <1>1, <1>3 DEF SyncOK, SyncInTime, FetchOK, ConfirmOK, Complete, Due
<1> QED BY <1>1, <1>2, <1>3, <1>4, <1>5, FetchStep DEF TypeOK

(* A command fails.                                                        *)
LEMMA FailsStep ==
  ASSUME HistoryInv, NEW c \in Commands, Fails(c)
  PROVE  HistoryInv'
<1>1. TypeOK
  BY DEF HistoryInv
<1> PICK s : s = Idle
  OBVIOUS
<1>2. s \in Syncs /\ s.at = "out" /\ s.oids = {} /\ SyncOK(s)
  BY <1>1, NothingStored
<1>3. /\ sync[c].at = "fetching" /\ UNCHANGED <<venue, file, writers, archive>>
      /\ sync' = [sync EXCEPT ![c] = s]
  BY DEF Fails
<1> QED BY <1>1, <1>2, <1>3, FetchStep DEF TypeOK

(* Onyx has an answer about its orders, or takes there to be none.         *)
LEMMA ConfirmsStep ==
  ASSUME HistoryInv, NEW c \in Commands, Confirms(c)
  PROVE  HistoryInv'
<1> PICK s : s = sync[c]
  OBVIOUS
<1>1. TypeOK /\ InTime /\ s \in Syncs /\ SyncOK(s) /\ s.oids \subseteq Listed
  BY DEF HistoryInv, TypeOK
<1>2. s.at = "fetching" /\ UNCHANGED <<venue, file, writers>>
  BY DEF Confirms
<1>3. PICK days \in SUBSET MissingDays, missing \in SUBSET MissingDays, filled \in SUBSET Doubtful :
        LET synced == Synced(days, missing)
            orders == {i \in Listed : i \in Doubtful => i \in filled}
        IN
        /\ \/ sync' = [sync EXCEPT ![c].asked = TRUE, ![c].oids = orders \cup synced.keys]
           \/ sync' = [sync EXCEPT ![c].asked = TRUE, ![c].oids = synced.keys, ![c].data.holes = TRUE]
        /\ ArchiveSaved(synced)
  BY DEF Confirms
<1> PICK synced : synced = Synced(days, missing)
  OBVIOUS
<1> PICK orders : orders = {i \in Listed : i \in Doubtful => i \in filled}
  OBVIOUS
<1>a. synced \in [upto : None..MaxTime, keys : SUBSET Listed]
  <2>1. /\ archive \in [upto : None..MaxTime, keys : SUBSET Listed]
        /\ archive.upto \in Int /\ archive.upto >= None /\ clock \in Nat /\ clock <= MaxTime
    BY <1>1, Bounds, TradesAre DEF TypeOK, None
  <2>2. CASE days = {}
    BY <2>1, <2>2 DEF Synced
  <2>3. CASE days # {}
    <3>1. IsFiniteSet(days) /\ \A n \in days : n \in Int /\ n \in None .. MaxTime
      <4>1. archive.upto + 1 \in Int /\ clock - ArchiveLag \in Int
        BY <2>1, Bounds
      <4>2. IsFiniteSet(days)
        BY <4>1, FS_Interval, FS_Subset DEF MissingDays
      <4>3. ASSUME NEW n \in days PROVE n \in Int /\ n \in None .. MaxTime
        BY <2>1, <4>1, Bounds DEF MissingDays, None
      <4> QED BY <4>2, <4>3
    <3>2. Max(days) \in None .. MaxTime
      <4>1. Max(days) \in days
        BY <2>3, <3>1, MaxIs
      <4> QED BY <3>1, <4>1
    <3> QED BY <2>1, <2>3, <3>2 DEF Synced
  <2> QED BY <2>2, <2>3
<1>b. archive' \in [upto : None..MaxTime, keys : SUBSET Listed]
  <2>1. NoArchive \in [upto : None..MaxTime, keys : SUBSET Listed]
    BY Bounds DEF NoArchive, None
  <2>2. archive \in [upto : None..MaxTime, keys : SUBSET Listed]
    BY <1>1 DEF TypeOK
  <2>3. archive' \in {synced, archive, NoArchive}
    BY <1>3 DEF ArchiveSaved
  <2> QED BY <1>a, <2>1, <2>2, <2>3
<1>c. synced.keys \subseteq Listed /\ orders \subseteq Listed /\ Listed \subseteq orders \cup Doubtful
  BY <1>a
<1>4. Due(s) \subseteq Listed
  <2> SUFFICES ASSUME NEW i \in Due(s) PROVE i \in Listed
    OBVIOUS
  <2>1. i \in DOMAIN stamp /\ stamp[i] + MaxLag < s.began /\ s.began <= clock
    BY <1>1, <1>2 DEF Due, SyncOK, SyncInTime
  <2>2. stamp[i] \in Nat /\ clock \in Nat /\ s.began \in Nat
    BY <1>1, <2>1, TradesAre DEF Syncs
  <2>3. shown[i] = 2
    BY <1>1, <2>1, <2>2, Bounds DEF InTime
  <2> QED BY <2>1, <2>3 DEF Listed
<1>5. ASSUME sync' = [sync EXCEPT ![c].asked = TRUE, ![c].oids = orders \cup synced.keys] PROVE HistoryInv'
  <2> PICK oids : oids = orders \cup synced.keys
    OBVIOUS
  <2> PICK t : t = [s EXCEPT !.asked = TRUE, !.oids = oids]
    OBVIOUS
  <2>0. oids \subseteq Listed /\ Listed \subseteq oids \cup Doubtful
    BY <1>c
  <2>1. /\ t \in Syncs /\ t.at = s.at /\ t.data = s.data /\ t.began = s.began /\ t.got = s.got
        /\ t.next = s.next /\ t.more = s.more /\ t.oids = oids
    <3>1. Listed \in SUBSET Ids
      BY <1>1, TradesAre DEF Listed
    <3> QED BY <1>1, <2>0, <3>1 DEF Syncs
  <2>2. sync' = [sync EXCEPT ![c] = t]
    BY <1>1, <1>5 DEF TypeOK, Syncs
  <2>3. SyncOK(t)
    BY <1>1, <1>4, <2>0, <2>1 DEF SyncOK, SyncInTime, FetchOK, ConfirmOK, Found, Due
  <2> QED BY <1>2, <1>b, <2>0, <2>1, <2>2, <2>3, FetchStep
<1>6. ASSUME sync' = [sync EXCEPT ![c].asked = TRUE, ![c].oids = synced.keys, ![c].data.holes = TRUE]
      PROVE  HistoryInv'
  <2> PICK t : t = [s EXCEPT !.asked = TRUE, !.oids = synced.keys, !.data = [@ EXCEPT !.holes = TRUE]]
    OBVIOUS
  <2>1. /\ t \in Syncs /\ t.at = s.at /\ t.began = s.began /\ t.oids = synced.keys /\ t.got = s.got
        /\ t.data.last = s.data.last /\ t.data.holes = TRUE
    <3>1. Listed \in SUBSET Ids
      BY <1>1, TradesAre DEF Listed
    <3> QED BY <1>1, <1>c, <3>1 DEF Syncs, Contents
  <2>2. sync' = [sync EXCEPT ![c] = t]
    BY <1>1, <1>6 DEF TypeOK, Syncs, Contents
  <2>3. SyncOK(t)
    BY <1>1, <2>1 DEF SyncOK, SyncInTime, FetchOK, ConfirmOK, Complete, Due
  <2> QED BY <1>1, <1>2, <1>b, <1>c, <2>1, <2>2, <2>3, FetchStep
<1> QED BY <1>3, <1>5, <1>6

(* Records of the same key are stored as one, the last of them.            *)
LEMMA Upserted ==
  ASSUME TypeOK, NEW recs \in [Ids -> 0..2], NEW new \in [Ids -> 0..2],
         NEW out, out = Upsert(recs, new), NEW i \in Ids
  PROVE  \/ ~ (new[i] > 0) /\ out[i] = recs[i] /\ \A j \in Ids : Key(j) = Key(i) => out[j] = recs[j]
         \/ out[i] = new[i] /\ new[i] > 0
         \/ \E k \in Ids \ {i} : Key(k) = Key(i) /\ out[k] > 0
<1> DEFINE same(x) == {j \in Ids : Key(j) = Key(x) /\ new[j] > 0}
<1>1. \A x \in Ids : out[x] = IF same(x) = {} THEN recs[x] ELSE IF x = Max(same(x)) THEN new[x] ELSE 0
  BY DEF Upsert
<1>2. \A j \in Ids : Key(j) = Key(i) => same(j) = same(i)
  OBVIOUS
<1>3. CASE same(i) = {}
  <2>1. ~ (new[i] > 0)
    BY <1>3
  <2> HIDE DEF same
  <2>2. \A j \in Ids : Key(j) = Key(i) => out[j] = recs[j]
    BY <1>1, <1>2, <1>3
  <2> QED BY <2>1, <2>2
<1>4. CASE same(i) # {}
  <2>1. IsFiniteSet(same(i)) /\ \A x \in same(i) : x \in Int
    <3>1. IsFiniteSet(Ids) /\ \A x \in Ids : x \in Int
      BY HistoryAssumption, FS_CardinalityType
    <3> QED BY <3>1, FS_Subset
  <2> PICK k : k = Max(same(i))
    OBVIOUS
  <2>2. k \in same(i)
    <3> HIDE DEF same
    <3> QED BY <1>4, <2>1, MaxIs
  <2>3. k \in Ids /\ Key(k) = Key(i) /\ new[k] > 0
    BY <2>2
  <2> HIDE DEF same
  <2>4. out[k] = new[k]
    BY <1>1, <1>2, <1>4, <2>3
  <2> QED BY <2>3, <2>4
<1> QED BY <1>3, <1>4

LEMMA SameKey ==
  ASSUME NEW d, NEW i \in Ids, NEW k \in Ids \ {i}, Key(k) = Key(i), d.recs[k] > 0
  PROVE  SameHash(d, i)
BY DEF Key, SameHash

(* What was final when a sync began is kept by it.                         *)
LEMMA SavedComplete ==
  ASSUME TypeOK, NEW s \in Syncs, SyncOK(s), s.at = "fetching", ~s.more, s.asked,
         NEW d, d.last = clock, d.recs = Upsert(s.data.recs, Fetched(s)), d.holes = s.data.holes
  PROVE  Complete(d)
<1> SUFFICES ASSUME MaxLag + MaxFetch < Lookback, ~s.data.holes, NEW i \in DOMAIN stamp,
                    stamp[i] + MaxLag < clock - MaxFetch, ~SameTime(i), ~Dropped(i)
             PROVE  d.recs[i] = 2 \/ SameHash(d, i)
  BY DEF Complete, Kept
<1> PICK new : new = Fetched(s)
  OBVIOUS
<1> PICK recs : recs = s.data.recs
  OBVIOUS
<1>1. recs \in [Ids -> 0..2] /\ new \in [Ids -> 0..2] /\ i \in Ids /\ s.got \in [Ids -> 0..2]
  BY TradesAre DEF Fetched, Syncs, Contents
<1>2. stamp[i] \in Nat /\ clock \in Nat /\ s.began \in Nat /\ clock <= s.began + MaxFetch
  BY TradesAre DEF SyncOK, SyncInTime, Syncs
<1>3. i \in Due(s)
  BY <1>2, Bounds DEF Due
<1>4. new[i] = s.got[i]
  BY <1>1, <1>3 DEF Fetched, SyncOK, ConfirmOK, Dropped
<1>5. s.got[i] \in {0, 2}
  BY <1>3 DEF SyncOK, FetchOK
<1>6. \/ ~ (new[i] > 0) /\ d.recs[i] = recs[i] /\ \A j \in Ids : Key(j) = Key(i) => d.recs[j] = recs[j]
      \/ d.recs[i] = new[i] /\ new[i] > 0
      \/ \E k \in Ids \ {i} : Key(k) = Key(i) /\ d.recs[k] > 0
  BY <1>1, Upserted
<1>7. CASE d.recs[i] = new[i] /\ new[i] > 0
  BY <1>4, <1>5, <1>7
<1>8. CASE \E k \in Ids \ {i} : Key(k) = Key(i) /\ d.recs[k] > 0
  BY <1>1, <1>8, SameKey
<1>9. CASE ~ (new[i] > 0) /\ d.recs[i] = recs[i] /\ \A j \in Ids : Key(j) = Key(i) => d.recs[j] = recs[j]
  <2>1. CASE stamp[i] > AsksFrom(s.data)
    <3>1. s.got[i] = 2
      BY <1>3, <2>1 DEF SyncOK, FetchOK, Found
    <3>2. new[i] = 2
      BY <1>4, <3>1
    <3> QED BY <1>9, <3>2
  <2>2. CASE ~ (stamp[i] > AsksFrom(s.data))
    <3>1. s.data.last \in Int /\ (s.data.last = None \/ s.data.last >= 0)
      BY Bounds DEF Syncs, Contents, None
    <3>2. s.data.last # None /\ stamp[i] <= s.data.last - Lookback
      BY <1>2, <2>2, <3>1, Bounds DEF AsksFrom, None
    <3>3. stamp[i] + MaxLag < s.data.last - MaxFetch
      BY <1>2, <3>1, <3>2, Bounds
    <3>4. Kept(s.data, i)
      BY <3>3 DEF SyncOK, Complete
    <3>5. CASE recs[i] = 2
      BY <1>9, <3>5
    <3>6. CASE SameHash(s.data, i)
      <4>1. kind \in {"hyena", "onyx"}
        BY <3>6 DEF SameHash
      <4>2. PICK j \in Ids \ {i} : HashOf[j] = HashOf[i] /\ recs[j] > 0
        BY <3>6 DEF SameHash
      <4>3. Key(j) = Key(i)
        BY <4>1, <4>2 DEF Key
      <4>4. d.recs[j] > 0
        BY <1>9, <4>2, <4>3
      <4> QED BY <1>1, <4>2, <4>3, <4>4, SameKey
    <3> QED BY <3>4, <3>5, <3>6 DEF Kept
  <2> QED BY <2>1, <2>2
<1> QED BY <1>6, <1>7, <1>8, <1>9

(* The file is open for writing, and empty.                                *)
LEMMA SavesStep ==
  ASSUME HistoryInv, NEW c \in Commands, Saves(c)
  PROVE  HistoryInv'
<1> PICK s : s = sync[c]
  OBVIOUS
<1> PICK d : d = [last |-> clock, recs |-> Upsert(s.data.recs, Fetched(s)), holes |-> s.data.holes]
  OBVIOUS
<1> PICK t : t = [Idle EXCEPT !.at = "writing", !.data = d]
  OBVIOUS
<1>1. TypeOK /\ s \in Syncs /\ SyncOK(s) /\ clock \in 0..MaxTime /\ clock \in Nat
  BY TradesAre DEF HistoryInv, TypeOK
<1>2. /\ s.at = "fetching" /\ ~s.more /\ s.asked /\ UNCHANGED <<venue, archive>>
      /\ sync' = [sync EXCEPT ![c] = t] /\ file' = Torn /\ writers' = writers \cup {c}
  BY DEF Saves
<1>3. Upsert(s.data.recs, Fetched(s)) \in [Ids -> 0..2]
  <2>1. s.data.recs \in [Ids -> 0..2] /\ s.got \in [Ids -> 0..2]
    BY <1>1 DEF Syncs, Contents
  <2>2. Fetched(s) \in [Ids -> 0..2]
    BY <2>1 DEF Fetched
  <2> QED BY <2>1, <2>2 DEF Upsert
<1>4. /\ d \in Contents /\ d.last = clock /\ d.holes = s.data.holes
      /\ d.recs = Upsert(s.data.recs, Fetched(s))
  <2>1. s.data.holes \in BOOLEAN
    BY <1>1 DEF Syncs, Contents
  <2>2. clock \in None..MaxTime
    BY <1>1, Bounds DEF None
  <2> QED BY <1>3, <2>1, <2>2 DEF Contents
<1>5. t \in Syncs /\ t.at = "writing" /\ t.data = d /\ t.oids = {}
  <2>1. Idle \in Syncs /\ Idle.oids = {}
    BY <1>1, NothingStored
  <2> HIDE DEF Idle
  <2> QED BY <1>4, <2>1 DEF Syncs
<1>6. Complete(d)
  BY <1>1, <1>2, <1>4, SavedComplete
<1>7. SyncOK(t)
  BY <1>1, <1>4, <1>5, <1>6 DEF SyncOK, SyncInTime, FetchOK, ConfirmOK
<1>8. \A e \in Commands : SyncOK(sync[e])'
  BY <1>2, <1>7, OneMoves
<1>9. /\ file' \in [state : {"none", "torn", "ok"}, data : Contents]
      /\ file'.data.last <= clock /\ Complete(file'.data)
  <2>1. Torn.data = Empty /\ Torn \in [state : {"none", "torn", "ok"}, data : Contents]
    BY <1>1, NothingStored DEF Torn, File
  <2> QED BY <1>1, <1>2, <2>1, NothingStored
<1>10. TypeOK'
  BY <1>1, <1>2, <1>5, <1>9, TypesKept DEF TypeOK
<1> QED BY <1>2, <1>8, <1>9, <1>10, InvOfParts

(* The file is written, or stays as it is.                                 *)
LEMMA WritesStep ==
  ASSUME HistoryInv, NEW c \in Commands, Writes(c)
  PROVE  HistoryInv'
<1> PICK s : s = sync[c]
  OBVIOUS
<1> PICK t : t = Idle
  OBVIOUS
<1>1. TypeOK /\ s \in Syncs /\ SyncOK(s)
  BY DEF HistoryInv, TypeOK
<1>2. /\ UNCHANGED <<venue, archive>> /\ sync' = [sync EXCEPT ![c] = t]
      /\ writers' = writers \ {c} /\ (file' = file \/ file' = File("ok", s.data))
  BY DEF Writes
<1>3. t \in Syncs /\ t.oids = {} /\ SyncOK(t)
  BY <1>1, NothingStored
<1>4. \A e \in Commands : SyncOK(sync[e])'
  BY <1>2, <1>3, OneMoves
<1>5. /\ file' \in [state : {"none", "torn", "ok"}, data : Contents]
      /\ file'.data.last <= clock /\ Complete(file'.data)
  <2>1. CASE file' = file
    BY <1>1, <2>1 DEF HistoryInv, TypeOK
  <2>2. CASE file' = File("ok", s.data)
    <3>1. file'.data = s.data /\ file' \in [state : {"none", "torn", "ok"}, data : Contents]
      BY <1>1, <2>2 DEF File, Syncs
    <3> QED BY <1>1, <3>1 DEF SyncOK, SyncInTime
  <2> QED BY <1>2, <2>1, <2>2
<1>6. TypeOK'
  BY <1>1, <1>2, <1>3, <1>5, TypesKept DEF TypeOK
<1> QED BY <1>2, <1>4, <1>5, <1>6, InvOfParts

-----------------------------------------------------------------------------
(* The steps of the exchange.                                              *)

(* Trades are added with the present as their time, and versions shown.    *)
Grows ==
  /\ UNCHANGED <<clock, kind>>
  /\ DOMAIN stamp \subseteq DOMAIN stamp' /\ Listed \subseteq Listed'
  /\ \A i \in DOMAIN stamp : stamp'[i] = stamp[i]
  /\ \A i \in DOMAIN stamp' : i \notin DOMAIN stamp => stamp'[i] = clock

(* What was complete is: what is added is too new for it.                  *)
LEMMA CompleteGrows ==
  ASSUME TypeOK, Grows, NEW d \in Contents, d.last <= clock, Complete(d)
  PROVE  Complete(d)'
<1> SUFFICES ASSUME MaxLag + MaxFetch < Lookback, ~d.holes,
                    NEW i \in DOMAIN stamp', stamp'[i] + MaxLag < d.last - MaxFetch
             PROVE  Kept(d, i)'
  BY DEF Complete
<1>1. clock \in Nat /\ d.last \in Int
  BY TradesAre, Bounds DEF Contents, None
<1>2. i \in DOMAIN stamp
  BY <1>1, Bounds DEF Grows
<1>3. Kept(d, i)
  BY <1>2 DEF Complete, Grows
<1> QED BY <1>2, <1>3 DEF Kept, SameHash, SameTime, Dropped, Grows

(* What was to come is: counted from the newest, there are more before it. *)
LEMMA ToComeGrows ==
  ASSUME TypeOK, TypeOK', Grows, NEW since, NEW next \in Nat \cup {None},
         NEW i \in DOMAIN stamp, ToCome(since, next, i)
  PROVE  ToCome(since, next, i)'
<1>1. /\ Above(Listed, i) \subseteq Above(Listed', i)
      /\ Above(Since(since), i) \subseteq Above(Since(since)', i)
  <2>1. Listed \subseteq DOMAIN stamp
    BY ListedAre
  <2>2. Since(since) \subseteq Since(since)'
    BY <2>1 DEF Since, Grows
  <2> QED BY <2>2 DEF Above, Grows
<1>2. /\ IsFiniteSet(Above(Listed', i)) /\ IsFiniteSet(Above(Since(since)', i))
  <2>1. IsFiniteSet(DOMAIN stamp')
    <3>1. Len(stamp') \in Nat /\ DOMAIN stamp' = 1 .. Len(stamp')
      BY LenProperties DEF TypeOK
    <3> QED BY <3>1, FS_Interval
  <2>2. Above(Listed', i) \subseteq DOMAIN stamp' /\ Above(Since(since)', i) \subseteq DOMAIN stamp'
    BY DEF Above, Since, Listed
  <2> QED BY <2>1, <2>2, FS_Subset
<1>3. /\ IsFiniteSet(Above(Listed, i)) /\ IsFiniteSet(Above(Since(since), i))
      /\ Cardinality(Above(Listed, i)) <= Cardinality(Above(Listed', i))
      /\ Cardinality(Above(Since(since), i)) <= Cardinality(Above(Since(since)', i))
  BY <1>1, <1>2, FS_Subset
<1>4. /\ Cardinality(Above(Listed, i)) \in Nat /\ Cardinality(Above(Since(since), i)) \in Nat
      /\ Cardinality(Above(Listed', i)) \in Nat /\ Cardinality(Above(Since(since)', i)) \in Nat
      /\ Offset(next) \in Nat
  BY <1>2, <1>3, FS_CardinalityType DEF Offset
<1>5. kind = "rise" => Cardinality(Above(Listed', i)) >= Offset(next)
  BY <1>3, <1>4 DEF ToCome
<1>6. kind = "omni" => Cardinality(Above(Since(since)', i)) >= Offset(next)
  BY <1>3, <1>4 DEF ToCome
<1>7. /\ kind' = kind /\ stamp'[i] = stamp[i]
      /\ kind \in {"hyena", "onyx"} => next = None \/ stamp[i] >= next
      /\ kind = "zero1" => next = None \/ i >= next
      /\ kind \in {"pacifica", "nado", "ethereal"} => next = None \/ i < next
  BY DEF Grows, ToCome
<1>8. /\ Above(Listed, i)' = Above(Listed', i) /\ Above(Since(since), i)' = Above(Since(since)', i)
      /\ Offset(next)' = Offset(next)
  BY DEF Above, Offset
<1> QED BY <1>5, <1>6, <1>7, <1>8 DEF ToCome

LEMMA SyncGrows ==
  ASSUME TypeOK, TypeOK', Grows, NEW s \in Syncs, SyncOK(s)
  PROVE  SyncOK(s)'
<1>1. s.data \in Contents /\ s.data.last <= clock
  BY DEF SyncOK, SyncInTime, Syncs
<1>2. Complete(s.data)'
  BY <1>1, CompleteGrows DEF SyncOK
<1>3. SyncInTime(s)'
  BY DEF SyncOK, SyncInTime, Grows
<1>4. ASSUME s.at = "fetching" PROVE Due(s)' = Due(s)
  <2>1. clock \in Nat /\ s.began \in Nat /\ s.began <= clock
    BY <1>4, TradesAre DEF SyncOK, SyncInTime, Syncs
  <2>2. \A i \in DOMAIN stamp' : i \notin DOMAIN stamp => ~ (stamp'[i] + MaxLag < s.began)
    BY <2>1, Bounds DEF Grows
  <2> QED BY <2>2 DEF Due, Grows
<1>5. ConfirmOK(s)'
  BY <1>4 DEF SyncOK, ConfirmOK, Grows
<1>6. ASSUME NEW i \in DOMAIN stamp, Found(s, i) PROVE Found(s, i)'
  <2>1. s.next \in Nat \cup {None}
    BY DEF Syncs
  <2>2. SameTime(i) => SameTime(i)'
    BY DEF SameTime, Grows
  <2>3. ToCome(AsksFrom(s.data), s.next, i) => ToCome(AsksFrom(s.data), s.next, i)'
    BY <2>1, ToComeGrows
  <2> QED BY <1>6, <2>2, <2>3 DEF Found
<1>7. FetchOK(s)'
  <2> SUFFICES ASSUME s.at = "fetching", NEW i \in Due(s)
               PROVE  /\ s.got[i] \in {0, 2}
                      /\ ~s.data.holes /\ stamp'[i] > AsksFrom(s.data) => Found(s, i)'
    BY <1>4 DEF FetchOK
  <2>1. /\ s.got[i] \in {0, 2}
        /\ ~s.data.holes /\ stamp[i] > AsksFrom(s.data) => Found(s, i)
    BY DEF SyncOK, FetchOK
  <2>2. i \in DOMAIN stamp /\ stamp'[i] = stamp[i]
    BY DEF Due, Grows
  <2> QED BY <1>6, <2>1, <2>2
<1> QED BY <1>2, <1>3, <1>5, <1>7 DEF SyncOK

LEMMA VenueStep ==
  ASSUME HistoryInv, Grows, TypeOK', Sorted', InTime', UNCHANGED <<file, sync>>
  PROVE  HistoryInv'
<1>1. TypeOK /\ file.data \in Contents /\ sync \in [Commands -> Syncs]
  BY DEF HistoryInv, TypeOK
<1>2. \A c \in Commands : SyncOK(sync[c])'
  <2> SUFFICES ASSUME NEW c \in Commands PROVE SyncOK(sync[c])'
    OBVIOUS
  <2> PICK s : s = sync[c]
    OBVIOUS
  <2>1. s \in Syncs /\ SyncOK(s)
    BY <1>1 DEF HistoryInv
  <2>2. SyncOK(s)'
    BY <1>1, <2>1, SyncGrows
  <2> QED BY <2>2
<1>3. Complete(file.data)'
  <2> PICK d : d = file.data
    OBVIOUS
  <2>1. Complete(d)'
    BY <1>1, CompleteGrows DEF HistoryInv
  <2> QED BY <2>1
<1>4. (file.data.last <= clock)'
  BY DEF HistoryInv, Grows
<1> QED BY <1>2, <1>3, <1>4 DEF HistoryInv

(* A trade: it is the last and newest.                                     *)
LEMMA HappensStep ==
  ASSUME HistoryInv, Happens
  PROVE  HistoryInv'
<1>1. TypeOK /\ Sorted /\ InTime
  BY DEF HistoryInv
<1>2. /\ stamp' = Append(stamp, clock) /\ Len(stamp) + 1 \in Ids
      /\ UNCHANGED <<clock, shown, kind, file, writers, sync, archive>>
  BY DEF Happens
<1>3. clock \in Nat /\ clock \in 0..clock /\ stamp \in Seq(0..clock) /\ Len(stamp) \in Nat
  BY <1>1, TradesAre DEF TypeOK
<1>4. /\ stamp' \in Seq(0..clock) /\ Len(stamp') = Len(stamp) + 1
      /\ DOMAIN stamp = 1 .. Len(stamp) /\ DOMAIN stamp' = 1 .. Len(stamp) + 1
      /\ \A i \in 1 .. Len(stamp) : stamp'[i] = stamp[i]
      /\ stamp'[Len(stamp) + 1] = clock
  BY <1>2, <1>3, AppendProperties, LenProperties
<1>5. Grows
  <2>1. DOMAIN stamp \subseteq DOMAIN stamp'
    BY <1>3, <1>4
  <2>2. Listed \subseteq Listed'
    BY <1>2, <2>1 DEF Listed
  <2>3. \A i \in DOMAIN stamp' : i \notin DOMAIN stamp => i = Len(stamp) + 1
    BY <1>3, <1>4
  <2> QED BY <1>2, <1>4, <2>1, <2>2, <2>3 DEF Grows
<1>6. TypeOK'
  <2>1. Len(stamp') <= Cardinality(Ids)
    <3>1. Cardinality(Ids) \in Nat /\ Ids = 1 .. Cardinality(Ids)
      BY HistoryAssumption, FS_CardinalityType
    <3> QED BY <1>2, <1>3, <1>4, <3>1
  <2>2. archive' \in [upto : None..MaxTime, keys : SUBSET Listed']
    BY <1>1, <1>2, <1>5 DEF TypeOK, Grows
  <2>3. \A c \in Commands : sync'[c].oids \subseteq Listed'
    BY <1>1, <1>2, <1>5 DEF TypeOK, Grows
  <2> QED BY <1>1, <1>2, <1>4, <2>1, <2>2, <2>3 DEF TypeOK
<1>7. Sorted'
  <2> SUFFICES ASSUME NEW i \in DOMAIN stamp', NEW j \in DOMAIN stamp', i < j
               PROVE  stamp'[i] <= stamp'[j]
    BY DEF Sorted
  <2>1. i \in 1 .. Len(stamp) /\ stamp'[i] = stamp[i] /\ stamp[i] <= clock
    BY <1>1, <1>3, <1>4, TradesAre
  <2>2. CASE j \in 1 .. Len(stamp)
    BY <1>1, <1>4, <2>1, <2>2 DEF Sorted
  <2>3. CASE j = Len(stamp) + 1
    BY <1>4, <2>1, <2>3
  <2> QED BY <1>3, <1>4, <2>2, <2>3
<1>8. InTime'
  <2> SUFFICES ASSUME NEW i \in DOMAIN stamp' PROVE shown'[i] = 2 \/ clock' <= stamp'[i] + MaxLag
    BY DEF InTime
  <2>1. CASE i \in 1 .. Len(stamp)
    BY <1>1, <1>2, <1>4, <2>1 DEF InTime
  <2>2. CASE i = Len(stamp) + 1
    BY <1>2, <1>3, <1>4, <2>2, Bounds
  <2> QED BY <1>3, <1>4, <2>1, <2>2
<1> QED BY <1>2, <1>5, <1>6, <1>7, <1>8, VenueStep

(* A version is shown.                                                     *)
LEMMA ShowsStep ==
  ASSUME HistoryInv, NEW i \in Ids, Shows(i)
  PROVE  HistoryInv'
<1>1. TypeOK /\ Sorted /\ InTime
  BY DEF HistoryInv
<1>2. PICK v \in (shown[i] + 1)..2 : shown' = [shown EXCEPT ![i] = v]
  BY DEF Shows
<1>3. UNCHANGED <<clock, stamp, kind, file, writers, sync, archive>>
  BY DEF Shows
<1>4. shown \in [Ids -> 0..2] /\ shown[i] \in 0..2 /\ DOMAIN stamp \subseteq Ids
  BY <1>1, TradesAre DEF TypeOK
<1>5. shown' \in [Ids -> 0..2] /\ \A j \in Ids : (shown[j] > 0 => shown'[j] > 0) /\ (shown[j] = 2 => shown'[j] = 2)
  <2>1. v \in 0..2 /\ v > 0 /\ (shown[i] # 2)
    BY <1>2, <1>4
  <2> QED BY <1>2, <1>4, <2>1
<1>6. Grows
  BY <1>3, <1>4, <1>5 DEF Grows, Listed
<1>7. TypeOK'
  <2>1. archive' \in [upto : None..MaxTime, keys : SUBSET Listed']
    BY <1>1, <1>3, <1>6 DEF TypeOK, Grows
  <2>2. \A c \in Commands : sync'[c].oids \subseteq Listed'
    BY <1>1, <1>3, <1>6 DEF TypeOK, Grows
  <2> QED BY <1>1, <1>3, <1>5, <2>1, <2>2 DEF TypeOK
<1>8. Sorted' /\ InTime'
  BY <1>1, <1>3, <1>4, <1>5 DEF Sorted, InTime
<1> QED BY <1>3, <1>6, <1>7, <1>8, VenueStep

(* Time passes, as long as nobody is late.                                 *)
LEMMA TickStep ==
  ASSUME HistoryInv, Tick
  PROVE  HistoryInv'
<1>1. TypeOK /\ Sorted /\ InTime /\ clock \in Nat /\ MaxTime \in Nat
  BY TradesAre, Bounds DEF HistoryInv
<1>2. /\ clock < MaxTime /\ clock' = clock + 1
      /\ UNCHANGED <<stamp, shown, kind, file, writers, sync, archive>>
      /\ \A i \in DOMAIN stamp : shown[i] = 2 \/ clock < stamp[i] + MaxLag
      /\ \A c \in Commands : sync[c].at = "fetching" => clock < sync[c].began + MaxFetch
  BY DEF Tick
<1>3. Listed' = Listed
  BY <1>2 DEF Listed
<1>4. TypeOK'
  <2>1. clock' \in 0..MaxTime
    BY <1>1, <1>2
  <2>2. stamp' \in Seq(0..clock') /\ Len(stamp') <= Cardinality(Ids)
    <3>1. 0..clock \subseteq 0..clock'
      BY <1>1, <1>2
    <3>2. stamp \in Seq(0..clock')
      <4>1. Len(stamp) \in Nat /\ stamp \in [1 .. Len(stamp) -> 0..clock]
        BY <1>1, LenProperties DEF TypeOK
      <4>2. stamp \in [1 .. Len(stamp) -> 0..clock']
        BY <3>1, <4>1
      <4> QED BY <4>1, <4>2, SeqDef
    <3> QED BY <1>1, <1>2, <3>2 DEF TypeOK
  <2> QED BY <1>1, <1>2, <1>3, <2>1, <2>2 DEF TypeOK
<1>5. Sorted'
  BY <1>1, <1>2 DEF Sorted
<1>6. InTime'
  BY <1>1, <1>2, TradesAre, Bounds DEF InTime
<1>7. Complete(file.data)' /\ (file.data.last <= clock)'
  <2>1. Complete(file.data) /\ file.data.last <= clock /\ file.data.last \in Int
    BY <1>1, Bounds DEF HistoryInv, TypeOK, Contents, None
  <2> QED BY <1>1, <1>2, <2>1 DEF Complete, Kept, SameHash, SameTime, Dropped
<1>8. \A c \in Commands : SyncOK(sync[c])'
  <2> SUFFICES ASSUME NEW c \in Commands PROVE SyncOK(sync[c])'
    OBVIOUS
  <2> PICK s : s = sync[c]
    OBVIOUS
  <2>0. s = sync'[c]
    BY <1>2
  <2>1. /\ s \in Syncs /\ SyncOK(s) /\ s.data.last \in Int /\ s.began \in Nat
        /\ s.at = "fetching" => clock < s.began + MaxFetch
    <3>1. s \in Syncs /\ SyncOK(s)
      BY <1>1 DEF HistoryInv, TypeOK
    <3>2. s.data.last \in Int /\ s.began \in Nat
      BY <3>1, Bounds DEF Syncs, Contents, None
    <3> QED BY <1>2, <3>1, <3>2
  <2>2. SyncInTime(s)'
    BY <1>1, <1>2, <2>1, Bounds DEF SyncOK, SyncInTime
  <2>3. Complete(s.data)'
    BY <1>2, <2>1 DEF SyncOK, Complete, Kept, SameHash, SameTime, Dropped
  <2>4. Due(s)' = Due(s)
    BY <1>2 DEF Due
  <2>5. ConfirmOK(s)'
    BY <1>2, <2>1, <2>4 DEF SyncOK, ConfirmOK
  <2>6. \A i : Found(s, i) => Found(s, i)'
    BY <1>2, <1>3 DEF Found, SameTime, ToCome, Since, Above
  <2>7. FetchOK(s)'
    BY <1>2, <2>1, <2>4, <2>6 DEF SyncOK, FetchOK
  <2>8. SyncOK(s)'
    BY <2>2, <2>3, <2>5, <2>7 DEF SyncOK
  <2> QED BY <2>0, <2>8
<1> QED BY <1>4, <1>5, <1>6, <1>7, <1>8, <1>2 DEF HistoryInv

-----------------------------------------------------------------------------
(* The invariant of History, and what follows from it.                     *)

(* In the beginning there is nothing.                                      *)
LEMMA HistoryInit ==
  Init => HistoryInv
<1> SUFFICES ASSUME Init PROVE HistoryInv
  OBVIOUS
<1>1. Len(stamp) = 0 /\ DOMAIN stamp = {} /\ stamp \in Seq(0..clock) /\ clock = 0
  BY DEF Init
<1>2. /\ Empty \in Contents /\ Idle \in Syncs /\ Idle.oids = {} /\ Idle.data = Empty /\ Empty.last = None
      /\ Idle.at = "out" /\ NoFile \in [state : {"none", "torn", "ok"}, data : Contents]
      /\ NoFile.data = Empty
  <2>1. Nothing \in [Ids -> 0..2]
    BY DEF Nothing
  <2>2. Empty \in Contents /\ Empty.last = None
    BY <2>1, Bounds DEF Empty, Contents, None
  <2>3. Idle \in Syncs /\ Idle.oids = {} /\ Idle.data = Empty /\ Idle.at = "out"
    BY <2>1, <2>2, Bounds DEF Idle, Syncs
  <2> HIDE DEF Empty
  <2> QED BY <2>2, <2>3 DEF NoFile, File
<1>3. TypeOK
  <2>1. Cardinality(Ids) \in Nat /\ clock \in 0..MaxTime /\ shown \in [Ids -> 0..2]
    BY HistoryAssumption, FS_CardinalityType DEF Init, Nothing
  <2>2. archive \in [upto : None..MaxTime, keys : SUBSET Listed]
    BY Bounds DEF Init, None, NoArchive
  <2> HIDE DEF Idle, NoFile, Empty
  <2> QED BY <1>1, <1>2, <2>1, <2>2 DEF Init, TypeOK
<1>4. Complete(Empty) /\ Empty.last <= clock /\ SyncOK(Idle)
  BY <1>3, NothingStored
<1>5. Sorted /\ InTime
  BY <1>1 DEF Sorted, InTime
<1> HIDE DEF Idle, NoFile, Empty
<1>6. file.data = Empty /\ \A c \in Commands : sync[c] = Idle
  BY <1>2 DEF Init
<1> QED BY <1>3, <1>4, <1>5, <1>6 DEF HistoryInv

(* Every step of the exchange and of a command keeps the invariant.        *)
LEMMA HistoryStep ==
  HistoryInv /\ [Next]_vars => HistoryInv'
<1> SUFFICES ASSUME HistoryInv, [Next]_vars PROVE HistoryInv'
  OBVIOUS
<1>1. CASE Happens
  BY <1>1, HappensStep
<1>2. CASE \E i \in Ids : Shows(i)
  BY <1>2, ShowsStep
<1>3. CASE Tick
  BY <1>3, TickStep
<1>4. ASSUME NEW c \in Commands, Opens(c) PROVE HistoryInv'
  BY <1>4, OpensStep
<1>5. ASSUME NEW c \in Commands, Reads(c) PROVE HistoryInv'
  BY <1>5, ReadsStep
<1>6. ASSUME NEW c \in Commands, ZeroOneGivesUp(c) PROVE HistoryInv'
  BY <1>6, GivesUpStep
<1>7. ASSUME NEW c \in Commands, Fails(c) PROVE HistoryInv'
  BY <1>7, FailsStep
<1>8. ASSUME NEW c \in Commands, Confirms(c) PROVE HistoryInv'
  BY <1>8, ConfirmsStep
<1>9. ASSUME NEW c \in Commands, Saves(c) PROVE HistoryInv'
  BY <1>9, SavesStep
<1>10. ASSUME NEW c \in Commands, Writes(c) PROVE HistoryInv'
  BY <1>10, WritesStep
<1>11. CASE UNCHANGED vars
  <2>1. UNCHANGED <<venue, file, writers, sync, archive>>
    BY <1>11 DEF vars, venue
  <2>2. TypeOK'
    BY <2>1 DEF HistoryInv, TypeOK, Listed, venue
  <2>3. \A c \in Commands : SyncOK(sync[c])'
    <3> SUFFICES ASSUME NEW c \in Commands PROVE SyncOK(sync[c])'
      OBVIOUS
    <3> PICK s : s = sync[c]
      OBVIOUS
    <3>1. SyncOK(s)'
      BY <2>1, SyncKept DEF HistoryInv
    <3> QED BY <2>1, <3>1
  <2> QED BY <2>1, <2>2, <2>3, InvOfParts DEF HistoryInv
<1> QED BY <1>1, <1>2, <1>3, <1>4, <1>5, <1>6, <1>7, <1>8, <1>9, <1>10, <1>11 DEF Next

(* The invariant: the file and every sync hold what was final when they    *)
(* had to begin.                                                           *)
THEOREM HistoryInvariance == Spec => []HistoryInv
BY HistoryInit, HistoryStep, PTL DEF Spec

(* The values of the store and of the syncs are of their types: the list   *)
(* of trades is never from later than now, only a command at its save has  *)
(* the file open, and nothing was confirmed that the exchange never showed.*)
THEOREM HistoryTypes == Spec => []TypeOK
<1>1. HistoryInv => TypeOK
  BY DEF HistoryInv
<1> QED BY <1>1, HistoryInvariance, PTL

(* store.py loses nothing between syncs: with a lookback longer than an    *)
(* exchange needs to show a trade and a sync takes, for every exchange,    *)
(* page size, number of trades and of commands, the file holds the final   *)
(* version of what was final when the sync that wrote it began, but for    *)
(* what is hidden, what Onyx drops, and what was not answered.             *)
THEOREM FilesKeepTrades == Spec => []NothingLost
<1>1. ASSUME HistoryInv PROVE NothingLost
  <2> SUFFICES ASSUME ~file.data.holes, MaxLag + MaxFetch < Lookback, NEW i \in DOMAIN stamp,
                      stamp[i] + MaxLag < file.data.last - MaxFetch
               PROVE  file.data.recs[i] = 2 \/ Hidden(i) \/ Dropped(i)
    BY DEF NothingLost
  <2>1. Kept(file.data, i)
    BY <1>1 DEF HistoryInv, Complete
  <2> QED BY <2>1 DEF Kept, SameHash, SameTime, Hidden
<1> QED BY <1>1, HistoryInvariance, PTL

-----------------------------------------------------------------------------
(* The inductive invariant.                                                *)

(* Trades that are missing for a reason, or have been delivered.           *)
Settled == delivered \cup undelivered \cup overtaken \cup torn \cup unsaved \cup overwritten

(* The trades that have ended are numbered without a gap, and nothing but  *)
(* these is counted, sent or delivered.                                    *)
Numbered ==
  /\ \E n \in Nat : finished = 1..n
  /\ OnFile \subseteq finished
  /\ delivered \subseteq finished
  /\ \A b \in Bots : stats[b] \subseteq finished

(* Only a bot that runs counts, and only what it counts is in its digest;  *)
(* silent ones send none.                                                  *)
DigestOK ==
  /\ \A b \in Bots : digest[b] \subseteq stats[b]
  /\ \A b \in Bots \ up : stats[b] = {}
  /\ \A b \in Silent : digest[b] = {}

(* What a bot counts is on file too, or has been settled.                  *)
BackedUp == \A b \in Bots : stats[b] \subseteq OnFile \cup Settled

(* A bot that has run alone so far has all the trades on file in memory,   *)
(* and no trade it counts was delivered, unless by a bot that died, but    *)
(* for those a failed save has left on file after their digest.            *)
Alone ==
  ~mixed =>
    /\ \A b, c \in up : b = c
    /\ \A b \in up : b \notin Silent => OnFile \subseteq stats[b] \cup uncleared
    /\ overwritten \subseteq uncleared
    /\ delivered \cap OnFile \subseteq redone \cup uncleared
    /\ \A b \in Bots : delivered \cap stats[b] \subseteq redone \cup uncleared
    /\ twice \subseteq redone \cup uncleared

Inv == StatsTypeOK /\ Numbered /\ DigestOK /\ BackedUp /\ Alone /\ TradesAccounted

-----------------------------------------------------------------------------
(* Trades have positive numbers, so the mark of a torn file is none.       *)
LEMMA MarkIsNoTrade == 0 \notin Trades /\ Unreadable \notin SUBSET Trades
BY ReportAssumption DEF Trades, Unreadable

(* What is read off the file are trades.                                   *)
LEMMA OnFileType == StatsTypeOK => OnFile \subseteq Trades
BY MarkIsNoTrade DEF StatsTypeOK, OnFile

(* The file a save or a start leaves is read as it was written.            *)
LEMMA OnFileSaved ==
  ASSUME NEW S \in SUBSET Trades, statsFile' = S
  PROVE  OnFile' = S
BY MarkIsNoTrade DEF OnFile

(* A save loses no trade that was on file or is to be, but settles it, and *)
(* what is on file then was there or was to be.                            *)
SavedFate == torn \cup unsaved \cup overwritten

LEMMA SaveIs ==
  ASSUME NEW trades \in SUBSET Trades, NEW counted \in SUBSET Trades,
         StatsTypeOK, trades \subseteq counted, StatsSaved(trades, counted)
  PROVE  /\ statsFile' \in (SUBSET Trades) \cup {Unreadable}
         /\ torn' \subseteq Trades /\ unsaved' \subseteq Trades
         /\ uncleared' \subseteq Trades /\ overwritten' \subseteq Trades
         /\ OnFile' \subseteq OnFile \cup trades
         /\ trades \subseteq OnFile' \cup SavedFate'
         /\ OnFile \cup SavedFate \subseteq OnFile' \cup SavedFate' \cup (counted \ trades)
<1>0. OnFile \subseteq Trades
  BY OnFileType
<1>1. CASE /\ statsFile' = trades
           /\ overwritten' = overwritten \cup (OnFile \ counted)
           /\ unsaved' = unsaved \ trades
           /\ torn' = torn \ trades
           /\ UNCHANGED uncleared
  <2>1. OnFile' = trades
    BY <1>1, OnFileSaved
  <2> QED BY <1>0, <1>1, <2>1 DEF SavedFate, StatsTypeOK
<1>2. CASE /\ unsaved' = unsaved \cup (trades \ OnFile)
           /\ uncleared' = uncleared \cup ((OnFile \cap counted) \ trades)
           /\ UNCHANGED <<statsFile, torn, overwritten>>
  <2>1. OnFile' = OnFile
    BY <1>2 DEF OnFile
  <2> QED BY <1>0, <1>2, <2>1 DEF SavedFate, StatsTypeOK
<1>3. CASE /\ statsFile' = Unreadable
           /\ torn' = torn \cup OnFile \cup trades
           /\ UNCHANGED <<unsaved, uncleared, overwritten>>
  <2>1. OnFile' = {}
    BY <1>3 DEF OnFile
  <2> QED BY <1>0, <1>3, <2>1 DEF SavedFate, StatsTypeOK
<1> QED BY <1>1, <1>2, <1>3 DEF StatsSaved

(* A save of all that is counted.                                          *)
LEMMA SavedAll ==
  ASSUME NEW trades \in SUBSET Trades, StatsTypeOK, StatsSaved(trades, trades)
  PROVE  /\ trades \subseteq OnFile' \cup SavedFate'
         /\ OnFile \cup SavedFate \subseteq OnFile' \cup SavedFate'
<1>1. trades \subseteq trades
  OBVIOUS
<1>2. trades \subseteq OnFile' \cup SavedFate'
  BY ONLY <1>1, SaveIs, trades \in SUBSET Trades, StatsTypeOK, StatsSaved(trades, trades)
<1>3. OnFile \cup SavedFate \subseteq OnFile' \cup SavedFate' \cup (trades \ trades)
  BY ONLY <1>1, SaveIs, trades \in SUBSET Trades, StatsTypeOK, StatsSaved(trades, trades)
<1>4. trades \ trades = {}
  OBVIOUS
<1> QED BY ONLY <1>2, <1>3, <1>4

(* What stays on file after a save is written, or marked as not cleared.   *)
LEMMA SaveMarks ==
  ASSUME NEW trades \in SUBSET Trades, NEW counted,
         OnFile \subseteq counted \cup uncleared, StatsSaved(trades, counted)
  PROVE  /\ uncleared \subseteq uncleared'
         /\ OnFile' \subseteq trades \cup uncleared'
         /\ overwritten' \subseteq overwritten \cup uncleared'
<1>1. CASE /\ statsFile' = trades
           /\ overwritten' = overwritten \cup (OnFile \ counted)
           /\ UNCHANGED uncleared
  <2>1. OnFile' = trades
    BY <1>1, OnFileSaved
  <2> QED BY <1>1, <2>1
<1>2. CASE /\ uncleared' = uncleared \cup ((OnFile \cap counted) \ trades)
           /\ UNCHANGED <<statsFile, overwritten>>
  <2>1. OnFile' = OnFile
    BY <1>2 DEF OnFile
  <2> QED BY <1>2, <2>1
<1>3. CASE statsFile' = Unreadable /\ UNCHANGED <<uncleared, overwritten>>
  <2>1. OnFile' = {}
    BY <1>3 DEF OnFile
  <2> QED BY <1>3, <2>1
<1> QED BY <1>1, <1>2, <1>3 DEF StatsSaved

(* The next number has not been given to a trade.                          *)
LEMMA NextNumber ==
  ASSUME Numbered
  PROVE  /\ Cardinality(finished) + 1 \notin finished
         /\ \E n \in Nat : finished \cup {Cardinality(finished) + 1} = 1..n
<1>1. PICK n \in Nat : finished = 1..n
  BY DEF Numbered
<1>2. Cardinality(finished) = n
  BY <1>1, FS_Interval
<1>3. finished \cup {n + 1} = 1..(n + 1)
  BY <1>1
<1> QED BY <1>1, <1>2, <1>3

(* The initial state satisfies the invariant.                              *)
LEMMA InitInv == StatsInit => Inv
<1> SUFFICES ASSUME StatsInit PROVE Inv
  OBVIOUS
<1> USE DEF StatsInit
<1>1. OnFile = {}
  BY DEF OnFile
<1>2. StatsTypeOK
  BY DEF StatsTypeOK
<1>3. \E n \in Nat : finished = 1..n
  <2>1. finished = 1..0
    OBVIOUS
  <2> QED BY <2>1
<1>4. Numbered
  BY <1>1, <1>3 DEF Numbered
<1>5. DigestOK /\ BackedUp /\ Alone
  BY <1>1, ReportAssumption DEF DigestOK, BackedUp, Alone
<1>6. TradesAccounted
  BY DEF TradesAccounted
<1> QED BY <1>2, <1>4, <1>5, <1>6 DEF Inv

-----------------------------------------------------------------------------
(* Every step keeps the types.                                             *)
LEMMA TypeStep == StatsTypeOK /\ [StatsNext]_statsVars => StatsTypeOK'
<1> SUFFICES ASSUME StatsTypeOK, [StatsNext]_statsVars PROVE StatsTypeOK'
  OBVIOUS
<1>0. OnFile \subseteq Trades
  BY OnFileType
<1>1. ASSUME NEW b \in Bots, Starts(b) PROVE StatsTypeOK'
  BY <1>0, <1>1 DEF Starts, Loaded, StatsTypeOK, histories, saveHistories
<1>2. ASSUME NEW b \in Bots, TradeCounted(b) PROVE StatsTypeOK'
  <2>1. stats'[b] \in SUBSET Trades
    BY <1>2 DEF TradeCounted, StatsTypeOK
  <2>2. /\ statsFile' \in (SUBSET Trades) \cup {Unreadable}
        /\ torn' \subseteq Trades /\ unsaved' \subseteq Trades
        /\ uncleared' \subseteq Trades /\ overwritten' \subseteq Trades
    BY <1>2, <2>1, SaveIs DEF TradeCounted
  <2>3. UNCHANGED <<up, digest, delivered, twice, undelivered, overtaken, redone>>
    BY <1>2 DEF TradeCounted
  <2>4. finished' \subseteq Trades /\ stats' \in [Bots -> SUBSET Trades] /\ mixed' \in BOOLEAN
    BY <1>2 DEF TradeCounted, StatsTypeOK
  <2> QED BY <2>2, <2>3, <2>4 DEF StatsTypeOK
<1>3. ASSUME NEW b \in Bots, DigestStarts(b) PROVE StatsTypeOK'
  BY <1>3 DEF DigestStarts, StatsTypeOK, histories, saveHistories
<1>4. ASSUME NEW b \in Bots, DigestSent(b) PROVE StatsTypeOK'
  <2>1. {} \subseteq Trades /\ stats[b] \subseteq Trades /\ digest[b] \subseteq Trades
    BY DEF StatsTypeOK
  <2>2. /\ statsFile' \in (SUBSET Trades) \cup {Unreadable}
        /\ torn' \subseteq Trades /\ unsaved' \subseteq Trades
        /\ uncleared' \subseteq Trades /\ overwritten' \subseteq Trades
    BY <1>4, <2>1, SaveIs DEF DigestSent, Cleared
  <2>3. UNCHANGED <<up, mixed, finished, redone>>
    BY <1>4 DEF DigestSent
  <2>4. delivered' \subseteq Trades /\ twice' \subseteq Trades /\ undelivered' \subseteq Trades
    BY <1>4, <2>1 DEF DigestSent, Arrives, StatsTypeOK
  <2>5. overtaken' \subseteq Trades
    BY <1>4, <2>1 DEF DigestSent, StatsTypeOK
  <2>6. stats' \in [Bots -> SUBSET Trades] /\ digest' \in [Bots -> SUBSET Trades]
    BY <1>4 DEF DigestSent, Cleared, StatsTypeOK
  <2> QED BY <2>2, <2>3, <2>4, <2>5, <2>6 DEF StatsTypeOK
<1>5. ASSUME NEW b \in Bots, Dies(b) PROVE StatsTypeOK'
  BY <1>0, <1>5 DEF Dies, Arrives, StatsTypeOK
<1>6. CASE UNCHANGED statsVars
  BY <1>6 DEF statsVars, histories, saveHistories, StatsTypeOK
<1> QED BY <1>1, <1>2, <1>3, <1>4, <1>5, <1>6 DEF StatsNext

(* Trades get the next number, and nothing else enters a set of trades.    *)
LEMMA NumberedStep == Inv /\ [StatsNext]_statsVars => Numbered'
<1> SUFFICES ASSUME Inv, [StatsNext]_statsVars PROVE Numbered'
  OBVIOUS
<1>0. /\ StatsTypeOK /\ Numbered /\ DigestOK
      /\ OnFile \subseteq Trades
  BY OnFileType DEF Inv
<1>1. ASSUME NEW b \in Bots, Starts(b) PROVE Numbered'
  <2>1. OnFile' = OnFile
    BY <1>0, <1>1, OnFileSaved DEF Starts, OnFile
  <2> QED BY <1>0, <1>1, <2>1 DEF Starts, Loaded, Numbered, histories, saveHistories, StatsTypeOK
<1>2. ASSUME NEW b \in Bots, TradeCounted(b) PROVE Numbered'
  <2>1. \E n \in Nat : finished' = 1..n
    BY <1>0, <1>2, NextNumber DEF TradeCounted
  <2>2. stats'[b] \subseteq finished' /\ finished \subseteq finished' /\ stats'[b] \subseteq Trades
    BY <1>0, <1>2 DEF TradeCounted, Numbered, StatsTypeOK
  <2>3. OnFile' \subseteq finished'
    <3>1. OnFile' \subseteq OnFile \cup stats'[b]
      BY <1>0, <1>2, <2>2, SaveIs DEF TradeCounted
    <3> QED BY <1>0, <2>2, <3>1 DEF Numbered
  <2>4. \A c \in Bots : stats'[c] \subseteq finished'
    BY <1>0, <1>2, <2>2 DEF TradeCounted, Numbered, StatsTypeOK
  <2>5. delivered' \subseteq finished'
    BY <1>0, <1>2, <2>2 DEF TradeCounted, Numbered
  <2> QED BY <2>1, <2>2, <2>3, <2>4, <2>5 DEF Numbered
<1>3. ASSUME NEW b \in Bots, DigestStarts(b) PROVE Numbered'
  BY <1>0, <1>3 DEF DigestStarts, Numbered, OnFile, histories, saveHistories
<1>4. ASSUME NEW b \in Bots, DigestSent(b) PROVE Numbered'
  <2>1. OnFile' \subseteq OnFile
    <3>1. {} \subseteq Trades /\ stats[b] \subseteq Trades /\ StatsSaved({}, stats[b])
      BY <1>0, <1>4 DEF DigestSent, Cleared, StatsTypeOK
    <3> QED BY <1>0, <3>1, SaveIs
  <2>2. delivered' \subseteq finished
    BY <1>0, <1>4 DEF DigestSent, Arrives, Numbered, DigestOK
  <2> QED BY <1>0, <1>4, <2>1, <2>2 DEF DigestSent, Cleared, Numbered, StatsTypeOK
<1>5. ASSUME NEW b \in Bots, Dies(b) PROVE Numbered'
  <2>1. OnFile' \subseteq OnFile
    BY <1>5 DEF Dies, OnFile
  <2>2. delivered' \subseteq finished
    BY <1>0, <1>5 DEF Dies, Arrives, Numbered, DigestOK
  <2> QED BY <1>0, <1>5, <2>1, <2>2 DEF Dies, Numbered, StatsTypeOK
<1>6. CASE UNCHANGED statsVars
  BY <1>0, <1>6 DEF statsVars, histories, saveHistories, Numbered, OnFile
<1> QED BY <1>1, <1>2, <1>3, <1>4, <1>5, <1>6 DEF StatsNext

(* Counting, clearing and dying change memory and digest together.         *)
LEMMA DigestStep == Inv /\ [StatsNext]_statsVars => DigestOK'
<1> SUFFICES ASSUME Inv, [StatsNext]_statsVars PROVE DigestOK'
  OBVIOUS
<1> USE DEF Inv, StatsTypeOK, DigestOK
<1>1. ASSUME NEW b \in Bots, Starts(b) PROVE DigestOK'
  BY <1>1, ReportAssumption DEF Starts
<1>2. ASSUME NEW b \in Bots, TradeCounted(b) PROVE DigestOK'
  BY <1>2, ReportAssumption DEF TradeCounted
<1>3. ASSUME NEW b \in Bots, DigestStarts(b) PROVE DigestOK'
  BY <1>3, ReportAssumption DEF DigestStarts
<1>4. ASSUME NEW b \in Bots, DigestSent(b) PROVE DigestOK'
  BY <1>4, ReportAssumption DEF DigestSent, Cleared
<1>5. ASSUME NEW b \in Bots, Dies(b) PROVE DigestOK'
  BY <1>5, ReportAssumption DEF Dies
<1>6. CASE UNCHANGED statsVars
  BY <1>6 DEF statsVars
<1> QED BY <1>1, <1>2, <1>3, <1>4, <1>5, <1>6 DEF StatsNext

(* A save backs up the saver and settles what it throws out; a file is     *)
(* only torn or cleared together with an entry of its trades.              *)
LEMMA BackedUpStep == Inv /\ [StatsNext]_statsVars => BackedUp'
<1> SUFFICES ASSUME Inv, [StatsNext]_statsVars PROVE BackedUp'
  OBVIOUS
<1>0. /\ StatsTypeOK /\ DigestOK /\ BackedUp
      /\ OnFile \subseteq Trades
  BY OnFileType DEF Inv
<1>1. ASSUME NEW b \in Bots, Starts(b) PROVE BackedUp'
  <2>1. OnFile' = OnFile
    BY <1>0, <1>1, OnFileSaved DEF Starts, OnFile
  <2> QED BY <1>0, <1>1, <2>1 DEF Starts, Loaded, BackedUp, Settled, histories, saveHistories, StatsTypeOK
<1>2. ASSUME NEW b \in Bots, TradeCounted(b) PROVE BackedUp'
  <2>1. stats'[b] \subseteq Trades
    BY <1>0, <1>2 DEF TradeCounted, StatsTypeOK
  <2>2. /\ stats'[b] \subseteq OnFile' \cup SavedFate'
        /\ OnFile \cup SavedFate \subseteq OnFile' \cup SavedFate'
    <3>1. PICK S \in SUBSET Trades : S = stats'[b]
      BY <2>1
    <3>2. StatsSaved(S, S)
      BY <1>2, <3>1 DEF TradeCounted
    <3>3. S \subseteq OnFile' \cup SavedFate' /\ OnFile \cup SavedFate \subseteq OnFile' \cup SavedFate'
      BY <1>0, <3>2, SavedAll
    <3> QED BY <3>1, <3>3
  <2>3. OnFile \cup Settled \subseteq OnFile' \cup Settled'
    BY <1>2, <2>2 DEF TradeCounted, SavedFate, Settled
  <2>4. stats'[b] \subseteq OnFile' \cup Settled'
    BY <2>2 DEF SavedFate, Settled
  <2>5. \A c \in Bots \ {b} : stats'[c] = stats[c]
    BY <1>0, <1>2 DEF TradeCounted, StatsTypeOK
  <2> QED BY <1>0, <2>3, <2>4, <2>5 DEF BackedUp
<1>3. ASSUME NEW b \in Bots, DigestStarts(b) PROVE BackedUp'
  BY <1>0, <1>3 DEF DigestStarts, BackedUp, Settled, OnFile, histories, saveHistories
<1>4. ASSUME NEW b \in Bots, DigestSent(b) PROVE BackedUp'
  <2>1. stats[b] \subseteq delivered' \cup undelivered' \cup overtaken'
    BY <1>4 DEF DigestSent, Arrives
  <2>2. OnFile \cup Settled \subseteq OnFile' \cup Settled'
    <3>1. {} \subseteq Trades /\ stats[b] \subseteq Trades /\ StatsSaved({}, stats[b])
      BY <1>0, <1>4 DEF DigestSent, Cleared, StatsTypeOK
    <3>2. OnFile \cup SavedFate \subseteq OnFile' \cup SavedFate' \cup stats[b]
      BY <1>0, <3>1, SaveIs
    <3>3. /\ delivered \subseteq delivered' /\ undelivered \subseteq undelivered'
          /\ overtaken \subseteq overtaken'
      BY <1>4 DEF DigestSent, Arrives
    <3> QED BY <2>1, <3>2, <3>3 DEF SavedFate, Settled
  <2> QED BY <1>0, <1>4, <2>2 DEF DigestSent, Cleared, BackedUp, StatsTypeOK
<1>5. ASSUME NEW b \in Bots, Dies(b) PROVE BackedUp'
  <2>1. OnFile \cup Settled \subseteq OnFile' \cup Settled'
    BY <1>5 DEF Dies, Arrives, Settled, OnFile
  <2> QED BY <1>0, <1>5, <2>1 DEF Dies, BackedUp, StatsTypeOK
<1>6. CASE UNCHANGED statsVars
  BY <1>0, <1>6 DEF statsVars, histories, saveHistories, BackedUp, Settled, OnFile
<1> QED BY <1>1, <1>2, <1>3, <1>4, <1>5, <1>6 DEF StatsNext

(* A finished trade is in memory of a running bot, on file, or settled.    *)
LEMMA AccountedStep == Inv /\ [StatsNext]_statsVars => TradesAccounted'
<1> SUFFICES ASSUME Inv, [StatsNext]_statsVars PROVE TradesAccounted'
  OBVIOUS
<1>0. /\ StatsTypeOK /\ DigestOK /\ BackedUp
      /\ finished \subseteq Settled \cup OnFile
      /\ OnFile \subseteq Trades
  <2>1. \A b \in up : stats[b] \subseteq Settled \cup OnFile
    BY DEF Inv, BackedUp, StatsTypeOK
  <2>2. Counted \subseteq Settled \cup OnFile
    BY <2>1 DEF Counted
  <2> QED BY <2>2, OnFileType DEF Inv, TradesAccounted, Settled
<1>1. SUFFICES finished' \subseteq Settled' \cup OnFile'
  BY DEF TradesAccounted, Counted, Settled
<1>2. ASSUME NEW b \in Bots, Starts(b) PROVE finished' \subseteq Settled' \cup OnFile'
  <2>1. OnFile' = OnFile
    BY <1>0, <1>2, OnFileSaved DEF Starts, OnFile
  <2> QED BY <1>0, <1>2, <2>1 DEF Starts, Settled, histories, saveHistories
<1>3. ASSUME NEW b \in Bots, TradeCounted(b) PROVE finished' \subseteq Settled' \cup OnFile'
  <2>1. stats'[b] \subseteq Trades /\ finished' \ finished \subseteq stats'[b]
    BY <1>0, <1>3 DEF TradeCounted, StatsTypeOK
  <2>2. /\ stats'[b] \subseteq OnFile' \cup SavedFate'
        /\ OnFile \cup SavedFate \subseteq OnFile' \cup SavedFate'
    <3>1. PICK S \in SUBSET Trades : S = stats'[b]
      BY <2>1
    <3>2. StatsSaved(S, S)
      BY <1>3, <3>1 DEF TradeCounted
    <3>3. S \subseteq OnFile' \cup SavedFate' /\ OnFile \cup SavedFate \subseteq OnFile' \cup SavedFate'
      BY <1>0, <3>2, SavedAll
    <3> QED BY <3>1, <3>3
  <2>3. OnFile \cup Settled \subseteq OnFile' \cup Settled'
    BY <1>3, <2>2 DEF TradeCounted, SavedFate, Settled
  <2>4. stats'[b] \subseteq OnFile' \cup Settled'
    BY <2>2 DEF SavedFate, Settled
  <2> QED BY <1>0, <2>1, <2>3, <2>4
<1>4. ASSUME NEW b \in Bots, DigestStarts(b) PROVE finished' \subseteq Settled' \cup OnFile'
  BY <1>0, <1>4 DEF DigestStarts, Settled, OnFile, histories, saveHistories
<1>5. ASSUME NEW b \in Bots, DigestSent(b) PROVE finished' \subseteq Settled' \cup OnFile'
  <2>1. stats[b] \subseteq delivered' \cup undelivered' \cup overtaken'
    BY <1>5 DEF DigestSent, Arrives
  <2>2. {} \subseteq Trades /\ stats[b] \subseteq Trades /\ StatsSaved({}, stats[b])
    BY <1>0, <1>5 DEF DigestSent, Cleared, StatsTypeOK
  <2>3. OnFile \cup SavedFate \subseteq OnFile' \cup SavedFate' \cup stats[b]
    BY <1>0, <2>2, SaveIs
  <2>4. /\ delivered \subseteq delivered' /\ undelivered \subseteq undelivered'
        /\ overtaken \subseteq overtaken' /\ finished' = finished
    BY <1>5 DEF DigestSent, Arrives
  <2> QED BY <1>0, <2>1, <2>3, <2>4 DEF SavedFate, Settled
<1>6. ASSUME NEW b \in Bots, Dies(b) PROVE finished' \subseteq Settled' \cup OnFile'
  BY <1>0, <1>6 DEF Dies, Arrives, Settled, OnFile
<1>7. CASE UNCHANGED statsVars
  BY <1>0, <1>7 DEF statsVars, histories, saveHistories, Settled, OnFile
<1> QED BY <1>2, <1>3, <1>4, <1>5, <1>6, <1>7 DEF StatsNext

(* Alone, a bot reads and writes the file it has left.                     *)
LEMMA AloneStep == Inv /\ [StatsNext]_statsVars => Alone'
<1> SUFFICES ASSUME Inv, [StatsNext]_statsVars, ~mixed' PROVE Alone'
  BY DEF Alone
<1>0. /\ StatsTypeOK /\ Numbered /\ DigestOK
      /\ OnFile \subseteq Trades
  BY OnFileType DEF Inv
<1>a. /\ mixed = FALSE
      /\ \A b, c \in up : b = c
      /\ \A b \in up : b \notin Silent => OnFile \subseteq stats[b] \cup uncleared
      /\ overwritten \subseteq uncleared
      /\ delivered \cap OnFile \subseteq redone \cup uncleared
      /\ \A b \in Bots : delivered \cap stats[b] \subseteq redone \cup uncleared
      /\ twice \subseteq redone \cup uncleared
  <2>1. ~mixed
    BY <1>0 DEF StatsNext, Starts, TradeCounted, DigestStarts, DigestSent, Dies, statsVars, StatsTypeOK
  <2> QED BY <1>0, <2>1 DEF Inv, Alone, StatsTypeOK
<1>1. ASSUME NEW b \in Bots, Starts(b) PROVE Alone'
  <2>1. OnFile' = OnFile
    BY <1>0, <1>1, OnFileSaved DEF Starts, OnFile
  <2>2. up' = {b} /\ stats' = [stats EXCEPT ![b] = Loaded(b)]
    BY <1>1 DEF Starts
  <2> QED BY <1>0, <1>1, <1>a, <2>1, <2>2 DEF Starts, Loaded, Alone, histories, saveHistories, StatsTypeOK
<1>2. ASSUME NEW b \in Bots, TradeCounted(b) PROVE Alone'
  <2>1. b \notin Silent /\ b \in up
    BY <1>2 DEF TradeCounted
  <2>2. PICK t \in Trades \ finished : stats' = [stats EXCEPT ![b] = @ \cup {t}]
    BY <1>0, <1>2, NextNumber DEF TradeCounted
  <2>3. /\ uncleared \subseteq uncleared'
        /\ OnFile' \subseteq stats'[b] \cup uncleared'
        /\ overwritten' \subseteq uncleared'
    <3>1. stats'[b] \subseteq Trades /\ StatsSaved(stats'[b], stats'[b])
      BY <1>0, <1>2, <2>2 DEF TradeCounted, StatsTypeOK
    <3>2. OnFile \subseteq stats'[b] \cup uncleared
      BY <1>0, <1>a, <2>1, <2>2 DEF StatsTypeOK
    <3> QED BY <1>a, <3>1, <3>2, SaveMarks
  <2>4. \A c \in Bots : delivered \cap stats'[c] \subseteq redone \cup uncleared
    BY <1>0, <1>a, <2>2 DEF Numbered, StatsTypeOK
  <2>5. \A c \in up : c = b
    BY <1>a, <2>1
  <2>6. UNCHANGED <<up, delivered, twice, redone>>
    BY <1>2 DEF TradeCounted
  <2> QED BY <1>a, <2>3, <2>4, <2>5, <2>6 DEF Alone
<1>3. ASSUME NEW b \in Bots, DigestStarts(b) PROVE Alone'
  BY <1>a, <1>3 DEF DigestStarts, Alone, OnFile, histories, saveHistories
<1>4. ASSUME NEW b \in Bots, DigestSent(b) PROVE Alone'
  <2>1. b \in up /\ b \notin Silent /\ digest[b] \subseteq stats[b]
    BY <1>0, <1>4 DEF DigestSent, DigestOK
  <2>2. /\ uncleared \subseteq uncleared'
        /\ OnFile' \subseteq uncleared'
        /\ overwritten' \subseteq uncleared'
    <3>1. {} \subseteq Trades /\ StatsSaved({}, stats[b])
      BY <1>4 DEF DigestSent, Cleared
    <3>2. OnFile \subseteq stats[b] \cup uncleared
      BY <1>a, <2>1
    <3>3. /\ uncleared \subseteq uncleared'
          /\ OnFile' \subseteq {} \cup uncleared'
          /\ overwritten' \subseteq overwritten \cup uncleared'
      BY ONLY <3>1, <3>2, SaveMarks
    <3> QED BY <1>a, <3>3
  <2>3. UNCHANGED <<up, redone>>
    BY <1>4 DEF DigestSent
  <2>4. twice' \subseteq redone \cup uncleared
    BY <1>4, <1>a, <2>1 DEF DigestSent, Arrives
  <2>5. \A c \in Bots : stats'[c] = {}
    BY <1>0, <1>4, <1>a, <2>1 DEF DigestSent, Cleared, DigestOK, StatsTypeOK
  <2> QED BY <1>a, <2>2, <2>3, <2>4, <2>5 DEF Alone
<1>5. ASSUME NEW b \in Bots, Dies(b) PROVE Alone'
  <2>1. up' = {}
    BY <1>5, <1>a DEF Dies
  <2>2. OnFile' \subseteq OnFile
    BY <1>5 DEF Dies, OnFile
  <2>3. delivered' \subseteq delivered \cup digest[b] /\ redone' = redone \cup digest[b]
    BY <1>5 DEF Dies, Arrives
  <2>4. twice' \subseteq redone' \cup uncleared
    BY <1>0, <1>5, <1>a DEF Dies, Arrives, DigestOK
  <2>5. \A c \in Bots : stats'[c] = {}
    BY <1>0, <1>5, <1>a DEF Dies, DigestOK, StatsTypeOK
  <2>6. overwritten' = overwritten /\ uncleared' = uncleared
    BY <1>5 DEF Dies
  <2> QED BY <1>a, <2>1, <2>2, <2>3, <2>4, <2>5, <2>6 DEF Alone
<1>6. CASE UNCHANGED statsVars
  BY <1>6, <1>a DEF statsVars, histories, saveHistories, Alone, OnFile
<1> QED BY <1>1, <1>2, <1>3, <1>4, <1>5, <1>6 DEF StatsNext

-----------------------------------------------------------------------------
(* The invariant holds in every reachable state.                           *)
THEOREM StatsInvariance == StatsSpec => []Inv
<1>1. Inv /\ [StatsNext]_statsVars => Inv'
  BY TypeStep, NumberedStep, DigestStep, BackedUpStep, AloneStep, AccountedStep DEF Inv
<1> QED BY InitInv, <1>1, PTL DEF StatsSpec

(* The variables of the statistics keep their types.                       *)
THEOREM StatsTypes == StatsSpec => []StatsTypeOK
<1>1. Inv => StatsTypeOK
  BY DEF Inv
<1> QED BY <1>1, StatsInvariance, PTL

(* No trade vanishes from the statistics of on_trade_stop without one of   *)
(* the named reasons.                                                      *)
THEOREM Accounting == StatsSpec => []TradesAccounted
<1>1. Inv => TradesAccounted
  BY DEF Inv
<1> QED BY <1>1, StatsInvariance, PTL

(* A bot that runs alone never overwrites a trade that is on file, unless  *)
(* a failed save has left it there after its digest.                       *)
THEOREM NoSelfOverwriting == StatsSpec => []OverwrittenByOthers
<1>1. Inv => OverwrittenByOthers
  BY DEF Inv, Alone, OverwrittenByOthers
<1> QED BY <1>1, StatsInvariance, PTL

(* A bot that runs alone reports a trade once, unless it dies sending it   *)
(* or the save after the digest fails.                                     *)
THEOREM SingleReport == StatsSpec => []ReportedOnce
<1>1. Inv => ReportedOnce
  BY DEF Inv, Alone, ReportedOnce
<1> QED BY <1>1, StatsInvariance, PTL

(* Both: a bot that runs alone keeps its statistics and reports them once. *)
THEOREM Safe == StatsSpec => []AloneIsSafe
BY NoSelfOverwriting, SingleReport, PTL DEF AloneIsSafe

-----------------------------------------------------------------------------
(* Only trades are stored.                                                 *)

(* What is shown, read and on file are versions of trades that happened.   *)
OfTrades(versions) == \A i \in Ids : versions[i] > 0 => i \in DOMAIN stamp

StoredInv ==
  /\ TypeOK /\ OfTrades(shown) /\ OfTrades(file.data.recs)
  /\ \A c \in Commands : OfTrades(sync[c].data.recs) /\ OfTrades(sync[c].got)

LEMMA NothingIsOfTrades ==
  /\ OfTrades(Nothing) /\ OfTrades(Empty.recs) /\ OfTrades(Idle.data.recs) /\ OfTrades(Idle.got)
BY DEF OfTrades, Nothing, Empty, Idle

(* A step of a command.                                                    *)
LEMMA CommandStores ==
  ASSUME StoredInv, TypeOK', UNCHANGED venue, NEW c \in Commands, NEW s,
         OfTrades(s.data.recs), OfTrades(s.got), sync' = [sync EXCEPT ![c] = s],
         NEW recs, recs = file'.data.recs, OfTrades(recs)
  PROVE  StoredInv'
<1>1. DOMAIN stamp' = DOMAIN stamp /\ shown' = shown
  BY DEF venue
<1>2. \A v : OfTrades(v) => OfTrades(v)'
  BY <1>1 DEF OfTrades
<1>3. OfTrades(shown)' /\ OfTrades(file.data.recs)'
  BY <1>1 DEF StoredInv, OfTrades
<1>4. ASSUME NEW e \in Commands PROVE OfTrades(sync[e].data.recs)' /\ OfTrades(sync[e].got)'
  <2> PICK t : t = sync'[e]
    OBVIOUS
  <2>1. t = s \/ t = sync[e]
    BY DEF StoredInv, TypeOK
  <2>2. OfTrades(t.data.recs) /\ OfTrades(t.got)
    BY <2>1 DEF StoredInv
  <2>3. OfTrades(t.data.recs)' /\ OfTrades(t.got)'
    BY <2>2, <1>2
  <2> QED BY <2>3
<1> QED BY <1>3, <1>4 DEF StoredInv

(* What a page adds was shown.                                             *)
LEMMA ReadsTrades ==
  ASSUME StoredInv, TypeOK', NEW c \in Commands, Reads(c)
  PROVE  StoredInv'
<1> PICK s : s = sync[c]
  OBVIOUS
<1> PICK page : page = PageOf(AsksFrom(s.data), s.next)
  OBVIOUS
<1> PICK got : got = [i \in Ids |-> IF i \in page.read THEN shown[i] ELSE s.got[i]]
  OBVIOUS
<1> PICK t : t = [s EXCEPT !.got = got, !.next = page.next, !.more = page.more]
  OBVIOUS
<1>1. s \in Syncs /\ OfTrades(s.data.recs) /\ OfTrades(s.got) /\ OfTrades(shown)
  BY DEF StoredInv, TypeOK
<1>2. t.data = s.data /\ t.got = got
  BY <1>1 DEF Syncs
<1>3. sync' = [sync EXCEPT ![c] = t] /\ UNCHANGED <<venue, file>>
  <2>1. sync' = [sync EXCEPT ![c].got = got, ![c].next = page.next, ![c].more = page.more]
    BY DEF Reads
  <2>2. UNCHANGED <<venue, file>>
    BY DEF Reads
  <2> QED BY <1>1, <2>1, <2>2 DEF StoredInv, TypeOK, Syncs
<1>4. OfTrades(t.got)
  BY <1>1, <1>2 DEF OfTrades
<1>5. OfTrades(file'.data.recs)
  BY <1>3 DEF StoredInv
<1> QED BY <1>1, <1>2, <1>3, <1>4, <1>5, CommandStores

(* An upsert keeps a version, or takes one that was fetched.               *)
LEMMA SavesTrades ==
  ASSUME StoredInv, TypeOK', NEW c \in Commands, Saves(c)
  PROVE  StoredInv'
<1> PICK s : s = sync[c]
  OBVIOUS
<1> PICK recs : recs = Upsert(s.data.recs, Fetched(s))
  OBVIOUS
<1> PICK d : d = [last |-> clock, recs |-> recs, holes |-> s.data.holes]
  OBVIOUS
<1> PICK t : t = [Idle EXCEPT !.at = "writing", !.data = d]
  OBVIOUS
<1>1. OfTrades(s.data.recs) /\ OfTrades(s.got)
  BY DEF StoredInv
<1>2. OfTrades(Fetched(s))
  BY <1>1 DEF OfTrades, Fetched
<1>3. OfTrades(recs)
  <2> PICK new : new = Fetched(s)
    OBVIOUS
  <2>1. \A i \in Ids : recs[i] = s.data.recs[i] \/ recs[i] = new[i] \/ recs[i] = 0
    BY DEF Upsert
  <2> QED BY <1>1, <1>2, <2>1 DEF OfTrades
<1>4. t.data.recs = recs /\ t.got = Nothing
  <2>1. t.data = d /\ t.got = Nothing
    BY DEF Idle
  <2> QED BY <2>1
<1>5. sync' = [sync EXCEPT ![c] = t] /\ file' = Torn /\ UNCHANGED venue
  BY DEF Saves
<1>6. file'.data.recs = Nothing
  BY <1>5 DEF Torn, File, Empty
<1> QED BY <1>3, <1>4, <1>5, <1>6, NothingIsOfTrades, CommandStores

LEMMA OtherCommandsStore ==
  ASSUME StoredInv, TypeOK', NEW c \in Commands,
         Opens(c) \/ ZeroOneGivesUp(c) \/ Fails(c) \/ Confirms(c) \/ Writes(c)
  PROVE  StoredInv'
<1> PICK s : s = sync[c]
  OBVIOUS
<1> PICK idle : idle = Idle
  OBVIOUS
<1>1. /\ s \in Syncs /\ OfTrades(s.data.recs) /\ OfTrades(s.got) /\ OfTrades(file.data.recs)
      /\ file.data \in Contents /\ TypeOK
  BY DEF StoredInv, TypeOK
<1>2. OfTrades(idle.data.recs) /\ OfTrades(idle.got) /\ idle \in Syncs
  BY <1>1, NothingIsOfTrades, NothingStored
<1>3. CASE Opens(c)
  <2> PICK t : t = BegunSync(file.data)
    OBVIOUS
  <2>1. t.data = file.data /\ t.got = Nothing
    BY <1>1, BegunSyncIs
  <2>2. sync' = [sync EXCEPT ![c] = t] /\ UNCHANGED venue /\ (file' = file \/ file' = NoFile)
    BY <1>3 DEF Opens, BegunSync
  <2>3. OfTrades(file'.data.recs)
    <3>1. NoFile.data.recs = Nothing
      BY DEF NoFile, File, Empty
    <3> QED BY <1>1, <2>2, <3>1, NothingIsOfTrades
  <2> QED BY <1>1, <2>1, <2>2, <2>3, NothingIsOfTrades, CommandStores
<1>4. CASE ZeroOneGivesUp(c)
  <2> PICK t : t = [s EXCEPT !.more = FALSE, !.data = [@ EXCEPT !.holes = TRUE]]
    OBVIOUS
  <2>1. t.data.recs = s.data.recs /\ t.got = s.got
    BY <1>1 DEF Syncs, Contents
  <2>2. sync' = [sync EXCEPT ![c] = t] /\ UNCHANGED <<venue, file>>
    <3>1. sync' = [sync EXCEPT ![c].more = FALSE, ![c].data.holes = TRUE] /\ UNCHANGED <<venue, file>>
      BY <1>4 DEF ZeroOneGivesUp
    <3> QED BY <1>1, <3>1 DEF TypeOK, Syncs, Contents
  <2>3. OfTrades(file'.data.recs)
    BY <1>1, <2>2
  <2> QED BY <1>1, <2>1, <2>2, <2>3, CommandStores
<1>5. CASE Fails(c)
  <2>1. sync' = [sync EXCEPT ![c] = idle] /\ UNCHANGED <<venue, file>>
    BY <1>5 DEF Fails
  <2>2. OfTrades(file'.data.recs)
    BY <1>1, <2>1
  <2> QED BY <1>2, <2>1, <2>2, CommandStores
<1>6. CASE Confirms(c)
  <2>1. UNCHANGED <<venue, file>>
    BY <1>6 DEF Confirms
  <2>2. OfTrades(file'.data.recs)
    BY <1>1, <2>1
  <2>3. ASSUME NEW oids, sync' = [sync EXCEPT ![c].asked = TRUE, ![c].oids = oids] PROVE StoredInv'
    <3> PICK t : t = [s EXCEPT !.asked = TRUE, !.oids = oids]
      OBVIOUS
    <3>1. t.data = s.data /\ t.got = s.got
      BY <1>1 DEF Syncs
    <3>2. sync' = [sync EXCEPT ![c] = t]
      BY <1>1, <2>3 DEF TypeOK, Syncs
    <3> QED BY <1>1, <2>1, <2>2, <3>1, <3>2, CommandStores
  <2>4. ASSUME NEW oids, sync' = [sync EXCEPT ![c].asked = TRUE, ![c].oids = oids, ![c].data.holes = TRUE]
        PROVE  StoredInv'
    <3> PICK t : t = [s EXCEPT !.asked = TRUE, !.oids = oids, !.data = [@ EXCEPT !.holes = TRUE]]
      OBVIOUS
    <3>1. t.data.recs = s.data.recs /\ t.got = s.got
      BY <1>1 DEF Syncs, Contents
    <3>2. sync' = [sync EXCEPT ![c] = t]
      BY <1>1, <2>4 DEF TypeOK, Syncs, Contents
    <3> QED BY <1>1, <2>1, <2>2, <3>1, <3>2, CommandStores
  <2>5. \E oids : \/ sync' = [sync EXCEPT ![c].asked = TRUE, ![c].oids = oids]
                  \/ sync' = [sync EXCEPT ![c].asked = TRUE, ![c].oids = oids, ![c].data.holes = TRUE]
    BY <1>6 DEF Confirms
  <2> QED BY <2>3, <2>4, <2>5
<1>7. CASE Writes(c)
  <2>1. /\ sync' = [sync EXCEPT ![c] = idle] /\ UNCHANGED venue
        /\ file' = file \/ file' = File("ok", s.data)
    BY <1>7 DEF Writes
  <2>2. OfTrades(file'.data.recs)
    <3>1. File("ok", s.data).data = s.data
      BY DEF File
    <3> QED BY <1>1, <2>1, <3>1
  <2> QED BY <1>2, <2>1, <2>2, CommandStores
<1> QED BY <1>3, <1>4, <1>5, <1>6, <1>7

LEMMA StoredStep == StoredInv /\ TypeOK' /\ [Next]_vars => StoredInv'
<1> SUFFICES ASSUME StoredInv, TypeOK', [Next]_vars PROVE StoredInv'
  OBVIOUS
<1>1. ASSUME DOMAIN stamp \subseteq DOMAIN stamp', OfTrades(shown'), UNCHANGED <<file, sync>>
      PROVE  StoredInv'
  <2>1. \A v : OfTrades(v) => OfTrades(v)'
    BY <1>1 DEF OfTrades
  <2>2. OfTrades(shown)'
    BY <1>1 DEF OfTrades
  <2> QED BY <1>1, <2>1, <2>2 DEF StoredInv
<1>2. TypeOK /\ OfTrades(shown)
  BY DEF StoredInv
<1>3. CASE Happens
  <2>1. DOMAIN stamp \subseteq DOMAIN stamp'
    <3>1. stamp' = Append(stamp, clock) /\ stamp \in Seq(0 .. clock) /\ clock \in 0 .. clock
      BY <1>2, <1>3, TradesAre DEF Happens, TypeOK
    <3>2. DOMAIN stamp = 1 .. Len(stamp) /\ DOMAIN stamp' = 1 .. Len(stamp) + 1 /\ Len(stamp) \in Nat
      BY <3>1, AppendProperties, LenProperties
    <3> QED BY <3>2
  <2> QED BY <1>1, <1>2, <1>3, <2>1 DEF Happens
<1>4. ASSUME NEW i \in Ids, Shows(i) PROVE StoredInv'
  <2>1. OfTrades(shown')
    BY <1>2, <1>4 DEF Shows, OfTrades, TypeOK
  <2> QED BY <1>1, <1>4, <2>1 DEF Shows
<1>5. CASE Tick
  BY <1>1, <1>2, <1>5 DEF Tick
<1>6. CASE UNCHANGED vars
  BY <1>1, <1>2, <1>6 DEF vars
<1>7. ASSUME NEW c \in Commands,
             \/ Opens(c) \/ Reads(c) \/ ZeroOneGivesUp(c) \/ Fails(c)
             \/ Confirms(c) \/ Saves(c) \/ Writes(c)
      PROVE  StoredInv'
  BY <1>7, ReadsTrades, SavesTrades, OtherCommandsStore
<1> QED BY <1>3, <1>4, <1>5, <1>6, <1>7 DEF Next

(* Whatever syncs fail, overlap or die, a record on file is of a trade that*)
(* happened, so it has a date.                                             *)
THEOREM StoredTrades == Spec => []StoredInv
<1>1. Init => StoredInv
  <2> SUFFICES ASSUME Init PROVE StoredInv
    OBVIOUS
  <2>1. TypeOK
    BY HistoryInit DEF HistoryInv
  <2>2. shown = Nothing /\ file = NoFile /\ sync = [c \in Commands |-> Idle]
    BY DEF Init
  <2>3. file.data = Empty
    BY <2>2 DEF NoFile, File
  <2> QED BY <2>1, <2>2, <2>3, NothingIsOfTrades DEF StoredInv
<1> QED BY <1>1, StoredStep, HistoryTypes, PTL DEF Spec

-----------------------------------------------------------------------------
(* The rows of the reports.                                                *)

(* The values of a function on a finite set.                               *)
LEMMA FiniteImage ==
  ASSUME NEW S, IsFiniteSet(S), NEW f
  PROVE  IsFiniteSet({f[x] : x \in S})
<1> DEFINE g == [x \in S |-> f[x]]
           T == {f[x] : x \in S}
<1>1. g \in Surjection(S, T)
  BY DEF Surjection
<1> HIDE DEF g, T
<1>2. IsFiniteSet(T)
  BY <1>1, FS_Surjection
<1> QED BY <1>2 DEF T

(* The account, the amounts, the day and the type of a row.                *)
RowOK(r) ==
  /\ r.acc \in Accounts
  /\ r.vol \in Int /\ r.pnl \in Int /\ r.fee \in Int /\ r.fund \in Int
  /\ r.day \in Nat /\ r.day <= now
  /\ kind # "zero1" => r.type \notin Fills

LEMMA ClockIs ==
  ASSUME TypeOK
  PROVE  clock \in 0..MaxTime /\ MaxTime \in Nat /\ now \in Nat /\ now >= YearLen /\ kind \in Kinds
<1>1. clock \in 0..MaxTime /\ kind \in Kinds
  BY DEF TypeOK
<1> QED BY <1>1, Bounds, ReportsAssumption DEF now

LEMMA RowIs ==
  ASSUME StoredInv, NEW acc \in Accounts, NEW i \in DOMAIN stamp, NEW version
  PROVE  RowOK(Row(acc, i, version))
<1>1. TypeOK /\ i \in Ids /\ stamp[i] \in 0..MaxTime /\ stamp[i] <= clock
  BY TradesAre, ClockIs DEF StoredInv
<1>2. {Deal[i].vol, Deal[i].pnl, Deal[i].fee, Deal[i].fund} \subseteq Int
  BY <1>1, ReportsAssumption
<1>3. DayOf[stamp[i]] \in Nat /\ DayOf[stamp[i]] <= now
  BY <1>1, ClockIs, ReportsAssumption DEF now
<1>4. kind # "zero1" => TypeOf[kind][i] \notin Fills
  BY <1>1, ClockIs, ReportsAssumption
<1> PICK r : r = Row(acc, i, version)
  OBVIOUS
<1>5. /\ r.acc = acc /\ r.day = DayOf[stamp[i]] /\ r.type = TypeOf[kind][i]
      /\ r.vol = Deal[i].vol /\ r.fund = Deal[i].fund
      /\ r.pnl = Deal[i].pnl \/ r.pnl = 0
      /\ r.fee = Deal[i].fee \/ r.fee = 0
  BY DEF Row
<1>6. RowOK(r)
  BY <1>2, <1>3, <1>4, <1>5 DEF RowOK
<1> QED BY <1>6

LEMMA RowsAre ==
  ASSUME StoredInv
  PROVE  IsFiniteSet(Rows) /\ \A r \in Rows : RowOK(r)
<1>1. TypeOK /\ OfTrades(file.data.recs) /\ IsFiniteSet(Ids)
  BY HistoryAssumption DEF StoredInv
<1>2. IsFiniteSet(Mine) /\ \A r \in Mine : RowOK(r)
  <2> DEFINE S == {j \in Ids : file.data.recs[j] > 0}
             f == [i \in S |-> Row("mine", i, file.data.recs[i])]
  <2>1. IsFiniteSet(S) /\ S \subseteq DOMAIN stamp
    BY <1>1, FS_Subset DEF OfTrades
  <2>2. Mine = {f[i] : i \in S}
    BY DEF Mine
  <2>3. IsFiniteSet({f[i] : i \in S})
    <3> HIDE DEF f, S
    <3> QED BY <2>1, FiniteImage
  <2>4. "mine" \in Accounts
    BY DEF Accounts
  <2>5. \A i \in S : RowOK(f[i])
    BY <2>1, <2>4, RowIs
  <2> QED BY <2>2, <2>3, <2>5
<1>3. IsFiniteSet(Hedge) /\ \A r \in Hedge : RowOK(r)
  <2>1. CASE 1 \notin DOMAIN stamp
    BY <2>1, FS_EmptySet DEF Hedge
  <2>2. CASE 1 \in DOMAIN stamp
    <3> PICK r : r = Row("hedge", 1, 2)
      OBVIOUS
    <3> PICK h : h = [r EXCEPT !.pnl = -@, !.type = IF kind = "zero1" THEN "taker" ELSE @]
      OBVIOUS
    <3>1. Hedge = {h}
      BY <2>2 DEF Hedge
    <3>2. RowOK(r)
      <4>1. "hedge" \in Accounts
        BY DEF Accounts
      <4> QED BY <2>2, <4>1, RowIs
    <3>3. /\ h.acc = r.acc /\ h.day = r.day /\ h.vol = r.vol /\ h.fund = r.fund /\ h.fee = r.fee
          /\ h.pnl = -r.pnl /\ (kind # "zero1" => h.type = r.type)
      BY DEF Row
    <3>4. RowOK(h)
      BY <3>2, <3>3 DEF RowOK
    <3> QED BY <3>1, <3>4, FS_Singleton
  <2> QED BY <2>1, <2>2
<1>4. IsFiniteSet(Mine \cup Hedge)
  BY <1>2, <1>3, FS_Union
<1> QED BY <1>2, <1>3, <1>4 DEF Rows

(* The amounts of the rows, as functions.                                  *)
Vols == [r \in Rows |-> r.vol]
Pnls == [r \in Rows |-> r.pnl]
Fees == [r \in Rows |-> r.fee]
Funds == [r \in Rows |-> r.fund]

LEMMA AmountsAre ==
  ASSUME StoredInv, NEW S \in SUBSET Rows
  PROVE  /\ IsFiniteSet(S)
         /\ Vol(S) = SumFunctionOnSet(Vols, S) /\ Vol(S) \in Int
         /\ Pnl(S) = SumFunctionOnSet(Pnls, S) /\ Pnl(S) \in Int
         /\ Fee(S) = SumFunctionOnSet(Fees, S) /\ Fee(S) \in Int
         /\ Fund(S) = SumFunctionOnSet(Funds, S) /\ Fund(S) \in Int
<1>1. IsFiniteSet(S)
  BY RowsAre, FS_Subset
<1>2. \A r \in S : r.vol \in Int /\ r.pnl \in Int /\ r.fee \in Int /\ r.fund \in Int
  BY RowsAre DEF RowOK
<1>3. Vol(S) = SumFunctionOnSet(Vols, S) /\ SumFunctionOnSet(Vols, S) \in Int
  <2> PICK g : g = [r \in S |-> r.vol]
    OBVIOUS
  <2>1. g = [r \in S |-> g[r]] /\ \A r \in S : Vols[r] \in Int /\ g[r] = Vols[r]
    BY <1>2 DEF Vols
  <2>2. SumFunction(g) = SumFunctionOnSet(Vols, S) /\ SumFunctionOnSet(Vols, S) \in Int
    BY <1>1, <2>1, SumOver, SumIsInt
  <2> QED BY <2>2 DEF Vol
<1>4. Pnl(S) = SumFunctionOnSet(Pnls, S) /\ SumFunctionOnSet(Pnls, S) \in Int
  <2> PICK g : g = [r \in S |-> r.pnl]
    OBVIOUS
  <2>1. g = [r \in S |-> g[r]] /\ \A r \in S : Pnls[r] \in Int /\ g[r] = Pnls[r]
    BY <1>2 DEF Pnls
  <2>2. SumFunction(g) = SumFunctionOnSet(Pnls, S) /\ SumFunctionOnSet(Pnls, S) \in Int
    BY <1>1, <2>1, SumOver, SumIsInt
  <2> QED BY <2>2 DEF Pnl
<1>5. Fee(S) = SumFunctionOnSet(Fees, S) /\ SumFunctionOnSet(Fees, S) \in Int
  <2> PICK g : g = [r \in S |-> r.fee]
    OBVIOUS
  <2>1. g = [r \in S |-> g[r]] /\ \A r \in S : Fees[r] \in Int /\ g[r] = Fees[r]
    BY <1>2 DEF Fees
  <2>2. SumFunction(g) = SumFunctionOnSet(Fees, S) /\ SumFunctionOnSet(Fees, S) \in Int
    BY <1>1, <2>1, SumOver, SumIsInt
  <2> QED BY <2>2 DEF Fee
<1>6. Fund(S) = SumFunctionOnSet(Funds, S) /\ SumFunctionOnSet(Funds, S) \in Int
  <2> PICK g : g = [r \in S |-> r.fund]
    OBVIOUS
  <2>1. g = [r \in S |-> g[r]] /\ \A r \in S : Funds[r] \in Int /\ g[r] = Funds[r]
    BY <1>2 DEF Funds
  <2>2. SumFunction(g) = SumFunctionOnSet(Funds, S) /\ SumFunctionOnSet(Funds, S) \in Int
    BY <1>1, <2>1, SumOver, SumIsInt
  <2> QED BY <2>2 DEF Fund
<1> QED BY <1>1, <1>3, <1>4, <1>5, <1>6

-----------------------------------------------------------------------------
(* What weekly.py adds up, row by row.                                     *)

(* The rows whose volume counts.                                           *)
VolRows(S) ==
  CASE kind = "omni" -> OfType(Confirmed(S), {"trade"})
    [] kind = "zero1" -> OfType(S, Fills) \ Seen(S)
    [] OTHER -> S

(* What a row adds to the burn.                                            *)
Losses == [r \in Rows |-> -r.pnl]
Costs == [r \in Rows |-> r.fee - r.pnl]
LossesOf(T) == [r \in Rows |-> IF r \in T THEN -r.pnl ELSE 0]
FundsOf(T) == [r \in Rows |-> IF r \in T THEN r.fund ELSE 0]
Transfers(S) == OfType(Confirmed(S), {"funding", "realized_pnl"})

Burns ==
  CASE kind = "ethereal" -> [r \in Rows |-> Costs[r] + r.fund]
    [] kind \in {"nado", "onyx"} -> Costs
    [] kind = "omni" -> LossesOf(Transfers(Rows))
    [] kind = "zero1" -> [r \in Rows |-> LossesOf(OfType(Rows, {"pnl"}))[r]
                                         - FundsOf(OfType(Rows, {"funding"}))[r]]
    [] OTHER -> Losses

(* What a report adds up of some rows, of a period or of an ISO week.      *)
Extracted(S) ==
  CASE kind = "ethereal" -> EtherealStats(S)
    [] kind = "hyena" -> HyenaStats(S)
    [] kind = "nado" -> NadoStats(S)
    [] kind = "omni" -> OmniStats(S)
    [] kind = "onyx" -> OnyxStats(S)
    [] kind = "pacifica" -> PacificaStats(S)
    [] kind = "rise" -> RiseStats(S)
    [] kind = "zero1" -> ZeroOneStats(S)

(* Sums of what rows add.                                                  *)
LEMMA CostsAre ==
  ASSUME StoredInv, NEW S \in SUBSET Rows
  PROVE  /\ \A r \in Rows : Losses[r] = -r.pnl /\ Losses[r] \in Int
                            /\ Costs[r] = r.fee - r.pnl /\ Costs[r] \in Int
         /\ SumFunctionOnSet(Losses, S) = -Pnl(S)
         /\ SumFunctionOnSet(Costs, S) = Fee(S) - Pnl(S)
<1>1. /\ IsFiniteSet(S)
      /\ Pnl(S) = SumFunctionOnSet(Pnls, S) /\ Pnl(S) \in Int
      /\ Fee(S) = SumFunctionOnSet(Fees, S) /\ Fee(S) \in Int
  BY AmountsAre
<1>2. \A r \in Rows : /\ r.pnl \in Int /\ r.fee \in Int
                      /\ Pnls[r] = r.pnl /\ Fees[r] = r.fee
                      /\ Losses[r] = -r.pnl /\ Costs[r] = r.fee - r.pnl
  BY RowsAre DEF RowOK, Pnls, Fees, Losses, Costs
<1>3. \A r \in S : /\ Pnls[r] \in Int /\ Fees[r] \in Int
                   /\ Losses[r] = -Pnls[r] /\ Costs[r] = Fees[r] - Pnls[r]
  BY <1>2
<1>4. SumFunctionOnSet(Losses, S) = -SumFunctionOnSet(Pnls, S)
  BY <1>1, <1>3, SumNegated
<1>5. SumFunctionOnSet(Costs, S) = SumFunctionOnSet(Fees, S) - SumFunctionOnSet(Pnls, S)
  BY <1>1, <1>3, SumSubtracted
<1>6. \A r \in Rows : Losses[r] \in Int /\ Costs[r] \in Int
  BY <1>2
<1> QED BY <1>1, <1>2, <1>4, <1>5, <1>6

(* Sums over some of the rows, the others counted as nothing.              *)
LEMMA SomeAre ==
  ASSUME StoredInv, NEW S \in SUBSET Rows, NEW T \in SUBSET Rows
  PROVE  /\ \A r \in Rows : LossesOf(T)[r] \in Int /\ FundsOf(T)[r] \in Int
         /\ SumFunctionOnSet(LossesOf(T), S) = -Pnl(S \cap T)
         /\ SumFunctionOnSet(FundsOf(T), S) = Fund(S \cap T)
<1>1. IsFiniteSet(S)
  BY AmountsAre
<1> PICK f, g, U : f = LossesOf(T) /\ g = FundsOf(T) /\ U = S \cap T
  OBVIOUS
<1>2. U \in SUBSET S /\ U \in SUBSET Rows
  OBVIOUS
<1>3. /\ SumFunctionOnSet(Losses, U) = -Pnl(U) /\ SumFunctionOnSet(Funds, U) = Fund(U)
  BY <1>2, AmountsAre, CostsAre
<1>4. \A r \in Rows : /\ Losses[r] \in Int /\ Losses[r] = -r.pnl
                      /\ Funds[r] \in Int /\ Funds[r] = r.fund
  BY CostsAre, RowsAre DEF RowOK, Funds
<1>5. \A r \in Rows : /\ f[r] = IF r \in T THEN -r.pnl ELSE 0
                      /\ g[r] = IF r \in T THEN r.fund ELSE 0
  BY DEF LossesOf, FundsOf
<1>6. /\ \A r \in U : Losses[r] \in Int /\ f[r] = Losses[r]
      /\ \A r \in U : Funds[r] \in Int /\ g[r] = Funds[r]
  BY <1>4, <1>5
<1>7. /\ \A r \in S \ U : f[r] = 0
      /\ \A r \in S \ U : g[r] = 0
  BY <1>5
<1>8. SumFunctionOnSet(f, S) = SumFunctionOnSet(Losses, U)
  BY <1>1, <1>2, <1>6, <1>7, SumWhere
<1>9. SumFunctionOnSet(g, S) = SumFunctionOnSet(Funds, U)
  BY <1>1, <1>2, <1>6, <1>7, SumWhere
<1>10. \A r \in Rows : f[r] \in Int /\ g[r] \in Int
  BY <1>4, <1>5
<1> QED BY <1>3, <1>8, <1>9, <1>10

(* Rows of a type, and those seen in another file, of some of the rows.    *)
LEMMA SubsetsAre ==
  ASSUME NEW S \in SUBSET Rows
  PROVE  /\ \A types : OfType(S, types) = S \cap OfType(Rows, types)
         /\ \A types : OfType(Confirmed(S), types) = S \cap OfType(Confirmed(Rows), types)
         /\ Seen(S) = S \cap Seen(Rows) /\ Seen(S) \subseteq OfType(S, Fills)
         /\ VolRows(S) = S \cap VolRows(Rows)
<1>1. \A types : OfType(S, types) = S \cap OfType(Rows, types)
  BY DEF OfType
<1>2. \A types : OfType(Confirmed(S), types) = S \cap OfType(Confirmed(Rows), types)
  BY DEF OfType, Confirmed
<1>3. Seen(S) = S \cap Seen(Rows)
  BY DEF OfType, Seen
<1>4. Seen(S) \subseteq OfType(S, Fills)
  BY DEF OfType, Seen, Fills
<1>5. VolRows(S) = S \cap VolRows(Rows)
  BY <1>1, <1>2, <1>3 DEF VolRows
<1> QED BY <1>1, <1>2, <1>3, <1>4, <1>5

LEMMA BurnsAre ==
  ASSUME StoredInv
  PROVE  kind \in Exchanges /\ \A r \in Rows : Burns[r] \in Int
<1>1. kind \in Exchanges
  BY ClockIs, HistoryAssumption DEF StoredInv
<1>2. \A r \in Rows : r.fund \in Int /\ Losses[r] \in Int /\ Costs[r] \in Int
  <2>1. Rows \in SUBSET Rows
    OBVIOUS
  <2> QED BY <2>1, RowsAre, CostsAre DEF RowOK
<1>3. /\ \A r \in Rows : LossesOf(Transfers(Rows))[r] \in Int
      /\ \A r \in Rows : LossesOf(OfType(Rows, {"pnl"}))[r] \in Int
      /\ \A r \in Rows : FundsOf(OfType(Rows, {"funding"}))[r] \in Int
  <2>1. /\ Rows \in SUBSET Rows /\ Transfers(Rows) \in SUBSET Rows
        /\ OfType(Rows, {"pnl"}) \in SUBSET Rows /\ OfType(Rows, {"funding"}) \in SUBSET Rows
    BY DEF Transfers, OfType, Confirmed
  <2> QED BY <2>1, SomeAre
<1>4. \A r \in Rows : Burns[r] \in Int
  <2>1. CASE kind = "ethereal"
    BY <1>2, <2>1 DEF Burns
  <2>2. CASE kind \in {"nado", "onyx"}
    BY <1>2, <2>2 DEF Burns
  <2>3. CASE kind = "omni"
    BY <1>3, <2>3 DEF Burns
  <2>4. CASE kind = "zero1"
    <3>1. Burns = [r \in Rows |-> LossesOf(OfType(Rows, {"pnl"}))[r]
                                  - FundsOf(OfType(Rows, {"funding"}))[r]]
      BY <2>4 DEF Burns
    <3> QED BY <1>3, <3>1
  <2>5. CASE kind \in {"hyena", "pacifica", "rise"}
    BY <1>2, <2>5 DEF Burns
  <2> QED BY <1>1, <2>1, <2>2, <2>3, <2>4, <2>5 DEF Exchanges
<1> QED BY <1>1, <1>4

(* The stats of any rows are the sum of what each of them adds.            *)
LEMMA ExtractedIs ==
  ASSUME StoredInv, NEW S \in SUBSET Rows
  PROVE  Extracted(S) = Sums(Vol(VolRows(S)), SumFunctionOnSet(Burns, S))
<1>1. /\ IsFiniteSet(S) /\ Pnl(S) \in Int /\ Fee(S) \in Int /\ Fund(S) \in Int
      /\ Fund(S) = SumFunctionOnSet(Funds, S)
  BY AmountsAre
<1>2. /\ SumFunctionOnSet(Losses, S) = -Pnl(S) /\ SumFunctionOnSet(Costs, S) = Fee(S) - Pnl(S)
      /\ \A r \in S : Costs[r] \in Int
  BY CostsAre
<1>3. CASE kind = "ethereal"
  <2>1. \A r \in S : Costs[r] \in Int /\ Funds[r] \in Int /\ Burns[r] = Costs[r] + Funds[r]
    BY <1>2, <1>3, RowsAre DEF Burns, Funds, RowOK
  <2>3. SumFunctionOnSet(Burns, S) = SumFunctionOnSet(Costs, S) + SumFunctionOnSet(Funds, S)
    BY <1>1, <2>1, SumAdded
  <2>4. SumFunctionOnSet(Burns, S) = -(Pnl(S) - Fee(S) - Fund(S))
    BY <1>1, <1>2, <2>3
  <2> QED BY <1>3, <2>4 DEF Extracted, EtherealStats, VolRows
<1>4. CASE kind \in {"nado", "onyx"}
  <2>1. SumFunctionOnSet(Burns, S) = Fee(S) - Pnl(S)
    BY <1>2, <1>4 DEF Burns
  <2>2. Fee(S) - Pnl(S) = -(Pnl(S) - Fee(S)) /\ Fee(S) - Pnl(S) = -Pnl(S) + Fee(S)
    BY <1>1
  <2> QED BY <1>4, <2>1, <2>2 DEF Extracted, NadoStats, OnyxStats, VolRows
<1>5. CASE kind \in {"hyena", "pacifica", "rise"}
  <2>1. SumFunctionOnSet(Burns, S) = -Pnl(S)
    BY <1>2, <1>5 DEF Burns
  <2> QED BY <1>5, <2>1 DEF Extracted, HyenaStats, PacificaStats, RiseStats, VolRows
<1>6. CASE kind = "omni"
  <2>1. Transfers(S) = S \cap Transfers(Rows) /\ Transfers(Rows) \in SUBSET Rows
    BY DEF Transfers, OfType, Confirmed
  <2>2. SumFunctionOnSet(Burns, S) = -Pnl(Transfers(S))
    BY <1>6, <2>1, SomeAre DEF Burns
  <2> QED BY <1>6, <2>2 DEF Extracted, OmniStats, VolRows, Transfers
<1>7. CASE kind = "zero1"
  <2> PICK P, F : P = OfType(Rows, {"pnl"}) /\ F = OfType(Rows, {"funding"})
    OBVIOUS
  <2>1. P \in SUBSET Rows /\ F \in SUBSET Rows
    BY DEF OfType
  <2>2. OfType(S, {"pnl"}) = S \cap P /\ OfType(S, {"funding"}) = S \cap F
    BY SubsetsAre
  <2>3. PICK f, g : /\ \A r \in Rows : f[r] \in Int /\ g[r] \in Int
                    /\ SumFunctionOnSet(f, S) = -Pnl(S \cap P)
                    /\ SumFunctionOnSet(g, S) = Fund(S \cap F)
                    /\ Burns = [r \in Rows |-> f[r] - g[r]]
    <3>1. Burns = [r \in Rows |-> LossesOf(P)[r] - FundsOf(F)[r]]
      BY <1>7 DEF Burns
    <3>2. /\ \A r \in Rows : LossesOf(P)[r] \in Int /\ FundsOf(F)[r] \in Int
          /\ SumFunctionOnSet(LossesOf(P), S) = -Pnl(S \cap P)
          /\ SumFunctionOnSet(FundsOf(F), S) = Fund(S \cap F)
      BY <2>1, SomeAre
    <3> QED BY <3>1, <3>2
  <2>4. \A r \in S : f[r] \in Int /\ g[r] \in Int /\ Burns[r] = f[r] - g[r]
    BY <2>3
  <2>6. SumFunctionOnSet(Burns, S) = SumFunctionOnSet(f, S) - SumFunctionOnSet(g, S)
    BY <1>1, <2>4, SumSubtracted
  <2>7. Pnl(S \cap P) \in Int /\ Fund(S \cap F) \in Int
    BY <2>1, AmountsAre
  <2>8. SumFunctionOnSet(Burns, S) = -Pnl(S \cap P) - Fund(S \cap F)
    BY <2>3, <2>6, <2>7
  <2> QED BY <1>7, <2>2, <2>8 DEF Extracted, ZeroOneStats, VolRows
<1> QED BY <1>3, <1>4, <1>5, <1>6, <1>7, BurnsAre DEF Exchanges

-----------------------------------------------------------------------------
(* The pivot: by ISO weeks and by periods.                                 *)

LEMMA WeeklyStatsAre ==
  ASSUME StoredInv
  PROVE  /\ \A l : WeeklyStats(l) = Extracted(In(Rows, l))
         /\ \A w : BurnWeeks(w) = Extracted(InWeek(Rows, w))
<1>1. \A l : WeeklyStats(l) = Extracted(In(Rows, l))
  BY DEF WeeklyStats, Extracted
<1>2. ASSUME NEW w PROVE BurnWeeks(w) = Extracted(InWeek(Rows, w))
  <2> PICK S : S = InWeek(Rows, w)
    OBVIOUS
  <2>1. Pnl(S) \in Int /\ Fee(S) \in Int /\ kind \in Exchanges
    BY AmountsAre, BurnsAre DEF InWeek
  <2>2. OnyxBurn(S) = OnyxStats(S)
    <3>1. -(Pnl(S) - Fee(S)) = -Pnl(S) + Fee(S)
      BY <2>1
    <3> QED BY <3>1 DEF OnyxBurn, OnyxStats
  <2>3. /\ EtherealBurn(S) = EtherealStats(S) /\ HyenaBurn(S) = HyenaStats(S)
        /\ NadoBurn(S) = NadoStats(S) /\ OmniBurn(S) = OmniStats(S)
        /\ PacificaBurn(S) = PacificaStats(S) /\ RiseBurn(S) = RiseStats(S)
        /\ ZeroOneBurn(S) = ZeroOneStats(S)
    BY DEF EtherealBurn, EtherealStats, HyenaBurn, HyenaStats, NadoBurn, NadoStats,
           OmniBurn, OmniStats, PacificaBurn, PacificaStats, RiseBurn, RiseStats,
           ZeroOneBurn, ZeroOneStats
  <2> QED BY <2>1, <2>2, <2>3 DEF BurnWeeks, Extracted, Exchanges
<1> QED BY <1>1, <1>2

(* However the rows are parted, the parts add up to the same sums.         *)
LEMMA PartIs ==
  ASSUME StoredInv, NEW T \in SUBSET Rows, NEW part, NEW l
  PROVE  /\ Extracted(PartOf(T, part, l)).vol = SumFunctionOnSet(Vols, PartOf(VolRows(T), part, l))
         /\ Extracted(PartOf(T, part, l)).burn = SumFunctionOnSet(Burns, PartOf(T, part, l))
         /\ Extracted(PartOf(T, part, l)).vol \in Int
         /\ Extracted(PartOf(T, part, l)).burn \in Int
<1> PICK P, V : P = PartOf(T, part, l) /\ V = PartOf(VolRows(T), part, l)
  OBVIOUS
<1>1. P \in SUBSET Rows /\ VolRows(P) = V
  <2>1. P \in SUBSET Rows /\ P \in SUBSET T
    BY DEF PartOf
  <2>2. VolRows(P) = P \cap VolRows(Rows) /\ VolRows(T) = T \cap VolRows(Rows)
    BY <2>1, SubsetsAre
  <2>3. V = P \cap VolRows(Rows)
    BY <2>2 DEF PartOf
  <2> QED BY <2>1, <2>2, <2>3
<1>2. Extracted(P) = Sums(Vol(V), SumFunctionOnSet(Burns, P))
  BY <1>1, ExtractedIs
<1>3. Vol(V) = SumFunctionOnSet(Vols, V) /\ Vol(V) \in Int
  <2>1. V \in SUBSET Rows
    BY <1>1, SubsetsAre
  <2> QED BY <2>1, AmountsAre
<1>4. SumFunctionOnSet(Burns, P) \in Int
  <2>1. IsFiniteSet(P) /\ \A r \in P : Burns[r] \in Int
    BY <1>1, AmountsAre, BurnsAre
  <2> QED BY <2>1, SumIsInt
<1>5. Extracted(P).vol = SumFunctionOnSet(Vols, V) /\ Extracted(P).burn = SumFunctionOnSet(Burns, P)
  BY <1>2, <1>3 DEF Sums
<1> QED BY <1>3, <1>4, <1>5

LEMMA PartsAddUp ==
  ASSUME StoredInv, NEW L, IsFiniteSet(L), NEW T \in SUBSET Rows,
         NEW part, \A r \in T : part[r] \in L,
         NEW vols, vols = [l \in L |-> vols[l]],
         NEW burns, burns = [l \in L |-> burns[l]],
         \A l \in L : /\ vols[l] = Extracted(PartOf(T, part, l)).vol
                      /\ burns[l] = Extracted(PartOf(T, part, l)).burn
  PROVE  /\ SumFunction(vols) = Vol(VolRows(T))
         /\ SumFunction(burns) = SumFunctionOnSet(Burns, T)
<1> PICK V : V = VolRows(T)
  OBVIOUS
<1>1. IsFiniteSet(T) /\ V \in SUBSET T /\ IsFiniteSet(V)
  BY AmountsAre, SubsetsAre
<1>2. /\ \A r \in V : Vols[r] \in Int
      /\ \A r \in T : Burns[r] \in Int
  BY <1>1, RowsAre, BurnsAre DEF Vols, RowOK
<1>3. /\ \A l \in L : vols[l] = SumFunctionOnSet(Vols, PartOf(V, part, l))
      /\ \A l \in L : burns[l] = SumFunctionOnSet(Burns, PartOf(T, part, l))
  BY PartIs
<1>5. \A r \in V : part[r] \in L
  BY <1>1
<1>6. SumFunction(vols) = SumFunctionOnSet(Vols, V)
  BY <1>1, <1>2, <1>3, <1>5, SumOverGroups
<1>7. SumFunction(burns) = SumFunctionOnSet(Burns, T)
  BY <1>1, <1>2, <1>3, SumOverGroups
<1>8. Vol(V) = SumFunctionOnSet(Vols, V)
  BY <1>1, AmountsAre
<1> QED BY <1>6, <1>7, <1>8

LEMMA PivotHolds ==
  ASSUME StoredInv
  PROVE  PivotAgrees
<1>a. PICK T : T = Rows
  OBVIOUS
<1>b. PICK week, label : /\ week = [r \in T |-> IsoWeek(r.day)]
                       /\ label = [r \in T |-> Label(r.day)]
  OBVIOUS
<1>c. PICK weeks, labels : /\ weeks = {IsoWeek(r.day) : r \in T}
                         /\ labels = {Label(r.day) : r \in T}
  OBVIOUS
<1>1. IsFiniteSet(T) /\ T \in SUBSET Rows
  BY <1>a, RowsAre
<1>2. weeks = {week[r] : r \in T} /\ labels = {label[r] : r \in T}
  BY <1>b, <1>c
<1>3. IsFiniteSet(weeks) /\ IsFiniteSet(labels)
  BY <1>1, <1>2, FiniteImage
<1>4. /\ \A r \in T : week[r] \in weeks
      /\ \A r \in T : label[r] \in labels
  BY <1>2
<1>5. /\ \A w : InWeek(Rows, w) = PartOf(T, week, w)
      /\ \A l : In(Rows, l) = PartOf(T, label, l)
  BY <1>a, <1>b DEF InWeek, In, PartOf
<1>6. /\ \A w : BurnWeeks(w) = Extracted(PartOf(T, week, w))
      /\ \A l : WeeklyStats(l) = Extracted(PartOf(T, label, l))
  BY <1>5, WeeklyStatsAre
<1>d. PICK v, b : /\ v = [w \in weeks |-> BurnWeeks(w).vol]
                /\ b = [w \in weeks |-> BurnWeeks(w).burn]
  OBVIOUS
<1>e. PICK x, y : /\ x = [l \in labels |-> WeeklyStats(l).vol]
                /\ y = [l \in labels |-> WeeklyStats(l).burn]
  OBVIOUS
<1>7. /\ v = [w \in weeks |-> v[w]] /\ b = [w \in weeks |-> b[w]]
      /\ x = [l \in labels |-> x[l]] /\ y = [l \in labels |-> y[l]]
  BY <1>d, <1>e
<1>8. /\ \A w \in weeks : v[w] = BurnWeeks(w).vol /\ b[w] = BurnWeeks(w).burn
      /\ \A l \in labels : x[l] = WeeklyStats(l).vol /\ y[l] = WeeklyStats(l).burn
  BY <1>d, <1>e
<1>9. /\ \A w \in weeks : /\ v[w] = Extracted(PartOf(T, week, w)).vol
                           /\ b[w] = Extracted(PartOf(T, week, w)).burn
      /\ \A l \in labels : /\ x[l] = Extracted(PartOf(T, label, l)).vol
                            /\ y[l] = Extracted(PartOf(T, label, l)).burn
  BY <1>6, <1>8
<1>10. /\ \A l \in labels : /\ x[l] = Extracted(PartOf(T, label, l)).vol
                             /\ y[l] = Extracted(PartOf(T, label, l)).burn
       /\ x = [l \in labels |-> x[l]] /\ y = [l \in labels |-> y[l]]
       /\ IsFiniteSet(labels) /\ \A r \in T : label[r] \in labels
  BY <1>3, <1>4, <1>7, <1>9
<1>11. SumFunction(v) = Vol(VolRows(T)) /\ SumFunction(b) = SumFunctionOnSet(Burns, T)
  BY <1>1, <1>3, <1>4, <1>7, <1>9, PartsAddUp
<1>12. SumFunction(x) = Vol(VolRows(T)) /\ SumFunction(y) = SumFunctionOnSet(Burns, T)
  BY <1>1, <1>10, PartsAddUp
<1>13. SumFunction(v) = SumFunction(x) /\ SumFunction(b) = SumFunction(y)
  BY <1>11, <1>12
<1> QED BY <1>a, <1>c, <1>d, <1>e, <1>13 DEF PivotAgrees, StatsLabels

-----------------------------------------------------------------------------
(* The stats of the apps and those of weekly.py.                           *)

(* The rows whose volume the app counts.                                   *)
GrossRows(S) ==
  CASE kind = "omni" -> OfType(Confirmed(S), {"trade"})
    [] kind = "zero1" -> OfType(S, Fills)
    [] OTHER -> S

LEMMA GrossIs ==
  ASSUME StoredInv, NEW S \in SUBSET Rows
  PROVE  /\ GrossRows(S) \in SUBSET Rows /\ GrossRows(S) = S \cap GrossRows(Rows)
         /\ Seen(S) \in SUBSET GrossRows(S) /\ VolRows(S) = GrossRows(S) \ Seen(S)
<1>1. /\ OfType(S, Fills) = S \cap OfType(Rows, Fills)
      /\ OfType(Confirmed(S), {"trade"}) = S \cap OfType(Confirmed(Rows), {"trade"})
  BY SubsetsAre
<1>2. GrossRows(S) = S \cap GrossRows(Rows)
  BY <1>1 DEF GrossRows
<1>3. Seen(S) \subseteq OfType(S, Fills) /\ Seen(S) \subseteq S
  BY SubsetsAre
<1>4. CASE kind = "zero1"
  BY <1>2, <1>3, <1>4 DEF GrossRows, VolRows
<1>5. CASE kind # "zero1"
  <2>1. OfType(S, Fills) = {}
    BY <1>5, RowsAre DEF OfType, RowOK
  <2>2. Seen(S) = {}
    BY <1>3, <2>1
  <2> QED BY <1>2, <1>5, <2>2 DEF GrossRows, VolRows
<1> QED BY <1>4, <1>5

LEMMA NothingAddsUp ==
  ASSUME StoredInv
  PROVE  Vol({}) = 0 /\ Pnl({}) = 0 /\ Fee({}) = 0 /\ Fund({}) = 0
<1>1. {} \in SUBSET Rows
  OBVIOUS
<1> QED BY <1>1, AmountsAre, SumEmpty

LEMMA EmulatedFeeType ==
  ASSUME StoredInv, NEW S \in SUBSET Rows
  PROVE  EmulatedFee(S) \in Int
<1> PICK g : g = [r \in S |-> r.vol * (IF r.type = "maker" THEN MakerFee ELSE TakerFee)]
  OBVIOUS
<1>1. \A r \in S : g[r] \in Int
  <2> TAKE r \in S
  <2> PICK v, rate : v = r.vol /\ rate = IF r.type = "maker" THEN MakerFee ELSE TakerFee
    OBVIOUS
  <2>1. v \in Int /\ rate \in Int
    BY RowsAre, ReportsAssumption DEF RowOK
  <2>2. g[r] = v * rate
    OBVIOUS
  <2> QED BY <2>1, <2>2
<1>2. IsFiniteSet(S) /\ g = [r \in S |-> g[r]]
  BY AmountsAre
<1>3. SumFunction(g) = SumFunctionOnSet(g, S) /\ SumFunctionOnSet(g, S) \in Int
  BY <1>1, <1>2, SumOver, SumIsInt
<1> QED BY <1>3 DEF EmulatedFee

(* What the app shows of an account, in the terms of weekly.py.            *)
LEMMA AppAmounts ==
  ASSUME NEW shown_, NEW trades, NEW vol, NEW burn, NEW fee, NEW row,
         row = AppRow(shown_, trades, vol, burn, fee)
  PROVE  row.vol = vol /\ row.burn = burn /\ row.fee = fee
BY DEF AppRow

LEMMA AppShows ==
  ASSUME NEW shown_ \in BOOLEAN, NEW trades, NEW vol, NEW burn, NEW fee, NEW row,
         row = AppRow(shown_, trades, vol, burn, fee), ~row.shown
  PROVE  ~shown_
BY Zenon DEF AppRow

LEMMA AppIs ==
  ASSUME StoredInv, NEW acc, NEW l, NEW S \in SUBSET Rows, S = In(OfAccount(Rows, acc), l),
         NEW row, row = PrintStats(acc, l)
  PROVE  /\ row.vol = Vol(GrossRows(S)) /\ row.burn \in Int /\ row.fee \in Int
         /\ Extracted(S).burn = CASE kind = "onyx" -> row.burn + row.fee
                                  [] kind = "zero1" -> row.burn - row.fee
                                  [] OTHER -> row.burn
         /\ ~row.shown => /\ row.vol = 0
                          /\ kind # "zero1" => row.burn = 0
                          /\ kind = "onyx" => row.fee = 0
<1>1. PICK pts : pts = PointsOf(acc, l)
  OBVIOUS
<1>2. kind \in Exchanges
  BY BurnsAre
<1>3. /\ Vol(S) \in Int /\ Pnl(S) \in Int /\ Fee(S) \in Int /\ Fund(S) \in Int
      /\ S = {} => Vol(S) = 0 /\ Pnl(S) = 0 /\ Fee(S) = 0 /\ Fund(S) = 0
  BY AmountsAre, NothingAddsUp
<1>4. CASE kind = "ethereal"
  <2>1. row = AppRow(S # {} \/ pts >= 1, Cardinality(S), Vol(S), -(Pnl(S) - Fee(S) - Fund(S)), Fee(S))
    BY <1>1, <1>4 DEF PrintStats, EtherealRow
  <2>2. GrossRows(S) = S /\ Extracted(S).burn = -(Pnl(S) - Fee(S) - Fund(S))
    BY <1>4 DEF GrossRows, Extracted, EtherealStats, Sums
  <2>3. row.vol = Vol(S) /\ row.burn = -(Pnl(S) - Fee(S) - Fund(S)) /\ row.fee = Fee(S)
    BY <2>1, AppAmounts
  <2>4. ~row.shown => S = {}
    BY <2>1, AppShows
  <2> QED BY <1>3, <1>4, <2>2, <2>3, <2>4
<1>5. CASE kind = "nado"
  <2>1. row = AppRow(S # {} \/ pts # 0, Cardinality(S), Vol(S), -(Pnl(S) - Fee(S)), Fee(S))
    BY <1>1, <1>5 DEF PrintStats, NadoRow
  <2>2. GrossRows(S) = S /\ Extracted(S).burn = -(Pnl(S) - Fee(S))
    BY <1>5 DEF GrossRows, Extracted, NadoStats, Sums
  <2>3. row.vol = Vol(S) /\ row.burn = -(Pnl(S) - Fee(S)) /\ row.fee = Fee(S)
    BY <2>1, AppAmounts
  <2>4. ~row.shown => S = {}
    BY <2>1, AppShows
  <2> QED BY <1>3, <1>5, <2>2, <2>3, <2>4
<1>6. CASE kind = "onyx"
  <2>1. row = AppRow(S # {} \/ pts # 0, Cardinality(S), Vol(S), -Pnl(S), Fee(S))
    BY <1>1, <1>6 DEF PrintStats, OnyxRow
  <2>2. GrossRows(S) = S /\ Extracted(S).burn = -Pnl(S) + Fee(S)
    BY <1>6 DEF GrossRows, Extracted, OnyxStats, Sums
  <2>3. row.vol = Vol(S) /\ row.burn = -Pnl(S) /\ row.fee = Fee(S)
    BY <2>1, AppAmounts
  <2>4. ~row.shown => S = {}
    BY <2>1, AppShows
  <2> QED BY <1>3, <1>6, <2>2, <2>3, <2>4
<1>7. CASE kind = "hyena"
  <2>1. row = AppRow(S # {} \/ pts # 0, Cardinality(S), Vol(S), -Pnl(S), Fee(S))
    BY <1>1, <1>7 DEF PrintStats, HyenaRow
  <2>2. GrossRows(S) = S /\ Extracted(S).burn = -Pnl(S)
    BY <1>7 DEF GrossRows, Extracted, HyenaStats, Sums
  <2>3. row.vol = Vol(S) /\ row.burn = -Pnl(S) /\ row.fee = Fee(S)
    BY <2>1, AppAmounts
  <2>4. ~row.shown => S = {}
    BY <2>1, AppShows
  <2> QED BY <1>3, <1>7, <2>2, <2>3, <2>4
<1>8. CASE kind = "pacifica"
  <2>1. row = AppRow(S # {} \/ pts # 0, Cardinality(S), Vol(S), -Pnl(S), Fee(S))
    BY <1>1, <1>8 DEF PrintStats, PacificaRow
  <2>2. GrossRows(S) = S /\ Extracted(S).burn = -Pnl(S)
    BY <1>8 DEF GrossRows, Extracted, PacificaStats, Sums
  <2>3. row.vol = Vol(S) /\ row.burn = -Pnl(S) /\ row.fee = Fee(S)
    BY <2>1, AppAmounts
  <2>4. ~row.shown => S = {}
    BY <2>1, AppShows
  <2> QED BY <1>3, <1>8, <2>2, <2>3, <2>4
<1>9. CASE kind = "rise"
  <2>1. row = AppRow(Vol(S) # 0 \/ Pnl(S) # 0, Cardinality(S), Vol(S), -Pnl(S), Fee(S))
    BY <1>1, <1>9 DEF PrintStats, RiseRow
  <2>2. GrossRows(S) = S /\ Extracted(S).burn = -Pnl(S)
    BY <1>9 DEF GrossRows, Extracted, RiseStats, Sums
  <2>3. row.vol = Vol(S) /\ row.burn = -Pnl(S) /\ row.fee = Fee(S)
    BY <2>1, AppAmounts
  <2>4. ~row.shown => Vol(S) = 0 /\ Pnl(S) = 0
    BY <2>1, AppShows
  <2> QED BY <1>3, <1>9, <2>2, <2>3, <2>4
<1>10. CASE kind = "omni"
  <2>0. PICK trades, transfers : /\ trades = OfType(Confirmed(S), {"trade"})
                                 /\ transfers = OfType(Confirmed(S), {"funding", "realized_pnl"})
    OBVIOUS
  <2>1. row = AppRow(trades \cup transfers # {} \/ pts # 0, Cardinality(trades), Vol(trades),
                     -Pnl(transfers), 0)
    BY <1>1, <1>10, <2>0 DEF PrintStats, OmniRow
  <2>2. GrossRows(S) = trades /\ Extracted(S).burn = -Pnl(transfers)
    BY <1>10, <2>0 DEF GrossRows, Extracted, OmniStats, Sums
  <2>3. row.vol = Vol(trades) /\ row.burn = -Pnl(transfers) /\ row.fee = 0
    BY <2>1, AppAmounts
  <2>4. ~row.shown => trades = {} /\ transfers = {}
    BY <2>1, AppShows
  <2>5. /\ Vol(trades) \in Int /\ Pnl(transfers) \in Int
        /\ trades = {} => Vol(trades) = 0
        /\ transfers = {} => Pnl(transfers) = 0
    <3>1. trades \in SUBSET Rows /\ transfers \in SUBSET Rows
      BY <2>0 DEF OfType, Confirmed
    <3> QED BY <3>1, AmountsAre, NothingAddsUp
  <2> QED BY <1>10, <2>2, <2>3, <2>4, <2>5
<1>11. CASE kind = "zero1"
  <2>0. PICK trades, P, F, E : /\ trades = OfType(S, Fills) /\ E = EmulatedFee(trades)
                               /\ P = Pnl(OfType(S, {"pnl"})) /\ F = Fund(OfType(S, {"funding"}))
    OBVIOUS
  <2>1. row = AppRow(Vol(trades) # 0 \/ pts # 0, Cardinality(trades), Vol(trades), -(P + F - E), E)
    BY <1>1, <1>11, <2>0 DEF PrintStats, ZeroOneRow
  <2>2. GrossRows(S) = trades /\ Extracted(S).burn = -P - F
    BY <1>11, <2>0 DEF GrossRows, Extracted, ZeroOneStats, Sums
  <2>3. row.vol = Vol(trades) /\ row.burn = -(P + F - E) /\ row.fee = E
    BY <2>1, AppAmounts
  <2>4. ~row.shown => Vol(trades) = 0
    BY <2>1, AppShows
  <2>5. Vol(trades) \in Int /\ P \in Int /\ F \in Int /\ E \in Int
    <3>1. /\ trades \in SUBSET Rows /\ OfType(S, {"pnl"}) \in SUBSET Rows
          /\ OfType(S, {"funding"}) \in SUBSET Rows
      BY <2>0 DEF OfType
    <3> QED BY <2>0, <3>1, AmountsAre, EmulatedFeeType
  <2> QED BY <1>11, <2>2, <2>3, <2>4, <2>5
<1> QED BY <1>2, <1>4, <1>5, <1>6, <1>7, <1>8, <1>9, <1>10, <1>11 DEF Exchanges

(* The rows of a period, parted by account.                                *)
LEMMA AccountsAre ==
  ASSUME StoredInv, NEW l
  PROVE  \E acct : /\ \A r \in In(Rows, l) : acct[r] = r.acc /\ acct[r] \in Accounts
                   /\ \A acc : In(OfAccount(Rows, acc), l) = PartOf(In(Rows, l), acct, acc)
<1>1. PICK acct : acct = [r \in In(Rows, l) |-> r.acc]
  OBVIOUS
<1>2. \A r \in In(Rows, l) : acct[r] = r.acc /\ acct[r] \in Accounts
  BY <1>1, RowsAre DEF RowOK, In
<1>3. \A acc : In(OfAccount(Rows, acc), l) = PartOf(In(Rows, l), acct, acc)
  BY <1>1 DEF In, OfAccount, PartOf
<1> QED BY <1>2, <1>3

LEMMA AccountsFinite == IsFiniteSet(Accounts)
<1>1. IsFiniteSet({"mine"}) /\ IsFiniteSet({"hedge"}) /\ Accounts = {"mine"} \cup {"hedge"}
  BY FS_Singleton DEF Accounts
<1> QED BY <1>1, FS_Union

(* The volumes the app shows, of all accounts.                             *)
LEMMA VolumesShown ==
  ASSUME StoredInv, NEW l, NEW A \in SUBSET Accounts,
         NEW vols, vols = [acc \in A |-> vols[acc]],
         \A acc \in A : vols[acc] = PrintStats(acc, l).vol,
         \A acc \in Accounts \ A : PrintStats(acc, l).vol = 0
  PROVE  SumFunction(vols) = Vol(GrossRows(In(Rows, l)))
<1>1. PICK T : T = In(Rows, l)
  OBVIOUS
<1>2. T \in SUBSET Rows
  BY <1>1 DEF In
<1>3. PICK acct : /\ \A r \in T : acct[r] = r.acc /\ acct[r] \in Accounts
                  /\ \A acc : In(OfAccount(Rows, acc), l) = PartOf(T, acct, acc)
  BY <1>1, AccountsAre
<1>4. PICK G : G = GrossRows(T)
  OBVIOUS
<1>5. /\ G \in SUBSET Rows /\ G \in SUBSET T /\ IsFiniteSet(G) /\ IsFiniteSet(Accounts)
      /\ Vol(G) = SumFunctionOnSet(Vols, G) /\ \A r \in G : Vols[r] \in Int
  <2>1. G \in SUBSET Rows /\ G \in SUBSET T
    BY <1>2, <1>4, GrossIs
  <2>2. \A r \in G : Vols[r] \in Int
    BY <2>1, RowsAre DEF RowOK, Vols
  <2> QED BY <2>1, <2>2, AmountsAre, AccountsFinite
<1>6. ASSUME NEW acc \in Accounts
      PROVE  /\ PrintStats(acc, l).vol = SumFunctionOnSet(Vols, PartOf(G, acct, acc))
             /\ PrintStats(acc, l).vol \in Int
  <2>1. PICK S, H : S = PartOf(T, acct, acc) /\ H = PartOf(G, acct, acc)
    OBVIOUS
  <2>2. S \in SUBSET Rows /\ S = In(OfAccount(Rows, acc), l)
    BY <1>2, <1>3, <2>1 DEF PartOf
  <2>3. PrintStats(acc, l).vol = Vol(GrossRows(S))
    BY <2>2, AppIs
  <2>4. GrossRows(S) = H /\ H \in SUBSET Rows
    <3>1. GrossRows(S) = S \cap GrossRows(Rows) /\ G = T \cap GrossRows(Rows)
      BY <1>2, <1>4, <2>2, GrossIs
    <3> QED BY <1>2, <2>1, <3>1 DEF PartOf
  <2> QED BY <2>1, <2>3, <2>4, AmountsAre
<1>7. PICK g : g = [acc \in Accounts |-> PrintStats(acc, l).vol]
  OBVIOUS
<1>8. /\ g = [acc \in Accounts |-> g[acc]]
      /\ \A acc \in Accounts : g[acc] \in Int
      /\ \A acc \in Accounts : g[acc] = SumFunctionOnSet(Vols, PartOf(G, acct, acc))
      /\ \A acc \in A : vols[acc] = g[acc]
      /\ \A acc \in Accounts \ A : g[acc] = 0
  BY <1>6, <1>7
<1>9. SumFunction(g) = SumFunctionOnSet(Vols, G)
  <2>1. \A r \in G : acct[r] \in Accounts
    BY <1>3, <1>5
  <2>2. /\ g = [acc \in Accounts |-> g[acc]]
        /\ \A acc \in Accounts : g[acc] = SumFunctionOnSet(Vols, PartOf(G, acct, acc))
    BY <1>8
  <2>3. IsFiniteSet(G) /\ IsFiniteSet(Accounts) /\ \A r \in G : Vols[r] \in Int
    BY <1>5
  <2> QED BY <2>1, <2>2, <2>3, SumOverGroups
<1>10. SumFunction(g) = SumFunction(vols)
  <2>1. \A acc \in Accounts \ A : g[acc] = 0
    BY <1>8
  <2>2. \A acc \in A : vols[acc] = g[acc]
    BY <1>8
  <2>3. g = [acc \in Accounts |-> g[acc]] /\ \A acc \in Accounts : g[acc] \in Int
    BY <1>8
  <2>4. IsFiniteSet(Accounts)
    BY <1>5
  <2> QED BY ONLY A \in SUBSET Accounts, vols = [acc \in A |-> vols[acc]], <2>1, <2>2, <2>3, <2>4, SumFunctionWhere
<1> QED BY <1>1, <1>4, <1>5, <1>9, <1>10

(* The rows of a period that are of none of some accounts.                 *)
OfOthers(A, l) == {r \in In(Rows, l) : r.acc \notin A}

(* What weekly.py adds to the burn, account by account: of some accounts,  *)
(* all but what the rows of the others add.                                *)
LEMMA BurnsOf ==
  ASSUME StoredInv, NEW l, NEW A \in SUBSET Accounts,
         NEW e, e = [acc \in A |-> e[acc]],
         \A acc \in A : e[acc] = Extracted(In(OfAccount(Rows, acc), l)).burn,
         NEW H, H = OfOthers(A, l)
  PROVE  /\ WeeklyStats(l).burn = SumFunction(e) + Extracted(H).burn
         /\ Extracted(H).burn \in Int /\ SumFunction(e) \in Int
<1>1. PICK T : T = In(Rows, l)
  OBVIOUS
<1>2. PICK acct : /\ \A r \in T : acct[r] = r.acc /\ acct[r] \in Accounts
                  /\ \A acc : In(OfAccount(Rows, acc), l) = PartOf(T, acct, acc)
  BY <1>1, AccountsAre
<1>3. PICK U : U = T \ H
  OBVIOUS
<1>4. /\ T \in SUBSET Rows /\ U \in SUBSET Rows /\ H \in SUBSET Rows /\ U \in SUBSET T
      /\ U = {r \in T : acct[r] \in A} /\ T \ U = H
  BY <1>1, <1>2, <1>3 DEF In, OfOthers
<1>5. /\ IsFiniteSet(T) /\ IsFiniteSet(U) /\ IsFiniteSet(A)
      /\ \A r \in T : Burns[r] \in Int
      /\ \A r \in U : Burns[r] \in Int
  BY <1>4, AmountsAre, BurnsAre, AccountsFinite, FS_Subset
<1>6. U \in SUBSET Rows
  BY <1>4
<1>7. \A acc : /\ Extracted(PartOf(U, acct, acc)).burn = SumFunctionOnSet(Burns, PartOf(U, acct, acc))
               /\ Extracted(PartOf(U, acct, acc)).burn \in Int
  BY <1>6, PartIs
<1>8. \A acc \in A : /\ e[acc] = SumFunctionOnSet(Burns, PartOf(U, acct, acc))
                     /\ e[acc] \in Int
  <2> TAKE acc \in A
  <2>1. PartOf(T, acct, acc) = PartOf(U, acct, acc)
    BY <1>4 DEF PartOf
  <2>2. e[acc] = Extracted(PartOf(U, acct, acc)).burn
    BY <1>2, <2>1
  <2>3. /\ Extracted(PartOf(U, acct, acc)).burn = SumFunctionOnSet(Burns, PartOf(U, acct, acc))
        /\ Extracted(PartOf(U, acct, acc)).burn \in Int
    BY <1>7
  <2> QED BY <2>2, <2>3
<1>9. SumFunction(e) = SumFunctionOnSet(Burns, U)
  <2>1. /\ \A r \in U : acct[r] \in A
        /\ \A acc \in A : e[acc] = SumFunctionOnSet(Burns, PartOf(U, acct, acc))
    BY <1>4, <1>8
  <2>2. IsFiniteSet(U) /\ IsFiniteSet(A) /\ \A r \in U : Burns[r] \in Int
    BY <1>5
  <2> QED BY <2>1, <2>2, SumOverGroups
<1>10. SumFunction(e) \in Int
  BY <1>5, <1>8, SumFunctionIs
<1>11. SumFunctionOnSet(Burns, T) = SumFunctionOnSet(Burns, U) + SumFunctionOnSet(Burns, H)
  <2>1. SumFunctionOnSet(Burns, T) = SumFunctionOnSet(Burns, U) + SumFunctionOnSet(Burns, T \ U)
    BY <1>4, <1>5, SumParts
  <2> QED BY <1>4, <2>1
<1>12. /\ WeeklyStats(l).burn = SumFunctionOnSet(Burns, T)
       /\ Extracted(H).burn = SumFunctionOnSet(Burns, H)
  <2>1. WeeklyStats(l) = Extracted(T)
    BY <1>1, WeeklyStatsAre
  <2>2. Extracted(T).burn = SumFunctionOnSet(Burns, T)
    BY <1>4, ExtractedIs DEF Sums
  <2>3. Extracted(H).burn = SumFunctionOnSet(Burns, H)
    BY <1>4, ExtractedIs DEF Sums
  <2> QED BY <2>1, <2>2, <2>3
<1>13. SumFunctionOnSet(Burns, H) \in Int
  <2>1. IsFiniteSet(H) /\ \A r \in H : Burns[r] \in Int
    BY <1>4, AmountsAre, BurnsAre
  <2> QED BY <2>1, SumIsInt
<1> QED BY <1>9, <1>10, <1>11, <1>12, <1>13

LEMMA ReportsHold ==
  ASSUME StoredInv
  PROVE  ReportsAgree
<1> SUFFICES
      ASSUME NEW l
      PROVE  LET row == [acc \in Accounts |-> PrintStats(acc, l)]
                 rows == {acc \in Accounts : row[acc].shown}
                 vol == SumFunction([acc \in rows |-> row[acc].vol])
                 burn == SumFunction([acc \in rows |-> row[acc].burn])
                 fee == SumFunction([acc \in rows |-> row[acc].fee])
                 hidden == {r \in In(Rows, l) : r.acc \notin rows}
             IN
             /\ WeeklyStats(l).vol = vol - Vol(Seen(In(Rows, l)))
             /\ WeeklyStats(l).burn =
                  CASE kind = "onyx" -> burn + fee
                    [] kind = "zero1" -> burn - fee - Pnl(OfType(hidden, {"pnl"}))
                                         - Fund(OfType(hidden, {"funding"}))
                    [] OTHER -> burn
  BY DEF ReportsAgree
<1>1. PICK row : row = [acc \in Accounts |-> PrintStats(acc, l)]
  OBVIOUS
<1>2. PICK A : A = {acc \in Accounts : row[acc].shown}
  OBVIOUS
<1>3. PICK vols, burns, fees : /\ vols = [acc \in A |-> row[acc].vol]
                               /\ burns = [acc \in A |-> row[acc].burn]
                               /\ fees = [acc \in A |-> row[acc].fee]
  OBVIOUS
<1>4. PICK T, H : T = In(Rows, l) /\ H = {r \in In(Rows, l) : r.acc \notin A}
  OBVIOUS
<1>5. A \in SUBSET Accounts /\ IsFiniteSet(A) /\ T \in SUBSET Rows /\ H \in SUBSET Rows
  BY <1>2, <1>4, AccountsFinite, FS_Subset DEF In
<1>6. /\ vols = [acc \in A |-> vols[acc]] /\ burns = [acc \in A |-> burns[acc]]
      /\ fees = [acc \in A |-> fees[acc]]
      /\ \A acc \in A : /\ vols[acc] = PrintStats(acc, l).vol
                        /\ burns[acc] = PrintStats(acc, l).burn
                        /\ fees[acc] = PrintStats(acc, l).fee
  BY <1>1, <1>3, <1>5
<1>7. ASSUME NEW acc \in Accounts
      PROVE  LET S == In(OfAccount(Rows, acc), l)
                 shows == PrintStats(acc, l)
             IN  /\ S \in SUBSET Rows /\ shows.burn \in Int /\ shows.fee \in Int
                 /\ Extracted(S).burn = CASE kind = "onyx" -> shows.burn + shows.fee
                                          [] kind = "zero1" -> shows.burn - shows.fee
                                          [] OTHER -> shows.burn
                 /\ acc \notin A => /\ shows.vol = 0
                                    /\ kind # "zero1" => Extracted(S).burn = 0
  <2>1. PICK S, shows : S = In(OfAccount(Rows, acc), l) /\ shows = PrintStats(acc, l)
    OBVIOUS
  <2>2. S \in SUBSET Rows
    BY <2>1 DEF In, OfAccount
  <2>3. acc \notin A => ~shows.shown
    BY <1>1, <1>2, <2>1, Zenon
  <2>4. /\ shows.burn \in Int /\ shows.fee \in Int
        /\ Extracted(S).burn = CASE kind = "onyx" -> shows.burn + shows.fee
                                 [] kind = "zero1" -> shows.burn - shows.fee
                                 [] OTHER -> shows.burn
        /\ ~shows.shown => /\ shows.vol = 0
                           /\ kind # "zero1" => shows.burn = 0
                           /\ kind = "onyx" => shows.fee = 0
    BY <2>1, <2>2, AppIs
  <2>5. acc \notin A => /\ shows.vol = 0
                        /\ kind # "zero1" => Extracted(S).burn = 0
    BY <2>3, <2>4
  <2> QED BY <2>1, <2>2, <2>4, <2>5
(* The volume                                                              *)
<1>8. SumFunction(vols) = Vol(GrossRows(T))
  <2>1. \A acc \in A : vols[acc] = PrintStats(acc, l).vol
    BY <1>6
  <2>2. \A acc \in Accounts \ A : PrintStats(acc, l).vol = 0
    BY <1>7
  <2>3. A \in SUBSET Accounts /\ vols = [acc \in A |-> vols[acc]]
    BY <1>5, <1>6
  <2>4. SumFunction(vols) = Vol(GrossRows(In(Rows, l)))
    BY ONLY StoredInv, <2>1, <2>2, <2>3, VolumesShown
  <2> QED BY <1>4, <2>4
<1>9. WeeklyStats(l).vol = SumFunction(vols) - Vol(Seen(T))
  <2>1. WeeklyStats(l).vol = Vol(VolRows(T))
    <3>1. WeeklyStats(l) = Extracted(T)
      BY <1>4, WeeklyStatsAre
    <3>2. Extracted(T).vol = Vol(VolRows(T))
      BY <1>5, ExtractedIs DEF Sums
    <3> QED BY <3>1, <3>2
  <2>2. PICK G, W : G = GrossRows(T) /\ W = Seen(T)
    OBVIOUS
  <2>3. /\ G \in SUBSET Rows /\ W \in SUBSET G /\ VolRows(T) = G \ W
        /\ W \in SUBSET Rows /\ G \ W \in SUBSET Rows
    BY <1>5, <2>2, GrossIs
  <2>4. /\ IsFiniteSet(G) /\ \A r \in G : Vols[r] \in Int
        /\ Vol(G) = SumFunctionOnSet(Vols, G) /\ Vol(W) = SumFunctionOnSet(Vols, W)
        /\ Vol(G \ W) = SumFunctionOnSet(Vols, G \ W)
        /\ Vol(W) \in Int /\ Vol(G \ W) \in Int
    BY <2>3, AmountsAre, RowsAre DEF RowOK, Vols
  <2>5. SumFunctionOnSet(Vols, G) = SumFunctionOnSet(Vols, W) + SumFunctionOnSet(Vols, G \ W)
    BY <2>3, <2>4, SumParts
  <2>6. Vol(VolRows(T)) = Vol(G) - Vol(W)
    BY <2>3, <2>4, <2>5
  <2> QED BY <1>8, <2>1, <2>2, <2>6
(* The burn                                                                *)
<1>10. PICK e : e = [acc \in A |-> Extracted(In(OfAccount(Rows, acc), l)).burn]
  OBVIOUS
<1>11. /\ e = [acc \in A |-> e[acc]]
       /\ \A acc \in A : e[acc] = Extracted(In(OfAccount(Rows, acc), l)).burn
  BY <1>10
<1>12. /\ WeeklyStats(l).burn = SumFunction(e) + Extracted(H).burn
       /\ Extracted(H).burn \in Int /\ SumFunction(e) \in Int
  <2>1. A \in SUBSET Accounts /\ H = OfOthers(A, l)
    BY <1>4, <1>5 DEF OfOthers
  <2> QED BY ONLY StoredInv, <1>11, <2>1, BurnsOf
<1>13. \A acc \in A : /\ burns[acc] \in Int /\ fees[acc] \in Int
                      /\ e[acc] = CASE kind = "onyx" -> burns[acc] + fees[acc]
                                    [] kind = "zero1" -> burns[acc] - fees[acc]
                                    [] OTHER -> burns[acc]
  <2> TAKE acc \in A
  <2>1. acc \in Accounts /\ burns[acc] = PrintStats(acc, l).burn /\ fees[acc] = PrintStats(acc, l).fee
    BY <1>5, <1>6
  <2> QED BY <1>7, <1>11, <2>1
<1>14. SumFunction(e) = CASE kind = "onyx" -> SumFunction(burns) + SumFunction(fees)
                          [] kind = "zero1" -> SumFunction(burns) - SumFunction(fees)
                          [] OTHER -> SumFunction(burns)
  <2>1. /\ IsFiniteSet(A) /\ burns = [acc \in A |-> burns[acc]]
        /\ fees = [acc \in A |-> fees[acc]]
    BY <1>5, <1>6
  <2>2. CASE kind = "onyx"
    <3>1. \A acc \in A : burns[acc] \in Int /\ fees[acc] \in Int /\ e[acc] = burns[acc] + fees[acc]
      BY <1>13, <2>2
    <3>2. SumFunction(e) = SumFunction(burns) + SumFunction(fees)
      BY ONLY <1>11, <2>1, <3>1, SumFunctionAdded
    <3> QED BY <2>2, <3>2
  <2>3. CASE kind = "zero1"
    <3>1. \A acc \in A : fees[acc] \in Int /\ e[acc] \in Int /\ burns[acc] = fees[acc] + e[acc]
      BY <1>13, <2>3
    <3>2. SumFunction(burns) = SumFunction(fees) + SumFunction(e)
      BY ONLY <1>11, <2>1, <3>1, SumFunctionAdded
    <3>3. SumFunction(fees) \in Int
      BY ONLY <2>1, <3>1, SumFunctionIs
    <3> QED BY <1>12, <2>3, <3>2, <3>3
  <2>4. CASE kind \notin {"onyx", "zero1"}
    <3>1. \A acc \in A : e[acc] = burns[acc]
      BY <1>13, <2>4
    <3>2. e = burns
      BY <1>11, <2>1, <3>1
    <3> QED BY <2>4, <3>2
  <2> QED BY <2>2, <2>3, <2>4
<1>15. kind # "zero1" => Extracted(H).burn = 0
  <2> SUFFICES ASSUME kind # "zero1" PROVE Extracted(H).burn = 0
    OBVIOUS
  <2>1. PICK B, rest : B = Accounts \ A /\ rest = [acc \in B |-> Extracted(In(OfAccount(Rows, acc), l)).burn]
    OBVIOUS
  <2>2. \A acc \in B : rest[acc] = 0 /\ rest[acc] = Extracted(In(OfAccount(Rows, acc), l)).burn
    BY <1>7, <2>1
  <2>3. B \in SUBSET Accounts /\ IsFiniteSet(B) /\ rest = [acc \in B |-> rest[acc]]
    BY <2>1, AccountsFinite, FS_Subset
  <2>4. SumFunction(rest) = SumFunctionOnSet(rest, B) /\ SumFunctionOnSet(rest, B) = 0
    BY ONLY <2>2, <2>3, SumFunctionIs, SumZero
  <2>5. PICK K : K = OfOthers(B, l)
    OBVIOUS
  <2>6. WeeklyStats(l).burn = SumFunction(rest) + Extracted(K).burn /\ Extracted(K).burn \in Int
    BY ONLY StoredInv, <2>2, <2>3, <2>5, BurnsOf
  <2>7. SumFunctionOnSet(Burns, T) = SumFunctionOnSet(Burns, K) + SumFunctionOnSet(Burns, T \ K)
    <3>1. K \in SUBSET T /\ IsFiniteSet(T) /\ \A r \in T : Burns[r] \in Int
      BY <1>4, <1>5, <2>5, AmountsAre, BurnsAre DEF OfOthers
    <3> QED BY <3>1, SumParts
  <2>8. T \ K = H /\ K \in SUBSET Rows
    <3>1. \A r \in T : r.acc \in Accounts
      BY <1>5, RowsAre DEF RowOK
    <3> QED BY <1>4, <1>5, <2>1, <2>5, <3>1 DEF OfOthers
  <2>9. /\ Extracted(T).burn = SumFunctionOnSet(Burns, T)
        /\ Extracted(K).burn = SumFunctionOnSet(Burns, K)
        /\ Extracted(H).burn = SumFunctionOnSet(Burns, H)
    BY <1>5, <2>8, ExtractedIs DEF Sums
  <2>10. WeeklyStats(l).burn = Extracted(T).burn
    BY <1>4, WeeklyStatsAre
  <2> QED BY <1>12, <2>4, <2>6, <2>7, <2>8, <2>9, <2>10
<1>16. kind = "zero1" => Extracted(H).burn = -Pnl(OfType(H, {"pnl"})) - Fund(OfType(H, {"funding"}))
  BY DEF Extracted, ZeroOneStats, Sums
<1>17. /\ Pnl(OfType(H, {"pnl"})) \in Int /\ Fund(OfType(H, {"funding"})) \in Int
       /\ \A acc \in A : burns[acc] \in Int /\ fees[acc] \in Int
  <2>1. OfType(H, {"pnl"}) \in SUBSET Rows /\ OfType(H, {"funding"}) \in SUBSET Rows
    BY <1>5 DEF OfType
  <2> QED BY <1>13, <2>1, AmountsAre
<1>18. WeeklyStats(l).burn =
         CASE kind = "onyx" -> SumFunction(burns) + SumFunction(fees)
           [] kind = "zero1" -> SumFunction(burns) - SumFunction(fees) - Pnl(OfType(H, {"pnl"}))
                                - Fund(OfType(H, {"funding"}))
           [] OTHER -> SumFunction(burns)
  <2>1. CASE kind = "zero1"
    <3>1. SumFunction(e) = SumFunction(burns) - SumFunction(fees)
      BY <1>14, <2>1
    <3> QED BY <1>12, <1>16, <1>17, <2>1, <3>1
  <2>2. CASE kind # "zero1"
    BY <1>12, <1>14, <1>15, <2>2
  <2> QED BY <2>1, <2>2
<1> QED BY <1>1, <1>2, <1>3, <1>4, <1>9, <1>18, Zenon

-----------------------------------------------------------------------------
(* The calendar: when a period ends, and what its label can mean.          *)

EndWeek(d) == IsoWeek(PeriodEnd(d))

LEMMA Calendar ==
  /\ WeekLen \in Int /\ WeekLen > 0 /\ Genesis \in Int
  /\ YearLen \in Int /\ YearLen > 0 /\ YearLen >= WeekLen
BY ReportsAssumption

(* A period ends within a week, in the ISO week of its number.             *)
LEMMA PeriodEndIs ==
  ASSUME NEW d \in Int
  PROVE  /\ PeriodNo(d) \in Int /\ PeriodEnd(d) \in Int /\ EndWeek(d) \in Int
         /\ PeriodEnd(d) = Genesis - 1 + WeekLen * PeriodNo(d)
         /\ d <= PeriodEnd(d) /\ PeriodEnd(d) < d + WeekLen
         /\ EndWeek(d) = (Genesis - 1) \div WeekLen + PeriodNo(d)
<1>1. PICK q, r : q = (d - Genesis) \div WeekLen /\ r = (d - Genesis) % WeekLen
  OBVIOUS
<1>2. q \in Int /\ r \in Int /\ 0 <= r /\ r < WeekLen /\ d - Genesis = WeekLen * q + r
  <2>1. d - Genesis \in Int
    BY Calendar
  <2> QED BY <1>1, <2>1, Calendar, Division
<1>3. PeriodNo(d) = q + 1
  BY <1>1 DEF PeriodNo
<1>4. PICK p : p = WeekLen * q
  OBVIOUS
<1>5. p \in Int /\ WeekLen * (q + 1) = p + WeekLen
  BY <1>2, <1>4, Calendar, Sign, OneMultipleMore
<1>6. PeriodEnd(d) = Genesis + (q + 1) * WeekLen - 1
  BY <1>3 DEF PeriodEnd
<1>7. (q + 1) * WeekLen = WeekLen * (q + 1)
  BY <1>2, Calendar
<1>8. PeriodEnd(d) = Genesis + p + WeekLen - 1
  BY <1>2, <1>5, <1>6, <1>7, Calendar
<1>9. PeriodEnd(d) = Genesis - 1 + WeekLen * PeriodNo(d)
  BY <1>3, <1>5, <1>8, Calendar
<1>10. EndWeek(d) = (Genesis - 1) \div WeekLen + PeriodNo(d)
  <2>1. Genesis - 1 \in Int /\ PeriodNo(d) \in Int
    BY <1>2, <1>3, Calendar
  <2>2. PICK g, n : g = Genesis - 1 /\ n = PeriodNo(d)
    OBVIOUS
  <2>3. (g + WeekLen * n) \div WeekLen = g \div WeekLen + n
    BY <2>1, <2>2, Calendar, DivisionMoved
  <2> QED BY <1>9, <2>2, <2>3 DEF EndWeek, IsoWeek
<1>11. EndWeek(d) \in Int
  BY <1>5, <1>8, Calendar, Division DEF EndWeek, IsoWeek
<1> QED BY <1>2, <1>3, <1>4, <1>5, <1>8, <1>9, <1>10, <1>11, Calendar

(* The days a report looks at.                                             *)
LEMMA DaysAre ==
  ASSUME StoredInv
  PROVE  /\ \A d \in Days : d \in Nat /\ d <= now
         /\ IsFiniteSet(Days) /\ now \in Nat /\ now >= YearLen
         /\ Labels = StatsLabels \cup PtsLabels
<1>1. now \in Nat /\ now >= YearLen
  BY ClockIs DEF StoredInv
<1>2. \A d \in {r.day : r \in Rows} : d \in Nat /\ d <= now
  BY RowsAre DEF RowOK
<1>3. \A d \in {x \in UNION {DOMAIN Points[acc] : acc \in Accounts} : x <= now /\ kind # "rise"} :
        d \in Nat /\ d <= now
  BY ReportsAssumption
<1>4. \A d \in Days : d \in Nat /\ d <= now
  BY <1>2, <1>3 DEF Days
<1>5. IsFiniteSet(Days)
  <2>1. \A d \in Days : d \in 0..now
    BY <1>1, <1>4
  <2>2. IsFiniteSet(0..now)
    BY <1>1, FS_Interval
  <2> QED BY <2>1, <2>2, FS_Subset
<1>6. Labels = StatsLabels \cup PtsLabels
  BY DEF Labels, Days, StatsLabels, PtsLabels
<1> QED BY <1>1, <1>4, <1>5, <1>6

(* The weeks in which a period of less than a year before the present one  *)
(* ended.                                                                  *)
FirstWeek == IsoWeek(PeriodEnd(now) - YearLen) + 1
EndWeeks == FirstWeek..EndWeek(now)

LEMMA EndWeeksAre ==
  ASSUME StoredInv
  PROVE  /\ EndWeek(now) \in Int /\ FirstWeek \in Int /\ FirstWeek > 0
         /\ RecentWeeks = FirstWeek..IsoWeek(now)
         /\ IsoWeek(now) \in Int /\ IsoWeek(now) <= EndWeek(now)
         /\ RecentWeeks \subseteq EndWeeks
<1>1. now \in Nat /\ now >= YearLen /\ now \in Int
  BY DaysAre
<1>2. EndWeek(now) \in Int /\ now <= PeriodEnd(now) /\ PeriodEnd(now) \in Int
  BY <1>1, PeriodEndIs
<1>3. PICK x \in Int : x = PeriodEnd(now) - YearLen /\ x >= 0
  BY <1>1, <1>2, Calendar
<1>4. x \div WeekLen \in Int /\ x \div WeekLen >= 0
  <2>1. 0 \div WeekLen <= x \div WeekLen /\ x \div WeekLen \in Int
    BY <1>3, Calendar, DivisionGrows, Division
  <2>2. 0 \div WeekLen = 0
    <3>1. 0 = WeekLen * (0 \div WeekLen) + (0 % WeekLen) /\ 0 \div WeekLen \in Int
          /\ 0 % WeekLen \in Int /\ 0 <= 0 % WeekLen /\ 0 % WeekLen < WeekLen
      BY Calendar, Division
    <3>2. WeekLen * (0 \div WeekLen) <= 0 /\ WeekLen * (0 \div WeekLen) > -WeekLen
      BY <3>1, Calendar, Sign
    <3> QED BY <3>1, <3>2, Calendar, Sign
  <2> QED BY <2>1, <2>2
<1>5. FirstWeek \in Int /\ FirstWeek > 0
  BY <1>3, <1>4 DEF FirstWeek, IsoWeek
<1>6. IsoWeek(now) <= EndWeek(now) /\ IsoWeek(now) \in Int
  BY <1>1, <1>2, Calendar, DivisionGrows, Division DEF IsoWeek, EndWeek
<1>7. RecentWeeks = FirstWeek..IsoWeek(now)
  BY DEF RecentWeeks, FirstWeek
<1> QED BY <1>2, <1>5, <1>6, <1>7 DEF EndWeeks

(* Weeks follow the days.                                                  *)
LEMMA WeeksFollow ==
  ASSUME NEW x \in Int, NEW y \in Int
  PROVE  /\ IsoWeek(x) \in Int
         /\ x <= y => IsoWeek(x) <= IsoWeek(y)
         /\ x + WeekLen <= y => IsoWeek(x) + 1 <= IsoWeek(y)
<1>1. IsoWeek(x) \in Int /\ (x <= y => IsoWeek(x) <= IsoWeek(y))
  BY Calendar, DivisionGrows, Division DEF IsoWeek
<1>2. IsoWeek(x + WeekLen) = IsoWeek(x) + 1
  <2>1. PICK m \in Int : m = 1
    OBVIOUS
  <2>2. (x + WeekLen * m) \div WeekLen = x \div WeekLen + m
    BY <2>1, Calendar, DivisionMoved
  <2>3. WeekLen * m = WeekLen
    BY <2>1, Calendar
  <2> QED BY <2>1, <2>2, <2>3 DEF IsoWeek
<1>3. ASSUME x + WeekLen <= y PROVE IsoWeek(x + WeekLen) <= IsoWeek(y)
  <2>1. x + WeekLen \in Int
    BY Calendar
  <2> QED BY <1>3, <2>1, Calendar, DivisionGrows DEF IsoWeek
<1> QED BY <1>1, <1>2, <1>3

(* A recent period ended in one of them.                                   *)
LEMMA RecentEnds ==
  ASSUME StoredInv, Recent, NEW d \in Days
  PROVE  /\ d \in Int /\ EndWeek(d) \in EndWeeks /\ EndWeek(d) \in Int
         /\ PeriodEnd(d) \in Int /\ PeriodEnd(d) <= PeriodEnd(now)
         /\ PeriodEnd(d) >= PeriodEnd(now) - YearLen + WeekLen
<1>1. d \in Int /\ now \in Int /\ d <= now /\ PeriodEnd(d) >= PeriodEnd(now) - YearLen + WeekLen
  BY DaysAre DEF Recent
<1>2. PICK e, p, n, m : /\ e = PeriodEnd(d) /\ p = PeriodEnd(now)
                        /\ n = PeriodNo(d) /\ m = PeriodNo(now)
  OBVIOUS
<1>3. /\ e \in Int /\ p \in Int /\ n \in Int /\ m \in Int
      /\ e = Genesis - 1 + WeekLen * n /\ p = Genesis - 1 + WeekLen * m
  BY <1>1, <1>2, PeriodEndIs
<1>4. n <= m
  <2>1. d - Genesis \in Int /\ now - Genesis \in Int /\ d - Genesis <= now - Genesis
    BY <1>1, Calendar
  <2>2. (d - Genesis) \div WeekLen <= (now - Genesis) \div WeekLen
    BY <2>1, Calendar, DivisionGrows
  <2>3. (d - Genesis) \div WeekLen \in Int /\ (now - Genesis) \div WeekLen \in Int
    BY <2>1, Calendar, Division
  <2> QED BY <1>2, <2>2, <2>3 DEF PeriodNo
<1>5. e <= p
  <2>1. PICK k \in Int : k = m - n /\ k >= 0
    BY <1>3, <1>4
  <2>2. WeekLen * k = WeekLen * m - WeekLen * n /\ WeekLen * k >= 0
    BY <1>3, <2>1, Calendar, Sign, Distributes
  <2>3. WeekLen * m \in Int /\ WeekLen * n \in Int
    BY <1>3, Calendar, Sign
  <2> QED BY <1>3, <2>2, <2>3, Calendar
<1>6. p - YearLen \in Int /\ (p - YearLen) + WeekLen <= e
  BY <1>1, <1>2, <1>3, Calendar
<1>7. IsoWeek(p - YearLen) + 1 <= IsoWeek(e) /\ IsoWeek(e) <= IsoWeek(p)
      /\ IsoWeek(e) \in Int /\ IsoWeek(p) \in Int /\ IsoWeek(p - YearLen) \in Int
  BY <1>3, <1>5, <1>6, WeeksFollow
<1>8. EndWeek(d) \in EndWeeks /\ EndWeek(d) \in Int
  BY <1>2, <1>7 DEF EndWeeks, FirstWeek, EndWeek
<1> QED BY <1>1, <1>2, <1>3, <1>5, <1>8

(* The weeks a label is tried in are its own, and those of other years.    *)
LEMMA PeriodEndWeeksAre ==
  ASSUME StoredInv, Recent, NEW d \in Days
  PROVE  /\ EndWeek(d) \in PeriodEndWeeks(Label(d))
         /\ \A w \in PeriodEndWeeks(Label(d)) :
              \E j \in Int : w = IsoWeek(PeriodEnd(d) + j * YearLen)
<1>1. d \in Int /\ now \in Int /\ d <= now /\ PeriodEnd(d) >= now - YearLen + WeekLen
  BY RecentEnds, DaysAre, PeriodEndIs, Calendar
<1>2. PICK e : e = PeriodEnd(d)
  OBVIOUS
<1>3. e \in Int /\ e < d + WeekLen
  BY <1>1, <1>2, PeriodEndIs
<1>4. PICK y, x, year, rest : /\ y = e \div YearLen /\ x = e % YearLen
                              /\ year = now \div YearLen /\ rest = now % YearLen
  OBVIOUS
<1>5. /\ y \in Int /\ x \in Int /\ 0 <= x /\ x < YearLen /\ e = YearLen * y + x
      /\ year \in Int /\ rest \in Int /\ 0 <= rest /\ rest < YearLen /\ now = YearLen * year + rest
  BY <1>1, <1>3, <1>4, Calendar, Division
<1>6. Label(d).end = x /\ Year(now) = year
  BY <1>2, <1>4 DEF Label, Year
<1>7. \A k \in {-1, 0, 1} : \E j \in Int : (year + k) * YearLen + x = e + j * YearLen
  <2> TAKE k \in {-1, 0, 1}
  <2>1. PICK a \in Int, j \in Int : a = year + k /\ j = a - y
    BY <1>5
  <2>2. YearLen * j = YearLen * a - YearLen * y
    BY <1>5, <2>1, Calendar, Distributes
  <2>3. a * YearLen = YearLen * a /\ j * YearLen = YearLen * j
    BY <2>1, Calendar
  <2>4. YearLen * a \in Int /\ YearLen * y \in Int
    BY <1>5, <2>1, Calendar, Sign
  <2>5. a * YearLen + x = e + j * YearLen
    BY <1>5, <2>2, <2>3, <2>4
  <2>6. (year + k) * YearLen + x = e + j * YearLen
    BY <2>1, <2>5
  <2> QED BY <2>6
<1>8. PeriodEndWeeks(Label(d)) = {IsoWeek((year + k) * YearLen + x) : k \in {-1, 0, 1}}
  BY <1>6 DEF PeriodEndWeeks
<1>9. \A w \in PeriodEndWeeks(Label(d)) :
        \E j \in Int : w = IsoWeek(PeriodEnd(d) + j * YearLen)
  <2> TAKE w \in PeriodEndWeeks(Label(d))
  <2>1. PICK k \in {-1, 0, 1} : w = IsoWeek((year + k) * YearLen + x)
    BY <1>8
  <2>2. PICK j \in Int : (year + k) * YearLen + x = e + j * YearLen
    BY <1>7
  <2> QED BY <1>2, <2>1, <2>2
<1>10. y - year \in {-1, 0, 1}
  <2>1. y - year >= -1
    <3>1. PICK k \in Int : k = y - year + 1
      BY <1>5
    <3>2. YearLen * k = YearLen * y - YearLen * year + YearLen
      <4>1. PICK z \in Int : z = y - year
        BY <1>5
      <4>2. YearLen * z = YearLen * y - YearLen * year
        BY <1>5, <4>1, Calendar, Distributes
      <4>3. YearLen * (z + 1) = YearLen * z + YearLen
        BY <4>1, Calendar, OneMultipleMore
      <4> QED BY <3>1, <4>1, <4>2, <4>3
    <3>3. YearLen * y \in Int /\ YearLen * year \in Int
      BY <1>5, Calendar, Sign
    <3>4. YearLen * k > -YearLen
      BY <1>1, <1>2, <1>3, <1>5, <3>2, <3>3, Calendar
    <3>5. k >= 0
      BY <3>1, <3>4, Calendar, Sign
    <3> QED BY <1>5, <3>1, <3>5
  <2>2. y - year <= 1
    <3>1. PICK k \in Int : k = y - year - 1
      BY <1>5
    <3>2. YearLen * k = YearLen * y - YearLen * year - YearLen
      <4>1. PICK z \in Int : z = y - year
        BY <1>5
      <4>2. YearLen * z = YearLen * y - YearLen * year
        BY <1>5, <4>1, Calendar, Distributes
      <4>3. YearLen * (k + 1) = YearLen * k + YearLen /\ k + 1 = z /\ YearLen * k \in Int
        BY <1>5, <3>1, <4>1, Calendar, OneMultipleMore, Sign
      <4> QED BY <4>1, <4>2, <4>3, Calendar
    <3>3. YearLen * y \in Int /\ YearLen * year \in Int
      BY <1>5, Calendar, Sign
    <3>5. YearLen * k < YearLen
      BY <1>1, <1>2, <1>3, <1>5, <3>2, <3>3, Calendar
    <3>6. k <= 0
      BY <3>1, <3>5, Calendar, Sign
    <3> QED BY <1>5, <3>1, <3>6
  <2> QED BY <1>5, <2>1, <2>2
<1>11. EndWeek(d) \in PeriodEndWeeks(Label(d))
  <2>1. PICK k \in {-1, 0, 1} : k = y - year
    BY <1>10
  <2>2. (year + k) * YearLen + x = e
    <3>1. year + k = y
      BY <1>5, <2>1
    <3>2. y * YearLen = YearLen * y
      BY <1>5, Calendar
    <3> QED BY <1>5, <3>1, <3>2
  <2>3. IsoWeek(e) \in PeriodEndWeeks(Label(d))
    BY <1>8, <2>2
  <2> QED BY <1>2, <2>3 DEF EndWeek
<1> QED BY <1>9, <1>11

(* So among the weeks of a year it can only mean its own.                  *)
LEMMA LabelMeans ==
  ASSUME StoredInv, Recent, NEW d \in Days, NEW w \in EndWeeks
  PROVE  w \in PeriodEndWeeks(Label(d)) <=> w = EndWeek(d)
<1>1. ASSUME w \in PeriodEndWeeks(Label(d)) PROVE w = EndWeek(d)
  <2>1. PICK e, p : e = PeriodEnd(d) /\ p = PeriodEnd(now)
    OBVIOUS
  <2>2. e \in Int /\ p \in Int /\ e <= p /\ e >= p - YearLen + WeekLen
    BY <2>1, RecentEnds, DaysAre, PeriodEndIs
  <2>3. PICK j \in Int : w = IsoWeek(e + j * YearLen)
    BY <1>1, <2>1, PeriodEndWeeksAre
  <2>4. PICK z : z = YearLen * j
    OBVIOUS
  <2>5. z \in Int /\ j * YearLen = z /\ (j > 0 => z >= YearLen) /\ (j < 0 => z <= -YearLen)
    <3>1. PICK i, k : i = j - 1 /\ k = j + 1
      OBVIOUS
    <3>2. i \in Int /\ k \in Int /\ i + 1 = j
      BY <3>1
    <3>3. YearLen * (i + 1) = YearLen * i + YearLen /\ YearLen * k = z + YearLen
          /\ YearLen * i \in Int /\ YearLen * k \in Int /\ z \in Int
      BY <2>4, <3>1, <3>2, Calendar, OneMultipleMore, Sign
    <3>4. (i >= 0 => YearLen * i >= 0) /\ (k <= 0 => YearLen * k <= 0)
      BY <3>2, Calendar, Sign
    <3>5. j * YearLen = z
      BY <2>4, Calendar
    <3>6. YearLen * i = z - YearLen
      BY <2>4, <3>2, <3>3, Calendar
    <3>7. (j > 0 => i >= 0) /\ (j < 0 => k <= 0)
      BY <3>1
    <3> QED BY <3>3, <3>4, <3>5, <3>6, <3>7, Calendar
  <2>6. PICK x \in Int : x = e + z /\ w = IsoWeek(x)
    BY <2>2, <2>3, <2>5
  <2>7. w \in Int /\ FirstWeek <= w /\ w <= IsoWeek(p) /\ FirstWeek \in Int /\ IsoWeek(p) \in Int
    BY <2>1, EndWeeksAre DEF EndWeeks, EndWeek
  <2>8. ASSUME j > 0 PROVE FALSE
    <3>1. p + WeekLen <= x
      BY <2>2, <2>5, <2>6, <2>8, Calendar
    <3>2. IsoWeek(p) + 1 <= IsoWeek(x)
      BY <2>2, <2>6, <3>1, WeeksFollow
    <3> QED BY <2>6, <2>7, <3>2
  <2>9. ASSUME j < 0 PROVE FALSE
    <3>1. p - YearLen \in Int /\ x <= p - YearLen
      BY <2>2, <2>5, <2>6, <2>9, Calendar
    <3>2. IsoWeek(x) <= IsoWeek(p - YearLen) /\ IsoWeek(p - YearLen) \in Int
      BY <2>6, <3>1, WeeksFollow
    <3>3. FirstWeek = IsoWeek(p - YearLen) + 1
      BY <2>1 DEF FirstWeek
    <3> QED BY <2>6, <2>7, <3>2, <3>3
  <2>10. j = 0
    BY <2>8, <2>9
  <2>11. x = e
    <3>1. z = 0
      BY <2>4, <2>10, Calendar
    <3> QED BY <2>2, <2>6, <3>1
  <2> QED BY <2>1, <2>6, <2>11 DEF EndWeek
<1> QED BY <1>1, PeriodEndWeeksAre

LEMMA LabelSelected ==
  ASSUME StoredInv, Recent, NEW d \in Days, NEW from \in EndWeeks, NEW to \in EndWeeks
  PROVE  LabelInWeeks(Label(d), from, to) <=> EndWeek(d) \in from..to
<1>1. from \in Int /\ to \in Int /\ from > 0 /\ to > 0 /\ from..to \subseteq EndWeeks
  BY EndWeeksAre, Calendar DEF EndWeeks
<1>2. EndWeek(d) \in EndWeeks /\ EndWeek(d) \in Int
  BY RecentEnds, EndWeeksAre, Calendar DEF EndWeeks
<1>3. ASSUME LabelInWeeks(Label(d), from, to) PROVE EndWeek(d) \in from..to
  <2>1. PICK w \in PeriodEndWeeks(Label(d)) : w >= from /\ w <= to
    BY <1>1, <1>3 DEF LabelInWeeks, AnyWeek
  <2>2. w \in Int
    <3>1. PICK j \in Int : w = IsoWeek(PeriodEnd(d) + j * YearLen)
      BY PeriodEndWeeksAre
    <3>2. PeriodEnd(d) \in Int /\ j * YearLen \in Int
      BY RecentEnds, Calendar
    <3>3. PeriodEnd(d) + j * YearLen \in Int
      BY <3>2
    <3> QED BY <3>1, <3>3, WeeksFollow
  <2>3. w \in from..to
    BY <1>1, <2>1, <2>2
  <2>4. w = EndWeek(d)
    BY <1>1, <2>1, <2>3, LabelMeans
  <2> QED BY <2>3, <2>4
<1>4. ASSUME EndWeek(d) \in from..to PROVE LabelInWeeks(Label(d), from, to)
  <2>1. EndWeek(d) \in PeriodEndWeeks(Label(d)) /\ EndWeek(d) >= from /\ EndWeek(d) <= to
    BY <1>1, <1>2, <1>4, PeriodEndWeeksAre
  <2> QED BY <2>1 DEF LabelInWeeks
<1> QED BY <1>3, <1>4

-----------------------------------------------------------------------------
(* The selection of periods.                                               *)

(* What a pair of recent weeks selects.                                    *)
LEMMA SelectedBetween ==
  ASSUME StoredInv, Recent, NEW from \in EndWeeks, NEW to \in EndWeeks
  PROVE  ReportLabels(from, to) = EndedIn(from..to) \cap {l \in Labels : HasData(l)}
<1>1. Labels = StatsLabels \cup PtsLabels
  BY DaysAre
<1>2. ASSUME NEW l \in Labels
      PROVE  LabelInWeeks(l, from, to) <=> l \in EndedIn(from..to)
  <2>1. ASSUME LabelInWeeks(l, from, to) PROVE l \in EndedIn(from..to)
    <3>1. PICK d \in Days : l = Label(d)
      BY DEF Labels
    <3>2. EndWeek(d) \in from..to
      BY <2>1, <3>1, LabelSelected
    <3> QED BY <3>1, <3>2 DEF EndedIn, EndWeek
  <2>2. ASSUME l \in EndedIn(from..to) PROVE LabelInWeeks(l, from, to)
    <3>1. PICK d \in Days : l = Label(d) /\ EndWeek(d) \in from..to
      BY <2>2 DEF EndedIn, EndWeek
    <3> QED BY <3>1, LabelSelected
  <2> QED BY <2>1, <2>2
<1>3. ReportLabels(from, to) = {l \in Labels : LabelInWeeks(l, from, to) /\ HasData(l)}
  BY <1>1 DEF ReportLabels
<1> QED BY <1>2, <1>3

LEMMA YearIs ==
  ASSUME StoredInv, NEW l \in Labels
  PROVE  /\ Year(now) \in Int /\ l.end \in Int /\ 0 <= l.end /\ l.end < YearLen
         /\ YearLen * Year(now) \in Int /\ YearLen * Year(now) <= now
         /\ now < YearLen * Year(now) + YearLen /\ now \in Int
<1>1. PICK d \in Days : l = Label(d)
  BY DEF Labels
<1>2. d \in Int /\ now \in Int
  BY DaysAre
<1>3. l.end = PeriodEnd(d) % YearLen
  BY <1>1 DEF Label
<1>4. PeriodEnd(d) \in Int
  BY <1>2, PeriodEndIs
<1>5. l.end \in Int /\ 0 <= l.end /\ l.end < YearLen
  BY <1>3, <1>4, Calendar, Division
<1>6. PICK y, r : y = now \div YearLen /\ r = now % YearLen
  OBVIOUS
<1>7. y \in Int /\ r \in Int /\ 0 <= r /\ r < YearLen /\ now = YearLen * y + r
  BY <1>2, <1>6, Calendar, Division
<1>8. YearLen * y \in Int
  BY <1>7, Calendar, Sign
<1>9. YearLen * y <= now /\ now < YearLen * y + YearLen
  BY <1>7, <1>8, Calendar
<1>10. Year(now) = y
  BY <1>6 DEF Year
<1> QED BY <1>2, <1>5, <1>7, <1>8, <1>9, <1>10

LEMMA RangeHolds ==
  ASSUME StoredInv
  PROVE  RangeExact
<1>1. \A from, to \in RecentWeeks :
        Recent => ReportLabels(from, to) = EndedIn(from..to) \cap {l \in Labels : HasData(l)}
  BY EndWeeksAre, SelectedBetween
<1> QED BY <1>1 DEF RangeExact

(* As many members above one as there are members less: the ranks.         *)
LEMMA RankIs ==
  ASSUME NEW S, IsFiniteSet(S), \A x \in S : x \in Int, NEW n \in Nat, n < Cardinality(S)
  PROVE  \E w \in S : Cardinality(Above(S, w)) = n
<1> DEFINE U == {x \in S : Cardinality(Above(S, x)) >= n}
<1>1. \A x : IsFiniteSet(Above(S, x)) /\ Above(S, x) \subseteq S /\ Cardinality(Above(S, x)) \in Nat
  <2> TAKE x
  <2>1. Above(S, x) \in SUBSET S
    BY DEF Above
  <2> QED BY <2>1, FS_Subset, FS_CardinalityType
<1>2. IsFiniteSet(U) /\ U \subseteq S
  BY FS_Subset
<1>3. U # {}
  <2>1. S # {} /\ Cardinality(S) \in Nat
    BY FS_EmptySet, FS_CardinalityType
  <2>2. PICK m : m = Min(S)
    OBVIOUS
  <2>3. m \in S /\ \A i \in S : m <= i
    BY <2>1, <2>2, MinIs
  <2>4. Above(S, m) = S \ {m}
    <3>1. \A i \in S : i \in Int /\ m \in Int
      BY <2>3
    <3>2. \A i \in S : i > m <=> i # m
      BY <2>3, <3>1
    <3> QED BY <3>2 DEF Above
  <2>5. Cardinality(Above(S, m)) = Cardinality(S) - 1
    BY <2>3, <2>4, FS_RemoveElement
  <2>6. Cardinality(Above(S, m)) >= n
    BY <2>1, <2>5
  <2> QED BY <2>3, <2>6
<1>4. PICK w : w = Max(U)
  OBVIOUS
<1>5. w \in U /\ \A i \in U : i <= w
  <2>1. \A x \in U : x \in Int
    BY <1>2
  <2> HIDE DEF U
  <2> QED BY <1>2, <1>3, <1>4, <2>1, MaxIs
<1>6. w \in S /\ w \in Int /\ Cardinality(Above(S, w)) >= n
  BY <1>5
<1>7. ASSUME Cardinality(Above(S, w)) > n PROVE FALSE
  <2>1. PICK A : A = Above(S, w)
    OBVIOUS
  <2>2. A # {} /\ IsFiniteSet(A) /\ A \subseteq S /\ (\A x \in A : x \in Int) /\ Cardinality(A) \in Nat
    BY <1>1, <1>7, <2>1, FS_EmptySet
  <2>3. PICK x : x = Min(A)
    OBVIOUS
  <2>4. x \in A /\ \A i \in A : x <= i
    BY <2>2, <2>3, MinIs
  <2>5. x \in S /\ x \in Int /\ x > w
    BY <2>1, <2>2, <2>4 DEF Above
  <2>6. Above(S, x) = A \ {x}
    <3>1. \A i \in S : i \in Int
      OBVIOUS
    <3>2. \A i \in S : i > x => i > w /\ i # x
      BY <1>6, <2>5, <3>1
    <3>3. \A i \in A : i # x => i > x
      BY <2>2, <2>4
    <3> QED BY <2>1, <2>2, <3>2, <3>3 DEF Above
  <2>7. Cardinality(Above(S, x)) = Cardinality(A) - 1
    BY <2>2, <2>4, <2>6, FS_RemoveElement
  <2>8. x \in U
    BY <1>7, <2>1, <2>2, <2>5, <2>7
  <2> HIDE DEF U
  <2> QED BY <1>5, <1>6, <2>5, <2>8
<1> QED BY <1>1, <1>6, <1>7

(* The week an offset goes back to.                                        *)
LEMMA OffsetWeekIs ==
  ASSUME NEW S, IsFiniteSet(S), \A x \in S : x \in Int, NEW n \in Nat
  PROVE  /\ n < Cardinality(S) =>
              OffsetWeek(S, n) \in S /\ Cardinality(Above(S, OffsetWeek(S, n))) = n
         /\ ~ (n < Cardinality(S)) => OffsetWeek(S, n) = AnyWeek
<1>1. Cardinality(S) \in Nat
  BY FS_CardinalityType
<1>2. CASE n < Cardinality(S)
  <2>1. \E w \in S : Cardinality({v \in S : v > w}) = n
    BY <1>2, RankIs DEF Above
  <2>2. OffsetWeek(S, n) = CHOOSE w \in S : Cardinality({v \in S : v > w}) = n
    <3>1. ~ (Cardinality(S) <= n)
      BY <1>1, <1>2
    <3> QED BY <3>1, Zenon DEF OffsetWeek
  <2>3. OffsetWeek(S, n) \in S /\ Cardinality({v \in S : v > OffsetWeek(S, n)}) = n
    BY <2>1, <2>2
  <2> QED BY <1>2, <2>3 DEF Above
<1>3. CASE ~ (n < Cardinality(S))
  BY <1>1, <1>3 DEF OffsetWeek
<1> QED BY <1>2, <1>3

(* The weeks an offset counts: of a recent week, those that something      *)
(* ended in; the others are earlier.                                       *)
LEMMA ReportWeeksAre ==
  ASSUME StoredInv, Recent
  PROVE  LET weeks == ReportWeeks(Labels)
             ends == {IsoWeek(PeriodEnd(d)) : d \in Days} \cap RecentWeeks
         IN  /\ IsFiniteSet(weeks) /\ ends \subseteq weeks
             /\ \A w \in weeks : w \in Int
             /\ \A w \in weeks \ ends, v \in ends : v > w
             /\ \A w \in weeks, v \in ends : w > v => w \in ends
<1>1. PICK weeks : weeks = ReportWeeks(Labels)
  OBVIOUS
<1>2. PICK ends : ends = {IsoWeek(PeriodEnd(d)) : d \in Days} \cap RecentWeeks
  OBVIOUS
<1>3. /\ IsoWeek(now) \in Int /\ now \in Int /\ now >= YearLen
      /\ RecentWeeks = FirstWeek..IsoWeek(now)
      /\ EndWeek(now) \in Int /\ FirstWeek \in Int /\ IsoWeek(now) <= EndWeek(now)
  BY DaysAre, EndWeeksAre, Calendar
<1>4. \A w \in weeks : \E d \in Days : w \in PeriodEndWeeks(Label(d)) /\ w <= IsoWeek(now)
  BY <1>1 DEF ReportWeeks, Labels
<1>5. \A w \in weeks : w \in Int /\ w \in 0..IsoWeek(now)
  <2> SUFFICES ASSUME NEW w \in weeks PROVE w \in Int /\ w >= 0 /\ w <= IsoWeek(now)
    BY <1>3
  <2>1. PICK d \in Days : w \in PeriodEndWeeks(Label(d)) /\ w <= IsoWeek(now)
    BY <1>4
  <2>2. PICK l \in Labels : l = Label(d)
    BY DEF Labels
  <2>3. PICK y, e : y = Year(now) /\ e = l.end
    OBVIOUS
  <2>4. /\ y \in Int /\ e \in Int /\ 0 <= e /\ YearLen * y \in Int /\ now < YearLen * y + YearLen
        /\ YearLen \in Int /\ YearLen > 0
    BY <2>3, YearIs, Calendar
  <2>5. y >= 1
    <3>1. YearLen * y > 0
      BY <1>3, <2>4
    <3>2. y >= 0
      BY <2>4, <3>1, Sign
    <3>3. y = 0 => YearLen * y = 0
      BY <2>4
    <3> QED BY <2>4, <3>1, <3>2, <3>3
  <2>6. PICK k \in {-1, 0, 1} : w = IsoWeek((y + k) * YearLen + e)
    BY <2>1, <2>2, <2>3 DEF PeriodEndWeeks
  <2>7. PICK a \in Int : a = y + k /\ a >= 0
    BY <2>4, <2>5
  <2>8. a * YearLen = YearLen * a /\ YearLen * a >= 0 /\ YearLen * a \in Int
    BY <2>4, <2>7, Sign
  <2>9. PICK x \in Int : x = a * YearLen + e /\ x >= 0
    BY <2>4, <2>8
  <2>10. x \div WeekLen \in Int /\ x \div WeekLen >= 0
    <3>1. PICK q, r : q = x \div WeekLen /\ r = x % WeekLen
      OBVIOUS
    <3>2. q \in Int /\ r \in Int /\ r < WeekLen /\ x = WeekLen * q + r
      BY <3>1, Calendar, Division
    <3>3. WeekLen * q > -WeekLen
      BY <2>9, <3>2, Calendar, Sign
    <3> QED BY <3>1, <3>2, <3>3, Calendar, Sign
  <2>11. w = x \div WeekLen
    BY <2>6, <2>7, <2>9 DEF IsoWeek
  <2> QED BY <2>1, <2>10, <2>11
<1>6. IsFiniteSet(weeks)
  <2>1. IsFiniteSet(0..IsoWeek(now))
    BY <1>3, FS_Interval
  <2> QED BY <1>5, <2>1, FS_Subset
<1>7. ASSUME NEW v \in ends PROVE v \in weeks /\ v \in RecentWeeks
  <2>1. PICK d \in Days : v = EndWeek(d)
    BY <1>2 DEF EndWeek
  <2>2. v \in PeriodEndWeeks(Label(d))
    BY <2>1, PeriodEndWeeksAre
  <2>3. v \in RecentWeeks /\ v <= IsoWeek(now)
    BY <1>2, <1>3
  <2> QED BY <1>1, <2>2, <2>3 DEF ReportWeeks, Labels
<1>8. ASSUME NEW w \in weeks, w \in RecentWeeks PROVE w \in ends
  <2>1. PICK d \in Days : w \in PeriodEndWeeks(Label(d))
    BY <1>4
  <2>2. w \in EndWeeks
    BY <1>8, EndWeeksAre
  <2>3. w = EndWeek(d)
    BY <2>1, <2>2, LabelMeans
  <2> QED BY <1>2, <1>8, <2>3 DEF EndWeek
<1>9. ASSUME NEW w \in weeks \ ends PROVE w \in Int /\ w < FirstWeek
  BY <1>3, <1>5, <1>8
<1>10. ASSUME NEW w \in weeks \ ends, NEW v \in ends PROVE v > w
  BY <1>3, <1>7, <1>9
<1>11. ASSUME NEW w \in weeks, NEW v \in ends, w > v PROVE w \in ends
  BY <1>3, <1>5, <1>7, <1>8, <1>11
<1> QED BY <1>1, <1>2, <1>5, <1>6, <1>7, <1>10, <1>11

LEMMA OffsetHolds ==
  ASSUME StoredInv
  PROVE  OffsetExact
<1>1. PICK weeks, ends, all : /\ weeks = ReportWeeks(Labels)
                              /\ ends = {IsoWeek(PeriodEnd(d)) : d \in Days} \cap RecentWeeks
                              /\ all = {l \in Labels : HasData(l)}
  OBVIOUS
<1>2. ASSUME Recent, NEW back \in 0..(Cardinality(ends) - 1), NEW week, week = OffsetWeek(weeks, back)
      PROVE  /\ Cardinality({w \in ends : w > week}) = back
             /\ ReportLabels(week, week) = EndedIn({week}) \cap all
  <2>1. /\ IsFiniteSet(weeks) /\ ends \subseteq weeks
        /\ \A w \in weeks : w \in Int
        /\ \A w \in weeks \ ends, v \in ends : v > w
        /\ \A w \in weeks, v \in ends : w > v => w \in ends
    BY <1>1, <1>2, ReportWeeksAre
  <2>2. /\ IsFiniteSet(ends) /\ Cardinality(ends) <= Cardinality(weeks)
        /\ Cardinality(weeks) \in Nat /\ Cardinality(ends) \in Nat
    BY <2>1, FS_Subset, FS_CardinalityType
  <2>3. back \in Nat /\ back < Cardinality(ends)
    BY <1>2, <2>2
  <2>4. week \in weeks /\ Cardinality(Above(weeks, week)) = back
    BY <1>2, <2>1, <2>2, <2>3, OffsetWeekIs
  <2>5. IsFiniteSet(Above(weeks, week))
    BY <2>1, FS_Subset DEF Above
  <2>6. week \in ends
    <3> SUFFICES ASSUME week \notin ends PROVE FALSE
      OBVIOUS
    <3>1. ends \in SUBSET Above(weeks, week)
      BY <2>1, <2>4 DEF Above
    <3>2. Cardinality(ends) <= Cardinality(Above(weeks, week))
      BY <2>5, <3>1, FS_Subset
    <3> QED BY <2>2, <2>4, <2>3, <3>2
  <2>7. {w \in ends : w > week} = Above(weeks, week)
    BY <2>1, <2>6 DEF Above
  <2>8. week \in RecentWeeks /\ week \in Int
    BY <1>1, <2>1, <2>6
  <2>9. week..week = {week} /\ week \in EndWeeks
    BY <2>8, EndWeeksAre
  <2>10. ReportLabels(week, week) = EndedIn({week}) \cap all
    BY <1>1, <1>2, <2>9, SelectedBetween
  <2> QED BY <2>4, <2>7, <2>10
<1> QED BY <1>1, <1>2 DEF OffsetExact

-----------------------------------------------------------------------------
(* The reports of single weeks.                                            *)

LEMMA PointsType ==
  ASSUME StoredInv, NEW l
  PROVE  PtsMap(l) \in Int
<1>1. ASSUME NEW acc \in Accounts PROVE PointsOf(acc, l) \in Int
  <2>1. PICK P, D : P = Points[acc] /\ D = {d \in DOMAIN P : d <= now /\ Label(d) = l}
    OBVIOUS
  <2>2. IsFiniteSet(DOMAIN P) /\ \A d \in DOMAIN P : P[d] \in Int
    BY <2>1, ReportsAssumption
  <2>3. IsFiniteSet(D) /\ \A d \in D : P[d] \in Int
    BY <2>1, <2>2, FS_Subset
  <2>4. SumFunctionOnSet(P, D) \in Int
    BY <2>3, SumIsInt
  <2> QED BY <2>1, <2>4 DEF PointsOf
<1>2. PICK g : g = [acc \in Accounts |-> PointsOf(acc, l)]
  OBVIOUS
<1>3. g = [acc \in Accounts |-> g[acc]] /\ \A acc \in Accounts : g[acc] \in Int
  BY <1>1, <1>2
<1>4. SumFunction(g) \in Int
  BY <1>3, AccountsFinite, SumFunctionIs
<1> QED BY <1>2, <1>4 DEF PtsMap

LEMMA LabelsFinite ==
  ASSUME StoredInv
  PROVE  IsFiniteSet(Labels)
<1>1. PICK f : f = [d \in Days |-> Label(d)]
  OBVIOUS
<1>2. Labels = {f[d] : d \in Days}
  BY <1>1 DEF Labels
<1>3. IsFiniteSet(Days)
  BY DaysAre
<1> QED BY <1>2, <1>3, FiniteImage

(* The weeks in which periods ended, and the labels that have data.         *)
Ended == {IsoWeek(PeriodEnd(d)) : d \in Days}
WithData == {l \in Labels : HasData(l)}

(* Every label is selected in one week, the one in which it ended.         *)
LEMMA WeekOfLabel ==
  ASSUME StoredInv, Recent
  PROVE  /\ IsFiniteSet(Ended)
         /\ \A l \in Labels : \E w \in Ended : \A v \in Ended : LabelInWeeks(l, v, v) <=> v = w
<1>1. IsFiniteSet(Ended)
  <2>1. PICK f : f = [d \in Days |-> EndWeek(d)]
    OBVIOUS
  <2>2. Ended = {f[d] : d \in Days}
    BY <2>1 DEF Ended, EndWeek
  <2>3. IsFiniteSet(Days)
    BY DaysAre
  <2> QED BY <2>2, <2>3, FiniteImage
<1>2. ASSUME NEW l \in Labels
      PROVE  \E w \in Ended : \A v \in Ended : LabelInWeeks(l, v, v) <=> v = w
  <2>1. PICK d \in Days : l = Label(d)
    BY DEF Labels
  <2>2. EndWeek(d) \in Ended
    BY DEF Ended, EndWeek
  <2>3. ASSUME NEW v \in Ended PROVE LabelInWeeks(l, v, v) <=> v = EndWeek(d)
    <3>1. v \in EndWeeks
      BY RecentEnds DEF Ended, EndWeek
    <3>2. v \in Int
      BY <3>1, EndWeeksAre, Calendar DEF EndWeeks
    <3>3. LabelInWeeks(Label(d), v, v) <=> EndWeek(d) \in v..v
      BY <3>1, LabelSelected
    <3>4. v..v = {v}
      BY <3>2
    <3> QED BY <2>1, <3>3, <3>4
  <2> QED BY <2>2, <2>3
<1> QED BY <1>1, <1>2

(* What the labels add, and a report of some of them.                      *)
LabelVols == [l \in Labels |-> WeeklyStats(l).vol]
LabelBurns == [l \in Labels |-> WeeklyStats(l).burn]
LabelPts == [l \in Labels |-> PtsMap(l)]
VolOf(S) == SumFunction([l \in S |-> WeeklyStats(l).vol])
BurnOf(S) == SumFunction([l \in S |-> WeeklyStats(l).burn])

LEMMA ReportRowIs ==
  ASSUME NEW from, NEW to
  PROVE  LET row == ReportRow(from, to, FALSE)
             labels == ReportLabels(from, to)
         IN  /\ row.vol = VolOf(labels) /\ row.burn = BurnOf(labels) /\ row.pts = PtsOf(labels) + 0
             /\ PtsOf(BonusLabels(labels)) = 0 => ReportRow(from, to, TRUE) = row
BY DEF ReportRow, VolOf, BurnOf

LEMMA StatsType ==
  ASSUME StoredInv, NEW l
  PROVE  WeeklyStats(l).vol \in Int /\ WeeklyStats(l).burn \in Int
<1>1. PICK T : T = In(Rows, l)
  OBVIOUS
<1>2. T \in SUBSET Rows
  BY <1>1 DEF In
<1>3. WeeklyStats(l) = Extracted(T)
  BY <1>1, WeeklyStatsAre
<1>4. Extracted(T).vol = Vol(VolRows(T)) /\ Extracted(T).burn = SumFunctionOnSet(Burns, T)
  BY <1>2, ExtractedIs DEF Sums
<1>5. Vol(VolRows(T)) \in Int
  <2>1. VolRows(T) \in SUBSET Rows
    BY <1>2, SubsetsAre
  <2> QED BY <2>1, AmountsAre
<1>6. SumFunctionOnSet(Burns, T) \in Int
  <2>1. IsFiniteSet(T) /\ \A r \in T : Burns[r] \in Int
    BY <1>2, AmountsAre, BurnsAre
  <2> QED BY <2>1, SumIsInt
<1> QED BY <1>3, <1>4, <1>5, <1>6

LEMMA LabelSums ==
  ASSUME StoredInv, NEW S \in SUBSET Labels
  PROVE  /\ IsFiniteSet(S)
         /\ \A l \in S : LabelVols[l] \in Int /\ LabelBurns[l] \in Int /\ LabelPts[l] \in Int
         /\ VolOf(S) = SumFunctionOnSet(LabelVols, S)
         /\ BurnOf(S) = SumFunctionOnSet(LabelBurns, S)
         /\ PtsOf(S) = SumFunctionOnSet(LabelPts, S) /\ PtsOf(S) \in Int
<1>1. IsFiniteSet(S)
  BY LabelsFinite, FS_Subset
<1>2. \A l \in S : /\ LabelVols[l] = WeeklyStats(l).vol /\ LabelVols[l] \in Int
                   /\ LabelBurns[l] = WeeklyStats(l).burn /\ LabelBurns[l] \in Int
                   /\ LabelPts[l] = PtsMap(l) /\ LabelPts[l] \in Int
  BY StatsType, PointsType DEF LabelVols, LabelBurns, LabelPts
<1>3. VolOf(S) = SumFunctionOnSet(LabelVols, S)
  <2>1. PICK g : g = [l \in S |-> WeeklyStats(l).vol]
    OBVIOUS
  <2>2. g = [l \in S |-> g[l]] /\ \A l \in S : LabelVols[l] \in Int /\ g[l] = LabelVols[l]
    BY <1>2, <2>1
  <2>3. SumFunction(g) = SumFunctionOnSet(LabelVols, S)
    BY ONLY <1>1, <2>2, SumOver
  <2> QED BY <2>1, <2>3 DEF VolOf
<1>4. BurnOf(S) = SumFunctionOnSet(LabelBurns, S)
  <2>1. PICK g : g = [l \in S |-> WeeklyStats(l).burn]
    OBVIOUS
  <2>2. g = [l \in S |-> g[l]] /\ \A l \in S : LabelBurns[l] \in Int /\ g[l] = LabelBurns[l]
    BY <1>2, <2>1
  <2>3. SumFunction(g) = SumFunctionOnSet(LabelBurns, S)
    BY ONLY <1>1, <2>2, SumOver
  <2> QED BY <2>1, <2>3 DEF BurnOf
<1>5. PtsOf(S) = SumFunctionOnSet(LabelPts, S)
  <2>1. PICK g : g = [l \in S |-> PtsMap(l)]
    OBVIOUS
  <2>2. g = [l \in S |-> g[l]] /\ \A l \in S : LabelPts[l] \in Int /\ g[l] = LabelPts[l]
    BY <1>2, <2>1
  <2>3. SumFunction(g) = SumFunctionOnSet(LabelPts, S)
    BY ONLY <1>1, <2>2, SumOver
  <2> QED BY <2>1, <2>3 DEF PtsOf
<1>6. SumFunctionOnSet(LabelPts, S) \in Int
  <2>1. \A l \in S : LabelPts[l] \in Int
    BY <1>2
  <2> QED BY <1>1, <2>1, SumIsInt
<1> QED BY <1>1, <1>2, <1>3, <1>4, <1>5, <1>6

(* The labels with data, parted by the weeks they ended in.                *)
LEMMA LabelsByWeek ==
  ASSUME StoredInv, Recent
  PROVE  /\ IsFiniteSet(Ended) /\ ReportLabels(AnyWeek, AnyWeek) = WithData
         /\ \E part : /\ \A l \in WithData : part[l] \in Ended
                      /\ \A w \in Ended : ReportLabels(w, w) = PartOf(WithData, part, w)
<1>1. IsFiniteSet(Ended) /\ Labels = StatsLabels \cup PtsLabels
  BY WeekOfLabel, DaysAre
<1>2. ReportLabels(AnyWeek, AnyWeek) = WithData
  <2>1. \A l : LabelInWeeks(l, AnyWeek, AnyWeek)
    BY DEF LabelInWeeks, PeriodEndWeeks
  <2> QED BY <1>1, <2>1 DEF ReportLabels, WithData
<1>3. PICK part : part = [l \in WithData |-> CHOOSE w \in Ended : LabelInWeeks(l, w, w)]
  OBVIOUS
<1>4. ASSUME NEW l \in WithData
      PROVE  part[l] \in Ended /\ \A v \in Ended : LabelInWeeks(l, v, v) <=> v = part[l]
  <2>1. PICK w \in Ended : \A v \in Ended : LabelInWeeks(l, v, v) <=> v = w
    BY WeekOfLabel DEF WithData
  <2>2. \E v \in Ended : LabelInWeeks(l, v, v)
    BY <2>1
  <2>3. part[l] \in Ended /\ LabelInWeeks(l, part[l], part[l])
    BY <1>3, <2>2
  <2> QED BY <2>1, <2>3
<1>5. ASSUME NEW w \in Ended PROVE ReportLabels(w, w) = PartOf(WithData, part, w)
  <2>1. ReportLabels(w, w) = {l \in WithData : LabelInWeeks(l, w, w)}
    BY <1>1 DEF ReportLabels, WithData
  <2>2. \A l \in WithData : LabelInWeeks(l, w, w) <=> part[l] = w
    BY <1>4
  <2> QED BY <2>1, <2>2 DEF PartOf
<1> QED BY <1>1, <1>2, <1>4, <1>5

(* Bonus points that no selected label has are none.                       *)
LEMMA NoBonusLeft ==
  ASSUME StoredInv
  PROVE  PtsOf(BonusLabels(WithData)) = 0
<1>1. PICK B : B = BonusLabels(WithData)
  OBVIOUS
<1>2. B \in SUBSET Labels /\ \A l \in B : ~HasData(l)
  BY <1>1, DaysAre DEF BonusLabels, WithData
<1>3. IsFiniteSet(B) /\ PtsOf(B) = SumFunctionOnSet(LabelPts, B)
  BY <1>2, LabelSums
<1>4. \A l \in B : LabelPts[l] = 0
  BY <1>2 DEF LabelPts, HasData
<1> QED BY <1>1, <1>3, <1>4, SumZero

LEMMA WeeksHold ==
  ASSUME StoredInv
  PROVE  WeeksAddUp
<1> SUFFICES
      ASSUME Recent
      PROVE  LET row == [w \in Ended |-> ReportRow(w, w, FALSE)]
                 all == ReportRow(AnyWeek, AnyWeek, FALSE)
             IN
             /\ SumFunction([w \in Ended |-> row[w].vol]) = all.vol
             /\ SumFunction([w \in Ended |-> row[w].burn]) = all.burn
             /\ SumFunction([w \in Ended |-> row[w].pts]) = all.pts
             /\ ReportRow(AnyWeek, AnyWeek, TRUE) = all
             /\ UNION {ExchangeView(w, w) : w \in Ended} = ExchangeView(AnyWeek, AnyWeek)
  BY DEF WeeksAddUp, Ended
<1>1. PICK row, all : /\ row = [w \in Ended |-> ReportRow(w, w, FALSE)]
                      /\ all = ReportRow(AnyWeek, AnyWeek, FALSE)
  OBVIOUS
<1>2. IsFiniteSet(Ended) /\ ReportLabels(AnyWeek, AnyWeek) = WithData
  BY LabelsByWeek
<1>3. PICK part : /\ \A l \in WithData : part[l] \in Ended
                  /\ \A w \in Ended : ReportLabels(w, w) = PartOf(WithData, part, w)
  BY LabelsByWeek
<1>4. WithData \in SUBSET Labels
  BY DEF WithData
<1>5. ASSUME NEW w \in Ended
      PROVE  /\ row[w].vol = SumFunctionOnSet(LabelVols, PartOf(WithData, part, w))
             /\ row[w].burn = SumFunctionOnSet(LabelBurns, PartOf(WithData, part, w))
             /\ row[w].pts = SumFunctionOnSet(LabelPts, PartOf(WithData, part, w))
  <2>1. PICK P : P = PartOf(WithData, part, w)
    OBVIOUS
  <2>2. row[w] = ReportRow(w, w, FALSE) /\ P = ReportLabels(w, w) /\ P \in SUBSET Labels
    BY <1>1, <1>3, <1>4, <2>1 DEF PartOf
  <2>3. row[w].vol = VolOf(P) /\ row[w].burn = BurnOf(P) /\ row[w].pts = PtsOf(P) + 0
    BY <2>2, ReportRowIs
  <2>4. /\ VolOf(P) = SumFunctionOnSet(LabelVols, P)
        /\ BurnOf(P) = SumFunctionOnSet(LabelBurns, P)
        /\ PtsOf(P) = SumFunctionOnSet(LabelPts, P) /\ PtsOf(P) \in Int
    BY <2>2, LabelSums
  <2> QED BY <2>1, <2>3, <2>4
<1>6. /\ all.vol = SumFunctionOnSet(LabelVols, WithData)
      /\ all.burn = SumFunctionOnSet(LabelBurns, WithData)
      /\ all.pts = SumFunctionOnSet(LabelPts, WithData)
  <2>1. all.vol = VolOf(WithData) /\ all.burn = BurnOf(WithData) /\ all.pts = PtsOf(WithData) + 0
    BY <1>1, <1>2, ReportRowIs
  <2> QED BY <1>4, <2>1, LabelSums
<1>7. SumFunction([w \in Ended |-> row[w].vol]) = all.vol
  <2>1. PICK g : g = [w \in Ended |-> row[w].vol]
    OBVIOUS
  <2>2. /\ g = [w \in Ended |-> g[w]]
        /\ \A w \in Ended : g[w] = SumFunctionOnSet(LabelVols, PartOf(WithData, part, w))
    BY <1>5, <2>1
  <2>3. IsFiniteSet(WithData) /\ \A l \in WithData : LabelVols[l] \in Int
    BY <1>4, LabelSums
  <2>4. SumFunction(g) = SumFunctionOnSet(LabelVols, WithData)
    BY ONLY <1>2, <1>3, <2>2, <2>3, SumOverGroups
  <2> QED BY <1>6, <2>1, <2>4
<1>8. SumFunction([w \in Ended |-> row[w].burn]) = all.burn
  <2>1. PICK g : g = [w \in Ended |-> row[w].burn]
    OBVIOUS
  <2>2. /\ g = [w \in Ended |-> g[w]]
        /\ \A w \in Ended : g[w] = SumFunctionOnSet(LabelBurns, PartOf(WithData, part, w))
    BY <1>5, <2>1
  <2>3. IsFiniteSet(WithData) /\ \A l \in WithData : LabelBurns[l] \in Int
    BY <1>4, LabelSums
  <2>4. SumFunction(g) = SumFunctionOnSet(LabelBurns, WithData)
    BY ONLY <1>2, <1>3, <2>2, <2>3, SumOverGroups
  <2> QED BY <1>6, <2>1, <2>4
<1>9. SumFunction([w \in Ended |-> row[w].pts]) = all.pts
  <2>1. PICK g : g = [w \in Ended |-> row[w].pts]
    OBVIOUS
  <2>2. /\ g = [w \in Ended |-> g[w]]
        /\ \A w \in Ended : g[w] = SumFunctionOnSet(LabelPts, PartOf(WithData, part, w))
    BY <1>5, <2>1
  <2>3. IsFiniteSet(WithData) /\ \A l \in WithData : LabelPts[l] \in Int
    BY <1>4, LabelSums
  <2>4. SumFunction(g) = SumFunctionOnSet(LabelPts, WithData)
    BY ONLY <1>2, <1>3, <2>2, <2>3, SumOverGroups
  <2> QED BY <1>6, <2>1, <2>4
<1>10. ReportRow(AnyWeek, AnyWeek, TRUE) = all
  BY <1>1, <1>2, NoBonusLeft, ReportRowIs
<1>11. UNION {ExchangeView(w, w) : w \in Ended} = ExchangeView(AnyWeek, AnyWeek)
  <2>1. \A l : LabelInWeeks(l, AnyWeek, AnyWeek)
    BY DEF LabelInWeeks, PeriodEndWeeks
  <2>2. AvailableLabels \subseteq Labels
    BY DaysAre DEF AvailableLabels
  <2>3. \A l \in Labels : \E w \in Ended : LabelInWeeks(l, w, w)
    BY WeekOfLabel
  <2> QED BY <2>1, <2>2, <2>3 DEF ExchangeView
<1> QED BY <1>1, <1>7, <1>8, <1>9, <1>10, <1>11

(* However the stored records are added up, whatever they are and whatever *)
(* the calendar: nothing is counted twice or lost.                         *)
THEOREM RecordsAddUp == Spec => []SumsAgree
<1>1. StoredInv => SumsAgree
  BY ReportsHold, PivotHolds, WeeksHold DEF SumsAgree
<1> QED BY <1>1, StoredTrades, PTL

(* The periods shown are those asked for.                                  *)
THEOREM PeriodsSelected == Spec => []SelectionExact
<1>1. StoredInv => SelectionExact
  BY RangeHolds, OffsetHolds DEF SelectionExact
<1> QED BY <1>1, StoredTrades, PTL
=============================================================================
