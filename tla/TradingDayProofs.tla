-------------------------- MODULE TradingDayProofs ----------------------------
(* The parts of a trading day, each proved about by itself: the universe, the  *)
(* rows of the files, the day from the snapshot to the postmortem, a simulated *)
(* position, and the opening-range books.  Each has an invariant of its own;   *)
(* what is computed by recursion over a set is reached through the table of    *)
(* its values on every part of the set.                                        *)
EXTENDS UniverseBuild, ReplaySnapshot, TradingDay, TradeWalk, OrbBooks,
        SequenceTheorems, FiniteSetLemmas

-----------------------------------------------------------------------------
(* The universe: issuers.                                                      *)
ClosedOver(S, G) == \A s \in G, u \in S : SameIssuer(s, u) => u \in G

\* the issuer of a row is the smallest closed set that holds it
LEMMA IssuerOfRow ==
    ASSUME NEW S, IsFiniteSet(S), NEW r \in S
    PROVE  /\ r \in IssuerOf(S, r) /\ IssuerOf(S, r) \in SUBSET S /\ ClosedOver(S, IssuerOf(S, r))
           /\ \A H \in SUBSET S : r \in H /\ ClosedOver(S, H) => IssuerOf(S, r) \subseteq H
<1>. DEFINE F == {G \in SUBSET S : r \in G /\ ClosedOver(S, G)}
            I == IssuerOf(S, r)
<1>1. S \in F
  BY DEF ClosedOver
<1>2. \E G \in F : \A H \in F : H \subseteq G => H = G
  <2>1. F \subseteq SUBSET S /\ F # {}
    BY <1>1
  <2>. HIDE DEF F
  <2>. QED BY <2>1, SmallestSet
<1>3. \E G \in SUBSET S :
        /\ r \in G /\ \A s \in G, u \in S : SameIssuer(s, u) => u \in G
        /\ \A H \in SUBSET G :
               (r \in H /\ \A s \in H, u \in S : SameIssuer(s, u) => u \in H) => H = G
  BY <1>2 DEF ClosedOver
<1>4. /\ I \in SUBSET S /\ r \in I /\ \A s \in I, u \in S : SameIssuer(s, u) => u \in I
      /\ \A H \in SUBSET I :
             (r \in H /\ \A s \in H, u \in S : SameIssuer(s, u) => u \in H) => H = I
  BY <1>3 DEF IssuerOf
<1>. HIDE DEF I
<1>5. ASSUME NEW H \in SUBSET S, r \in H, ClosedOver(S, H) PROVE I \subseteq H
  <2>1. I \cap H \in SUBSET I /\ r \in I \cap H
    BY <1>4, <1>5
  <2>2. \A s \in I \cap H, u \in S : SameIssuer(s, u) => u \in I \cap H
    BY <1>4, <1>5 DEF ClosedOver
  <2>3. I \cap H = I
    BY <1>4, <2>1, <2>2
  <2>. QED BY <2>3
<1>. QED BY <1>4, <1>5 DEF ClosedOver, I

LEMMA RowsFinite ==
    ASSUME NEW S \in SUBSET Rows
    PROVE  IsFiniteSet(S) /\ S \subseteq Nat /\ \A r \in S : Facts[r].volume \in Nat
BY UniverseAssumption, FS_Subset

\* one class of an issuer is kept, so two kept rows share no issuer
LEMMA KeptShareNoIssuer ==
    ASSUME NEW S \in SUBSET Rows, NEW r \in OneClassPerIssuer(S), NEW s \in OneClassPerIssuer(S),
           r # s
    PROVE  ~SameIssuer(r, s)
<1>1. SUFFICES ASSUME SameIssuer(r, s) PROVE FALSE
  OBVIOUS
<1>2. r \in S /\ s \in S /\ IsFiniteSet(S)
  BY RowsFinite DEF OneClassPerIssuer
<1>3. SameIssuer(s, r)
  BY <1>1 DEF SameIssuer
<1>4. s \in IssuerOf(S, r) /\ r \in IssuerOf(S, s)
  BY <1>1, <1>2, <1>3, IssuerOfRow DEF ClosedOver
<1>5. MoreTraded(r, s) /\ MoreTraded(s, r)
  BY <1>4 DEF OneClassPerIssuer
<1>6. r \in Nat /\ s \in Nat /\ Facts[r].volume \in Nat /\ Facts[s].volume \in Nat
  BY <1>2, RowsFinite
<1>. QED BY <1>5, <1>6 DEF MoreTraded

\* of rows closed under being related, the most traded one is kept by its issuer
LEMMA MostTradedIsKept ==
    ASSUME NEW S \in SUBSET Rows, NEW G \in SUBSET S, G # {},
           \A r \in G, s \in S : Related(r, s) => s \in G
    PROVE  G \cap OneClassPerIssuer(S) # {}
<1>. DEFINE R == {p \in G \X G : MoreTraded(p[1], p[2])}
<1>1. IsFiniteSet(S) /\ IsFiniteSet(G) /\ \A r \in G : r \in Nat /\ Facts[r].volume \in Nat
  BY RowsFinite
<1>2. \A x, y \in G : <<x, y>> \in R <=> MoreTraded(x, y)
  OBVIOUS
<1>3. StrictOrder(R, G)
  <2>. HIDE DEF R
  <2>. QED BY <1>1, <1>2 DEF StrictOrder, MoreTraded
<1>4. PICK m \in G : \A y \in G \ {m} : <<m, y>> \in R
  BY <1>1, <1>3, FirstExists
<1>5. ClosedOver(S, G)
  BY DEF ClosedOver, Related
<1>6. IssuerOf(S, m) \subseteq G
  BY <1>1, <1>4, <1>5, IssuerOfRow
<1>7. m \in OneClassPerIssuer(S)
  BY <1>2, <1>4, <1>6 DEF OneClassPerIssuer
<1>. QED BY <1>4, <1>7

\* the second rule keeps one row of every identity the first one kept
LEMMA OneOfEachIdentity ==
    ASSUME NEW S, IsFiniteSet(S), NEW K \in OnePerIdentity(S)
    PROVE  /\ K \subseteq S
           /\ \A r, s \in K : r # s => Facts[r].identity # Facts[s].identity
           /\ \A r \in S : \E k \in K : Facts[k].identity = Facts[r].identity
<1>1. K \in SUBSET S
      /\ \A r \in S : Cardinality({k \in K : Facts[k].identity = Facts[r].identity}) = 1
  BY DEF OnePerIdentity
<1>2. ASSUME NEW r \in S
      PROVE  \E k \in K : {u \in K : Facts[u].identity = Facts[r].identity} = {k}
  <2>. DEFINE A == {u \in K : Facts[u].identity = Facts[r].identity}
  <2>1. IsFiniteSet(A) /\ A \subseteq K
    BY <1>1, FS_Subset
  <2>2. \E k : A = {k}
    BY <1>1, <2>1, FS_Singleton
  <2>. QED BY <2>1, <2>2
<1>3. ASSUME NEW r \in K, NEW s \in K, r # s PROVE Facts[r].identity # Facts[s].identity
  BY <1>1, <1>2, <1>3
<1>. QED BY <1>1, <1>2, <1>3

-----------------------------------------------------------------------------
(* What a decided manifest says.                                               *)
Decided(m) ==
    /\ m.listed \subseteq Rows
    /\ m.included \in OnePerIdentity(OneClassPerIssuer(Includable(m.listed, m.view)))
    /\ m.coverage = Coverage(m.listed, m.view)
    /\ m.evidence = (Coverage(m.listed, m.view) = "complete" /\ ~m.smoke)
    /\ m.smoke \in BOOLEAN

LEMMA DecidedRows ==
    ASSUME NEW m, Decided(m)
    PROVE  LET includable == Includable(m.listed, m.view)
           IN  /\ includable \in SUBSET m.listed /\ includable \in SUBSET Rows
               /\ OneClassPerIssuer(includable) \in SUBSET includable
               /\ IsFiniteSet(OneClassPerIssuer(includable))
               /\ m.included \subseteq OneClassPerIssuer(includable)
               /\ m.included \subseteq m.listed
<1>. DEFINE S == Includable(m.listed, m.view)
<1>1. S \in SUBSET m.listed /\ S \in SUBSET Rows /\ OneClassPerIssuer(S) \in SUBSET S
  BY DEF Includable, OneClassPerIssuer, Decided
<1>2. IsFiniteSet(OneClassPerIssuer(S))
  BY <1>1, RowsFinite
<1>. HIDE DEF S
<1>3. m.included \subseteq OneClassPerIssuer(S)
  BY <1>2, OneOfEachIdentity DEF Decided, S
<1>. QED BY <1>1, <1>2, <1>3 DEF S

LEMMA DecidedIsSound ==
    ASSUME universeFile # NoFile => Decided(universeFile)
    PROVE  UniverseSound
<1>. SUFFICES ASSUME universeFile # NoFile PROVE UniverseSound
  BY DEF UniverseSound
<1>. DEFINE m == universeFile
            S == Includable(m.listed, m.view)
            O == OneClassPerIssuer(S)
            K == m.included
<1>1. /\ S \in SUBSET m.listed /\ S \in SUBSET Rows /\ O \in SUBSET S /\ IsFiniteSet(O)
      /\ K \subseteq O /\ K \in OnePerIdentity(O)
  BY DecidedRows DEF Decided
<1>2. /\ \A r, s \in K : r # s => Facts[r].identity # Facts[s].identity
      /\ \A r \in O : \E k \in K : Facts[k].identity = Facts[r].identity
  BY <1>1, OneOfEachIdentity
<1>3. ASSUME NEW r \in K, NEW s \in K, r # s
      PROVE  /\ Facts[r].identity # Facts[s].identity
             /\ Facts[r].cik = Facts[s].cik => Facts[r].cik = "NONE"
             /\ Facts[r].figi = Facts[s].figi => Facts[r].figi = "NONE"
  <2>1. ~SameIssuer(r, s)
    BY <1>1, <1>3, KeptShareNoIssuer
  <2>. QED BY <1>2, <1>3, <2>1 DEF SameIssuer
<1>4. ASSUME NEW G \in SUBSET S, G # {}, \A r \in G, s \in S : Related(r, s) => s \in G
      PROVE  G \cap K # {}
  <2>1. PICK t \in G : t \in O
    BY <1>1, <1>4, MostTradedIsKept
  <2>2. PICK k \in K : Facts[k].identity = Facts[t].identity
    BY <1>2, <2>1
  <2>3. Related(t, k)
    BY <2>2 DEF Related
  <2>. QED BY <1>1, <1>4, <2>1, <2>2, <2>3
<1>5. ASSUME m.coverage = "complete", NEW r \in m.listed
      PROVE  /\ Facts[r].late \/ m.view[r] # "transient"
             /\ r \in K \/ r \in S \/ \E reason \in Reasons(r, m.view) : reason \notin Gaps
  <2>1. Undecided(m.listed, m.view) = {} /\ ProviderComplete(m.listed, m.view)
    BY <1>5 DEF Decided, Coverage
  <2>. QED BY <2>1 DEF Undecided, ProviderComplete, Includable
<1>6. m.evidence => m.coverage = "complete" /\ ~m.smoke
  BY DEF Decided
<1>. QED BY <1>3, <1>4, <1>5, <1>6 DEF UniverseSound

-----------------------------------------------------------------------------
(* The launches that build it.                                                 *)
UniverseInv ==
    /\ universeFile = NoFile \/ Decided(universeFile)
    /\ DOMAIN build = {"stage", "smoke", "listed", "view", "draft"}
    /\ build.stage \in {"down", "list", "overviews", "decide", "persist"}
    /\ build.smoke \in BOOLEAN /\ build.listed \subseteq Rows
    /\ build.stage = "persist" => Decided(build.draft)
    /\ builds \in 0..MaxBuilds

LEMMA UniverseInitial == UniverseInit => UniverseInv
BY UniverseAssumption DEF UniverseInit, UniverseInv, NoBuild

LEMMA UniverseStep == UniverseInv /\ [UniverseNext]_universeVars => UniverseInv'
<1>. SUFFICES ASSUME UniverseInv, [UniverseNext]_universeVars PROVE UniverseInv'
  OBVIOUS
<1>. USE DEF UniverseInv
<1>1. ASSUME NEW smoke \in BOOLEAN, StartBuild(smoke) PROVE UniverseInv'
  BY <1>1, UniverseAssumption DEF StartBuild, NoBuild
<1>2. CASE ReadBuild
  BY <1>2, UniverseAssumption DEF ReadBuild
<1>3. ASSUME NEW answer \in SUBSET Rows, ListTickers(answer) PROVE UniverseInv'
  BY <1>3 DEF ListTickers
<1>4. ASSUME NEW view, FetchOverviews(view) PROVE UniverseInv'
  BY <1>4 DEF FetchOverviews
<1>5. CASE DecideSecurities
  <2>1. PICK kept \in OnePerIdentity(OneClassPerIssuer(Includable(build.listed, build.view))) :
           build' = [build EXCEPT !.stage = "persist", !.draft =
              [listed |-> build.listed, view |-> build.view, included |-> kept,
               coverage |-> Coverage(build.listed, build.view),
               evidence |-> Coverage(build.listed, build.view) = "complete" /\ ~build.smoke,
               smoke |-> build.smoke]]
    BY <1>5 DEF DecideSecurities
  <2>. DEFINE m == [listed |-> build.listed, view |-> build.view, included |-> kept,
                    coverage |-> Coverage(build.listed, build.view),
                    evidence |-> Coverage(build.listed, build.view) = "complete" /\ ~build.smoke,
                    smoke |-> build.smoke]
  <2>2. Decided(m)
    <3>1. /\ m.listed = build.listed /\ m.view = build.view /\ m.included = kept
          /\ m.coverage = Coverage(build.listed, build.view) /\ m.smoke = build.smoke
      OBVIOUS
    <3>2. m.evidence = (Coverage(m.listed, m.view) = "complete" /\ ~m.smoke)
      OBVIOUS
    <3>. HIDE DEF m
    <3>. QED BY <3>1, <3>2 DEF Decided
  <2>. HIDE DEF m
  <2>3. /\ DOMAIN build' = DOMAIN build /\ build'.stage = "persist" /\ build'.draft = m
        /\ build'.smoke = build.smoke /\ build'.listed = build.listed
    BY <2>1 DEF m
  <2>4. UNCHANGED <<universeFile, builds>>
    BY <1>5 DEF DecideSecurities
  <2>5. Decided(build'.draft)
    BY <2>2, <2>3
  <2>. QED BY <2>3, <2>4, <2>5 DEF Decided
<1>6. CASE PersistManifest
  BY <1>6 DEF PersistManifest, NoBuild
<1>7. CASE BuildStops
  BY <1>7 DEF BuildStops, NoBuild
<1>8. CASE UNCHANGED universeVars
  BY <1>8 DEF universeVars
<1>. QED BY <1>1, <1>2, <1>3, <1>4, <1>5, <1>6, <1>7, <1>8 DEF UniverseNext

LEMMA UniverseInduction == UniverseSpec => []UniverseInv
BY UniverseInitial, UniverseStep, PTL DEF UniverseSpec

\* A manifest lists what was listed, and includes some of it.
THEOREM UniverseTypes == UniverseSpec => []UniverseTypeOK
<1>1. UniverseInv => UniverseTypeOK
  <2>. SUFFICES ASSUME UniverseInv PROVE UniverseTypeOK
    OBVIOUS
  <2>1. CASE universeFile = NoFile
    BY <2>1 DEF UniverseInv, UniverseTypeOK, NoFile
  <2>2. CASE Decided(universeFile)
    <3>1. universeFile.included \subseteq universeFile.listed
      BY <2>2, DecidedRows
    <3>. QED BY <2>2, <3>1 DEF UniverseInv, UniverseTypeOK, Decided, Coverage
  <2>. QED BY <2>1, <2>2 DEF UniverseInv
<1>. QED BY <1>1, UniverseInduction, PTL

\* A company is in the universe once and is not lost to its own duplicates, and a
\* complete universe rests on answers.
THEOREM UniverseIsSound == UniverseSpec => []UniverseSound
<1>1. UniverseInv => UniverseSound
  BY DecidedIsSound DEF UniverseInv
<1>. QED BY <1>1, UniverseInduction, PTL

-----------------------------------------------------------------------------
(* The snapshot and the rows it is made of.                                    *)
LEMMA RowTypes ==
    ASSUME NEW rows \in Seq(TapeRows)
    PROVE  /\ IsFiniteSet(DOMAIN rows) /\ DOMAIN rows \subseteq Int
           /\ \A i \in DOMAIN rows :
                 /\ rows[i] \in TapeRows /\ rows[i].ticker \in STRING
                 /\ rows[i].minute \in Nat /\ rows[i].size \in Nat
<1>1. DOMAIN rows = 1..Len(rows) /\ Len(rows) \in Nat
  OBVIOUS
<1>2. IsFiniteSet(1..Len(rows))
  BY <1>1, FS_Interval
<1>3. \A i \in DOMAIN rows : rows[i] \in TapeRows
  OBVIOUS
<1>4. \A r \in TapeRows : r.ticker \in STRING /\ r.minute \in Nat /\ r.size \in Nat
  BY SnapshotAssumption
<1>. QED BY <1>1, <1>2, <1>3, <1>4

\* a premarket is made of rows that are early, and keeps them all
LEMMA EarlyPremarket ==
    ASSUME NEW rows \in Seq(TapeRows), NEW S, NEW c
    PROVE  /\ Premarket(S, c, Early(rows)) = Premarket(S, c, rows)
           /\ PriorPremarket(S, c, Early(rows)) = PriorPremarket(S, c, rows)
           /\ Premarket(S, c, rows) \in SUBSET DOMAIN Early(rows)
           /\ PriorPremarket(S, c, rows) \in SUBSET DOMAIN Early(rows)
<1>1. /\ DOMAIN Early(rows) = {i \in DOMAIN rows : rows[i].minute < freeze}
      /\ \A i \in DOMAIN Early(rows) : Early(rows)[i] = rows[i]
  BY DEF Early, Restrict
<1>2. RowsOf(S, c, Early(rows)) = {i \in RowsOf(S, c, rows) : rows[i].minute < freeze}
  BY <1>1 DEF RowsOf
<1>. QED BY <1>1, <1>2 DEF Premarket, PriorPremarket, Between, RowsOf

\* what is counted, added up or read of a set of rows is that of the rows in it
LEMMA SameRowsSameValues ==
    ASSUME NEW rows \in Seq(TapeRows), NEW I \in SUBSET DOMAIN Early(rows)
    PROVE  /\ Volume(Early(rows), I) = Volume(rows, I)
           /\ LastPrice(Early(rows), I) = LastPrice(rows, I)
           /\ {i \in I : Early(rows)[i].minute >= last_hour} = {i \in I : rows[i].minute >= last_hour}
<1>. DEFINE early == Early(rows)
<1>1. /\ DOMAIN early = {i \in DOMAIN rows : rows[i].minute < freeze}
      /\ \A i \in I : i \in DOMAIN early /\ i \in DOMAIN rows /\ early[i] = rows[i]
  BY DEF Early, Restrict
<1>2. IsFiniteSet(I)
  BY <1>1, RowTypes, FS_Subset
<1>. HIDE DEF early
<1>3. SumFunctionOnSet([i \in DOMAIN early |-> early[i].size], I) =
      SumFunctionOnSet([i \in DOMAIN rows |-> rows[i].size], I)
  BY <1>1, <1>2, SumAgree
<1>4. LastPrice(early, I) = LastPrice(rows, I)
  <2>1. CASE I = {}
    BY <2>1 DEF LastPrice
  <2>2. CASE I # {}
    <3>. DEFINE latest == Max({rows[i].minute : i \in I})
                L == {i \in I : rows[i].minute = latest}
    <3>1. {early[i].minute : i \in I} = {rows[i].minute : i \in I}
      BY <1>1
    <3>2. {i \in I : early[i].minute = latest} = L
      BY <1>1
    <3>3. LastPrice(early, I) = early[Max(L)].price /\ LastPrice(rows, I) = rows[Max(L)].price
      BY <2>2, <3>1, <3>2 DEF LastPrice
    <3>4. latest \in {rows[i].minute : i \in I}
      <4>. DEFINE M == {rows[i].minute : i \in I}
      <4>1. [i \in I |-> rows[i].minute] \in Surjection(I, M)
        BY DEF Surjection
      <4>2. IsFiniteSet(M)
        BY <1>2, <4>1, FS_Surjection
      <4>3. M # {} /\ M \subseteq Int
        BY <1>1, <2>2, RowTypes
      <4>. HIDE DEF M
      <4>4. Max(M) \in M
        BY <4>2, <4>3, MaxIsMember
      <4>. QED BY <4>4 DEF M
    <3>. HIDE DEF latest
    <3>5. L # {} /\ L \subseteq I
      BY <3>4
    <3>6. IsFiniteSet(L) /\ L \subseteq Int
      BY <1>1, <1>2, <3>5, RowTypes, FS_Subset
    <3>. HIDE DEF L
    <3>7. Max(L) \in I
      BY <3>5, <3>6, MaxIsMember
    <3>. QED BY <1>1, <3>3, <3>7
  <2>. QED BY <2>1, <2>2
<1>5. {i \in I : early[i].minute >= last_hour} = {i \in I : rows[i].minute >= last_hour}
  BY <1>1
<1>. QED BY <1>3, <1>4, <1>5 DEF Volume, early

LEMMA SnapshotOfEarly ==
    ASSUME NEW rows \in Seq(TapeRows), NEW S
    PROVE  SnapshotOf(S, rows) = SnapshotOf(S, Early(rows))
<1>. SUFFICES ASSUME NEW c \in S PROVE SnapshotOf(S, rows)[c] = SnapshotOf(S, Early(rows))[c]
  BY DEF SnapshotOf
<1>. DEFINE I == Premarket(S, c, rows)
            J == PriorPremarket(S, c, rows)
<1>1. /\ Premarket(S, c, Early(rows)) = I /\ PriorPremarket(S, c, Early(rows)) = J
      /\ I \in SUBSET DOMAIN Early(rows) /\ J \in SUBSET DOMAIN Early(rows)
  BY EarlyPremarket
<1>. HIDE DEF I, J
<1>2. /\ Volume(Early(rows), I) = Volume(rows, I) /\ LastPrice(Early(rows), I) = LastPrice(rows, I)
      /\ {i \in I : Early(rows)[i].minute >= last_hour} = {i \in I : rows[i].minute >= last_hour}
      /\ Volume(Early(rows), J) = Volume(rows, J)
  BY <1>1, SameRowsSameValues
<1>. QED BY <1>1, <1>2 DEF SnapshotOf, I, J

-----------------------------------------------------------------------------
(* The rows a path keeps.  h is the table of the paths made of every part of I, *)
(* taken in the order of the places.                                           *)
Last(A) == Max(A)
KeptTable(h, rows, I) ==
    h = [A \in SUBSET I |-> IF A = {} THEN EmptyPath
                            ELSE TakeRow(h[A \ {Last(A)}], rows[Last(A)])]

LEMMA LastPlace ==
    ASSUME NEW I, IsFiniteSet(I), I \subseteq Int, NEW A \in SUBSET I, A # {}
    PROVE  Last(A) \in A /\ \A i \in A : i <= Last(A)
<1>1. IsFiniteSet(A) /\ A \subseteq Int
  BY FS_Subset
<1>. QED BY <1>1, MaxIsMember DEF Last

LEMMA KeptTableUnique ==
    ASSUME NEW I \in SUBSET Int, IsFiniteSet(I), NEW rows, NEW J \in SUBSET I, NEW h, NEW k,
           KeptTable(h, rows, I), KeptTable(k, rows, J)
    PROVE  \A A \in SUBSET J : h[A] = k[A]
<1>. SUFFICES ASSUME NEW A \in SUBSET J PROVE h[A] = k[A]
  OBVIOUS
<1>. DEFINE F == {B \in SUBSET A : h[B] = k[B]}
<1>1. IsFiniteSet(A)
  BY FS_Subset
<1>2. {} \in F
  BY DEF KeptTable
<1>3. ASSUME NEW B \in SUBSET A, B # {}, \A x \in B : B \ {x} \in F
      PROVE  B \in F
  <2>1. Last(B) \in B
    BY <1>3, LastPlace
  <2>2. B \in SUBSET I /\ B \in SUBSET J
    OBVIOUS
  <2>3. h[B] = TakeRow(h[B \ {Last(B)}], rows[Last(B)])
    BY <1>3, <2>2 DEF KeptTable
  <2>4. k[B] = TakeRow(k[B \ {Last(B)}], rows[Last(B)])
    BY <1>3, <2>2 DEF KeptTable
  <2>5. h[B \ {Last(B)}] = k[B \ {Last(B)}]
    BY <1>3, <2>1
  <2>. QED BY <2>3, <2>4, <2>5
<1>. HIDE DEF F
<1>4. A \in F
  BY <1>1, <1>2, <1>3, SetInduction
<1>. QED BY <1>4 DEF F

LEMMA KeptTableExists ==
    ASSUME NEW I, IsFiniteSet(I), I \subseteq Int, NEW rows
    PROVE  \E h : KeptTable(h, rows, I)
<1>0. ASSUME NEW B \in SUBSET I, NEW C \in SUBSET B, NEW h, NEW k,
             KeptTable(h, rows, B), KeptTable(k, rows, C)
      PROVE  h[C] = k[C]
  <2>1. IsFiniteSet(B) /\ B \in SUBSET Int
    BY FS_Subset
  <2>. QED BY <1>0, <2>1, KeptTableUnique
<1>. DEFINE F == {A \in SUBSET I : \E h : KeptTable(h, rows, A)}
<1>1. {} \in F
  <2>1. KeptTable([A \in {{}} |-> EmptyPath], rows, {})
    BY DEF KeptTable
  <2>. QED BY <2>1
<1>2. ASSUME NEW A \in SUBSET I, A # {}, \A x \in A : A \ {x} \in F
      PROVE  A \in F
  <2>. DEFINE Of(B) == CHOOSE h : KeptTable(h, rows, B)
              t == [B \in SUBSET A |->
                       IF B = {} THEN EmptyPath
                       ELSE TakeRow(Of(B \ {Last(B)})[B \ {Last(B)}], rows[Last(B)])]
  <2>2. \A B \in SUBSET A : B # {} => Last(B) \in B
    BY LastPlace
  <2>3. ASSUME NEW B \in SUBSET A, B # A PROVE KeptTable(Of(B), rows, B)
    <3>1. PICK x \in A : x \notin B
      BY <2>3
    <3>2. PICK h : KeptTable(h, rows, A \ {x})
      BY <1>2
    <3>3. B \subseteq A \ {x}
      BY <3>1
    <3>. DEFINE r == [C \in SUBSET B |-> h[C]]
    <3>4. \A C \in SUBSET B :
              h[C] = IF C = {} THEN EmptyPath ELSE TakeRow(h[C \ {Last(C)}], rows[Last(C)])
      <4>1. \A C \in SUBSET B : C \in SUBSET (A \ {x})
        BY <3>3
      <4>. QED BY <3>2, <4>1 DEF KeptTable
    <3>5. \A C \in SUBSET B : C \ {Last(C)} \in SUBSET B
      OBVIOUS
    <3>6. \A C \in SUBSET B :
              r[C] = IF C = {} THEN EmptyPath ELSE TakeRow(r[C \ {Last(C)}], rows[Last(C)])
      BY <3>4, <3>5
    <3>7. KeptTable(r, rows, B)
      BY <3>6 DEF KeptTable
    <3>. QED BY <3>7
  <2>4. ASSUME NEW B \in SUBSET A, B # A PROVE t[B] = Of(B)[B]
    <3>1. KeptTable(Of(B), rows, B)
      BY <2>3, <2>4
    <3>. HIDE DEF Of
    <3>2. CASE B = {}
      BY <3>1, <3>2 DEF KeptTable
    <3>3. CASE B # {}
      <4>. DEFINE C == B \ {Last(B)}
      <4>1. Last(B) \in B
        BY <2>2, <3>3
      <4>2. C \in SUBSET A /\ C # A /\ C \in SUBSET B
        BY <4>1
      <4>3. KeptTable(Of(C), rows, C)
        BY <2>3, <4>2
      <4>4. Of(B)[C] = Of(C)[C]
        <5>. HIDE DEF C, t
        <5>. QED BY <1>0, <3>1, <4>2, <4>3
      <4>5. Of(B)[B] = TakeRow(Of(B)[C], rows[Last(B)])
        BY <3>1, <3>3 DEF KeptTable
      <4>6. t[B] = TakeRow(Of(C)[C], rows[Last(B)])
        BY <3>3
      <4>. QED BY <4>4, <4>5, <4>6
    <3>. QED BY <3>2, <3>3
  <2>5. ASSUME NEW B \in SUBSET A, B # {}
        PROVE  t[B] = TakeRow(t[B \ {Last(B)}], rows[Last(B)])
    <3>1. B \ {Last(B)} \in SUBSET A /\ B \ {Last(B)} # A
      BY <2>2, <2>5
    <3>2. t[B] = TakeRow(Of(B \ {Last(B)})[B \ {Last(B)}], rows[Last(B)])
      BY <2>5
    <3>. HIDE DEF t, Of
    <3>. QED BY <2>4, <3>1, <3>2
  <2>6. t[{}] = EmptyPath
    OBVIOUS
  <2>7. t = [B \in SUBSET A |-> t[B]]
    OBVIOUS
  <2>. HIDE DEF t
  <2>8. KeptTable(t, rows, A)
    <3>1. \A B \in SUBSET A :
              t[B] = IF B = {} THEN EmptyPath ELSE TakeRow(t[B \ {Last(B)}], rows[Last(B)])
      BY <2>5, <2>6
    <3>. QED BY <2>7, <3>1 DEF KeptTable
  <2>. QED BY <2>8
<1>. HIDE DEF F
<1>3. I \in F
  BY <1>1, <1>2, SetInduction
<1>. QED BY <1>3 DEF F

\* the path the code makes of the rows is that of the table
LEMMA DeduplicatedIsOfTable ==
    ASSUME NEW I, IsFiniteSet(I), I \subseteq Int, NEW rows
    PROVE  \E h : KeptTable(h, rows, I) /\ Deduplicated(rows, I) = h[I]
<1>1. \E h : KeptTable(h, rows, I)
  BY KeptTableExists
<1>. QED BY <1>1 DEF KeptTable, Last, Deduplicated, MapThenFoldSet

\* i is the first row of its minute in A that no other exceeds
FirstLargest(rows, A, m, i) ==
    /\ i \in A /\ rows[i].minute = m
    /\ \A j \in A : rows[j].minute = m =>
           rows[j].size < rows[i].size \/ (rows[j].size = rows[i].size /\ i <= j)

KeepsTheFirstLargest(rows, A, acc) ==
    /\ "path" \in DOMAIN acc
    /\ DOMAIN acc.path = {rows[i].minute : i \in A}
    /\ \A m \in DOMAIN acc.path : \E i \in A : acc.path[m] = rows[i] /\ FirstLargest(rows, A, m, i)

\* taking the next row, which comes after the others, keeps that
LEMMA NextRowKept ==
    ASSUME NEW rows, NEW A, NEW x \in A, A \subseteq Int, \A i \in A : i <= x,
           \A i \in A : rows[i].size \in Nat,
           NEW acc, KeepsTheFirstLargest(rows, A \ {x}, acc)
    PROVE  KeepsTheFirstLargest(rows, A, TakeRow(acc, rows[x]))
<1>. DEFINE B == A \ {x}
            m == rows[x].minute
            next == TakeRow(acc, rows[x])
<1>1. /\ "path" \in DOMAIN acc /\ DOMAIN acc.path = {rows[i].minute : i \in B}
      /\ \A n \in DOMAIN acc.path : \E i \in B : acc.path[n] = rows[i] /\ FirstLargest(rows, B, n, i)
  BY DEF KeepsTheFirstLargest
<1>2. {rows[i].minute : i \in A} = {rows[i].minute : i \in B} \cup {m}
  OBVIOUS
<1>3. ASSUME NEW n, n # m, NEW i, FirstLargest(rows, B, n, i)
      PROVE  FirstLargest(rows, A, n, i)
  BY <1>3 DEF FirstLargest
<1>4. CASE m \notin DOMAIN acc.path
  <2>1. next = [acc EXCEPT !.path = [y \in Minutes(acc.path) \cup {m} |->
                                        IF y = m THEN rows[x] ELSE acc.path[y]]]
    BY <1>4 DEF TakeRow, Minutes
  <2>2. /\ "path" \in DOMAIN next /\ DOMAIN next.path = DOMAIN acc.path \cup {m}
        /\ next.path[m] = rows[x]
        /\ \A n \in DOMAIN acc.path : n # m => next.path[n] = acc.path[n]
    BY <1>1, <2>1 DEF Minutes
  <2>3. FirstLargest(rows, A, m, x)
    <3>1. \A j \in A : rows[j].minute = m => j = x
      BY <1>1, <1>4
    <3>. QED BY <3>1 DEF FirstLargest
  <2>. HIDE DEF next, m
  <2>4. ASSUME NEW n \in DOMAIN next.path
        PROVE  \E i \in A : next.path[n] = rows[i] /\ FirstLargest(rows, A, n, i)
    <3>1. CASE n = m
      BY <2>2, <2>3, <3>1
    <3>2. CASE n # m
      <4>1. PICK i \in B : acc.path[n] = rows[i] /\ FirstLargest(rows, B, n, i)
        BY <1>1, <2>2, <3>2
      <4>. QED BY <1>3, <2>2, <3>2, <4>1
    <3>. QED BY <3>1, <3>2
  <2>. QED BY <1>1, <1>2, <2>2, <2>4 DEF KeepsTheFirstLargest, next
<1>5. CASE m \in DOMAIN acc.path
  <2>1. PICK k \in B : acc.path[m] = rows[k] /\ FirstLargest(rows, B, m, k)
    BY <1>1, <1>5
  <2>2. k \in A /\ k \in Int /\ x \in Int /\ k <= x /\ k # x
        /\ rows[k].size \in Nat /\ rows[x].size \in Nat
    OBVIOUS
  <2>3. /\ BetterRow(rows[x], rows[k]) => next.path = [acc.path EXCEPT ![m] = rows[x]]
        /\ ~BetterRow(rows[x], rows[k]) => next.path = acc.path
        /\ "path" \in DOMAIN next
    BY <1>5, <2>1 DEF TakeRow, Minutes
  <2>4. ASSUME NEW n \in DOMAIN acc.path, n # m
        PROVE  \E i \in A : next.path[n] = rows[i] /\ FirstLargest(rows, A, n, i)
    <3>1. PICK i \in B : acc.path[n] = rows[i] /\ FirstLargest(rows, B, n, i)
      BY <1>1
    <3>2. next.path[n] = acc.path[n]
      BY <2>3, <2>4
    <3>. QED BY <1>3, <2>4, <3>1, <3>2
  <2>5. CASE BetterRow(rows[x], rows[k])
    <3>1. next.path[m] = rows[x] /\ DOMAIN next.path = DOMAIN acc.path
      BY <1>5, <2>3, <2>5
    <3>2. FirstLargest(rows, A, m, x)
      <4>1. ASSUME NEW j \in A, rows[j].minute = m
            PROVE  rows[j].size < rows[x].size \/ (rows[j].size = rows[x].size /\ x <= j)
        <5>1. rows[j].size \in Nat /\ j \in Int
          OBVIOUS
        <5>2. CASE j = x
          BY <2>2, <5>2
        <5>3. CASE j # x
          <6>1. rows[j].size <= rows[k].size
            BY <2>1, <2>2, <4>1, <5>1, <5>3 DEF FirstLargest
          <6>2. rows[k].size < rows[x].size
            BY <2>2, <2>5 DEF BetterRow
          <6>. QED BY <2>2, <5>1, <6>1, <6>2
        <5>. QED BY <5>2, <5>3
      <4>. QED BY <4>1 DEF FirstLargest
    <3>. HIDE DEF next, m
    <3>3. \A n \in DOMAIN next.path :
              \E i \in A : next.path[n] = rows[i] /\ FirstLargest(rows, A, n, i)
      BY <2>4, <3>1, <3>2
    <3>. QED BY <1>1, <1>2, <1>5, <2>3, <3>1, <3>3 DEF KeepsTheFirstLargest, next
  <2>6. CASE ~BetterRow(rows[x], rows[k])
    <3>1. next.path = acc.path
      BY <2>3, <2>6
    <3>2. FirstLargest(rows, A, m, k)
      <4>1. ASSUME NEW j \in A, rows[j].minute = m
            PROVE  rows[j].size < rows[k].size \/ (rows[j].size = rows[k].size /\ k <= j)
        <5>1. CASE j = x
          BY <2>2, <2>6, <5>1 DEF BetterRow
        <5>2. CASE j # x
          BY <2>1, <4>1, <5>2 DEF FirstLargest
        <5>. QED BY <5>1, <5>2
      <4>. QED BY <2>1, <2>2, <4>1 DEF FirstLargest
    <3>. HIDE DEF next, m
    <3>3. \A n \in DOMAIN next.path :
              \E i \in A : next.path[n] = rows[i] /\ FirstLargest(rows, A, n, i)
      BY <2>1, <2>2, <2>4, <3>1, <3>2
    <3>. QED BY <1>1, <1>2, <1>5, <2>3, <3>1, <3>3 DEF KeepsTheFirstLargest, next
  <2>. QED BY <2>5, <2>6
<1>. QED BY <1>4, <1>5

LEMMA DeduplicatedKeeps ==
    ASSUME NEW rows, NEW I, IsFiniteSet(I), I \subseteq Int, \A i \in I : rows[i].size \in Nat
    PROVE  KeepsTheFirstLargest(rows, I, Deduplicated(rows, I))
<1>1. PICK h : KeptTable(h, rows, I) /\ Deduplicated(rows, I) = h[I]
  BY DeduplicatedIsOfTable
<1>. DEFINE F == {A \in SUBSET I : KeepsTheFirstLargest(rows, A, h[A])}
<1>2. {} \in F
  <2>1. h[{}] = EmptyPath
    BY <1>1 DEF KeptTable
  <2>. QED BY <2>1 DEF EmptyPath, KeepsTheFirstLargest
<1>3. ASSUME NEW A \in SUBSET I, A # {}, \A x \in A : A \ {x} \in F
      PROVE  A \in F
  <2>1. Last(A) \in A /\ \A i \in A : i <= Last(A)
    BY <1>3, LastPlace
  <2>2. h[A] = TakeRow(h[A \ {Last(A)}], rows[Last(A)])
    BY <1>1, <1>3 DEF KeptTable
  <2>3. KeepsTheFirstLargest(rows, A \ {Last(A)}, h[A \ {Last(A)}])
    BY <1>3, <2>1
  <2>4. KeepsTheFirstLargest(rows, A, TakeRow(h[A \ {Last(A)}], rows[Last(A)]))
    BY <2>1, <2>3, NextRowKept
  <2>. QED BY <2>2, <2>4
<1>. HIDE DEF F
<1>4. I \in F
  BY <1>2, <1>3, SetInduction
<1>. QED BY <1>1, <1>4 DEF F

-----------------------------------------------------------------------------
(* The rows of a security, and of its ticker.                                  *)

\* what an entry of the manifest says of itself
LEMMA EntryTypes ==
    ASSUME listing \in Listings, NEW e \in Entries
    PROVE  e \in Int /\ listing[e].identity \in Companies
BY SnapshotAssumption

LEMMA BearersFinite ==
    ASSUME NEW S, NEW ticker
    PROVE  IsFiniteSet(Bearers(S, ticker))
<1>1. Bearers(S, ticker) \subseteq Companies
  BY DEF Bearers
<1>. QED BY <1>1, SnapshotAssumption, FS_Subset

\* one entry speaks for an identity
LEMMA OneSpeaks ==
    ASSUME listing \in Listings, NEW d \in Kept(Base), NEW e \in Kept(Base),
           listing[d].identity = listing[e].identity
    PROVE  d = e
<1>1. d \in Entries /\ e \in Entries /\ d <= e /\ e <= d
  BY DEF Kept, Base
<1>. QED BY <1>1, EntryTypes

\* a ticker no other identity bears is the entry's identity's alone
LEMMA LoneBearer ==
    ASSUME listing \in Listings, NEW e \in Kept(Base), ~Ambiguous(Base, e)
    PROVE  Bearers(Base, listing[e].ticker) = {listing[e].identity}
<1>. DEFINE B == Bearers(Base, listing[e].ticker)
            c == listing[e].identity
<1>1. c \in B
  <2>1. e \in Entries
    BY DEF Kept, Base
  <2>. QED BY <2>1, EntryTypes DEF Bearers, Aliases
<1>2. IsFiniteSet(B)
  BY BearersFinite
<1>3. ~(Cardinality(B) > 1)
  BY DEF Ambiguous
<1>. HIDE DEF B, c
<1>4. Cardinality(B) \in Nat /\ IsFiniteSet(B \ {c}) /\ Cardinality(B \ {c}) = Cardinality(B) - 1
  BY <1>1, <1>2, FS_CardinalityType, FS_RemoveElement
<1>5. Cardinality(B \ {c}) \in Nat
  BY <1>4, FS_CardinalityType
<1>6. Cardinality(B \ {c}) = 0
  BY <1>3, <1>4, <1>5
<1>7. B \ {c} = {}
  BY <1>4, <1>6, FS_EmptySet
<1>. QED BY <1>1, <1>7 DEF B, c

\* without identifiers, the rows of such an entry are those with its ticker
LEMMA RowsOfTicker ==
    ASSUME listing \in Listings,
           NEW rows \in Seq(TapeRows), \A i \in DOMAIN rows : rows[i].id = "NONE",
           NEW e \in Base, Speaks(Base, e), ~Ambiguous(Base, e)
    PROVE  RowsOf(Base, e, rows) = {i \in DOMAIN rows : rows[i].ticker = listing[e].ticker}
<1>. DEFINE c == listing[e].identity
<1>0. e \in Kept(Base)
  BY DEF Speaks
<1>1. ASSUME NEW i \in DOMAIN rows, rows[i].ticker \in TickersOf(Base), c \in Owners(Base, rows[i])
      PROVE  rows[i].ticker = listing[e].ticker
  <2>1. PICK d \in Base : rows[i].ticker = listing[d].ticker
    BY <1>1 DEF TickersOf
  <2>2. Cardinality(Bearers(Base, rows[i].ticker)) = 1 /\ c \in Bearers(Base, rows[i].ticker)
    BY <1>1 DEF Owners
  <2>3. CASE d \in Kept(Base)
    <3>1. d \in Entries
      BY DEF Base
    <3>2. listing[d].identity \in Bearers(Base, rows[i].ticker)
      BY <2>1, <2>3, <3>1, EntryTypes DEF Bearers, Aliases
    <3>3. PICK b : Bearers(Base, rows[i].ticker) = {b}
      BY <2>2, BearersFinite, FS_Singleton
    <3>4. listing[d].identity = c
      BY <2>2, <3>2, <3>3
    <3>5. d = e
      BY <1>0, <2>3, <3>4, OneSpeaks
    <3>. QED BY <2>1, <3>5
  <2>4. CASE d \notin Kept(Base)
    <3>1. PICK k \in Kept(Base) : listing[k].identity = c /\ rows[i].ticker \in Aliases(k)
      BY <2>2 DEF Bearers
    <3>2. k = e
      BY <1>0, <3>1, OneSpeaks
    <3>. QED BY <2>1, <2>4, <3>1, <3>2 DEF Speaks
  <2>. QED BY <2>3, <2>4
<1>2. ASSUME NEW i \in DOMAIN rows, rows[i].ticker = listing[e].ticker
      PROVE  rows[i].ticker \in TickersOf(Base) /\ c \in Owners(Base, rows[i])
  <2>1. Bearers(Base, rows[i].ticker) = {c}
    BY <1>0, <1>2, LoneBearer
  <2>2. Cardinality(Bearers(Base, rows[i].ticker)) = 1
    BY <2>1, FS_Singleton
  <2>. QED BY <1>2, <2>1, <2>2 DEF Owners, TickersOf
<1>. QED BY <1>1, <1>2 DEF RowsOf

\* the row the candle takes of a minute is the first largest one
LEMMA PriorityRowIsFirst ==
    ASSUME NEW rows, NEW I, I \subseteq Int, \A i \in I : rows[i].size \in Nat,
           NEW m, NEW i, FirstLargest(rows, I, m, i)
    PROVE  PriorityRow(rows, I, m) = i
<1>1. ASSUME NEW j, FirstLargest(rows, I, m, j) PROVE j = i
  <2>1. i \in I /\ j \in I /\ rows[i].minute = m /\ rows[j].minute = m
    BY <1>1 DEF FirstLargest
  <2>2. rows[j].size < rows[i].size \/ (rows[j].size = rows[i].size /\ i <= j)
    BY <2>1 DEF FirstLargest
  <2>3. rows[i].size < rows[j].size \/ (rows[i].size = rows[j].size /\ j <= i)
    BY <1>1, <2>1 DEF FirstLargest
  <2>4. i \in Int /\ j \in Int /\ rows[i].size \in Nat /\ rows[j].size \in Nat
    BY <2>1
  <2>. QED BY <2>2, <2>3, <2>4
<1>2. PriorityRow(rows, I, m) = CHOOSE j \in I : FirstLargest(rows, I, m, j)
  <2>1. \A j \in I : FirstLargest(rows, I, m, j) <=>
            /\ rows[j].minute = m
            /\ \A k \in I : rows[k].minute = m =>
                  rows[k].size < rows[j].size \/ (rows[k].size = rows[j].size /\ j <= k)
    BY DEF FirstLargest
  <2>. QED BY <2>1 DEF PriorityRow
<1>3. i \in I
  BY DEF FirstLargest
<1>. HIDE DEF FirstLargest
<1>. QED BY <1>1, <1>2, <1>3

LEMMA PathRows ==
    ASSUME NEW rows \in Seq(TapeRows), NEW S, NEW c
    PROVE  LET I == RegularRows(S, c, rows)
               path == RegularPath(S, c, rows).path
           IN  /\ I \subseteq DOMAIN rows
               /\ DOMAIN path = {rows[i].minute : i \in I}
               /\ \A m \in DOMAIN path : \E i \in I : path[m] = rows[i] /\ FirstLargest(rows, I, m, i)
<1>. DEFINE I == RegularRows(S, c, rows)
<1>1. I \subseteq DOMAIN rows
  BY DEF RegularRows, RowsOf
<1>2. IsFiniteSet(I) /\ I \subseteq Int /\ \A i \in I : rows[i].size \in Nat
  BY <1>1, RowTypes, FS_Subset
<1>. HIDE DEF I
<1>3. KeepsTheFirstLargest(rows, I, Deduplicated(rows, I))
  BY <1>2, DeduplicatedKeeps
<1>. QED BY <1>1, <1>3 DEF KeepsTheFirstLargest, RegularPath, I

\* the candle of the ticker is made of the opening of the identity's path
LEMMA CandleOfPath ==
    ASSUME listing \in Listings,
           NEW rows \in Seq(TapeRows), \A i \in DOMAIN rows : rows[i].id = "NONE",
           NEW e \in Base, Speaks(Base, e), ~Ambiguous(Base, e)
    PROVE  LET path == RegularPath(Base, e, rows).path
               early == {m \in Minutes(path) : m < opening_end}
           IN  /\ OpeningOf(listing[e].ticker, rows) = OpeningCandle([m \in early |-> path[m]])
               /\ Minutes(path) # {} => \E i \in DOMAIN rows : rows[i].ticker = listing[e].ticker
<1>. DEFINE I == RegularRows(Base, e, rows)
            path == RegularPath(Base, e, rows).path
            early == {m \in Minutes(path) : m < opening_end}
            mine == {i \in DOMAIN rows : rows[i].ticker = listing[e].ticker /\ InOpening(rows[i])}
            row(m) == rows[PriorityRow(rows, mine, m)]
<1>1. /\ I \subseteq DOMAIN rows
      /\ DOMAIN path = {rows[i].minute : i \in I}
      /\ \A m \in DOMAIN path : \E i \in I : path[m] = rows[i] /\ FirstLargest(rows, I, m, i)
  BY PathRows
<1>2. I = {i \in DOMAIN rows : rows[i].ticker = listing[e].ticker
                               /\ Between(rows[i], open_at, close_at)}
  BY RowsOfTicker DEF RegularRows
<1>3. mine = {i \in I : rows[i].minute < opening_end}
  <2>1. \A i \in DOMAIN rows : rows[i].minute < opening_end => rows[i].minute < close_at
    BY RowTypes, SnapshotAssumption
  <2>. QED BY <1>2, <2>1 DEF InOpening, Between
<1>4. mine \subseteq Int /\ \A i \in mine : rows[i].size \in Nat
  BY RowTypes
<1>. HIDE DEF I, path, mine
<1>5. early = {rows[i].minute : i \in mine}
  BY <1>1, <1>3 DEF Minutes
<1>6. ASSUME NEW m \in early PROVE row(m) = path[m]
  <2>1. PICK i \in I : path[m] = rows[i] /\ FirstLargest(rows, I, m, i)
    BY <1>1 DEF Minutes
  <2>2. i \in mine
    BY <1>3, <2>1 DEF FirstLargest
  <2>3. FirstLargest(rows, mine, m, i)
    BY <1>3, <2>1, <2>2 DEF FirstLargest
  <2>4. PriorityRow(rows, mine, m) = i
    BY <1>4, <2>3, PriorityRowIsFirst
  <2>. QED BY <2>1, <2>4
<1>7. [m \in {rows[i].minute : i \in mine} |-> row(m)] = [m \in early |-> path[m]]
  BY <1>5, <1>6
<1>8. OpeningOf(listing[e].ticker, rows)
          = OpeningCandle([m \in {rows[i].minute : i \in mine} |-> row(m)])
  BY DEF OpeningOf, mine
<1>9. Minutes(path) # {} => \E i \in DOMAIN rows : rows[i].ticker = listing[e].ticker
  BY <1>1, <1>2 DEF Minutes
<1>. HIDE DEF row
<1>. QED BY <1>7, <1>8, <1>9 DEF path

-----------------------------------------------------------------------------
(* What was built is of the files as they stand.                               *)
TapeInv ==
    /\ listing \in Listings /\ tape \in Seq(TapeRows)
    /\ snapshot = Unbuilt \/ snapshot = Built(SnapshotOf(Eligible, tape))
    /\ openingCache = Unbuilt
         \/ /\ snapshot.made
            /\ openingCache =
                  Built([t \in {tape[i].ticker : i \in DOMAIN tape} |-> OpeningOf(t, tape)])

LEMMA TapeInduction == TapeSpec => []TapeInv
<1>1. TapeInit => TapeInv
  BY DEF TapeInit, TapeInv
<1>2. TapeInv /\ [TapeNext]_tapeVars => TapeInv'
  <2>. SUFFICES ASSUME TapeInv, [TapeNext]_tapeVars PROVE TapeInv'
    OBVIOUS
  <2>1. ASSUME UNCHANGED <<listing, tape>> PROVE
            /\ Eligible' = Eligible /\ SnapshotOf(Eligible, tape)' = SnapshotOf(Eligible, tape)
            /\ listing' \in Listings /\ tape' \in Seq(TapeRows)
            /\ \A t : OpeningOf(t, tape)' = OpeningOf(t, tape)
    <3>1. Eligible' = Eligible /\ listing' \in Listings /\ tape' \in Seq(TapeRows)
      BY <2>1 DEF Eligible, TapeInv
    <3>2. SnapshotOf(Eligible, tape)' = SnapshotOf(Eligible, tape)
      BY <2>1, <3>1 DEF SnapshotOf, Premarket, PriorPremarket, Volume, LastPrice, RowsOf,
                        TickersOf, Owners, Bearers, Aliases, Kept
    <3>3. \A t : OpeningOf(t, tape)' = OpeningOf(t, tape)
      BY <2>1
    <3>. QED BY <3>1, <3>2, <3>3
  <2>2. ASSUME NEW row \in TapeRows, ReadRow(row) PROVE TapeInv'
    <3>1. snapshot = Unbuilt /\ openingCache = Unbuilt
      BY <2>2 DEF ReadRow, TapeInv, Built, Unbuilt
    <3>2. listing' \in Listings /\ tape' \in Seq(TapeRows) /\ UNCHANGED <<snapshot, openingCache>>
      BY <2>2 DEF ReadRow, TapeInv
    <3>. QED BY <3>1, <3>2 DEF TapeInv, Unbuilt
  <2>3. CASE BuildSnapshot
    <3>1. openingCache = Unbuilt
      BY <2>3 DEF BuildSnapshot, TapeInv
    <3>2. UNCHANGED <<listing, tape, openingCache>> /\ snapshot' = Built(SnapshotOf(Eligible, tape))
      BY <2>3 DEF BuildSnapshot
    <3>3. snapshot' = Built(SnapshotOf(Eligible', tape'))
      BY <3>2 DEF Eligible
    <3>. QED BY <2>1, <3>1, <3>2, <3>3 DEF TapeInv, Unbuilt
  <2>4. CASE WriteOpeningCache
    <3>1. UNCHANGED <<listing, tape, snapshot>> /\ snapshot.made
      BY <2>4 DEF WriteOpeningCache
    <3>2. openingCache' =
              Built([t \in {tape'[i].ticker : i \in DOMAIN tape'} |-> OpeningOf(t, tape')])
      BY <2>4 DEF WriteOpeningCache
    <3>3. snapshot' = Built(SnapshotOf(Eligible', tape'))
      BY <3>1 DEF TapeInv, Unbuilt, Eligible
    <3>. QED BY <2>1, <3>1, <3>2, <3>3 DEF TapeInv
  <2>5. CASE UNCHANGED tapeVars
    BY <2>1, <2>5 DEF tapeVars, TapeInv, Eligible
  <2>. QED BY <2>2, <2>3, <2>4, <2>5 DEF TapeNext
<1>. QED BY <1>1, <1>2, PTL DEF TapeSpec

\* Nothing dated at or after the freeze reaches what the Scout reads of a day
\* (build_flatfile_snapshot()), however many rows there are and whosever they are.
THEOREM SnapshotIsOfThePast == TapeSpec => []SnapshotIsPast
<1>1. TapeInv => SnapshotIsPast
  <2>. SUFFICES ASSUME TapeInv, snapshot.made
                PROVE  snapshot.of = SnapshotOf(Eligible, Early(tape))
    BY DEF SnapshotIsPast
  <2>1. snapshot.of = SnapshotOf(Eligible, tape)
    BY DEF TapeInv, Unbuilt, Built
  <2>2. tape \in Seq(TapeRows)
    BY DEF TapeInv
  <2>. QED BY <2>1, <2>2, SnapshotOfEarly
<1>. QED BY <1>1, TapeInduction, PTL

\* The candle a breakout is triggered by (write_opening_volume_cache()) is the
\* opening of the path it is walked on (_deduplicate_regular_bars()): of the rows
\* of a minute the two choose the same one, whatever the order of the files and
\* however many entries of the manifest the identities have.
THEOREM CandleMatchesPath == TapeSpec => []CandleIsOfThePath
<1>1. TapeInv => CandleIsOfThePath
  <2>. SUFFICES ASSUME TapeInv, openingCache.made, \A i \in DOMAIN tape : tape[i].id = "NONE",
                       NEW e \in Base, Speaks(Base, e), ~Ambiguous(Base, e),
                       open_at \in Minutes(RegularPath(Base, e, tape).path)
                PROVE  LET path == RegularPath(Base, e, tape).path
                           early == {m \in Minutes(path) : m < opening_end}
                       IN  openingCache.of[listing[e].ticker]
                               = OpeningCandle([m \in early |-> path[m]])
    BY DEF CandleIsOfThePath
  <2>1. openingCache.of = [t \in {tape[i].ticker : i \in DOMAIN tape} |-> OpeningOf(t, tape)]
    BY DEF TapeInv, Unbuilt, Built
  <2>. DEFINE path == RegularPath(Base, e, tape).path
              early == {m \in Minutes(path) : m < opening_end}
  <2>2. listing \in Listings /\ tape \in Seq(TapeRows)
    BY DEF TapeInv
  <2>3. /\ OpeningOf(listing[e].ticker, tape) = OpeningCandle([m \in early |-> path[m]])
        /\ Minutes(path) # {} => \E i \in DOMAIN tape : tape[i].ticker = listing[e].ticker
    BY <2>2, CandleOfPath
  <2>. HIDE DEF path
  <2>4. \E i \in DOMAIN tape : tape[i].ticker = listing[e].ticker
    BY <2>3 DEF path
  <2>. QED BY <2>1, <2>3, <2>4 DEF path
<1>. QED BY <1>1, TapeInduction, PTL

-----------------------------------------------------------------------------
(* The selection.                                                              *)
DayTables == [Tickers -> Profiles]

LEMMA ProfileOf ==
    ASSUME NEW sec \in DayTables, NEW t \in Tickers
    PROVE  /\ sec[t].eligible \in BOOLEAN /\ sec[t].bars60 \in Nat /\ sec[t].rejected \in BOOLEAN
           /\ sec[t].points \in Nat /\ sec[t].reversal \in Int
           /\ sec[t].path \in {"bars", "excluded"} /\ sec[t].move \in Int /\ sec[t].pnl \in Int
BY ProfileAssumption DEF DayTables

\* the three groups share no name, and only names that could be taken are in one
LEMMA GroupsApart ==
    ASSUME NEW sec \in DayTables
    PROVE  /\ QualifyingPicks(sec) \in SUBSET Tickers /\ ReversalPicks(sec) \in SUBSET Tickers
           /\ ExplorationPicks(sec) \in SUBSET Tickers
           /\ ReversalPicks(sec) \cap ExplorationPicks(sec) = {}
           /\ \A t \in QualifyingPicks(sec) : Qualifies(sec[t])
           /\ \A t \in ReversalPicks(sec) \cup ExplorationPicks(sec) : Explorable(sec[t])
           /\ QualifyingPicks(sec) \cap (ReversalPicks(sec) \cup ExplorationPicks(sec)) = {}
BY DEF QualifyingPicks, ReversalPicks, ExplorationPicks, FirstOf, Explorable

LEMMA ScoutRecords ==
    ASSUME NEW sec, NEW t \in Tickers
    PROVE  /\ ScoutResult(sec)[t].status = Status(sec[t])
           /\ ScoutResult(sec)[t].basis = SelectionBasis(sec, t)
           /\ ScoutResult(sec)[t].rank = Rank(sec, t)
           /\ ScoutResult(sec)[t].points = Points(sec[t])
           /\ ScoutResult(sec)[t].reversal = ReversalScore(sec[t])
           /\ ScoutResult(sec)[t].rejected = Rejected(sec[t])
BY DEF ScoutResult

LEMMA SelectionGroups ==
    ASSUME NEW sec \in DayTables
    PROVE  /\ Qualifying(ScoutResult(sec)) = QualifyingPicks(sec)
           /\ Selected(ScoutResult(sec)) =
                  QualifyingPicks(sec) \cup ReversalPicks(sec) \cup ExplorationPicks(sec)
           /\ Exploring(ScoutResult(sec)) = ReversalPicks(sec) \cup ExplorationPicks(sec)
<1>1. \A t \in Tickers :
          /\ ScoutResult(sec)[t].basis = "QUALIFYING_THRESHOLD" <=> t \in QualifyingPicks(sec)
          /\ ScoutResult(sec)[t].basis # "NOT_SELECTED" <=>
                 t \in QualifyingPicks(sec) \cup ReversalPicks(sec) \cup ExplorationPicks(sec)
  BY ScoutRecords, GroupsApart DEF SelectionBasis
<1>2. Qualifying(ScoutResult(sec)) = QualifyingPicks(sec)
  BY <1>1, GroupsApart DEF Qualifying
<1>3. Selected(ScoutResult(sec)) =
          QualifyingPicks(sec) \cup ReversalPicks(sec) \cup ExplorationPicks(sec)
  BY <1>1, GroupsApart DEF Selected
<1>. QED BY <1>2, <1>3, GroupsApart DEF Exploring

LEMMA TickerSets ==
    ASSUME NEW S \in SUBSET Tickers
    PROVE  IsFiniteSet(S) /\ Cardinality(S) \in Nat
BY ScoutAssumption, FS_Subset, FS_CardinalityType

-----------------------------------------------------------------------------
(* The turns.                                                                  *)

\* a qualifying name has one of the first turns, an explored one a later turn
LEMMA TurnsInOrder ==
    ASSUME NEW sc, NEW t \in Selected(sc), sc[t].rank \in Int
    PROVE  /\ Turn(sc, t) \in Nat
           /\ t \in Qualifying(sc) => Turn(sc, t) \in 1..Cardinality(Qualifying(sc))
           /\ t \notin Qualifying(sc) => Turn(sc, t) > Cardinality(Qualifying(sc))
<1>. DEFINE Q == Qualifying(sc)
            A == {u \in Q : sc[u].rank < sc[t].rank}
            B == {u \in Exploring(sc) : sc[u].rank < sc[t].rank}
<1>1. Q \in SUBSET Tickers /\ A \in SUBSET Tickers /\ B \in SUBSET Tickers
  BY DEF Qualifying, Exploring, Selected
<1>2. IsFiniteSet(Q) /\ Cardinality(Q) \in Nat /\ Cardinality(A) \in Nat /\ Cardinality(B) \in Nat
  BY <1>1, TickerSets
<1>3. CASE t \in Q
  <2>1. A \in SUBSET (Q \ {t})
    <3>1. ~(sc[t].rank < sc[t].rank)
      OBVIOUS
    <3>. QED BY <3>1
  <2>2. IsFiniteSet(Q \ {t}) /\ Cardinality(Q \ {t}) = Cardinality(Q) - 1
    BY <1>2, <1>3, FS_RemoveElement
  <2>3. Cardinality(A) <= Cardinality(Q) - 1
    BY <2>1, <2>2, FS_Subset
  <2>. HIDE DEF Q, A
  <2>4. Turn(sc, t) = Cardinality(A) + 1
    BY <1>3 DEF Turn, Q, A
  <2>. QED BY <1>2, <1>3, <2>3, <2>4 DEF Q
<1>4. CASE t \notin Q
  <2>1. Turn(sc, t) = Cardinality(Q) + Cardinality(B) + 1
    BY <1>4 DEF Turn
  <2>. HIDE DEF Q, B
  <2>. QED BY <1>2, <1>4, <2>1 DEF Q
<1>. QED BY <1>3, <1>4
LEMMA PlaceType ==
    ASSUME NEW S \in SUBSET Tickers, NEW key, NEW t
    PROVE  Place(S, key, t) \in Nat \ {0}
<1>1. Ahead(S, key, t) \in SUBSET Tickers
  BY DEF Ahead
<1>. QED BY <1>1, TickerSets DEF Place

LEMMA RankType ==
    ASSUME NEW sec \in DayTables, NEW t \in Tickers
    PROVE  Rank(sec, t) \in Nat
<1>1. /\ QualifyingPicks(sec) \in SUBSET Tickers /\ ReversalPicks(sec) \in SUBSET Tickers
      /\ ExplorationPicks(sec) \in SUBSET Tickers
  BY GroupsApart
<1>2. /\ Cardinality(QualifyingPicks(sec)) \in Nat /\ Cardinality(ExplorationPicks(sec)) \in Nat
      /\ Place(QualifyingPicks(sec), PointsOf(sec), t) \in Nat
      /\ Place(ExplorationPicks(sec), PointsOf(sec), t) \in Nat
      /\ Place(ReversalPicks(sec), ReversalOf(sec), t) \in Nat
  BY <1>1, PlaceType, TickerSets
<1>. QED BY <1>2 DEF Rank

-----------------------------------------------------------------------------
(* Exploration takes nothing from the selection.                               *)

\* the order of turns is the order of execution, whatever the number of positions
LEMMA NoSlotIsTaken ==
    ASSUME NEW sec \in DayTables, NEW positions \in Nat, NEW t \in Exploring(ScoutResult(sec)),
           Execution(sec, ScoutResult(sec), positions, t) = "EXECUTED",
           NEW u \in Qualifying(ScoutResult(sec))
    PROVE  Execution(sec, ScoutResult(sec), positions, u) # "MAX_POSITIONS_REACHED"
<1>. DEFINE sc == ScoutResult(sec)
<1>1. /\ t \in Selected(sc) /\ t \notin Qualifying(sc) /\ u \in Selected(sc)
      /\ t \in Tickers /\ u \in Tickers
  BY DEF Exploring, Selected, Qualifying
<1>2. sc[t].rank \in Int /\ sc[u].rank \in Int
  BY <1>1, ScoutRecords, RankType
<1>3. Cardinality(Qualifying(sc)) \in Nat
  BY TickerSets DEF Qualifying
<1>. HIDE DEF sc
<1>4. Turn(sc, t) > Cardinality(Qualifying(sc)) /\ Turn(sc, t) \in Nat
      /\ Turn(sc, u) \in 1..Cardinality(Qualifying(sc))
  BY <1>1, <1>2, TurnsInOrder DEF sc
<1>5. Turn(sc, t) <= positions
  BY DEF Execution, sc
<1>6. Turn(sc, u) <= positions
  BY <1>3, <1>4, <1>5
<1>7. ~(Turn(sc, u) > positions)
  BY <1>3, <1>4, <1>6
<1>. QED BY <1>7 DEF Execution, sc

\* nor does it change what a qualifying name makes
LEMMA SamePnl ==
    ASSUME NEW sec \in DayTables
    PROVE  ScoutPnl(ScoutResult(sec), OutcomeResult(sec, ScoutResult(sec))) =
           ScoutPnl(ScoutResult(sec), OutcomeResult(sec, QualifyingOnly(ScoutResult(sec))))
<1>. DEFINE sc == ScoutResult(sec)
            only == QualifyingOnly(sc)
            Q == Qualifying(sc)
<1>1. Q \in SUBSET Tickers /\ IsFiniteSet(Q)
  BY TickerSets DEF Qualifying
<1>2. \A t \in Q : only[t] = sc[t]
  BY DEF QualifyingOnly, Qualifying
<1>3. \A t \in Tickers : t \notin Q => only[t].basis = "NOT_SELECTED"
  BY DEF QualifyingOnly, ScoutResult
<1>4. Qualifying(only) = Q /\ Q \subseteq Selected(only) /\ Q \subseteq Selected(sc)
  <2>1. \A t \in Q : only[t].basis = "QUALIFYING_THRESHOLD" /\ sc[t].basis = "QUALIFYING_THRESHOLD"
    BY <1>2 DEF Qualifying
  <2>. HIDE DEF only, sc
  <2>. QED BY <1>1, <1>3, <2>1 DEF Qualifying, Selected
<1>. HIDE DEF only, sc
<1>5. \A t \in Q : Turn(only, t) = Turn(sc, t)
  <2>. SUFFICES ASSUME NEW t \in Q PROVE Turn(only, t) = Turn(sc, t)
    OBVIOUS
  <2>1. {u \in Qualifying(only) : only[u].rank < only[t].rank} =
        {u \in Q : sc[u].rank < sc[t].rank}
    BY <1>2, <1>4
  <2>. QED BY <1>4, <2>1 DEF Turn
<1>6. \A t \in Q : Execution(sec, only, max_positions, t) = Execution(sec, sc, max_positions, t)
  BY <1>4, <1>5 DEF Execution
<1>7. \A t \in Q : OutcomeResult(sec, only).pnl[t] = OutcomeResult(sec, sc).pnl[t]
  BY <1>1, <1>6 DEF OutcomeResult
<1>8. SumFunctionOnSet(OutcomeResult(sec, sc).pnl, Q) =
      SumFunctionOnSet(OutcomeResult(sec, only).pnl, Q)
  BY <1>1, <1>7, SumAgree
<1>. QED BY <1>8 DEF ScoutPnl, PnlOf, only, sc

-----------------------------------------------------------------------------
(* The comparison with chance.                                                 *)

LEMMA QualifyingAreEligible ==
    ASSUME NEW sec \in DayTables
    PROVE  /\ Qualifying(ScoutResult(sec)) \in SUBSET EligibleUniverse(sec)
           /\ DrawPossible(sec, ScoutResult(sec))
<1>1. Qualifying(ScoutResult(sec)) = QualifyingPicks(sec)
  BY SelectionGroups
<1>2. QualifyingPicks(sec) \in SUBSET EligibleUniverse(sec)
  BY DEF QualifyingPicks, EligibleUniverse, Qualifies, ResearchEligible
<1>3. EligibleUniverse(sec) \in SUBSET Tickers /\ IsFiniteSet(EligibleUniverse(sec))
  BY TickerSets DEF EligibleUniverse
<1>4. Cardinality(QualifyingPicks(sec)) <= Cardinality(EligibleUniverse(sec))
  BY <1>2, <1>3, FS_Subset
<1>. QED BY <1>1, <1>2, <1>4 DEF DrawPossible

Draws(sec, n) ==
    {S \in SUBSET EligibleUniverse(sec) : Cardinality(S) = Smaller(n, max_positions)}
PathPnls(sec) == [t \in Tickers |-> PathPnl(sec, t)]
DrawnPnls(sec) == [t \in Tickers |-> DrawnPnl(sec, t)]

LEMMA DrawnPnlType ==
    ASSUME NEW sec \in DayTables
    PROVE  \A t \in Tickers : DrawnPnls(sec)[t] \in Int
BY ProfileOf DEF DrawnPnls, DrawnPnl, PathPnl

\* the baskets of a possible draw are finitely many, and there is one
LEMMA BasketsOfDraws ==
    ASSUME NEW sec \in DayTables, NEW n \in 0..Cardinality(EligibleUniverse(sec))
    PROVE  /\ BasketPnls(sec, n) \subseteq Int /\ IsFiniteSet(BasketPnls(sec, n))
           /\ BasketPnls(sec, n) # {}
           /\ BasketPnls(sec, n) = {SumFunctionOnSet(DrawnPnls(sec), S) : S \in Draws(sec, n)}
<1>. DEFINE E == EligibleUniverse(sec)
            K == Draws(sec, n)
            B == BasketPnls(sec, n)
            f == [S \in K |-> SumFunctionOnSet(DrawnPnls(sec), S)]
<1>1. E \in SUBSET Tickers /\ IsFiniteSet(E) /\ Cardinality(E) \in Nat
  BY TickerSets DEF EligibleUniverse
<1>2. B = {SumFunctionOnSet(DrawnPnls(sec), S) : S \in K}
  BY DEF BasketPnls, PnlOf, DrawnPnls, Draws
<1>3. B \subseteq Int
  <2>1. ASSUME NEW S \in K PROVE SumFunctionOnSet(DrawnPnls(sec), S) \in Int
    <3>1. S \in SUBSET E /\ IsFiniteSet(S)
      BY <1>1, FS_Subset DEF Draws
    <3>. QED BY <1>1, <3>1, DrawnPnlType, SumType
  <2>. QED BY <1>2, <2>1
<1>4. IsFiniteSet(B)
  <2>1. IsFiniteSet(SUBSET E)
    BY <1>1, FS_SUBSET
  <2>2. IsFiniteSet(K)
    BY <2>1, FS_Subset DEF Draws
  <2>. HIDE DEF K, B
  <2>3. f \in Surjection(K, B)
    BY <1>2 DEF Surjection
  <2>. QED BY <2>2, <2>3, FS_Surjection
<1>5. B # {}
  <2>1. Smaller(n, max_positions) \in 0..Cardinality(E)
    BY <1>1, GradingAssumption DEF Smaller
  <2>2. \E S \in SUBSET E : Cardinality(S) = Smaller(n, max_positions)
    BY <1>1, <2>1, SubsetOfSize
  <2>3. K # {}
    BY <2>2 DEF Draws
  <2>. QED BY <1>2, <2>3
<1>. QED BY <1>2, <1>3, <1>4, <1>5

\* every qualifying name trades if there are positions for all of them
LEMMA EveryTurnComes ==
    ASSUME NEW sec \in DayTables,
           Cardinality(Qualifying(ScoutResult(sec))) <= max_positions
    PROVE  \A t \in Qualifying(ScoutResult(sec)) :
               OutcomeResult(sec, ScoutResult(sec)).pnl[t] = PathPnls(sec)[t]
<1>. DEFINE sc == ScoutResult(sec)
<1>. SUFFICES ASSUME NEW t \in Qualifying(sc)
              PROVE  OutcomeResult(sec, sc).pnl[t] = PathPnls(sec)[t]
  OBVIOUS
<1>1. t \in Tickers /\ t \in Selected(sc)
  BY DEF Selected, Qualifying
<1>2. sc[t].rank \in Int
  BY <1>1, ScoutRecords, RankType
<1>3. Cardinality(Qualifying(sc)) \in Nat
  BY TickerSets DEF Qualifying
<1>. HIDE DEF sc
<1>4. Turn(sc, t) \in 1..Cardinality(Qualifying(sc))
  BY <1>1, <1>2, TurnsInOrder
<1>5. Turn(sc, t) <= max_positions
  BY <1>3, <1>4, GradingAssumption DEF sc
<1>6. OutcomeResult(sec, sc).pnl[t] =
          ExecutedPnl(sec, Execution(sec, sc, max_positions, t), t)
  BY <1>1 DEF OutcomeResult
<1>7. CASE sec[t].path = "bars"
  <2>1. Execution(sec, sc, max_positions, t) = "EXECUTED"
    <3>1. ~(Turn(sc, t) > max_positions)
      BY <1>3, <1>4, <1>5, GradingAssumption DEF sc
    <3>. QED BY <1>1, <1>5, <1>7, <3>1 DEF Execution
  <2>2. ExecutedPnl(sec, "EXECUTED", t) = PathPnl(sec, t)
    BY DEF ExecutedPnl
  <2>3. PathPnls(sec)[t] = PathPnl(sec, t)
    BY <1>1 DEF PathPnls
  <2>. QED BY <1>6, <2>1, <2>2, <2>3
<1>8. CASE sec[t].path # "bars"
  BY <1>1, <1>6, <1>8 DEF Execution, ExecutedPnl, PathPnls, PathPnl
<1>. QED BY <1>7, <1>8

LEMMA ScoutPnlType ==
    ASSUME NEW sec \in DayTables, NEW sc
    PROVE  ScoutPnl(sc, OutcomeResult(sec, sc)) \in Int
<1>. DEFINE Q == Qualifying(sc)
            p == OutcomeResult(sec, sc).pnl
<1>1. Q \in SUBSET Tickers /\ IsFiniteSet(Q)
  BY TickerSets DEF Qualifying
<1>2. \A t \in Tickers : PathPnl(sec, t) \in Int
  BY ProfileOf DEF PathPnl
<1>3. \A t \in Tickers : p[t] \in Int
  BY <1>2 DEF OutcomeResult, ExecutedPnl
<1>. HIDE DEF p
<1>4. SumFunctionOnSet(p, Q) \in Int
  BY <1>1, <1>3, SumType
<1>. QED BY <1>4 DEF ScoutPnl, PnlOf, p

\* a selection that leaves chance no choice makes what chance makes
LEMMA NoChoiceNoDifference ==
    ASSUME NEW sec \in DayTables,
           \/ Qualifying(ScoutResult(sec)) = {}
           \/ /\ exit_mode = "PERCENT"
              /\ Qualifying(ScoutResult(sec)) = EligibleUniverse(sec)
              /\ Cardinality(Qualifying(ScoutResult(sec))) <= max_positions
    PROVE  BasketPnls(sec, Cardinality(Qualifying(ScoutResult(sec)))) =
               {ScoutPnl(ScoutResult(sec), OutcomeResult(sec, ScoutResult(sec)))}
<1>. DEFINE sc == ScoutResult(sec)
            Q == Qualifying(sc)
            E == EligibleUniverse(sec)
            n == Cardinality(Q)
            p == OutcomeResult(sec, sc).pnl
<1>1. /\ Q \in SUBSET E /\ Q \in SUBSET Tickers /\ IsFiniteSet(Q) /\ n \in Nat
      /\ IsFiniteSet(E) /\ n <= Cardinality(E) /\ Cardinality(E) \in Nat
  BY TickerSets, QualifyingAreEligible, FS_Subset DEF EligibleUniverse
<1>2. n <= max_positions /\ Smaller(n, max_positions) = n
  BY <1>1, GradingAssumption, FS_EmptySet DEF Smaller
<1>3. Draws(sec, n) = {Q}
  <2>1. \A S \in SUBSET E : Cardinality(S) = n => S = Q
    <3>1. SUFFICES ASSUME NEW S \in SUBSET E, Cardinality(S) = n PROVE S = Q
      OBVIOUS
    <3>2. CASE Q = {}
      <4>1. Cardinality(S) = 0 /\ IsFiniteSet(S)
        BY <1>1, <3>1, <3>2, FS_EmptySet, FS_Subset
      <4>2. S = {}
        BY <4>1, FS_EmptySet
      <4>. QED BY <3>2, <4>2
    <3>3. CASE Q = E
      BY <1>1, <3>1, <3>3, FS_Subset
    <3>. QED BY <3>2, <3>3
  <2>. QED BY <1>1, <1>2, <2>1 DEF Draws
<1>4. BasketPnls(sec, n) = {SumFunctionOnSet(DrawnPnls(sec), Q)}
  <2>1. n \in 0..Cardinality(E)
    BY <1>1
  <2>2. BasketPnls(sec, n) = {SumFunctionOnSet(DrawnPnls(sec), S) : S \in Draws(sec, n)}
    BY <2>1, BasketsOfDraws
  <2>. HIDE DEF n, Q
  <2>. QED BY <1>3, <2>2
<1>5. \A t \in Q : p[t] = DrawnPnls(sec)[t]
  <2>1. \A t \in Q : p[t] = PathPnls(sec)[t]
    BY <1>2, EveryTurnComes
  <2>2. CASE Q = {}
    BY <2>2
  <2>3. CASE exit_mode = "PERCENT"
    <3>1. PathPnls(sec) = DrawnPnls(sec)
      BY <2>3 DEF PathPnls, DrawnPnls, DrawnPnl
    <3>. QED BY <2>1, <3>1
  <2>. QED BY <2>2, <2>3
<1>. HIDE DEF p
<1>6. SumFunctionOnSet(p, Q) = SumFunctionOnSet(DrawnPnls(sec), Q)
  BY <1>1, <1>5, SumAgree
<1>. QED BY <1>4, <1>6 DEF ScoutPnl, PnlOf, p

LEMMA VerdictOfDraw ==
    ASSUME NEW sec \in DayTables,
           NEW random \in RandomMeans(sec, Cardinality(Qualifying(ScoutResult(sec))))
    PROVE  LET sc == ScoutResult(sec)
               pnl == ScoutPnl(sc, OutcomeResult(sec, sc))
               baskets == BasketPnls(sec, Cardinality(Qualifying(sc)))
               verdict == Verdict(sc, OutcomeResult(sec, sc), random)
           IN  /\ baskets = {pnl} => verdict = "TIE"
               /\ verdict = "WIN" => \E b \in baskets : b < pnl
               /\ verdict = "MISS" => \E b \in baskets : b > pnl
               /\ verdict \in {"WIN", "TIE", "MISS"}
<1>. DEFINE sc == ScoutResult(sec)
            pnl == ScoutPnl(sc, OutcomeResult(sec, sc))
            n == Cardinality(Qualifying(sc))
            B == BasketPnls(sec, n)
            verdict == Verdict(sc, OutcomeResult(sec, sc), random)
<1>1. n \in 0..Cardinality(EligibleUniverse(sec))
  <2>1. Qualifying(sc) \in SUBSET Tickers /\ n \in Nat
    BY TickerSets DEF Qualifying
  <2>2. EligibleUniverse(sec) \in SUBSET Tickers /\ Cardinality(EligibleUniverse(sec)) \in Nat
    BY TickerSets DEF EligibleUniverse
  <2>3. n <= Cardinality(EligibleUniverse(sec))
    BY QualifyingAreEligible DEF DrawPossible
  <2>. QED BY <2>1, <2>2, <2>3
<1>2. B \subseteq Int /\ IsFiniteSet(B) /\ B # {}
  BY <1>1, BasketsOfDraws
<1>3. pnl \in Int
  BY ScoutPnlType
<1>4. random \in Min(B)..Max(B)
  BY DEF RandomMeans
<1>5. verdict = IF pnl > random THEN "WIN" ELSE IF pnl < random THEN "MISS" ELSE "TIE"
  BY DEF Verdict
<1>. HIDE DEF pnl, B, verdict, n, sc
<1>6. /\ Min(B) \in B /\ (\A x \in B : Min(B) <= x)
      /\ Max(B) \in B /\ (\A x \in B : x <= Max(B))
  BY <1>2, MaxIsMember, MinIsMember
<1>7. Min(B) \in Int /\ Max(B) \in Int /\ random \in Int /\ Min(B) <= random /\ random <= Max(B)
  <2>. DEFINE lo == Min(B)
              hi == Max(B)
  <2>1. lo \in Int /\ hi \in Int
    BY <1>2, <1>6
  <2>2. random \in lo..hi
    BY <1>4
  <2>. HIDE DEF lo, hi
  <2>3. random \in Int /\ lo <= random /\ random <= hi
    BY <2>1, <2>2
  <2>. QED BY <2>1, <2>3 DEF lo, hi
<1>8. B = {pnl} => verdict = "TIE"
  BY <1>3, <1>5, <1>6, <1>7
<1>9. verdict = "WIN" => \E b \in B : b < pnl
  BY <1>3, <1>5, <1>6, <1>7
<1>10. verdict = "MISS" => \E b \in B : b > pnl
  BY <1>3, <1>5, <1>6, <1>7
<1>11. verdict \in {"WIN", "TIE", "MISS"}
  BY <1>5
<1>. QED BY <1>8, <1>9, <1>10, <1>11 DEF pnl, B, verdict, n, sc

-----------------------------------------------------------------------------
(* The explanations.                                                           *)

\* what is said of a mover, for every table of the day
LEMMA ReasonOfMiss ==
    ASSUME NEW sec \in DayTables, NEW out, NEW t \in Tickers
    PROVE  LET sc == ScoutResult(sec)
               class == ClassifyMiss(sec, sc, out, t)
               reach == Reachability(sec, BarStatistics(sec), sc, t)
           IN  /\ class # "UNCLASSIFIED"
               /\ (shadow_min_premarket_bars = 10 /\ t \notin Selected(sc)) =>
                      (sc[t].status = "NOT_SCORABLE" <=> reach \in {"bars_0", "bars_1_9"})
               /\ (minimum_real_bars_60m = 30 /\ sec[t].eligible) =>
                     /\ class = "INVISIBLE_AT_FREEZE" <=> reach \in {"bars_0", "bars_1_9", "bars_10_29"}
                     /\ class = "VISIBLE_SCORED_LOW" <=> reach = "visible_scored_low"
                     /\ class = "VISIBLE_REVERSAL_CANDIDATE" <=> reach = "visible_reversal_candidate"
                     /\ class = "VISIBLE_GUARDRAIL_REJECTED" <=> reach = "visible_guardrail_rejected"
               /\ class \in {"VISIBLE_GUARDRAIL_REJECTED", "VISIBLE_SCORED_LOW"} =>
                     /\ sc[t].status = "SCORED" /\ sec[t].eligible /\ t \notin Selected(sc)
                     /\ class = "VISIBLE_SCORED_LOW" => ResearchEligible(sec[t])
<1>. DEFINE sc == ScoutResult(sec)
            class == ClassifyMiss(sec, sc, out, t)
            reach == Reachability(sec, BarStatistics(sec), sc, t)
<1>0. PremarketCount(sec, BarStatistics(sec), t) = sec[t].bars60
  BY DEF PremarketCount, BarStatistics
<1>. DEFINE agree ==
                /\ class = "INVISIBLE_AT_FREEZE" <=> reach \in {"bars_0", "bars_1_9", "bars_10_29"}
                /\ class = "VISIBLE_SCORED_LOW" <=> reach = "visible_scored_low"
                /\ class = "VISIBLE_REVERSAL_CANDIDATE" <=> reach = "visible_reversal_candidate"
                /\ class = "VISIBLE_GUARDRAIL_REJECTED" <=> reach = "visible_guardrail_rejected"
            fed ==
                class \in {"VISIBLE_GUARDRAIL_REJECTED", "VISIBLE_SCORED_LOW"} =>
                    /\ sc[t].status = "SCORED" /\ sec[t].eligible /\ t \notin Selected(sc)
                    /\ class = "VISIBLE_SCORED_LOW" => ResearchEligible(sec[t])
<1>10. sec[t].bars60 \in Nat /\ sec[t].rejected \in BOOLEAN /\ sec[t].points \in Nat
       /\ sec[t].reversal \in Int
  BY ProfileOf
<1>11. ASSUME shadow_min_premarket_bars = 10, t \notin Selected(sc)
       PROVE  sc[t].status = "NOT_SCORABLE" <=> reach \in {"bars_0", "bars_1_9"}
  <2>1. sc[t].status = "NOT_SCORABLE" <=> sec[t].bars60 < 10
    BY <1>11, ScoutRecords DEF Status
  <2>2. reach \in {"bars_0", "bars_1_9"} <=> sec[t].bars60 < 10
    BY <1>0, <1>10, <1>11 DEF Reachability
  <2>. QED BY <2>1, <2>2
<1>1. CASE t \in Selected(sc)
  <2>1. class \in {"PICKED_EXECUTION_LOSS", "NONE"} /\ reach = "picked"
    BY <1>1 DEF ClassifyMiss, Reachability
  <2>2. class # "UNCLASSIFIED" /\ agree /\ fed
    BY <2>1
  <2>. HIDE DEF agree, fed
  <2>. QED BY <1>1, <2>2 DEF agree, fed
<1>2. CASE t \notin Selected(sc) /\ ~sec[t].eligible
  <2>1. class = "NOT_IN_UNIVERSE"
    BY <1>2 DEF ClassifyMiss
  <2>. QED BY <1>2, <1>11, <2>1
<1>3. CASE t \notin Selected(sc) /\ sec[t].eligible /\ sec[t].bars60 < minimum_real_bars_60m
  <2>1. class = "INVISIBLE_AT_FREEZE"
    BY <1>3 DEF ClassifyMiss, InvisibleAtFreeze
  <2>2. minimum_real_bars_60m = 30 => reach \in {"bars_0", "bars_1_9", "bars_10_29"}
    BY <1>0, <1>3 DEF Reachability
  <2>. QED BY <1>11, <2>1, <2>2
<1>4. CASE t \notin Selected(sc) /\ sec[t].eligible /\ ~(sec[t].bars60 < minimum_real_bars_60m)
  <2>2. ~(sec[t].bars60 < shadow_min_premarket_bars)
    BY <1>4, <1>10, ScoutAssumption
  <2>3. Status(sec[t]) = "SCORED"
    BY <1>4, <2>2 DEF Status
  <2>4. /\ sc[t].status = "SCORED" /\ sc[t].rejected = sec[t].rejected
        /\ sc[t].points = sec[t].points /\ sc[t].reversal = sec[t].reversal
    BY <1>10, <2>3, ScoutRecords DEF Rejected, Points, ReversalScore
  <2>5. ~sec[t].rejected => ~(sec[t].points >= threshold_points)
    <3>1. t \notin QualifyingPicks(sec)
      BY <1>4, SelectionGroups
    <3>. QED BY <1>4, <2>3, <3>1 DEF QualifyingPicks, Qualifies, ResearchEligible, Rejected, Points
  <2>6. sec[t].points < threshold_points <=> ~(sec[t].points >= threshold_points)
    BY <1>10, ScoutAssumption
  <2>. DEFINE seen == IF sec[t].rejected THEN "visible_guardrail_rejected"
                      ELSE IF sec[t].reversal >= reversal_threshold
                           THEN "visible_reversal_candidate" ELSE "visible_scored_low"
  <2>7. minimum_real_bars_60m = 30 => reach = seen
    <3>1. minimum_real_bars_60m = 30 =>
              ~(sec[t].bars60 = 0) /\ ~(sec[t].bars60 < 10) /\ ~(sec[t].bars60 < 30)
      BY <1>4, <1>10
    <3>. QED BY <1>0, <1>4, <2>4, <2>5, <2>6, <3>1 DEF Reachability
  <2>8. CASE sec[t].rejected
    <3>1. class = "VISIBLE_GUARDRAIL_REJECTED"
      BY <1>4, <2>4, <2>8 DEF ClassifyMiss, InvisibleAtFreeze
    <3>. QED BY <1>4, <1>11, <2>4, <2>7, <2>8, <3>1
  <2>9. CASE ~sec[t].rejected /\ sec[t].reversal >= reversal_threshold
    <3>1. class = "VISIBLE_REVERSAL_CANDIDATE"
      BY <1>4, <2>4, <2>5, <2>9 DEF ClassifyMiss, InvisibleAtFreeze
    <3>. QED BY <1>11, <2>7, <2>9, <3>1
  <2>10. CASE ~sec[t].rejected /\ ~(sec[t].reversal >= reversal_threshold)
    <3>1. class = "VISIBLE_SCORED_LOW"
      BY <1>4, <2>4, <2>5, <2>10 DEF ClassifyMiss, InvisibleAtFreeze
    <3>2. ResearchEligible(sec[t])
      BY <1>4, <2>10 DEF ResearchEligible, Rejected
    <3>. QED BY <1>4, <1>11, <2>4, <2>7, <2>10, <3>1, <3>2
  <2>. QED BY <1>10, <2>8, <2>9, <2>10
<1>. QED BY <1>1, <1>2, <1>3, <1>4

-----------------------------------------------------------------------------
(* The ranks.                                                                  *)

\* the places of a set are 1, 2, 3, ...
LEMMA PlacesNumber ==
    ASSUME NEW S \in SUBSET Tickers, NEW key, \A t \in S : key[t] \in Int
    PROVE  {Place(S, key, t) : t \in S} = 1..Cardinality(S)
<1>. DEFINE R == {p \in S \X S : key[p[1]] > key[p[2]] \/ (key[p[1]] = key[p[2]] /\ p[1] < p[2])}
            n == Cardinality(S)
<1>1. IsFiniteSet(S) /\ n \in Nat /\ \A t \in S : t \in Nat
  BY TickerSets, ScoutAssumption
<1>2. \A x, y \in S : <<x, y>> \in R <=> key[x] > key[y] \/ (key[x] = key[y] /\ x < y)
  OBVIOUS
<1>3. StrictOrder(R, S)
  <2>. HIDE DEF R
  <2>. QED BY <1>1, <1>2 DEF StrictOrder
<1>4. \A t \in S : Place(S, key, t) = Cardinality(Before(R, S, t)) + 1
  <2>. SUFFICES ASSUME NEW t \in S PROVE Place(S, key, t) = Cardinality(Before(R, S, t)) + 1
    OBVIOUS
  <2>1. Ahead(S, key, t) = Before(R, S, t)
    BY <1>2 DEF Ahead, Before
  <2>. QED BY <2>1 DEF Place
<1>. HIDE DEF R, n
<1>5. \A t \in S : Cardinality(Before(R, S, t)) \in 0..(n - 1)
  BY <1>1, <1>3, CountsGrow DEF n
<1>6. \A k \in 0..(n - 1) : \E t \in S : Cardinality(Before(R, S, t)) = k
  BY <1>1, <1>3, CountsNumber DEF n
<1>7. \A t \in S : Place(S, key, t) \in 1..n
  BY <1>1, <1>4, <1>5
<1>8. \A k \in 1..n : \E t \in S : Place(S, key, t) = k
  <2>. SUFFICES ASSUME NEW k \in 1..n PROVE \E t \in S : Place(S, key, t) = k
    OBVIOUS
  <2>1. k - 1 \in 0..(n - 1)
    BY <1>1
  <2>2. PICK t \in S : Cardinality(Before(R, S, t)) = k - 1
    BY <1>6, <2>1
  <2>. QED BY <1>1, <1>4, <2>2
<1>. QED BY <1>7, <1>8 DEF n

\* the three groups are numbered one after the other, without a gap
LEMMA RanksOfSelection ==
    ASSUME NEW sec \in DayTables
    PROVE  {ScoutResult(sec)[t].rank : t \in Selected(ScoutResult(sec))} =
               1..Cardinality(Selected(ScoutResult(sec)))
<1>. DEFINE Q == QualifyingPicks(sec)
            E == ExplorationPicks(sec)
            V == ReversalPicks(sec)
            S == Selected(ScoutResult(sec))
            q == Cardinality(Q)
            e == Cardinality(E)
            v == Cardinality(V)
<1>1. /\ Q \in SUBSET Tickers /\ E \in SUBSET Tickers /\ V \in SUBSET Tickers
      /\ Q \cap E = {} /\ Q \cap V = {} /\ E \cap V = {} /\ S = Q \cup E \cup V
  BY GroupsApart, SelectionGroups
<1>2. /\ IsFiniteSet(Q) /\ IsFiniteSet(E) /\ IsFiniteSet(V)
      /\ q \in Nat /\ e \in Nat /\ v \in Nat
  BY <1>1, TickerSets
<1>3. Cardinality(S) = q + e + v
  <2>1. IsFiniteSet(Q \cup E) /\ Cardinality(Q \cup E) = q + e - Cardinality(Q \cap E)
    BY <1>2, FS_Union
  <2>2. Cardinality((Q \cup E) \cup V) = Cardinality(Q \cup E) + v - Cardinality((Q \cup E) \cap V)
    BY <1>2, <2>1, FS_Union
  <2>3. (Q \cup E) \cap V = {}
    BY <1>1
  <2>4. Cardinality(Q \cap E) = 0 /\ Cardinality((Q \cup E) \cap V) = 0
    BY <1>1, <2>3, FS_EmptySet
  <2>. HIDE DEF Q, E, V
  <2>. QED BY <1>1, <1>2, <2>1, <2>2, <2>4
<1>4. /\ \A t \in Tickers : PointsOf(sec)[t] \in Int /\ ReversalOf(sec)[t] \in Int
  BY ProfileOf DEF PointsOf, ReversalOf, Points, ReversalScore
<1>5. /\ {Place(Q, PointsOf(sec), t) : t \in Q} = 1..q
      /\ {Place(E, PointsOf(sec), t) : t \in E} = 1..e
      /\ {Place(V, ReversalOf(sec), t) : t \in V} = 1..v
  <2>1. \A A \in SUBSET Tickers : {Place(A, PointsOf(sec), t) : t \in A} = 1..Cardinality(A)
    BY <1>4, PlacesNumber
  <2>2. \A A \in SUBSET Tickers : {Place(A, ReversalOf(sec), t) : t \in A} = 1..Cardinality(A)
    BY <1>4, PlacesNumber
  <2>. QED BY <1>1, <2>1, <2>2
<1>6. /\ \A t \in Q : ScoutResult(sec)[t].rank = Place(Q, PointsOf(sec), t)
      /\ \A t \in E : ScoutResult(sec)[t].rank = q + Place(E, PointsOf(sec), t)
      /\ \A t \in V : ScoutResult(sec)[t].rank = q + e + Place(V, ReversalOf(sec), t)
  <2>1. \A t \in Q : Rank(sec, t) = Place(Q, PointsOf(sec), t)
    BY <1>1 DEF Rank
  <2>2. \A t \in E : Rank(sec, t) = q + Place(E, PointsOf(sec), t)
    BY <1>1 DEF Rank
  <2>3. \A t \in V : Rank(sec, t) = q + e + Place(V, ReversalOf(sec), t)
    BY <1>1 DEF Rank
  <2>. QED BY <1>1, <2>1, <2>2, <2>3, ScoutRecords
<1>. DEFINE rank == [t \in S |-> ScoutResult(sec)[t].rank]
            pq == [t \in Q |-> Place(Q, PointsOf(sec), t)]
            pe == [t \in E |-> Place(E, PointsOf(sec), t)]
            pv == [t \in V |-> Place(V, ReversalOf(sec), t)]
<1>7. /\ \A t \in Q : pq[t] \in 1..q /\ rank[t] = pq[t]
      /\ \A t \in E : pe[t] \in 1..e /\ rank[t] = q + pe[t]
      /\ \A t \in V : pv[t] \in 1..v /\ rank[t] = q + e + pv[t]
  <2>1. \A t \in Q : Place(Q, PointsOf(sec), t) \in 1..q
    BY <1>5
  <2>2. \A t \in E : Place(E, PointsOf(sec), t) \in 1..e
    BY <1>5
  <2>3. \A t \in V : Place(V, ReversalOf(sec), t) \in 1..v
    BY <1>5
  <2>. QED BY <1>1, <1>6, <2>1, <2>2, <2>3
<1>8. /\ \A k \in 1..q : \E t \in Q : pq[t] = k
      /\ \A k \in 1..e : \E t \in E : pe[t] = k
      /\ \A k \in 1..v : \E t \in V : pv[t] = k
  BY <1>5
<1>9. {ScoutResult(sec)[t].rank : t \in S} = {rank[t] : t \in S}
  OBVIOUS
<1>. HIDE DEF Q, E, V, S, q, e, v, rank, pq, pe, pv
<1>10. \A t \in S : rank[t] \in 1..(q + e + v)
  BY <1>1, <1>2, <1>7
<1>11. ASSUME NEW k \in 1..(q + e + v) PROVE \E t \in S : rank[t] = k
  <2>1. CASE k \in 1..q
    BY <1>1, <1>2, <1>7, <1>8, <2>1
  <2>2. CASE k - q \in 1..e
    <3>1. PICK t \in E : pe[t] = k - q
      BY <1>8, <2>2
    <3>. QED BY <1>1, <1>2, <1>7, <3>1
  <2>3. CASE k - q - e \in 1..v
    <3>1. PICK t \in V : pv[t] = k - q - e
      BY <1>8, <2>3
    <3>. QED BY <1>1, <1>2, <1>7, <3>1
  <2>. QED BY <1>2, <2>1, <2>2, <2>3
<1>12. {rank[t] : t \in S} = 1..(q + e + v)
  BY <1>10, <1>11
<1>. QED BY <1>3, <1>9, <1>12 DEF S

-----------------------------------------------------------------------------
(* The day.                                                                    *)
ExplanationOf(sec, stats, sc, out, bm) ==
    LET class == [t \in DOMAIN bm.movers |-> ClassifyMiss(sec, sc, out, t)]
    IN  [class |-> class,
         reach |-> [t \in DOMAIN class |-> Reachability(sec, stats, sc, t)],
         failures |-> FeatureFailures(class)]

\* every artifact that is there is what its stage makes of those before it
DayInv ==
    /\ dayStage \in {"collect", "score", "grade", "compare", "explain", "explained"}
    /\ evidence \in BOOLEAN
    /\ IF dayStage = "collect" THEN securities = Nothing ELSE securities \in DayTables
    /\ statistics = IF dayStage = "collect" THEN Nothing ELSE BarStatistics(securities)
    /\ IF dayStage \in {"collect", "score"} THEN scout = Nothing
       ELSE scout = ScoutResult(securities)
    /\ IF dayStage \in {"collect", "score", "grade"} THEN outcome = Nothing
       ELSE outcome = OutcomeResult(securities, scout)
    /\ IF dayStage \in {"collect", "score", "grade", "compare"} THEN benchmark = Nothing
       ELSE \E random \in RandomMeans(securities, Cardinality(Qualifying(scout))) :
                benchmark = BenchmarkResult(securities, scout, outcome, random)
    /\ IF dayStage # "explained" THEN postmortem = Nothing
       ELSE postmortem = ExplanationOf(securities, statistics, scout, outcome, benchmark)

LEMMA DayInitial == DayInit => DayInv
BY DEF DayInit, DayInv

LEMMA DayStep == DayInv /\ [DayNext]_dayVars => DayInv'
<1>. SUFFICES ASSUME DayInv, [DayNext]_dayVars PROVE DayInv'
  OBVIOUS
<1>1. ASSUME NEW sec \in [Tickers -> Profiles], NEW complete \in BOOLEAN, TakeSnapshot(sec, complete)
      PROVE  DayInv'
  BY <1>1 DEF DayInv, TakeSnapshot, DayTables
<1>2. CASE RunScout
  BY <1>2 DEF DayInv, RunScout
<1>3. CASE GradeOutcomes
  BY <1>3 DEF DayInv, GradeOutcomes
<1>4. CASE BuildBenchmark
  <2>1. dayStage = "compare" /\ dayStage' = "explain"
        /\ UNCHANGED <<evidence, securities, statistics, scout, outcome, postmortem>>
    BY <1>4 DEF BuildBenchmark
  <2>2. PICK random \in RandomMeans(securities, Cardinality(Qualifying(scout))) :
            benchmark' = BenchmarkResult(securities, scout, outcome, random)
    BY <1>4 DEF BuildBenchmark
  <2>3. /\ securities' = securities /\ statistics' = statistics
        /\ scout' = scout /\ outcome' = outcome
    BY <2>1
  <2>4. \E r \in RandomMeans(securities', Cardinality(Qualifying(scout'))) :
            benchmark' = BenchmarkResult(securities', scout', outcome', r)
    BY <2>2, <2>3
  <2>. QED BY <2>1, <2>4 DEF DayInv
<1>5. CASE BuildPostmortem
  <2>1. postmortem' = ExplanationOf(securities, statistics, scout, outcome, benchmark)
    BY <1>5 DEF BuildPostmortem, ExplanationOf
  <2>. QED BY <1>5, <2>1 DEF DayInv, BuildPostmortem
<1>6. CASE UNCHANGED dayVars
  BY <1>6 DEF DayInv, dayVars
<1>. QED BY <1>1, <1>2, <1>3, <1>4, <1>5, <1>6 DEF DayNext

LEMMA DayInduction == DaySpec => []DayInv
BY DayInitial, DayStep, PTL DEF DaySpec

-----------------------------------------------------------------------------
\* The ranks of the selected names are 1, 2, 3, ..., whatever was selected.
THEOREM DayTypes == DaySpec => []DayTypeOK
<1>1. DayInv => DayTypeOK
  <2>. SUFFICES ASSUME DayInv PROVE DayTypeOK
    OBVIOUS
  <2>1. securities \in [Tickers -> Profiles] \cup {Nothing}
    BY DEF DayInv, DayTables
  <2>2. ASSUME scout # Nothing
        PROVE {scout[t].rank : t \in Selected(scout)} = 1..Cardinality(Selected(scout))
    <3>1. scout = ScoutResult(securities) /\ securities \in DayTables
      BY <2>2 DEF DayInv
    <3>2. {ScoutResult(securities)[t].rank : t \in Selected(ScoutResult(securities))} =
               1..Cardinality(Selected(ScoutResult(securities)))
      BY <3>1, RanksOfSelection
    <3>. QED BY <3>1, <3>2
  <2>3. ASSUME outcome # Nothing
        PROVE outcome.execution \in
               [Tickers -> {"NO_TRADE", "EXECUTED", "MAX_POSITIONS_REACHED", "NONE"}]
    <3>1. outcome = OutcomeResult(securities, scout)
      BY <2>3 DEF DayInv
    <3>2. \A t \in Tickers : Execution(securities, scout, max_positions, t) \in
                              {"NO_TRADE", "EXECUTED", "MAX_POSITIONS_REACHED", "NONE"}
      BY DEF Execution
    <3>. QED BY <3>1, <3>2 DEF OutcomeResult
  <2>4. ASSUME benchmark # Nothing PROVE benchmark.result \in {"WIN", "TIE", "MISS"}
    <3>1. PICK random : benchmark = BenchmarkResult(securities, scout, outcome, random)
      BY <2>4 DEF DayInv
    <3>. QED BY <3>1 DEF BenchmarkResult, Verdict
  <2>5. DOMAIN statistics \subseteq Tickers /\ statistics \in [DOMAIN statistics -> Nat]
    <3>1. CASE dayStage = "collect"
      BY <3>1 DEF DayInv, Nothing
    <3>2. CASE dayStage # "collect"
      <4>1. securities \in DayTables /\ statistics = BarStatistics(securities)
        BY <3>2 DEF DayInv
      <4>. QED BY <4>1, ProfileOf DEF BarStatistics
    <3>. QED BY <3>1, <3>2
  <2>. QED BY <2>1, <2>2, <2>3, <2>4, <2>5 DEF DayInv, DayTypeOK
<1>. QED BY <1>1, DayInduction, PTL

\* Under either policy no explored name trades while a qualifying one is refused,
\* and the result of the day is what it would be without any exploration.
THEOREM ExplorationCostsNothing == DaySpec => []ExplorationIsFree
<1>1. DayInv => ExplorationIsFree
  <2>. SUFFICES ASSUME DayInv, outcome # Nothing PROVE ExplorationIsFree
    BY DEF ExplorationIsFree
  <2>1. /\ outcome = OutcomeResult(securities, scout) /\ scout = ScoutResult(securities)
        /\ securities \in DayTables
    BY DEF DayInv
  <2>2. ASSUME NEW positions \in Nat, NEW t \in Exploring(scout), NEW u \in Qualifying(scout),
               Execution(securities, scout, positions, t) = "EXECUTED"
        PROVE  Execution(securities, scout, positions, u) # "MAX_POSITIONS_REACHED"
    BY <2>1, <2>2, NoSlotIsTaken
  <2>3. /\ \A t \in Exploring(scout) : t \in Selected(scout)
        /\ \A t \in Qualifying(scout) : t \in Selected(scout)
        /\ Selected(scout) \subseteq Tickers
    BY DEF Exploring, Qualifying, Selected
  <2>4. max_positions \in Nat /\ comparison_positions \in Nat
    BY GradingAssumption
  <2>5. \A t \in Selected(scout) :
            /\ outcome.execution[t] = Execution(securities, scout, max_positions, t)
            /\ outcome.comparison.selection[t] =
                   Execution(securities, scout, comparison_positions, t)
    BY <2>1, <2>3 DEF OutcomeResult, PolicyComparison
  <2>6. \A execution \in {outcome.execution, outcome.comparison.selection} :
              (\E t \in Exploring(scout) : execution[t] = "EXECUTED")
                  => \A u \in Qualifying(scout) : execution[u] # "MAX_POSITIONS_REACHED"
    BY <2>2, <2>3, <2>4, <2>5
  <2>7. ScoutPnl(scout, outcome) =
               ScoutPnl(scout, OutcomeResult(securities, QualifyingOnly(scout)))
    BY <2>1, SamePnl
  <2>. QED BY <2>6, <2>7 DEF ExplorationIsFree
<1>. QED BY <1>1, DayInduction, PTL

\* The draw is always possible, a selection that leaves chance no choice is a
\* tie, and a verdict rests on a basket that is really worse, or better.
THEOREM ComparisonIsFair == DaySpec => []VerdictIsFair
<1>1. DayInv => VerdictIsFair
  <2>. SUFFICES ASSUME DayInv PROVE VerdictIsFair
    OBVIOUS
  <2>1. dayStage = "compare" => DrawPossible(securities, scout)
    BY QualifyingAreEligible DEF DayInv
  <2>2. ASSUME benchmark # Nothing
        PROVE  LET picked == Qualifying(scout)
                   baskets == BasketPnls(securities, Cardinality(picked))
               IN  /\ (picked = {} \/ (exit_mode = "PERCENT"
                                       /\ picked = {t \in Tickers : securities[t].eligible}
                                       /\ Cardinality(picked) <= max_positions))
                          => benchmark.result = "TIE"
                   /\ benchmark.result = "WIN" => \E b \in baskets : b < ScoutPnl(scout, outcome)
                   /\ benchmark.result = "MISS" => \E b \in baskets : b > ScoutPnl(scout, outcome)
    <3>1. /\ outcome = OutcomeResult(securities, scout) /\ scout = ScoutResult(securities)
          /\ securities \in DayTables
      BY <2>2 DEF DayInv
    <3>2. PICK random \in RandomMeans(securities, Cardinality(Qualifying(scout))) :
              benchmark = BenchmarkResult(securities, scout, outcome, random)
      BY <2>2 DEF DayInv
    <3>3. benchmark.result = Verdict(scout, outcome, random)
      BY <3>2 DEF BenchmarkResult
    <3>. DEFINE picked == Qualifying(scout)
                baskets == BasketPnls(securities, Cardinality(picked))
    <3>4. /\ baskets = {ScoutPnl(scout, outcome)} => benchmark.result = "TIE"
          /\ benchmark.result = "WIN" => \E b \in baskets : b < ScoutPnl(scout, outcome)
          /\ benchmark.result = "MISS" => \E b \in baskets : b > ScoutPnl(scout, outcome)
      BY <3>1, <3>2, <3>3, VerdictOfDraw
    <3>5. (picked = {} \/ (exit_mode = "PERCENT"
                           /\ picked = {t \in Tickers : securities[t].eligible}
                           /\ Cardinality(picked) <= max_positions))
              => baskets = {ScoutPnl(scout, outcome)}
      BY <3>1, NoChoiceNoDifference DEF EligibleUniverse
    <3>. QED BY <3>4, <3>5
  <2>. QED BY <2>1, <2>2 DEF VerdictIsFair
<1>. QED BY <1>1, DayInduction, PTL

\* Every missed mover has a known reason; the table, which has limits of its own in
\* the code and reads another count, agrees with the list under the minimum that is
\* shipped, whatever the other constants are; and hypotheses are fed only by names
\* the Scout could see and have taken.
THEOREM EveryMissIsExplained == DaySpec => []MissesExplained
<1>1. DayInv => MissesExplained
  <2>. SUFFICES ASSUME DayInv, postmortem # Nothing PROVE MissesExplained
    BY DEF MissesExplained
  <2>1. /\ scout = ScoutResult(securities) /\ securities \in DayTables
        /\ statistics = BarStatistics(securities)
        /\ postmortem = ExplanationOf(securities, statistics, scout, outcome, benchmark)
    BY DEF DayInv
  <2>2. PICK random : benchmark = BenchmarkResult(securities, scout, outcome, random)
    BY DEF DayInv
  <2>3. DOMAIN benchmark.movers \subseteq Tickers
    BY <2>2 DEF BenchmarkResult, TopOutcomes, FirstOf
  <2>. DEFINE movers == DOMAIN benchmark.movers
              class == [t \in movers |-> ClassifyMiss(securities, scout, outcome, t)]
  <2>4. /\ postmortem.class = class
        /\ postmortem.reach = [t \in movers |-> Reachability(securities, statistics, scout, t)]
        /\ postmortem.failures = FeatureFailures(class)
    BY <2>1 DEF ExplanationOf
  <2>5. /\ DOMAIN class = movers
        /\ \A t \in movers : /\ class[t] = ClassifyMiss(securities, scout, outcome, t)
                             /\ postmortem.reach[t] = Reachability(securities, statistics, scout, t)
    BY <2>4
  <2>6. ASSUME NEW t \in movers
        PROVE  /\ class[t] # "UNCLASSIFIED"
               /\ (shadow_min_premarket_bars = 10 /\ t \notin Selected(scout)) =>
                      (scout[t].status = "NOT_SCORABLE"
                           <=> postmortem.reach[t] \in {"bars_0", "bars_1_9"})
               /\ (minimum_real_bars_60m = 30 /\ securities[t].eligible) =>
                     /\ class[t] = "INVISIBLE_AT_FREEZE"
                            <=> postmortem.reach[t] \in {"bars_0", "bars_1_9", "bars_10_29"}
                     /\ class[t] = "VISIBLE_SCORED_LOW" <=> postmortem.reach[t] = "visible_scored_low"
                     /\ class[t] = "VISIBLE_REVERSAL_CANDIDATE"
                            <=> postmortem.reach[t] = "visible_reversal_candidate"
                     /\ class[t] = "VISIBLE_GUARDRAIL_REJECTED"
                            <=> postmortem.reach[t] = "visible_guardrail_rejected"
               /\ class[t] \in {"VISIBLE_GUARDRAIL_REJECTED", "VISIBLE_SCORED_LOW"} =>
                     /\ scout[t].status = "SCORED" /\ securities[t].eligible /\ t \notin Selected(scout)
                     /\ class[t] = "VISIBLE_SCORED_LOW" => ResearchEligible(securities[t])
    <3>1. t \in Tickers
      BY <2>3
    <3>. HIDE DEF class
    <3>. QED BY <2>1, <2>5, <3>1, ReasonOfMiss
  <2>. HIDE DEF class, movers
  <2>7. /\ DOMAIN postmortem.failures = {"aggregate_liquidity", "selection_threshold"}
        /\ \A h \in DOMAIN postmortem.failures : \A t \in postmortem.failures[h] :
              /\ t \in movers
              /\ class[t] \in {"VISIBLE_GUARDRAIL_REJECTED", "VISIBLE_SCORED_LOW"}
              /\ h = "selection_threshold" => class[t] = "VISIBLE_SCORED_LOW"
    BY <2>4, <2>5 DEF FeatureFailures
  <2>. QED BY <2>4, <2>5, <2>6, <2>7 DEF MissesExplained
<1>. QED BY <1>1, DayInduction, PTL

-----------------------------------------------------------------------------
(* The walk of a position.  It stays within what it was sized for, for every   *)
(* policy, every price and every sequence of bars.  The invariant follows the  *)
(* open position: the stop never falls below the floor it started from, so a   *)
(* bar that leaves the position open also closes above that floor.             *)
Floor(entry, atr) == 100 * entry - StopDistance(entry, atr)

\* what holds of a position while it is open
OpenInv ==
    trade.stage = "open" =>
        /\ trade.entry \in Prices /\ trade.atr \in AverageRanges
        /\ policy.exit_mode = "ATR" => trade.atr > 0
        /\ trade.shares = Shares(trade.entry, trade.atr)
        /\ trade.highest \in Nat /\ trade.highest >= trade.entry
        /\ trade.bars \in 0..1 /\ trade.close \in Nat
        /\ trade.bars = 1 =>
               /\ 100 * trade.close > Floor(trade.entry, trade.atr)
               /\ 100 * trade.close < TargetPrice(trade.entry, trade.atr)
        /\ 100 * trade.highest < TargetPrice(trade.entry, trade.atr)

TradeInv ==
    /\ TradeTypeOK
    /\ OpenInv
    /\ LossBounded

-----------------------------------------------------------------------------
(* Arithmetic.                                                                 *)
LEMMA QuotientBound ==
    ASSUME NEW a \in Nat, NEW b \in Nat, b > 0
    PROVE  /\ a \div b \in Nat
           /\ (a \div b) * b <= a
OBVIOUS

LEMMA ProductMonotone ==
    ASSUME NEW x \in Int, NEW y \in Int, NEW z \in Nat, x <= y
    PROVE  /\ x * z \in Int /\ y * z \in Int /\ z * x \in Int /\ z * y \in Int
           /\ x * z <= y * z
           /\ z * x <= z * y
<1>1. y - x \in Nat BY SMT
<1>2. (y - x) * z >= 0 BY <1>1, SMT
<1>. QED BY <1>2, SMT

(* The distance of the stop and of the target are whole and positive.          *)
LEMMA Distances ==
    ASSUME NEW e \in Nat, NEW a \in Nat, e > 0, policy \in Policies,
           policy.exit_mode = "ATR" => a > 0
    PROVE  /\ StopDistance(e, a) \in Nat /\ StopDistance(e, a) > 0
           /\ TargetPrice(e, a) \in Nat /\ TargetPrice(e, a) > 100 * e
           /\ Floor(e, a) \in Int /\ Floor(e, a) < 100 * e
<1>1. /\ policy.exit_mode \in {"PERCENT", "ATR"}
      /\ policy.stop \in Nat /\ policy.stop > 0
      /\ policy.target \in Nat /\ policy.target > 0
  BY TradePolicyAssumption
<1>2. CASE policy.exit_mode = "PERCENT"
  <2>1. e * policy.stop \in Nat /\ e * policy.stop > 0 BY <1>1, SMT
  <2>2. e * policy.target \in Nat /\ e * policy.target > 0 BY <1>1, SMT
  <2>. QED BY <1>2, <2>1, <2>2 DEF StopDistance, TargetPrice, Floor
<1>3. CASE policy.exit_mode = "ATR"
  <2>1. a * policy.stop \in Nat /\ a * policy.stop > 0 BY <1>1, <1>3, SMT
  <2>2. a * policy.target \in Nat /\ a * policy.target > 0 BY <1>1, <1>3, SMT
  <2>3. StopDistance(e, a) = 100 * (a * policy.stop) BY <1>1, <1>3, SMT DEF StopDistance
  <2>4. TargetPrice(e, a) = 100 * e + 100 * (a * policy.target)
    BY <1>1, <1>3, SMT DEF TargetPrice
  <2>. QED BY <2>1, <2>2, <2>3, <2>4 DEF Floor
<1>. QED BY <1>1, <1>2, <1>3

(* calculate_share_quantity(): the shares cost no more than the allocation,    *)
(* and lose no more than the budget when the position is sized by risk.        *)
LEMMA SharesBounded ==
    ASSUME NEW e \in Nat, NEW a \in Nat, e > 0, policy \in Policies,
           policy.exit_mode = "ATR" => a > 0
    PROVE  /\ Shares(e, a) \in Nat
           /\ Shares(e, a) * e <= position_value
           /\ policy.sizing_mode = "RISK_PER_TRADE" =>
                  Shares(e, a) * StopDistance(e, a) <= 100 * risk_budget
<1>. DEFINE d == StopDistance(e, a)
            risked == (100 * risk_budget) \div d
<1>1. d \in Nat /\ d > 0 BY Distances
<1>2. position_value \in Nat /\ 100 * risk_budget \in Nat BY PriceAssumption
<1>3. /\ Affordable(e) \in Nat
      /\ Affordable(e) * e <= position_value
  BY <1>2, QuotientBound DEF Affordable
<1>. HIDE DEF d
<1>4. risked \in Nat /\ risked * d <= 100 * risk_budget
  BY <1>1, <1>2, QuotientBound
<1>5. Shares(e, a) = IF policy.sizing_mode = "RISK_PER_TRADE" /\ risked < Affordable(e)
                     THEN risked ELSE Affordable(e)
  BY DEF Shares, d
<1>. HIDE DEF risked
<1>6. Shares(e, a) \in Nat /\ Shares(e, a) <= Affordable(e)
  BY <1>3, <1>4, <1>5
<1>7. Shares(e, a) * e <= position_value
  <2>1. Shares(e, a) * e <= Affordable(e) * e BY <1>3, <1>6, ProductMonotone
  <2>2. Shares(e, a) * e \in Int /\ Affordable(e) * e \in Int BY <1>3, <1>6, SMT
  <2>. QED BY <1>2, <1>3, <2>1, <2>2
<1>8. ASSUME policy.sizing_mode = "RISK_PER_TRADE"
      PROVE  Shares(e, a) * d <= 100 * risk_budget
  <2>1. Shares(e, a) <= risked BY <1>3, <1>4, <1>5, <1>8
  <2>2. Shares(e, a) * d <= risked * d BY <1>1, <1>4, <1>6, <2>1, ProductMonotone
  <2>3. Shares(e, a) * d \in Int /\ risked * d \in Int BY <1>1, <1>4, <1>6, SMT
  <2>. QED BY <1>2, <1>4, <2>2, <2>3
<1>. QED BY <1>6, <1>7, <1>8 DEF d

StopHolds ==
    /\ StopPrice \in Int
    /\ \A x \in Nat \ {0} : /\ x > StopPrice => x > Floor(trade.entry, trade.atr)
                            /\ x <= StopPrice => StopPrice >= Floor(trade.entry, trade.atr)
    /\ StopPrice < 100 * trade.highest

(* The trailing stop is never below the floor where a price can reach it.  A   *)
(* percentage of a hundred or more puts both below every price.                *)
LEMMA StopAboveFloor ==
    ASSUME TradeInv, trade.stage = "open"
    PROVE  StopHolds
<1>. USE DEF StopHolds
<1>. DEFINE e == trade.entry
            a == trade.atr
            h == trade.highest
<1>1. /\ e \in Nat /\ e > 0 /\ a \in Nat /\ h \in Nat /\ h >= e
      /\ policy \in Policies /\ (policy.exit_mode = "ATR" => a > 0)
  <2>1. /\ e \in Prices /\ a \in AverageRanges /\ h \in Nat /\ h >= e
        /\ policy \in Policies /\ (policy.exit_mode = "ATR" => a > 0)
    BY DEF TradeInv, OpenInv, TradeTypeOK
  <2>2. e \in Nat \ {0} BY <2>1, PriceAssumption
  <2>3. a \in Nat BY <2>1, PriceAssumption
  <2>4. e > 0 BY <2>2
  <2>. QED BY <2>1, <2>2, <2>3, <2>4
<1>2. /\ policy.exit_mode \in {"PERCENT", "ATR"}
      /\ policy.stop \in Nat /\ policy.stop > 0
  BY <1>1, TradePolicyAssumption
<1>3. StopPrice = 100 * h - StopDistance(h, a) /\ Floor(e, a) = 100 * e - StopDistance(e, a)
  BY DEF StopPrice, Floor
<1>. HIDE DEF e, a, h
<1>4. CASE policy.exit_mode = "PERCENT"
  <2>. DEFINE k == 100 - policy.stop
  <2>1. k \in Int BY <1>2
  <2>2. StopPrice = h * k /\ Floor(e, a) = e * k
    BY <1>1, <1>2, <1>3, <1>4, SMT DEF StopDistance
  <2>3. StopPrice < 100 * h
    <3>1. h * policy.stop \in Nat /\ h * policy.stop > 0 BY <1>1, <1>2, SMT
    <3>. QED BY <1>1, <1>3, <1>4, <3>1 DEF StopDistance
  <2>. HIDE DEF k
  <2>4. h * k \in Int /\ e * k \in Int BY <1>1, <2>1, SMT
  <2>5. CASE k >= 0
    <3>1. e * k <= h * k BY <1>1, <2>1, <2>5, ProductMonotone
    <3>. QED BY <2>2, <2>3, <2>4, <3>1 DEF e, a, h
  <2>6. CASE k < 0
    <3>1. h * k <= 0 /\ e * k <= 0 BY <1>1, <2>1, <2>6, SMT
    <3>. QED BY <2>2, <2>3, <2>4, <3>1 DEF e, a, h
  <2>. QED BY <2>1, <2>5, <2>6
<1>5. CASE policy.exit_mode = "ATR"
  <2>1. StopDistance(h, a) = StopDistance(e, a) BY <1>5 DEF StopDistance
  <2>2. StopDistance(e, a) \in Nat /\ StopDistance(e, a) > 0 BY <1>1, Distances
  <2>. QED BY <1>1, <1>3, <2>1, <2>2 DEF e, a, h
<1>. QED BY <1>2, <1>4, <1>5

-----------------------------------------------------------------------------
(* The steps.                                                                  *)
LEMMA TradeInitInv == TradeInit => TradeInv
BY DEF TradeInit, TradeInv, TradeTypeOK, OpenInv, LossBounded, NoTrade

(* A position that is entered is sized, and nothing has moved its stop.        *)
LEMMA EnterKeeps ==
    ASSUME TradeInv, NEW entry \in Prices, NEW atr \in AverageRanges, Enter(entry, atr)
    PROVE  TradeInv'
<1>1. /\ entry \in Nat /\ entry > 0 /\ atr \in Nat /\ policy \in Policies /\ policy' = policy
  BY PriceAssumption DEF TradeInv, TradeTypeOK, Enter
<1>2. policy.exit_mode \in {"PERCENT", "ATR"} BY <1>1, TradePolicyAssumption
<1>3. ASSUME NEW reason \in {"ATR_UNAVAILABLE", "POSITION_TOO_SMALL"}, Rejects(reason)
      PROVE  TradeInv'
  <2>1. trade' = [stage |-> "rejected", entry |-> 0, atr |-> 0, shares |-> 0, highest |-> 0,
                  bars |-> 0, close |-> 0, exit |-> 0, reason |-> reason]
    BY <1>3 DEF Rejects, NoTrade
  <2>2. TradeTypeOK' BY <1>1, <1>3, <2>1 DEF TradeTypeOK
  <2>3. OpenInv' /\ LossBounded' BY <2>1 DEF OpenInv, LossBounded
  <2>. QED BY <2>2, <2>3 DEF TradeInv
<1>4. ASSUME policy.exit_mode = "PERCENT" \/ atr > 0, Shares(entry, atr) > 0,
             trade' = [NoTrade EXCEPT !.stage = "open", !.entry = entry, !.atr = atr,
                           !.shares = Shares(entry, atr), !.highest = entry]
      PROVE  TradeInv'
  <2>1. policy.exit_mode = "ATR" => atr > 0 BY <1>2, <1>4
  <2>2. Shares(entry, atr) \in Nat BY <1>1, <2>1, SharesBounded
  <2>3. 100 * entry < TargetPrice(entry, atr) /\ TargetPrice(entry, atr) \in Nat
    BY <1>1, <2>1, Distances
  <2>4. trade' = [stage |-> "open", entry |-> entry, atr |-> atr, shares |-> Shares(entry, atr),
                  highest |-> entry, bars |-> 0, close |-> 0, exit |-> 0, reason |-> "NONE"]
    BY <1>4 DEF NoTrade
  <2>5. TradeTypeOK' BY <1>1, <2>2, <2>4 DEF TradeTypeOK
  <2>7. OpenInv'
    <3>1. /\ trade'.entry = entry /\ trade'.atr = atr /\ trade'.highest = entry
          /\ trade'.shares = Shares(entry, atr) /\ trade'.bars = 0 /\ trade'.close = 0
      BY <2>4
    <3>2. trade'.shares = Shares(trade.entry, trade.atr)' BY <1>1, <3>1 DEF Shares, Affordable, StopDistance
    <3>3. 100 * trade'.highest < TargetPrice(trade.entry, trade.atr)'
      BY <1>1, <2>3, <3>1 DEF TargetPrice
    <3>4. (policy'.exit_mode = "ATR" => trade'.atr > 0) BY <1>1, <2>1, <3>1
    <3>5. trade'.entry \in Prices /\ trade'.atr \in AverageRanges BY <3>1
    <3>. QED BY <1>1, <3>1, <3>2, <3>3, <3>4, <3>5 DEF OpenInv
  <2>8. LossBounded' BY <2>4 DEF LossBounded
  <2>. QED BY <2>5, <2>7, <2>8 DEF TradeInv
<1>. QED BY <1>3, <1>4 DEF Enter

(* A position that is left within its floor and its target, or by the put      *)
(* rule, has lost no more than it was sized for.                               *)
LEMMA ExitKeeps ==
    ASSUME TradeInv, trade.stage = "open", policy' = policy, NEW price \in Int,
           NEW reason \in {"ABNORMAL_PUT_VOLUME", "TRAILING_STOP", "PROFIT_TARGET", "SESSION_END"},
           Exits(price, reason),
           reason # "ABNORMAL_PUT_VOLUME" =>
               price >= Floor(trade.entry, trade.atr) /\ price <= TargetPrice(trade.entry, trade.atr)
    PROVE  TradeInv'
<1>. DEFINE e == trade.entry
            a == trade.atr
            n == trade.shares
            d == StopDistance(e, a)
<1>1. /\ e \in Prices /\ a \in AverageRanges /\ n = Shares(e, a)
      /\ policy \in Policies /\ (policy.exit_mode = "ATR" => a > 0)
  BY DEF TradeInv, OpenInv, TradeTypeOK
<1>2. e \in Nat \ {0} /\ e > 0 /\ a \in Nat
  <2>1. e \in Nat \ {0} /\ a \in Nat BY <1>1, PriceAssumption
  <2>. QED BY <2>1
<1>3. /\ d \in Nat /\ n \in Nat /\ n * e <= position_value
      /\ policy.sizing_mode = "RISK_PER_TRADE" => n * d <= 100 * risk_budget
  BY <1>1, <1>2, Distances, SharesBounded
<1>4. trade' = [trade EXCEPT !.stage = "closed", !.exit = price, !.reason = reason]
  BY DEF Exits
<1>5. TradeTypeOK' BY <1>4 DEF TradeInv, TradeTypeOK
<1>6. /\ trade'.stage = "closed" /\ trade'.entry = e /\ trade'.atr = a /\ trade'.shares = n
      /\ trade'.exit = price /\ trade'.reason = reason
  BY <1>4 DEF TradeInv, TradeTypeOK
<1>7. OpenInv' BY <1>6 DEF OpenInv
<1>8. /\ StopDistance(trade.entry, trade.atr)' = d
      /\ TargetPrice(trade.entry, trade.atr)' = TargetPrice(e, a)
      /\ RealizedPnl' = (price - 100 * e) * n
  BY <1>6 DEF StopDistance, TargetPrice, RealizedPnl
<1>9. LossBounded'
  <2>1. trade'.shares * trade'.entry <= position_value BY <1>3, <1>6
  <2>2. ASSUME reason # "ABNORMAL_PUT_VOLUME"
        PROVE  /\ trade'.exit >= 100 * trade'.entry - d
               /\ trade'.exit <= TargetPrice(e, a)
    BY <1>6, <2>2 DEF Floor
  <2>3. ASSUME reason # "ABNORMAL_PUT_VOLUME", policy.sizing_mode = "RISK_PER_TRADE"
        PROVE  (price - 100 * e) * n >= -(100 * risk_budget)
    <3>1. price >= 100 * e - d BY <2>3 DEF Floor
    <3>. HIDE DEF d, e, a, n
    <3>2. price - 100 * e \in Int /\ -d \in Int /\ -d <= price - 100 * e
      BY <1>2, <1>3, <3>1
    <3>3. (-d) * n <= (price - 100 * e) * n BY <1>3, <3>2, ProductMonotone
    <3>4. (-d) * n = -(n * d) /\ n * d \in Int BY <1>3, SMT
    <3>5. (price - 100 * e) * n \in Int BY <1>3, <3>2, SMT
    <3>6. 100 * risk_budget \in Int BY PriceAssumption
    <3>7. n * d <= 100 * risk_budget BY <1>3, <2>3
    <3>. QED BY <3>3, <3>4, <3>5, <3>6, <3>7
  <2>. HIDE DEF d, e, a, n
  <2>. QED BY <1>6, <1>8, <2>1, <2>2, <2>3 DEF LossBounded
<1>. QED BY <1>5, <1>7, <1>9 DEF TradeInv

(* A bar takes the position out at its stop or its target, or leaves it open   *)
(* above the one and below the other.                                          *)
LEMMA WalkBarKeeps ==
    ASSUME TradeInv, NEW b \in Bars, WalkBar(b)
    PROVE  TradeInv'
<1>. DEFINE e == trade.entry
            a == trade.atr
<1>1. trade.stage = "open" /\ policy' = policy BY DEF WalkBar
<1>2. /\ e \in Prices /\ a \in AverageRanges /\ trade.highest \in Nat /\ trade.highest >= e
      /\ trade.shares = Shares(e, a)
      /\ policy \in Policies /\ (policy.exit_mode = "ATR" => a > 0)
      /\ 100 * trade.highest < TargetPrice(e, a)
  BY <1>1 DEF TradeInv, OpenInv, TradeTypeOK
<1>3. e \in Nat \ {0} /\ e > 0 /\ a \in Nat
  <2>1. e \in Nat \ {0} /\ a \in Nat BY <1>2, PriceAssumption
  <2>. QED BY <2>1
<1>4. /\ TargetPrice(e, a) \in Nat /\ TargetPrice(e, a) > 100 * e
      /\ Floor(e, a) \in Int /\ Floor(e, a) < 100 * e
  BY <1>2, <1>3, Distances
<1>5. /\ b.open \in Prices /\ b.high \in Prices /\ b.low \in Prices /\ b.close \in Prices
      /\ b.low <= b.close /\ b.close <= b.high
  BY DEF Bars
<1>6. /\ b.open \in Nat \ {0} /\ b.high \in Nat \ {0}
      /\ b.low \in Nat \ {0} /\ b.close \in Nat \ {0}
  BY <1>5, PriceAssumption
<1>7. /\ StopPrice \in Int
      /\ \A x \in Nat \ {0} :
             /\ x > StopPrice => x > Floor(trade.entry, trade.atr)
             /\ x <= StopPrice => StopPrice >= Floor(trade.entry, trade.atr)
      /\ StopPrice < 100 * trade.highest
  <2>1. StopHolds BY <1>1, StopAboveFloor
  <2>. QED BY <2>1 DEF StopHolds
<1>8. 100 * b.low \in Nat \ {0} /\ 100 * b.close \in Nat \ {0} BY <1>6
<1>9. CASE Exits(100 * b.open, "ABNORMAL_PUT_VOLUME")
  <2>1. 100 * b.open \in Int BY <1>6
  <2>. QED BY <1>1, <1>9, <2>1, ExitKeeps
<1>10. CASE 100 * b.low <= StopPrice /\ Exits(StopPrice, "TRAILING_STOP")
  <2>1. StopPrice >= Floor(e, a) BY <1>7, <1>8, <1>10
  <2>2. StopPrice <= TargetPrice(e, a) BY <1>2, <1>4, <1>7
  <2>. QED BY <1>1, <1>7, <1>10, <2>1, <2>2, ExitKeeps
<1>11. CASE Exits(TargetPrice(e, a), "PROFIT_TARGET")
  <2>1. TargetPrice(e, a) \in Int /\ TargetPrice(e, a) >= Floor(e, a) BY <1>3, <1>4
  <2>. QED BY <1>1, <1>4, <1>11, <2>1, ExitKeeps
<1>12. CASE /\ ~(100 * b.low <= StopPrice) /\ ~(100 * b.high >= TargetPrice(e, a))
            /\ trade' = [trade EXCEPT !.bars = 1, !.close = b.close, !.highest = Highest(b.high)]
  <2>1. Highest(b.high) \in Nat /\ Highest(b.high) >= e
        /\ 100 * Highest(b.high) < TargetPrice(e, a)
    BY <1>2, <1>3, <1>4, <1>6, <1>12 DEF Highest
  <2>2. /\ trade'.stage = "open" /\ trade'.entry = e /\ trade'.atr = a
        /\ trade'.shares = trade.shares /\ trade'.bars = 1 /\ trade'.close = b.close
        /\ trade'.highest = Highest(b.high)
    BY <1>1, <1>12 DEF TradeInv, TradeTypeOK
  <2>3. TradeTypeOK'
    <3>1. b.close \in Nat /\ 1 \in 0..1 BY <1>6
    <3>. QED BY <1>1, <1>12, <2>1, <3>1 DEF TradeInv, TradeTypeOK
  <2>4. 100 * b.low > StopPrice BY <1>6, <1>7, <1>12
  <2>5. 100 * b.close > Floor(e, a)
    <3>1. 100 * b.close > StopPrice BY <1>5, <1>6, <1>7, <2>4
    <3>. QED BY <1>7, <1>8, <3>1
  <2>6. 100 * b.close < TargetPrice(e, a) BY <1>4, <1>5, <1>6, <1>12
  <2>7. OpenInv'
    <3>1. /\ Shares(trade.entry, trade.atr)' = Shares(e, a)
          /\ TargetPrice(trade.entry, trade.atr)' = TargetPrice(e, a)
          /\ Floor(trade.entry, trade.atr)' = Floor(e, a)
      BY <1>1, <2>2 DEF Shares, Affordable, StopDistance, TargetPrice, Floor
    <3>2. trade'.shares = Shares(trade.entry, trade.atr)' BY <1>2, <2>2, <3>1
    <3>3. /\ 100 * trade'.close > Floor(trade.entry, trade.atr)'
          /\ 100 * trade'.close < TargetPrice(trade.entry, trade.atr)'
          /\ 100 * trade'.highest < TargetPrice(trade.entry, trade.atr)'
      BY <2>1, <2>2, <2>5, <2>6, <3>1
    <3>4. /\ trade'.entry \in Prices /\ trade'.atr \in AverageRanges
          /\ policy'.exit_mode = "ATR" => trade'.atr > 0
      BY <1>1, <1>2, <2>2
    <3>5. trade'.highest \in Nat /\ trade'.highest >= trade'.entry
          /\ trade'.bars \in 0..1 /\ trade'.close \in Nat
      BY <1>6, <2>1, <2>2
    <3>. QED BY <3>2, <3>3, <3>4, <3>5 DEF OpenInv
  <2>8. LossBounded' BY <2>2 DEF LossBounded
  <2>. QED BY <2>3, <2>7, <2>8 DEF TradeInv
<1>. QED BY <1>9, <1>10, <1>11, <1>12 DEF WalkBar

(* The last close is one the bar was tested with.                              *)
LEMMA EndSessionKeeps ==
    ASSUME TradeInv, EndSession
    PROVE  TradeInv'
<1>1. /\ trade.stage = "open" /\ trade.bars = 1 /\ policy' = policy
      /\ Exits(100 * trade.close, "SESSION_END")
  BY DEF EndSession
<1>2. /\ trade.close \in Nat /\ trade.entry \in Prices /\ trade.atr \in AverageRanges
      /\ policy \in Policies /\ (policy.exit_mode = "ATR" => trade.atr > 0)
      /\ 100 * trade.close > Floor(trade.entry, trade.atr)
      /\ 100 * trade.close < TargetPrice(trade.entry, trade.atr)
  BY <1>1 DEF TradeInv, OpenInv, TradeTypeOK
<1>3. trade.entry \in Nat \ {0} /\ trade.entry > 0 /\ trade.atr \in Nat
  <2>1. trade.entry \in Nat \ {0} /\ trade.atr \in Nat BY <1>2, PriceAssumption
  <2>. QED BY <2>1
<1>4. Floor(trade.entry, trade.atr) \in Int /\ TargetPrice(trade.entry, trade.atr) \in Nat
  BY <1>2, <1>3, Distances
<1>5. 100 * trade.close \in Int BY <1>2
<1>. QED BY <1>1, <1>2, <1>4, <1>5, ExitKeeps

LEMMA TradeIdleKeeps ==
    ASSUME TradeInv, UNCHANGED walkVars
    PROVE  TradeInv'
<1>1. policy' = policy /\ trade' = trade BY DEF walkVars
<1>2. TradeTypeOK' BY <1>1 DEF TradeInv, TradeTypeOK
<1>3. OpenInv' BY <1>1 DEF TradeInv, OpenInv, Shares, Affordable, StopDistance, TargetPrice, Floor
<1>4. LossBounded' BY <1>1 DEF TradeInv, LossBounded, StopDistance, TargetPrice, RealizedPnl
<1>. QED BY <1>2, <1>3, <1>4 DEF TradeInv

(* Every step of the walk keeps the invariant.                                 *)
LEMMA TradeStepInv == TradeInv /\ [TradeNext]_walkVars => TradeInv'
<1>. SUFFICES ASSUME TradeInv, [TradeNext]_walkVars PROVE TradeInv'
  OBVIOUS
<1>1. ASSUME NEW entry \in Prices, NEW atr \in AverageRanges, Enter(entry, atr)
      PROVE  TradeInv'
  BY <1>1, EnterKeeps
<1>2. ASSUME NEW b \in Bars, WalkBar(b) PROVE TradeInv'
  BY <1>2, WalkBarKeeps
<1>3. CASE EndSession BY <1>3, EndSessionKeeps
<1>4. CASE UNCHANGED walkVars BY <1>4, TradeIdleKeeps
<1>. QED BY <1>1, <1>2, <1>3, <1>4 DEF TradeNext

LEMMA TradeAlways == TradeSpec => []TradeInv
<1>. HIDE DEF TradeInv
<1>. QED BY TradeInitInv, TradeStepInv, PTL DEF TradeSpec

(* A trade is always one of the records simulate_trade() builds.               *)
THEOREM TradesAreTyped == TradeSpec => []TradeTypeOK
<1>1. TradeInv => TradeTypeOK BY DEF TradeInv
<1>. HIDE DEF TradeInv, TradeTypeOK
<1>. QED BY <1>1, TradeAlways, PTL

(* For every policy and every sequence of bars, a closed position cost no more *)
(* than its allocation, left between its first stop and its target unless the  *)
(* put rule took it out, and lost no more than the budget it was sized for.    *)
THEOREM LossesStayBounded == TradeSpec => []LossBounded
<1>1. TradeInv => LossBounded BY DEF TradeInv
<1>. HIDE DEF TradeInv, LossBounded
<1>. QED BY <1>1, TradeAlways, PTL

-----------------------------------------------------------------------------
(* The opening ranges: who ranks where.                                        *)

\* quotients of naturals, compared by cross products, are ordered
LEMMA CrossProducts ==
    ASSUME NEW a \in Nat, NEW b \in Nat, NEW c \in Nat,
           NEW x \in Nat \ {0}, NEW y \in Nat \ {0}, NEW z \in Nat \ {0},
           a * y >= b * x, b * z >= c * y
    PROVE  /\ a * z >= c * x
           /\ a * y > b * x \/ b * z > c * y => a * z > c * x
<1>. DEFINE p == a * z
            q == c * x
            u == a * y
            v == b * x
            m == b * z
            w == c * y
<1>1. p \in Nat /\ q \in Nat /\ u \in Nat /\ v \in Nat /\ m \in Nat /\ w \in Nat
  OBVIOUS
<1>2. u * z = p * y /\ v * z = m * x /\ w * x = q * y
  OBVIOUS
<1>3. u >= v /\ m >= w
  OBVIOUS
<1>4. (a * y > b * x <=> u > v) /\ (b * z > c * y <=> m > w)
  OBVIOUS
<1>. HIDE DEF p, q, u, v, m, w
<1>5. u * z >= v * z /\ m * x >= w * x
  BY <1>1, <1>3
<1>6. u > v => u * z > v * z
  BY <1>1
<1>7. m > w => m * x > w * x
  BY <1>1
<1>8. p * y >= q * y /\ (u > v \/ m > w => p * y > q * y)
  <2>. DEFINE uz == u * z
              vz == v * z
              mx == m * x
              wx == w * x
  <2>1. uz \in Nat /\ vz \in Nat /\ mx \in Nat /\ wx \in Nat
    BY <1>1
  <2>2. uz >= vz /\ mx >= wx /\ vz = mx /\ (u > v => uz > vz) /\ (m > w => mx > wx)
    BY <1>2, <1>5, <1>6, <1>7
  <2>3. p * y = uz /\ q * y = wx
    BY <1>2
  <2>. HIDE DEF uz, vz, mx, wx
  <2>4. uz >= wx /\ (u > v \/ m > w => uz > wx)
    BY <2>1, <2>2
  <2>. QED BY <2>3, <2>4
<1>9. p < q => p * y < q * y
  BY <1>1
<1>10. p <= q => p * y <= q * y
  BY <1>1
<1>11. p >= q /\ (u > v \/ m > w => p > q)
  <2>. DEFINE py == p * y
              qy == q * y
  <2>1. py \in Nat /\ qy \in Nat
    BY <1>1
  <2>2. py >= qy /\ (u > v \/ m > w => py > qy) /\ (p < q => py < qy) /\ (p <= q => py <= qy)
    BY <1>8, <1>9, <1>10
  <2>. HIDE DEF py, qy
  <2>. QED BY <1>1, <2>1, <2>2
<1>. QED BY <1>4, <1>11 DEF p, q

OrbDays == candidates \in [Names -> OrbProfiles] /\ cachedSessions \in SUBSET PriorSessions

LEMMA BaselineType ==
    ASSUME OrbDays, NEW n \in Names
    PROVE  Baseline(n).sessions \in Nat /\ Baseline(n).total \in Nat
<1>. DEFINE known == cachedSessions \cap DOMAIN OpeningVolumes[n]
<1>1. IsFiniteSet(known) /\ \A d \in known : OpeningVolumes[n][d] \in Nat
  <2>1. known \in SUBSET PriorSessions /\ \A d \in known : OpeningVolumes[n][d] \in Nat
    BY OrbAssumption DEF OrbDays
  <2>2. IsFiniteSet(PriorSessions)
    BY OrbAssumption
  <2>. QED BY <2>1, <2>2, FS_Subset
<1>2. Cardinality(known) \in Nat
  BY <1>1, FS_CardinalityType
<1>. HIDE DEF known
<1>3. SumFunctionOnSet(OpeningVolumes[n], known) \in Nat
  BY <1>1, SumSubset
<1>. QED BY <1>2, <1>3 DEF Baseline, known

LEMMA RankableNames ==
    ASSUME OrbDays
    PROVE  /\ Rankable \in SUBSET Names /\ IsFiniteSet(Rankable) /\ Rankable \subseteq Nat
           /\ \A n \in Rankable :
                 /\ candidates[n] \in OrbProfiles /\ candidates[n].volume \in Nat
                 /\ Baseline(n).sessions \in Nat /\ Baseline(n).total \in Nat \ {0}
                 /\ OrbFailures(candidates[n]) = {}
<1>1. Rankable \in SUBSET Names /\ IsFiniteSet(Names) /\ Names \subseteq Nat
  BY OrbAssumption DEF Rankable, Passing
<1>2. IsFiniteSet(Rankable)
  BY <1>1, FS_Subset
<1>3. ASSUME NEW n \in Rankable
      PROVE  /\ candidates[n] \in OrbProfiles /\ candidates[n].volume \in Nat
             /\ Baseline(n).sessions \in Nat /\ Baseline(n).total \in Nat \ {0}
             /\ OrbFailures(candidates[n]) = {}
  <2>1. candidates[n] \in OrbProfiles
    BY <1>1 DEF OrbDays
  <2>2. candidates[n].volume \in Nat
    BY <2>1, OrbAssumption
  <2>3. Baseline(n).sessions \in Nat /\ Baseline(n).total \in Nat
    BY <1>1, BaselineType
  <2>4. Baseline(n).total > 0 /\ OrbFailures(candidates[n]) = {}
    BY DEF Rankable, HasBaseline, Passing
  <2>. QED BY <2>1, <2>2, <2>3, <2>4
<1>. QED BY <1>1, <1>2, <1>3

\* relative volumes, then tickers, order the names that can be ranked
LEMMA RelativeOrder ==
    ASSUME OrbDays
    PROVE  StrictOrder({p \in Rankable \X Rankable : MoreRelative(p[1], p[2])}, Rankable)
<1>. DEFINE R == {p \in Rankable \X Rankable : MoreRelative(p[1], p[2])}
            a == [n \in Rankable |-> candidates[n].volume * Baseline(n).sessions]
            t == [n \in Rankable |-> Baseline(n).total]
<1>1. \A x, y \in Rankable : <<x, y>> \in R <=> MoreRelative(x, y)
  OBVIOUS
<1>2. /\ \A n \in Rankable : n \in Nat /\ a[n] \in Nat /\ t[n] \in Nat \ {0}
  BY RankableNames
<1>3. \A x, y \in Rankable :
          MoreRelative(x, y) <=> \/ a[x] * t[y] > a[y] * t[x]
                                 \/ a[x] * t[y] = a[y] * t[x] /\ x < y
  BY DEF MoreRelative
<1>. HIDE DEF R, a, t
<1>4. \A x \in Rankable : ~MoreRelative(x, x)
  <2>. SUFFICES ASSUME NEW x \in Rankable PROVE ~MoreRelative(x, x)
    OBVIOUS
  <2>. DEFINE k == a[x] * t[x]
  <2>1. k \in Nat /\ x \in Nat
    BY <1>2
  <2>2. MoreRelative(x, x) <=> k > k \/ (k = k /\ x < x)
    BY <1>3
  <2>. HIDE DEF k
  <2>. QED BY <2>1, <2>2
<1>5. ASSUME NEW x \in Rankable, NEW y \in Rankable, NEW z \in Rankable,
             MoreRelative(x, y), MoreRelative(y, z)
      PROVE  MoreRelative(x, z)
  <2>. DEFINE xy == a[x] * t[y]
              yx == a[y] * t[x]
              yz == a[y] * t[z]
              zy == a[z] * t[y]
              xz == a[x] * t[z]
              zx == a[z] * t[x]
  <2>1. /\ xy \in Nat /\ yx \in Nat /\ yz \in Nat /\ zy \in Nat /\ xz \in Nat /\ zx \in Nat
        /\ x \in Nat /\ y \in Nat /\ z \in Nat
    BY <1>2
  <2>2. /\ xy > yx \/ (xy = yx /\ x < y)
        /\ yz > zy \/ (yz = zy /\ y < z)
        /\ MoreRelative(x, z) <=> xz > zx \/ (xz = zx /\ x < z)
    BY <1>3, <1>5
  <2>3. xy >= yx /\ yz >= zy => xz >= zx /\ (xy > yx \/ yz > zy => xz > zx)
    BY <1>2, CrossProducts
  <2>. HIDE DEF xy, yx, yz, zy, xz, zx
  <2>. QED BY <2>1, <2>2, <2>3
<1>6. ASSUME NEW x \in Rankable, NEW y \in Rankable, x # y
      PROVE  MoreRelative(x, y) \/ MoreRelative(y, x)
  <2>. DEFINE xy == a[x] * t[y]
              yx == a[y] * t[x]
  <2>1. xy \in Nat /\ yx \in Nat /\ x \in Nat /\ y \in Nat
    BY <1>2
  <2>2. /\ MoreRelative(x, y) <=> xy > yx \/ (xy = yx /\ x < y)
        /\ MoreRelative(y, x) <=> yx > xy \/ (yx = xy /\ y < x)
    BY <1>3
  <2>. HIDE DEF xy, yx
  <2>. QED BY <1>6, <2>1, <2>2
<1>. QED BY <1>1, <1>4, <1>5, <1>6 DEF StrictOrder, R

\* every rank is somebody's, so the ranking is a sequence of the names
LEMMA RankedNames ==
    ASSUME OrbDays
    PROVE  Ranked \in Seq(Rankable) /\ \A r \in DOMAIN Ranked : Ranked[r] \in Rankable
<1>. DEFINE R == {p \in Rankable \X Rankable : MoreRelative(p[1], p[2])}
            N == Cardinality(Rankable)
<1>1. IsFiniteSet(Rankable) /\ N \in Nat /\ StrictOrder(R, Rankable)
  BY RankableNames, RelativeOrder, FS_CardinalityType
<1>2. \A n \in Rankable : RankOf(n) = Cardinality(Before(R, Rankable, n)) + 1
  <2>. SUFFICES ASSUME NEW n \in Rankable
                PROVE  RankOf(n) = Cardinality(Before(R, Rankable, n)) + 1
    OBVIOUS
  <2>1. {o \in Rankable : MoreRelative(o, n)} = Before(R, Rankable, n)
    BY DEF Before
  <2>. QED BY <2>1 DEF RankOf
<1>. HIDE DEF R, N
<1>3. \A k \in 0..(N - 1) : \E n \in Rankable : Cardinality(Before(R, Rankable, n)) = k
  BY <1>1, CountsNumber DEF N
<1>4. ASSUME NEW r \in 1..N PROVE \E n \in Rankable : RankOf(n) = r
  <2>1. r - 1 \in 0..(N - 1)
    BY <1>1
  <2>2. PICK n \in Rankable : Cardinality(Before(R, Rankable, n)) = r - 1
    BY <1>3, <2>1
  <2>3. RankOf(n) = (r - 1) + 1
    BY <1>2, <2>2
  <2>4. (r - 1) + 1 = r
    BY <1>1
  <2>. QED BY <2>3, <2>4
<1>5. Ranked \in [1..N -> Rankable]
  BY <1>4 DEF Ranked, N
<1>. QED BY <1>1, <1>5

-----------------------------------------------------------------------------
(* The signal of a path.                                                       *)
OrbPaths == {path \in Seq(OrbBars) :
                \A i \in DOMAIN path :
                   /\ path[i].low <= path[i].open /\ path[i].open <= path[i].high
                   /\ path[i].low <= path[i].close /\ path[i].close <= path[i].high}

LEMMA BarPrices ==
    ASSUME NEW path \in OrbPaths, NEW side \in {"LONG", "SHORT"}, NEW i \in DOMAIN path
    PROVE  /\ path[i].at \in Nat /\ path[i].high \in Nat /\ path[i].low \in Nat
           /\ Opens(side, path[i]) \in Int /\ Closes(side, path[i]) \in Int
           /\ Worst(side, path[i]) \in Int /\ Worst(side, path[i]) <= Closes(side, path[i])
<1>1. path \in Seq(OrbBars)
      /\ path[i].low <= path[i].close /\ path[i].close <= path[i].high
  BY DEF OrbPaths
<1>2. path[i] \in OrbBars
  BY <1>1
<1>3. /\ path[i].at \in Nat /\ path[i].high \in Nat /\ path[i].low \in Nat
      /\ path[i].open \in Nat /\ path[i].close \in Nat
  BY <1>2 DEF OrbBars
<1>. QED BY <1>1, <1>3 DEF Opens, Closes, Worst

LEMMA BarsFinite ==
    ASSUME NEW path \in OrbPaths, NEW A, A \subseteq DOMAIN path
    PROVE  IsFiniteSet(A) /\ A \subseteq Int /\ A \subseteq Nat
<1>1. DOMAIN path = 1..Len(path) /\ Len(path) \in Nat
  BY DEF OrbPaths
<1>2. IsFiniteSet(1..Len(path))
  BY <1>1, FS_Interval
<1>. QED BY <1>1, <1>2, FS_Subset

LEMMA TriggerType ==
    ASSUME NEW path \in OrbPaths, OpensOnTime(path), NEW side
    PROVE  Trigger(side, path) \in Int
<1>. DEFINE O == OpeningBars(path)
            highs == {path[i].high : i \in O}
            lows == {path[i].low : i \in O}
<1>1. O \subseteq DOMAIN path
  BY DEF OpeningBars
<1>2. O # {}
  <2>1. path \in Seq(OrbBars) /\ path # <<>>
    BY DEF OrbPaths, OpensOnTime
  <2>2. 1 \in DOMAIN path
    BY <2>1
  <2>3. path[1].at < candle_end
    BY OrbAssumption DEF OpensOnTime
  <2>. QED BY <2>2, <2>3 DEF OpeningBars
<1>3. IsFiniteSet(O)
  BY <1>1, BarsFinite
<1>4. \A i \in O : path[i].high \in Nat /\ path[i].low \in Nat
  BY <1>1, BarPrices
<1>. HIDE DEF O
<1>5. IsFiniteSet(highs) /\ highs # {} /\ highs \subseteq Int
  <2>1. [i \in O |-> path[i].high] \in Surjection(O, highs)
    BY DEF Surjection
  <2>2. IsFiniteSet(highs)
    BY <1>3, <2>1, FS_Surjection
  <2>. QED BY <1>2, <1>4, <2>2
<1>6. IsFiniteSet(lows) /\ lows # {} /\ lows \subseteq Int
  <2>1. [i \in O |-> path[i].low] \in Surjection(O, lows)
    BY DEF Surjection
  <2>2. IsFiniteSet(lows)
    BY <1>3, <2>1, FS_Surjection
  <2>. QED BY <1>2, <1>4, <2>2
<1>7. Max(highs) \in Int /\ Min(lows) \in Int
  <2>1. Max(highs) \in highs
    BY <1>5, MaxIsMember
  <2>2. Min(lows) \in lows
    BY <1>6, MinIsMember
  <2>. QED BY <1>5, <1>6, <2>1, <2>2
<1>8. CandleHigh(path) \in Int /\ CandleLow(path) \in Int
  BY <1>7 DEF CandleHigh, CandleLow, O
<1>. QED BY <1>8 DEF Trigger

\* what a signal that was entered says: when, at what, and what it can lose
LEMMA SignalOfPath ==
    ASSUME NEW path \in OrbPaths, OpensOnTime(path), NEW side \in {"LONG", "SHORT"},
           NEW distance \in Nat \ {0}, Signal(side, path, distance).executed
    PROVE  LET s == Signal(side, path, distance)
           IN  /\ s.side = side /\ s.distance = distance
               /\ s.entry \in Int /\ s.exit \in Int /\ s.enters \in Nat /\ s.exits \in Nat
               /\ ~s.gapped => s.exit - s.entry >= -distance
<1>. DEFINE s == Signal(side, path, distance)
            crossings == Crossings(side, path)
            entered == Min(crossings)
            entry == EntryPrice(side, path, entered)
            stop == entry - distance
            stopping == StoppingBars(side, path, entered, stop)
            last == IF stopping = {} THEN Len(path) ELSE Min(stopping)
            gapped == stopping # {} /\ Opens(side, path[last]) < stop
            exit == IF stopping = {} THEN Closes(side, path[last])
                    ELSE IF gapped THEN Opens(side, path[last]) ELSE stop
<1>1. crossings # {}
  BY DEF Signal, NoSignal
<1>2. /\ s.side = side /\ s.distance = distance /\ s.entry = entry /\ s.exit = exit
      /\ s.enters = path[entered].at /\ s.exits = path[last].at /\ s.gapped = gapped
  BY <1>1 DEF Signal
<1>3. entered \in DOMAIN path
  <2>1. crossings \subseteq DOMAIN path
    BY DEF Crossings
  <2>2. IsFiniteSet(crossings) /\ crossings \subseteq Int
    BY <2>1, BarsFinite
  <2>. HIDE DEF crossings
  <2>3. Min(crossings) \in crossings
    BY <1>1, <2>2, MinIsMember
  <2>. QED BY <2>1, <2>3
<1>. HIDE DEF crossings, entered
<1>4. entry \in Int
  BY <1>3, BarPrices, TriggerType DEF EntryPrice
<1>. HIDE DEF entry
<1>5. stop \in Int
  BY <1>4
<1>. HIDE DEF stop
<1>6. stopping \subseteq DOMAIN path /\ IsFiniteSet(stopping) /\ stopping \subseteq Int
  <2>1. stopping \subseteq DOMAIN path
    BY DEF StoppingBars
  <2>. QED BY <2>1, BarsFinite
<1>7. \A i \in DOMAIN path : i \in stopping <=> i >= entered /\ Worst(side, path[i]) <= stop
  BY DEF StoppingBars
<1>. HIDE DEF stopping
<1>8. last \in DOMAIN path
  <2>1. CASE stopping = {}
    BY <1>3, <2>1 DEF OrbPaths
  <2>2. CASE stopping # {}
    <3>1. Min(stopping) \in stopping
      BY <1>6, <2>2, MinIsMember
    <3>. QED BY <1>6, <2>2, <3>1
  <2>. QED BY <2>1, <2>2
<1>9. stopping = {} => last >= entered
  <2>1. DOMAIN path = 1..Len(path) /\ Len(path) \in Nat
    BY DEF OrbPaths
  <2>. QED BY <1>3, <2>1
<1>10. stopping = {} => Closes(side, path[last]) > stop
  <2>1. ASSUME stopping = {} PROVE Closes(side, path[last]) > stop
    <3>1. ~(Worst(side, path[last]) <= stop)
      BY <1>7, <1>8, <1>9, <2>1
    <3>2. /\ Closes(side, path[last]) \in Int /\ Worst(side, path[last]) \in Int
          /\ Worst(side, path[last]) <= Closes(side, path[last])
      BY <1>8, BarPrices
    <3>. HIDE DEF last
    <3>. QED BY <1>5, <3>1, <3>2
  <2>. QED BY <2>1
<1>. HIDE DEF last
<1>11. exit \in Int
  BY <1>5, <1>8, BarPrices
<1>12. ~gapped => exit >= stop
  <2>1. CASE stopping = {}
    <3>1. Closes(side, path[last]) \in Int
      BY <1>8, BarPrices
    <3>. QED BY <1>5, <1>10, <2>1, <3>1
  <2>2. CASE stopping # {}
    BY <1>5, <2>2
  <2>. QED BY <2>1, <2>2
<1>13. path[entered].at \in Nat /\ path[last].at \in Nat
  BY <1>3, <1>8, BarPrices
<1>. HIDE DEF exit, gapped
<1>14. ~gapped => exit - entry >= -distance
  BY <1>4, <1>5, <1>11, <1>12 DEF stop
<1>. HIDE DEF s
<1>15. s.entry \in Int /\ s.exit \in Int /\ s.enters \in Nat /\ s.exits \in Nat
  BY <1>2, <1>4, <1>11, <1>13
<1>16. ~s.gapped => s.exit - s.entry >= -distance
  BY <1>2, <1>14
<1>. QED BY <1>2, <1>15, <1>16 DEF s

LEMMA SignalOfRankable ==
    ASSUME OrbDays, NEW n \in Rankable, SignalOf(n).executed
    PROVE  LET s == SignalOf(n)
           IN  /\ s.side = Direction(candidates[n].path) /\ s.distance \in Nat \ {0}
               /\ s.entry \in Int /\ s.exit \in Int /\ s.enters \in Nat /\ s.exits \in Nat
               /\ ~s.gapped => s.exit - s.entry >= -s.distance
<1>. DEFINE p == candidates[n]
            d == StopDistanceOf(p)
<1>1. p \in OrbProfiles /\ OrbFailures(p) = {}
  BY RankableNames
<1>2. p.path \in OrbPaths
  BY <1>1, OrbAssumption DEF OrbPaths
<1>3. OpensOnTime(p.path) /\ p.atr # 0
  <2>1. Failing(~OpensOnTime(p.path), "OPEN_0930_UNAVAILABLE") = {} /\ Failing(p.atr = 0, "ATR_14") = {}
    BY <1>1 DEF OrbFailures
  <2>. QED BY <2>1 DEF Failing
<1>4. d \in Nat \ {0}
  <2>1. p.atr \in Nat /\ p.atr >= atr_stop_divisor /\ atr_stop_divisor \in Nat \ {0}
    BY <1>1, <1>3, OrbAssumption
  <2>. DEFINE atr == p.atr
  <2>2. atr \in Nat /\ atr >= atr_stop_divisor
    BY <2>1
  <2>. HIDE DEF atr
  <2>3. atr \div atr_stop_divisor \in Nat
    BY <2>1, <2>2
  <2>4. atr \div atr_stop_divisor # 0
    BY <2>1, <2>2
  <2>. QED BY <2>3, <2>4 DEF StopDistanceOf, atr
<1>. HIDE DEF d
<1>5. Direction(p.path) \in {"LONG", "SHORT"} /\ SignalOf(n) = Signal(Direction(p.path), p.path, d)
  BY DEF SignalOf, Direction, NoSignal, d
<1>. HIDE DEF p
<1>. QED BY <1>2, <1>3, <1>4, <1>5, SignalOfPath DEF p

\* a position sized by its risk loses no more than that unless it gaps
LEMMA LossWithinRisk ==
    ASSUME NEW risk \in Nat, NEW d \in Nat \ {0}, NEW change \in Int, change >= -d
    PROVE  risk \div d \in Nat /\ (risk \div d) * change >= -risk
<1>. DEFINE k == risk \div d
            kd == k * d
            kc == k * change
<1>1. k \in Nat /\ kd \in Nat /\ kd <= risk
  OBVIOUS
<1>. HIDE DEF k
<1>2. kc \in Int /\ kc >= -kd
  <2>1. change + d \in Nat
    OBVIOUS
  <2>2. k * (change + d) \in Nat
    BY <1>1, <2>1
  <2>3. k * (change + d) = kc + kd
    BY <1>1
  <2>4. kc \in Int
    BY <1>1
  <2>. HIDE DEF kc, kd
  <2>. QED BY <1>1, <2>2, <2>3, <2>4
<1>. HIDE DEF kd, kc
<1>3. kc >= -risk
  BY <1>1, <1>2
<1>. QED BY <1>1, <1>3 DEF k, kc

-----------------------------------------------------------------------------
(* What is open at a moment.                                                   *)
PositionTable(P) ==
    /\ IsFiniteSet(DOMAIN P)
    /\ \A n \in DOMAIN P : P[n].enters \in Nat /\ P[n].exits \in Nat /\ P[n].exposure \in Nat
OpenAt(P, moment) == {n \in DOMAIN P : P[n].enters <= moment /\ moment <= P[n].exits}
Exposures(P) == [n \in DOMAIN P |-> P[n].exposure]

LEMMA ExposureOfOpen ==
    ASSUME NEW P, PositionTable(P), NEW moment
    PROVE  /\ OpenExposure(P, moment) = SumFunctionOnSet(Exposures(P), OpenAt(P, moment))
           /\ IsFiniteSet(OpenAt(P, moment)) /\ OpenAt(P, moment) \in SUBSET DOMAIN P
           /\ OpenExposure(P, moment) \in Nat
<1>1. OpenExposure(P, moment) = SumFunctionOnSet(Exposures(P), OpenAt(P, moment))
  BY DEF OpenExposure, Exposures, OpenAt
<1>2. OpenAt(P, moment) \in SUBSET DOMAIN P
  BY DEF OpenAt
<1>3. IsFiniteSet(OpenAt(P, moment))
  BY <1>2, FS_Subset DEF PositionTable
<1>4. \A n \in OpenAt(P, moment) : Exposures(P)[n] \in Nat
  BY <1>2 DEF Exposures, PositionTable
<1>5. SumFunctionOnSet(Exposures(P), OpenAt(P, moment)) \in Nat
  BY <1>3, <1>4, SumSubset
<1>. QED BY <1>1, <1>2, <1>3, <1>5

\* no moment has more open than the moments at which a position enters or leaves
LEMMA ExposureAtAnyMoment ==
    ASSUME NEW P, PositionTable(P), DOMAIN P # {}, NEW new, NEW moment \in Nat
    PROVE  /\ MaximumExposure(P, new) \in Nat
           /\ OpenExposure(P, moment) <= MaximumExposure(P, new)
<1>. DEFINE D == DOMAIN P
            entries == {P[n].enters : n \in D}
            leaves == {P[n].exits : n \in D}
            M == entries \cup leaves
            E == {OpenExposure(P, m) : m \in M}
            A == OpenAt(P, moment)
<1>1. IsFiniteSet(M) /\ M \subseteq Nat /\ M # {}
  <2>1. [n \in D |-> P[n].enters] \in Surjection(D, entries)
    BY DEF Surjection
  <2>2. [n \in D |-> P[n].exits] \in Surjection(D, leaves)
    BY DEF Surjection
  <2>3. IsFiniteSet(entries) /\ IsFiniteSet(leaves)
    BY <2>1, <2>2, FS_Surjection DEF PositionTable
  <2>4. IsFiniteSet(M)
    BY <2>3, FS_Union
  <2>. QED BY <2>4 DEF PositionTable
<1>2. \A n \in D : P[n].enters \in M
  OBVIOUS
<1>3. MaximumExposure(P, new) = Max(E)
  BY DEF MaximumExposure
<1>. HIDE DEF M
<1>4. IsFiniteSet(E) /\ E \subseteq Nat /\ E # {}
  <2>1. [m \in M |-> OpenExposure(P, m)] \in Surjection(M, E)
    BY DEF Surjection
  <2>2. IsFiniteSet(E)
    BY <1>1, <2>1, FS_Surjection
  <2>3. \A m \in M : OpenExposure(P, m) \in Nat
    BY ExposureOfOpen
  <2>. QED BY <1>1, <2>2, <2>3
<1>5. \A m \in M : OpenExposure(P, m) \in E
  OBVIOUS
<1>. HIDE DEF E
<1>6. Max(E) \in E /\ \A e \in E : e <= Max(E)
  <2>1. E \subseteq Int
    BY <1>4
  <2>. QED BY <1>4, <2>1, MaxIsMember
<1>7. Max(E) \in Nat
  BY <1>4, <1>6
<1>8. OpenExposure(P, moment) \in Nat /\ IsFiniteSet(A) /\ A \in SUBSET D
      /\ OpenExposure(P, moment) = SumFunctionOnSet(Exposures(P), A)
  BY ExposureOfOpen
<1>9. CASE A = {}
  <2>1. OpenExposure(P, moment) = 0
    BY <1>8, <1>9, SumEmpty
  <2>. QED BY <1>3, <1>7, <2>1
<1>10. CASE A # {}
  \* the last of the positions open then to have entered
  <2>. DEFINE starts == {P[n].enters : n \in A}
              last == Max(starts)
  <2>1. [n \in A |-> P[n].enters] \in Surjection(A, starts)
    BY DEF Surjection
  <2>2. IsFiniteSet(starts) /\ starts # {} /\ starts \subseteq Int /\ starts \subseteq M
    BY <1>2, <1>8, <1>10, <2>1, FS_Surjection DEF PositionTable
  <2>3. last \in starts /\ \A x \in starts : x <= last
    BY <2>2, MaxIsMember
  <2>4. last \in M /\ last <= moment /\ \A n \in A : P[n].enters <= last
    <3>1. \A n \in A : P[n].enters <= moment
      BY DEF OpenAt
    <3>. HIDE DEF last
    <3>. QED BY <2>2, <2>3, <3>1
  <2>. HIDE DEF last, starts
  <2>5. A \in SUBSET OpenAt(P, last)
    <3>1. \A n \in A : n \in D /\ moment <= P[n].exits /\ P[n].exits \in Nat
      BY DEF OpenAt, PositionTable
    <3>2. last \in Nat
      BY <1>1, <2>4
    <3>. HIDE DEF A
    <3>3. \A n \in A : P[n].enters <= last /\ last <= P[n].exits
      BY <2>4, <3>1, <3>2
    <3>. QED BY <3>1, <3>3 DEF OpenAt
  <2>6. /\ IsFiniteSet(OpenAt(P, last)) /\ OpenAt(P, last) \in SUBSET D
        /\ OpenExposure(P, last) = SumFunctionOnSet(Exposures(P), OpenAt(P, last))
        /\ OpenExposure(P, last) \in Nat
    BY ExposureOfOpen
  <2>7. \A n \in OpenAt(P, last) : Exposures(P)[n] \in Nat
    BY <2>6 DEF Exposures, PositionTable
  <2>8. SumFunctionOnSet(Exposures(P), A) <= SumFunctionOnSet(Exposures(P), OpenAt(P, last))
    BY <2>5, <2>6, <2>7, SumSubset
  <2>9. OpenExposure(P, last) <= Max(E)
    BY <1>5, <1>6, <2>4
  <2>10. OpenExposure(P, moment) <= OpenExposure(P, last)
    BY <1>8, <2>6, <2>8
  <2>. QED BY <1>3, <1>7, <1>8, <2>6, <2>9, <2>10
<1>. QED BY <1>3, <1>7, <1>9, <1>10

\* fewer of the same positions have no more open
LEMMA ExposureShrinks ==
    ASSUME NEW P, PositionTable(P), NEW Q, DOMAIN Q \subseteq DOMAIN P,
           \A n \in DOMAIN Q : Q[n] = P[n], NEW moment
    PROVE  OpenExposure(Q, moment) <= OpenExposure(P, moment)
<1>1. PositionTable(Q)
  BY FS_Subset DEF PositionTable
<1>2. OpenAt(Q, moment) \in SUBSET OpenAt(P, moment)
  BY DEF OpenAt
<1>3. /\ OpenExposure(P, moment) = SumFunctionOnSet(Exposures(P), OpenAt(P, moment))
      /\ OpenExposure(Q, moment) = SumFunctionOnSet(Exposures(Q), OpenAt(Q, moment))
      /\ IsFiniteSet(OpenAt(P, moment)) /\ IsFiniteSet(OpenAt(Q, moment))
      /\ OpenAt(P, moment) \in SUBSET DOMAIN P /\ OpenAt(Q, moment) \in SUBSET DOMAIN Q
  BY <1>1, ExposureOfOpen
<1>4. \A n \in OpenAt(Q, moment) : Exposures(Q)[n] = Exposures(P)[n]
  BY <1>3 DEF Exposures
<1>5. SumFunctionOnSet(Exposures(Q), OpenAt(Q, moment)) =
      SumFunctionOnSet(Exposures(P), OpenAt(Q, moment))
  BY <1>3, <1>4, SumAgree
<1>6. \A n \in OpenAt(P, moment) : Exposures(P)[n] \in Nat
  BY <1>3 DEF Exposures, PositionTable
<1>7. SumFunctionOnSet(Exposures(P), OpenAt(Q, moment)) <=
      SumFunctionOnSet(Exposures(P), OpenAt(P, moment))
  BY <1>2, <1>3, <1>6, SumSubset
<1>. QED BY <1>3, <1>5, <1>7

PositionsOf(X) == [o \in X |-> Position(SignalOf(o))]

LEMMA PositionsOfSignals ==
    ASSUME OrbDays, NEW X \in SUBSET Rankable, \A n \in X : SignalOf(n).executed
    PROVE  PositionTable(PositionsOf(X))
<1>1. IsFiniteSet(X)
  BY RankableNames, FS_Subset
<1>2. ASSUME NEW n \in X
      PROVE  /\ Position(SignalOf(n)).enters \in Nat /\ Position(SignalOf(n)).exits \in Nat
             /\ Position(SignalOf(n)).exposure \in Nat
  <2>. DEFINE s == SignalOf(n)
  <2>1. s.distance \in Nat \ {0} /\ s.entry \in Int /\ s.enters \in Nat /\ s.exits \in Nat
    BY SignalOfRankable
  <2>2. OrbShares(s) \in Nat
    <3>. DEFINE d == s.distance
    <3>1. d \in Nat \ {0} /\ risk_per_trade \in Nat
      BY <2>1, OrbAssumption
    <3>. HIDE DEF d
    <3>2. risk_per_trade \div d \in Nat
      BY <3>1
    <3>. QED BY <3>2 DEF OrbShares, d
  <2>3. Magnitude(s.entry) \in Nat
    BY <2>1 DEF Magnitude
  <2>. HIDE DEF s
  <2>4. Exposure(s) \in Nat
    BY <2>2, <2>3 DEF Exposure
  <2>. QED BY <2>1, <2>4 DEF Position, s
<1>3. DOMAIN PositionsOf(X) = X /\ \A n \in X : PositionsOf(X)[n] = Position(SignalOf(n))
  BY DEF PositionsOf
<1>. QED BY <1>1, <1>2, <1>3 DEF PositionTable

-----------------------------------------------------------------------------
(* The books.                                                                  *)
ExecutedIn(table) == {n \in DOMAIN table : table[n] = "EXECUTED"}
Taken(b, n) ==
    /\ n \in Rankable /\ SignalOf(n).executed
    /\ Direction(candidates[n].path) = "SHORT" => AllowShorts(b)
BookSound(b, X) ==
    /\ \A n \in X : Taken(b, n)
    /\ X # {} => \A moment \in Nat : OpenExposure(PositionsOf(X), moment) <= CapOf(b)

\* what a row is if it was executed
LEMMA ExecutedOutcome ==
    ASSUME OrbDays, NEW b \in Books, NEW n \in Rankable, Outcome(b, n) = "EXECUTED"
    PROVE  /\ Taken(b, n)
           /\ ~(MaximumExposure(PositionsOf(Executed(b) \cup {n}), n) > CapOf(b))
<1>. DEFINE signal == SignalOf(n)
<1>1. SelectionStatus(n) = "SELECTED"
  BY DEF Outcome, SelectionStatus
<1>2. ~(Direction(candidates[n].path) = "SHORT" /\ ~AllowShorts(b))
  BY <1>1 DEF Outcome
<1>3. ~signal.executed => signal.reason \in {"DOJI_SKIPPED", "NOT_TRIGGERED"}
  <2>1. CASE Direction(candidates[n].path) = "DOJI"
    BY <2>1 DEF SignalOf, NoSignal
  <2>2. CASE Direction(candidates[n].path) # "DOJI"
    BY <2>2 DEF SignalOf, Signal, NoSignal
  <2>. QED BY <2>1, <2>2
<1>. HIDE DEF signal
<1>4. Outcome(b, n) =
          IF ~signal.executed THEN signal.reason
          ELSE IF OrbShares(signal) = 0 THEN "POSITION_TOO_SMALL"
          ELSE IF MaximumExposure(PositionsOf(Executed(b) \cup {n}), n) > CapOf(b) THEN Exhausted(b)
          ELSE "EXECUTED"
  BY <1>1, <1>2 DEF Outcome, PositionsOf, signal
<1>5. signal.executed
  BY <1>3, <1>4
<1>6. ~(MaximumExposure(PositionsOf(Executed(b) \cup {n}), n) > CapOf(b))
  BY <1>4, <1>5 DEF Exhausted
<1>. QED BY <1>2, <1>5, <1>6 DEF Taken, signal

LEMMA CapType == \A b \in Books : CapOf(b) \in Nat
BY OrbAssumption DEF CapOf

\* the next row keeps a book sound, whatever becomes of it
LEMMA NextRowIsSound ==
    ASSUME OrbDays, NEW b \in Books, BookSound(b, Executed(b)), NEW n \in Rankable
    PROVE  LET table == [o \in DOMAIN results[b] \cup {n} |->
                            IF o = n THEN Outcome(b, n) ELSE results[b][o]]
           IN  BookSound(b, ExecutedIn(table))
<1>. DEFINE table == [o \in DOMAIN results[b] \cup {n} |->
                         IF o = n THEN Outcome(b, n) ELSE results[b][o]]
            X == Executed(b)
            Y == ExecutedIn(table)
<1>1. X \in SUBSET Rankable /\ \A o \in X : SignalOf(o).executed
  BY DEF BookSound, Taken
<1>2. CapOf(b) \in Nat
  BY CapType
<1>3. CASE Outcome(b, n) = "EXECUTED"
  <2>1. Y = X \cup {n}
    BY <1>3 DEF ExecutedIn, Executed
  <2>2. Taken(b, n) /\ ~(MaximumExposure(PositionsOf(Y), n) > CapOf(b))
    BY <1>3, <2>1, ExecutedOutcome
  <2>. HIDE DEF X, Y
  <2>3. Y \in SUBSET Rankable /\ (\A o \in Y : SignalOf(o).executed) /\ \A o \in Y : Taken(b, o)
    BY <2>1, <2>2 DEF BookSound, Taken, X
  <2>4. PositionTable(PositionsOf(Y)) /\ DOMAIN PositionsOf(Y) = Y /\ Y # {}
    BY <2>1, <2>3, PositionsOfSignals DEF PositionsOf
  <2>5. ASSUME NEW moment \in Nat
        PROVE  OpenExposure(PositionsOf(Y), moment) <= CapOf(b)
    <3>1. /\ MaximumExposure(PositionsOf(Y), n) \in Nat
          /\ OpenExposure(PositionsOf(Y), moment) <= MaximumExposure(PositionsOf(Y), n)
      BY <2>4, ExposureAtAnyMoment
    <3>2. OpenExposure(PositionsOf(Y), moment) \in Nat
      BY <2>4, ExposureOfOpen
    <3>. QED BY <1>2, <2>2, <3>1, <3>2
  <2>. QED BY <2>3, <2>5 DEF BookSound, Y
<1>4. CASE Outcome(b, n) # "EXECUTED"
  <2>1. Y \subseteq X
    BY <1>4 DEF ExecutedIn, Executed
  <2>. HIDE DEF X, Y
  <2>2. \A o \in Y : Taken(b, o)
    BY <2>1 DEF BookSound, X
  <2>3. PositionTable(PositionsOf(X)) /\ PositionTable(PositionsOf(Y))
    <3>1. Y \in SUBSET Rankable /\ \A o \in Y : SignalOf(o).executed
      BY <1>1, <2>1
    <3>. QED BY <1>1, <3>1, PositionsOfSignals
  <2>4. /\ DOMAIN PositionsOf(Y) \subseteq DOMAIN PositionsOf(X)
        /\ \A o \in DOMAIN PositionsOf(Y) : PositionsOf(Y)[o] = PositionsOf(X)[o]
    BY <2>1 DEF PositionsOf
  <2>5. ASSUME Y # {}, NEW moment \in Nat
        PROVE  OpenExposure(PositionsOf(Y), moment) <= CapOf(b)
    <3>1. OpenExposure(PositionsOf(X), moment) <= CapOf(b)
      BY <2>1, <2>5 DEF BookSound, X
    <3>2. OpenExposure(PositionsOf(Y), moment) <= OpenExposure(PositionsOf(X), moment)
      BY <2>3, <2>4, ExposureShrinks
    <3>3. OpenExposure(PositionsOf(X), moment) \in Nat /\ OpenExposure(PositionsOf(Y), moment) \in Nat
      BY <2>3, ExposureOfOpen
    <3>. QED BY <1>2, <3>1, <3>2, <3>3
  <2>. QED BY <2>2, <2>5 DEF BookSound, Y
<1>. QED BY <1>3, <1>4

OrbInv ==
    /\ orbStage \in {"warm", "sizing", "done"} /\ cachedSessions \in SUBSET PriorSessions
    /\ orbStage = "warm" => results = NoResults
    /\ orbStage # "warm" => candidates \in [Names -> OrbProfiles]
    /\ book \in DOMAIN BookOrder /\ sized \in Nat
    /\ DOMAIN results = Books
    /\ \A b \in Books : BookSound(b, Executed(b))

LEMMA NothingExecuted ==
    ASSUME results = NoResults
    PROVE  DOMAIN results = Books /\ \A b \in Books : Executed(b) = {} /\ BookSound(b, Executed(b))
<1>1. DOMAIN results = Books /\ \A b \in Books : Executed(b) = {}
  BY DEF NoResults, Executed
<1>. QED BY <1>1 DEF BookSound

LEMMA NothingWillBe ==
    ASSUME results' = NoResults
    PROVE  (DOMAIN results = Books /\ \A b \in Books : BookSound(b, Executed(b)))'
<1>1. DOMAIN results' = Books /\ \A b \in Books : Executed(b)' = {}
  BY DEF NoResults, Executed
<1>. QED BY <1>1 DEF BookSound

LEMMA OrbInitial == OrbInit => OrbInv
<1>. SUFFICES ASSUME OrbInit PROVE OrbInv
  OBVIOUS
<1>1. results = NoResults
  BY DEF OrbInit
<1>. QED BY <1>1, NothingExecuted DEF OrbInit, OrbInv, BookOrder

\* the rows are judged by the profiles and the baselines, which do not change
LEMMA SameJudgement ==
    ASSUME candidates' = candidates, cachedSessions' = cachedSessions
    PROVE  /\ \A n : SignalOf(n)' = SignalOf(n)
           /\ Rankable' = Rankable
           /\ \A b, n : Taken(b, n)' <=> Taken(b, n)
<1>1. \A n : SignalOf(n)' = SignalOf(n)
  BY DEF SignalOf
<1>2. Rankable' = Rankable
  BY DEF Rankable, Passing, HasBaseline, Baseline
<1>3. \A b, n : Taken(b, n)' <=> Taken(b, n)
  BY <1>1, <1>2 DEF Taken
<1>. QED BY <1>1, <1>2, <1>3

LEMMA SameBook ==
    ASSUME candidates' = candidates, cachedSessions' = cachedSessions
    PROVE  \A b, X : BookSound(b, X) => BookSound(b, X)'
<1>1. /\ \A n : SignalOf(n)' = SignalOf(n)
      /\ \A b, n : Taken(b, n)' <=> Taken(b, n)
  BY SameJudgement
<1>2. \A X : PositionsOf(X)' = PositionsOf(X)
  BY <1>1 DEF PositionsOf
<1>. QED BY <1>1, <1>2 DEF BookSound

LEMMA OrbStep == OrbInv /\ [OrbNext]_orbVars => OrbInv'
<1>. SUFFICES ASSUME OrbInv, [OrbNext]_orbVars PROVE OrbInv'
  OBVIOUS
<1>1. ASSUME NEW d \in PriorSessions, WarmSession(d) PROVE OrbInv'
  <2>1. results' = NoResults
    BY <1>1 DEF OrbInv, WarmSession
  <2>2. (DOMAIN results = Books /\ \A b \in Books : BookSound(b, Executed(b)))'
    BY <2>1, NothingWillBe
  <2>. QED BY <1>1, <2>1, <2>2 DEF OrbInv, WarmSession
<1>2. ASSUME NEW profiles \in [Names -> OrbProfiles], BuildOrb(profiles) PROVE OrbInv'
  <2>1. results' = NoResults
    BY <1>2 DEF OrbInv, BuildOrb
  <2>2. (DOMAIN results = Books /\ \A b \in Books : BookSound(b, Executed(b)))'
    BY <2>1, NothingWillBe
  <2>. QED BY <1>2, <2>1, <2>2 DEF OrbInv, BuildOrb
<1>3. CASE SizeRow
  <2>. DEFINE b == BookOrder[book]
              n == Ranked[sized + 1]
              table == [o \in DOMAIN results[b] \cup {n} |->
                            IF o = n THEN Outcome(b, n) ELSE results[b][o]]
  <2>1. /\ orbStage = "sizing" /\ sized < Len(Ranked) /\ sized' = sized + 1
        /\ UNCHANGED <<cachedSessions, orbStage, candidates, book>>
        /\ results' = [results EXCEPT ![b] = table]
    BY <1>3 DEF SizeRow
  <2>2. OrbDays /\ b \in Books /\ sized \in Nat
    BY <2>1 DEF OrbInv, OrbDays, Books
  <2>3. n \in Rankable
    <3>1. Ranked \in Seq(Rankable) /\ \A r \in DOMAIN Ranked : Ranked[r] \in Rankable
      BY <2>2, RankedNames
    <3>2. DOMAIN Ranked = 1..Len(Ranked) /\ Len(Ranked) \in Nat
      BY <3>1
    <3>. QED BY <2>1, <2>2, <3>1, <3>2
  <2>. HIDE DEF b, n
  <2>4. BookSound(b, ExecutedIn(table))
    BY <2>2, <2>3, NextRowIsSound DEF OrbInv
  <2>. HIDE DEF table
  <2>5. DOMAIN results' = Books /\ results'[b] = table
        /\ \A c \in Books : c # b => results'[c] = results[c]
    BY <2>1, <2>2 DEF OrbInv
  <2>6. \A c \in Books : Executed(c)' = IF c = b THEN ExecutedIn(table) ELSE Executed(c)
    BY <2>5 DEF Executed, ExecutedIn
  <2>7. \A c \in Books : BookSound(c, Executed(c)')
    BY <2>4, <2>6 DEF OrbInv
  <2>8. \A c \in Books : BookSound(c, Executed(c))'
    <3>1. \A c, X : BookSound(c, X) => BookSound(c, X)'
      BY <2>1, SameBook
    <3>. QED BY <2>7, <3>1
  <2>. QED BY <2>1, <2>2, <2>5, <2>8 DEF OrbInv, OrbDays
<1>4. CASE NextBook
  <2>1. /\ orbStage = "sizing" /\ orbStage' \in {"sizing", "done"}
        /\ UNCHANGED <<cachedSessions, candidates, results>>
        /\ book' \in DOMAIN BookOrder /\ sized' \in Nat
    BY <1>4 DEF NextBook, OrbInv, BookOrder
  <2>2. \A c \in Books : BookSound(c, Executed(c))'
    <3>1. \A c, X : BookSound(c, X) => BookSound(c, X)'
      BY <2>1, SameBook
    <3>2. \A c \in Books : Executed(c)' = Executed(c)
      BY <2>1 DEF Executed
    <3>. QED BY <3>1, <3>2 DEF OrbInv
  <2>. QED BY <2>1, <2>2 DEF OrbInv
<1>5. CASE UNCHANGED orbVars
  <2>1. UNCHANGED <<cachedSessions, orbStage, candidates, book, sized, results>>
    BY <1>5 DEF orbVars
  <2>2. \A c \in Books : BookSound(c, Executed(c))'
    <3>1. \A c, X : BookSound(c, X) => BookSound(c, X)'
      BY <2>1, SameBook
    <3>2. \A c \in Books : Executed(c)' = Executed(c)
      BY <2>1 DEF Executed
    <3>. QED BY <3>1, <3>2 DEF OrbInv
  <2>. QED BY <2>1, <2>2 DEF OrbInv
<1>. QED BY <1>1, <1>2, <1>3, <1>4, <1>5 DEF OrbNext

LEMMA OrbInduction == OrbSpec => []OrbInv
BY OrbInitial, OrbStep, PTL DEF OrbSpec

\* No book ever has more open than its cap, and no position loses more than the
\* risk of a trade unless the bar that took it out opened beyond the stop.
THEOREM BooksStayWithinLimits == OrbSpec => []BooksWithinLimits
<1>1. OrbInv => BooksWithinLimits
  <2>. SUFFICES ASSUME OrbInv, NEW b \in Books
                PROVE  /\ \A n \in Executed(b) : LET s == SignalOf(n) IN
                             /\ s.side = "SHORT" => AllowShorts(b)
                             /\ ~s.gapped => OrbShares(s) * (s.exit - s.entry) >= -risk_per_trade
                       /\ LET positions == [n \in Executed(b) |-> Position(SignalOf(n))]
                          IN  \A n, o \in Executed(b) :
                                 \A moment \in positions[n].enters..positions[o].exits :
                                    OpenExposure(positions, moment) <= CapOf(b)
    BY DEF BooksWithinLimits
  <2>1. CASE Executed(b) = {}
    BY <2>1
  <2>2. CASE Executed(b) # {}
    <3>1. /\ BookSound(b, Executed(b)) /\ \A n \in Executed(b) : Taken(b, n)
          /\ \A moment \in Nat : OpenExposure(PositionsOf(Executed(b)), moment) <= CapOf(b)
      BY <2>2 DEF OrbInv, BookSound
    <3>2. OrbDays
      <4>1. results # NoResults
        BY <2>2, NothingExecuted
      <4>. QED BY <4>1 DEF OrbInv, OrbDays
    <3>3. ASSUME NEW n \in Executed(b)
          PROVE  LET s == SignalOf(n)
                 IN  /\ s.side = "SHORT" => AllowShorts(b)
                     /\ ~s.gapped => OrbShares(s) * (s.exit - s.entry) >= -risk_per_trade
                     /\ s.enters \in Nat /\ s.exits \in Nat
      <4>. DEFINE s == SignalOf(n)
                  d == s.distance
                  change == s.exit - s.entry
      <4>1. n \in Rankable /\ s.executed
            /\ (Direction(candidates[n].path) = "SHORT" => AllowShorts(b))
        BY <3>1 DEF Taken
      <4>2. /\ s.side = Direction(candidates[n].path) /\ d \in Nat \ {0}
            /\ s.entry \in Int /\ s.exit \in Int /\ s.enters \in Nat /\ s.exits \in Nat
            /\ ~s.gapped => change >= -d
        BY <3>2, <4>1, SignalOfRankable
      <4>3. change \in Int
        BY <4>2
      <4>4. OrbShares(s) = risk_per_trade \div d
        BY DEF OrbShares
      <4>. HIDE DEF change, d
      <4>5. ~s.gapped => (risk_per_trade \div d) * change >= -risk_per_trade
        BY <4>2, <4>3, LossWithinRisk, OrbAssumption
      <4>. QED BY <4>1, <4>2, <4>4, <4>5 DEF change
    <3>4. ASSUME NEW n \in Executed(b), NEW o \in Executed(b),
                 NEW moment \in PositionsOf(Executed(b))[n].enters..PositionsOf(Executed(b))[o].exits
          PROVE  OpenExposure(PositionsOf(Executed(b)), moment) <= CapOf(b)
      <4>1. /\ PositionsOf(Executed(b))[n].enters \in Nat
            /\ PositionsOf(Executed(b))[o].exits \in Nat
        BY <3>3 DEF PositionsOf, Position
      <4>2. moment \in Nat
        BY <4>1
      <4>. QED BY <3>1, <4>2
    <3>. QED BY <3>3, <3>4 DEF PositionsOf
  <2>. QED BY <2>1, <2>2
<1>. QED BY <1>1, OrbInduction, PTL
=============================================================================
