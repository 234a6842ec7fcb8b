-------------------------- MODULE DeltaPullProofs --------------------------
(***************************************************************************)
(* What a cursor promises, for any orders, phones, crews, page size and    *)
(* number of overlapping transactions.                                     *)
(***************************************************************************)
EXTENDS DeltaPull, FiniteSetTheorems, WellFoundedInduction, TLAPS

-----------------------------------------------------------------------------
(* Positions *)

\* (updated_at, id) orders positions totally.
LEMMA PositionsOrdered ==
  ASSUME NEW a \in Nat \X Nat, NEW b \in Nat \X Nat, NEW c \in Nat \X Nat
  PROVE  /\ ~After(a, a)
         /\ After(a, b) \/ After(b, a) \/ a = b
         /\ After(a, b) /\ After(b, c) => After(a, c)
         /\ ~After(a, b) /\ ~After(b, c) => ~After(a, c)
         /\ After(a, b) => ~After(b, a)
  BY DEF After

\* Where orders and cursors stand.
LEMMA PositionsTyped ==
  ASSUME TypeOK
  PROVE  /\ \A o \in Orders : /\ Pos(o) \in Nat \X Nat
                              /\ Pos(o) \in Position
                              /\ After(Pos(o), Start)
         /\ \A p \in Phones : cursor[p] \in Nat \X Nat
         /\ Start \in Position
  <1>1. \A o \in Orders : order[o].updated \in 1 .. MaxClock /\ o \in Nat
    BY OrdersNumbered DEF TypeOK, Row
  <1>2. \A o \in Orders : Pos(o) \in Nat \X Nat /\ Pos(o) \in Position /\ After(Pos(o), Start)
    BY <1>1, BoundsGiven DEF Pos, Position, After, Start
  <1>3. \A p \in Phones : cursor[p] \in Nat \X Nat
    <2>1. 0 .. MaxClock \subseteq Nat /\ Orders \cup {0} \subseteq Nat
      BY OrdersNumbered, BoundsGiven
    <2>2. Position \subseteq Nat \X Nat
      BY <2>1 DEF Position
    <2> QED
      BY <2>2 DEF TypeOK
  <1>4. Start \in Position
    BY BoundsGiven DEF Start, Position
  <1> QED
    BY <1>2, <1>3, <1>4

\* A set of naturals has a least element.
LEMMA LeastNatural ==
  ASSUME NEW T, T \subseteq Nat, T # {}
  PROVE  \E x \in T : \A y \in T : ~(y < x)
  <1>1. ASSUME NEW R, IsWellFoundedOn(R, Nat),
               \A x \in Nat, y \in Nat : x < y => <<x, y>> \in R
        PROVE  \E x \in T : \A y \in T : ~(y < x)
    <2>1. \E x \in T : \A y \in T : ~(<<y, x>> \in R)
      BY ONLY IsWellFoundedOn(R, Nat), T \subseteq Nat, T # {}, WFMin, Zenon
    <2>2. PICK x \in T : \A y \in T : ~(<<y, x>> \in R)
      BY <2>1
    <2>3. ASSUME NEW y \in T PROVE ~(y < x)
      <3>1. y < x => <<y, x>> \in R
        BY <1>1
      <3> QED BY <2>2, <3>1
    <2> QED BY <2>3
  <1>2. \A x \in Nat, y \in Nat : x < y => <<x, y>> \in OpToRel(<, Nat)
    BY DEF OpToRel
  <1> QED BY <1>1, <1>2, NatLessThanWellFounded

-----------------------------------------------------------------------------
(* Pages *)

\* A page has no holes: what changed before one of its orders is on it.
LEMMA PageHasNoHoles ==
  ASSUME TypeOK, NEW p \in Phones, NEW o \in Page(p), NEW x \in Changed(p),
         ~After(Pos(x), Pos(o))
  PROVE  x \in Page(p)
  <1> DEFINE Before(y) == {z \in Changed(p) : After(Pos(y), Pos(z))}
  <1>1. Changed(p) \subseteq Orders /\ Page(p) \subseteq Changed(p)
    BY DEF Changed, Page
  <1>2. Before(x) \subseteq Before(o)
    <2> SUFFICES ASSUME NEW z \in Changed(p), After(Pos(x), Pos(z))
                 PROVE  After(Pos(o), Pos(z))
      OBVIOUS
    <2>1. Pos(x) \in Nat \X Nat /\ Pos(o) \in Nat \X Nat /\ Pos(z) \in Nat \X Nat
      BY <1>1, PositionsTyped
    <2>2. ~After(Pos(z), Pos(x))
      BY <2>1, PositionsOrdered
    <2> QED
      BY <2>1, <2>2, PositionsOrdered
  <1>3. IsFiniteSet(Changed(p))
    BY <1>1, OrdersNumbered, FS_Subset
  <1>4. IsFiniteSet(Before(o))
    BY <1>3, FS_Subset
  <1>5. /\ Cardinality(Before(x)) <= Cardinality(Before(o))
        /\ Cardinality(Before(x)) \in Nat /\ Cardinality(Before(o)) \in Nat
    BY <1>2, <1>4, FS_Subset, FS_CardinalityType
  <1>6. Cardinality(Before(o)) < Limit
    BY DEF Page
  <1>7. Cardinality(Before(x)) < Limit
    BY <1>5, <1>6, LimitPositive
  <1> QED
    BY <1>7 DEF Page

\* A page with orders on it has a last one.
LEMMA PageHasLast ==
  ASSUME TypeOK, NEW p \in Phones, Page(p) # {}
  PROVE  \E last \in Page(p) : \A o \in Page(p) : ~After(Pos(o), Pos(last))
  <1> DEFINE Later(o) == {z \in Page(p) : After(Pos(z), Pos(o))}
             Counts == {Cardinality(Later(o)) : o \in Page(p)}
  <1>1. Page(p) \subseteq Orders
    BY DEF Page, Changed
  <1>2. \A o \in Page(p) : Pos(o) \in Nat \X Nat
    BY <1>1, PositionsTyped
  <1>3. IsFiniteSet(Page(p))
    BY <1>1, OrdersNumbered, FS_Subset
  <1>4. ASSUME NEW o \in Page(p)
        PROVE  IsFiniteSet(Later(o)) /\ Cardinality(Later(o)) \in Nat
    BY <1>3, FS_Subset, FS_CardinalityType
  <1>5. Counts \subseteq Nat /\ Counts # {}
    BY <1>4
  <1>6. PICK last \in Page(p) :
          \A o \in Page(p) : ~(Cardinality(Later(o)) < Cardinality(Later(last)))
    <2>1. PICK n \in Counts : \A k \in Counts : ~(k < n)
      BY <1>5, LeastNatural
    <2> QED
      BY <2>1
  <1>7. ASSUME NEW o \in Page(p), After(Pos(o), Pos(last)) PROVE FALSE
    <2>1. Later(o) \subseteq Later(last)
      BY <1>2, <1>7, PositionsOrdered
    <2>2. o \in Later(last) /\ o \notin Later(o)
      BY <1>2, <1>7, PositionsOrdered
    <2>3. /\ Cardinality(Later(o)) <= Cardinality(Later(last))
          /\ Cardinality(Later(o)) # Cardinality(Later(last))
      BY <1>4, <2>1, <2>2, FS_Subset
    <2>4. Cardinality(Later(o)) < Cardinality(Later(last))
      BY <1>4, <2>3
    <2> QED
      BY <1>6, <2>4
  <1> QED
    BY <1>7

\* The cursor moves to the last order of the page, or stays.
LEMMA NextCursorIs ==
  ASSUME TypeOK, NEW p \in Phones
  PROVE  /\ Page(p) = {} => NextCursor(p) = cursor[p]
         /\ Page(p) # {} =>
              \E last \in Page(p) : /\ NextCursor(p) = Pos(last)
                                    /\ \A o \in Page(p) : ~After(Pos(o), Pos(last))
         /\ NextCursor(p) \in Position
  <1>1. CASE Page(p) = {}
    BY <1>1 DEF NextCursor, TypeOK
  <1>2. CASE Page(p) # {}
    <2> DEFINE IsLast(pos) == \A o \in Page(p) : ~After(Pos(o), pos)
               all == {Pos(o) : o \in Page(p)}
    <2>1. \E pos \in all : IsLast(pos)
      BY <1>2, PageHasLast
    <2>2. NextCursor(p) = CHOOSE pos \in all : IsLast(pos)
      BY <1>2 DEF NextCursor
    <2>3. NextCursor(p) \in all /\ IsLast(NextCursor(p))
      BY <2>1, <2>2
    <2>4. Page(p) \subseteq Orders
      BY DEF Page, Changed
    <2> QED
      BY <1>2, <2>3, <2>4, PositionsTyped
  <1> QED
    BY <1>1, <1>2

\* Whatever the new cursor passes was seen before, is on the page, or is none of
\* the phone's business.
LEMMA NothingSkipped ==
  ASSUME TypeOK, NEW p \in Phones, NEW o \in Orders, ~After(Pos(o), NextCursor(p))
  PROVE  o \in Page(p) \/ o \notin Changed(p)
  <1> SUFFICES ASSUME o \in Changed(p) PROVE o \in Page(p)
    OBVIOUS
  <1>1. After(Pos(o), cursor[p])
    BY DEF Changed, Unseen
  <1>2. Page(p) # {}
    BY <1>1, NextCursorIs
  <1>3. PICK last \in Page(p) : NextCursor(p) = Pos(last)
    BY <1>2, NextCursorIs
  <1> QED
    BY <1>3, PageHasNoHoles

-----------------------------------------------------------------------------
(* The inductive invariant *)

PullInv == TypeOK /\ LedgerCoversPhone /\ CursorCovers

LEMMA InitHolds == Init => PullInv
  <1> SUFFICES ASSUME Init PROVE PullInv
    OBVIOUS
  <1>1. TypeOK
    <2>1. 1 \in 1 .. MaxClock /\ 0 \in 0 .. MaxClock /\ 0 \in 0 .. MaxDeclared
      BY BoundsGiven
    <2> QED
      BY <2>1 DEF Init, TypeOK, Row, Position, Start
  <1>2. LedgerCoversPhone /\ CursorCovers
    BY <1>1, PositionsTyped DEF Init, LedgerCoversPhone, CursorCovers, Right, _reaches, Reached
  <1> QED
    BY <1>1, <1>2 DEF PullInv

\* What a phone is meant to hold, and what it has right, depend on its own row,
\* its own copies and the order's row.
LEMMA SameRight ==
  ASSUME NEW p \in Phones, NEW o \in Orders,
         order'[o] = order[o], person'[p] = person[p], crew'[p] = crew[p],
         held'[p][o] = held[p][o]
  PROVE  /\ Right(p, o)' <=> Right(p, o)
         /\ _reaches(p, o)' <=> _reaches(p, o)
         /\ Pos(o)' = Pos(o)
  BY DEF Right, _reaches, Reached, Pos

\* Transactions that begin or roll back touch no row.
LEMMA TransactionKeeps ==
  ASSUME PullInv, NEW s \in Sessions, Begin(s) \/ Rollback(s)
  PROVE  PullInv'
  <1> USE DEF PullInv
  <1>1. TypeOK'
    <2>1. clock' \in 1 .. MaxClock /\ clock' \in 0 .. MaxClock /\ 0 \in 0 .. MaxClock
      BY BoundsGiven DEF TypeOK, Begin, Rollback
    <2>2. txn' \in [Sessions -> 0 .. MaxClock]
      BY <2>1 DEF TypeOK, Begin, Rollback
    <2> QED
      BY <2>1, <2>2 DEF TypeOK, Begin, Rollback
  <1>2. LedgerCoversPhone'
    BY DEF LedgerCoversPhone, Begin, Rollback
  <1>3. CursorCovers'
    BY SameRight DEF CursorCovers, Begin, Rollback
  <1> QED
    BY <1>1, <1>2, <1>3

\* A commit leaves behind a cursor only what `behind` records.
LEMMA CommitKeeps ==
  ASSUME PullInv, NEW s \in Sessions, Commit(s)
  PROVE  PullInv'
  <1> USE DEF PullInv
  <1>1. PICK changed \in SUBSET Orders \ {{}}, door \in Door, inField \in BOOLEAN :
          /\ order' = [o \in Orders |->
                         IF o \in changed
                           THEN [to |-> door, field |-> inField, updated |-> txn[s]]
                           ELSE order[o]]
          /\ behind' = {m \in behind : m[2] \notin changed} \cup
                       {m \in Phones \X changed :
                          ~After(<<txn[s], m[2]>>, cursor[m[1]])}
    BY DEF Commit
  <1>2. TypeOK'
    <2>1. txn[s] \in 1 .. MaxClock /\ 0 \in 0 .. MaxClock
      BY BoundsGiven DEF Commit, TypeOK
    <2>2. order' \in [Orders -> Row]
      BY <1>1, <2>1 DEF TypeOK, Row
    <2>3. txn' \in [Sessions -> 0 .. MaxClock]
      BY <2>1 DEF Commit, TypeOK
    <2>4. behind' \subseteq Phones \X Orders
      BY <1>1 DEF TypeOK
    <2> QED
      BY <2>2, <2>3, <2>4 DEF Commit, TypeOK
  <1>3. LedgerCoversPhone'
    BY DEF LedgerCoversPhone, Commit
  <1>4. CursorCovers'
    <2> SUFFICES ASSUME NEW p \in Phones, NEW o \in Orders
                 PROVE  After(Pos(o), cursor[p])' \/ Right(p, o)' \/ <<p, o>> \in behind'
      BY DEF CursorCovers
    <2>1. CASE o \in changed
      <3>1. Pos(o)' = <<txn[s], o>> /\ cursor' = cursor
        BY <1>1, <2>1 DEF Commit, Pos
      <3> QED
        BY <1>1, <2>1, <3>1 DEF After
    <2>2. CASE o \notin changed
      <3>1. order'[o] = order[o] /\ (<<p, o>> \in behind => <<p, o>> \in behind')
        BY <1>1, <2>2
      <3>2. cursor' = cursor /\ person' = person /\ crew' = crew /\ held' = held
        BY DEF Commit
      <3>3. Right(p, o)' <=> Right(p, o)
        BY <3>1, <3>2, SameRight
      <3>4. After(Pos(o), cursor[p])' <=> After(Pos(o), cursor[p])
        BY <3>1, <3>2 DEF Pos, After
      <3> QED
        BY <3>1, <3>3, <3>4 DEF CursorCovers
    <2> QED
      BY <2>1, <2>2
  <1> QED
    BY <1>2, <1>3, <1>4

\* A declaration changes what one phone is meant to hold, and records what of it
\* lies behind the cursor.
LEMMA DeclarationKeeps ==
  ASSUME PullInv, NEW p \in Phones,
         NEW owner \in People, NEW squad \in Crews \cup {None},
         person' = [person EXCEPT ![p] = owner],
         crew' = [crew EXCEPT ![p] = squad],
         declared < MaxDeclared, declared' = declared + 1,
         behind' = behind \cup ({p} \X Moved(p, owner, squad)),
         UNCHANGED <<clock, txn, order, delivered, cursor, held>>
  PROVE  PullInv'
  <1> USE DEF PullInv
  <1>1. TypeOK'
    <2>1. Moved(p, owner, squad) \subseteq Orders
      BY DEF Moved
    <2>2. behind' \subseteq Phones \X Orders
      BY <2>1 DEF TypeOK
    <2>3. person' \in [Phones -> People] /\ crew' \in [Phones -> Crews \cup {None}]
      BY DEF TypeOK
    <2>4. declared' \in 0 .. MaxDeclared
      BY BoundsGiven DEF TypeOK
    <2> QED
      BY <2>2, <2>3, <2>4 DEF TypeOK
  <1>2. LedgerCoversPhone'
    BY DEF LedgerCoversPhone
  <1>3. CursorCovers'
    <2> SUFFICES ASSUME NEW q \in Phones, NEW o \in Orders
                 PROVE  After(Pos(o), cursor[q])' \/ Right(q, o)' \/ <<q, o>> \in behind'
      BY DEF CursorCovers
    <2>1. After(Pos(o), cursor[q])' <=> After(Pos(o), cursor[q])
      BY DEF Pos, After
    <2>2. <<q, o>> \in behind => <<q, o>> \in behind'
      OBVIOUS
    <2>3. CASE q # p
      <3>1. person'[q] = person[q] /\ crew'[q] = crew[q]
        BY <2>3 DEF TypeOK
      <3>2. Right(q, o)' <=> Right(q, o)
        BY <3>1, SameRight
      <3> QED
        BY <2>1, <2>2, <3>2 DEF CursorCovers
    <2>4. CASE q = p /\ After(Pos(o), cursor[p])
      BY <2>1, <2>4
    <2>5. CASE q = p /\ ~After(Pos(o), cursor[p]) /\ o \in Moved(p, owner, squad)
      BY <2>5
    <2>6. CASE q = p /\ ~After(Pos(o), cursor[p]) /\ o \notin Moved(p, owner, squad)
      <3>1. person'[p] = owner /\ crew'[p] = squad
        BY DEF TypeOK
      <3>2. _reaches(p, o) <=> Reached(order[o], p, owner, squad)
        BY <2>6 DEF Moved, _reaches, Reached
      <3>3. _reaches(p, o)' <=> _reaches(p, o)
        BY <3>1, <3>2 DEF _reaches, Reached
      <3>4. Right(p, o)' <=> Right(p, o)
        BY <3>3 DEF Right
      <3> QED
        BY <2>2, <2>6, <3>4 DEF CursorCovers
    <2> QED
      BY <2>3, <2>4, <2>5, <2>6
  <1> QED
    BY <1>1, <1>2, <1>3

\* What a page brings, the phone has right; what its cursor passes beside it was
\* right before, or was never the phone's.
LEMMA PullKeeps ==
  ASSUME PullInv, NEW p \in Phones, Pull(p)
  PROVE  PullInv'
  <1> USE DEF PullInv
  <1>1. Page(p) \subseteq Orders
    BY DEF Page, Changed
  <1>2. /\ delivered'[p] = Recorded(p)
        /\ cursor'[p] = NextCursor(p)
        /\ \A o \in Orders :
             held'[p][o] = IF o \notin Page(p) THEN held[p][o]
                           ELSE IF _reaches(p, o) THEN order[o] ELSE None
        /\ \A q \in Phones \ {p} :
             /\ delivered'[q] = delivered[q]
             /\ cursor'[q] = cursor[q]
             /\ held'[q] = held[q]
        /\ UNCHANGED <<clock, txn, order, person, crew, declared, behind>>
    BY DEF Pull, TypeOK
  <1>3. TypeOK'
    <2>1. Recorded(p) \in SUBSET Orders
      BY <1>1 DEF Recorded, TypeOK
    <2>2. NextCursor(p) \in Position
      BY NextCursorIs
    <2>3. [o \in Orders |-> IF o \notin Page(p) THEN held[p][o]
                            ELSE IF _reaches(p, o) THEN order[o] ELSE None]
            \in [Orders -> Row \cup {None}]
      BY DEF TypeOK
    <2>4. delivered' \in [Phones -> SUBSET Orders] /\ cursor' \in [Phones -> Position]
      BY <2>1, <2>2 DEF Pull, TypeOK
    <2>5. held' \in [Phones -> [Orders -> Row \cup {None}]]
      BY <2>3 DEF Pull, TypeOK
    <2> QED
      BY <1>2, <2>4, <2>5 DEF TypeOK
  <1>4. LedgerCoversPhone'
    <2> SUFFICES ASSUME NEW q \in Phones, NEW o \in Orders, held'[q][o] # None
                 PROVE  o \in delivered'[q]
      BY DEF LedgerCoversPhone
    <2>1. CASE q # p
      BY <1>2, <2>1 DEF LedgerCoversPhone
    <2>2. CASE q = p /\ o \notin Page(p)
      BY <1>2, <2>2 DEF LedgerCoversPhone, Recorded
    <2>3. CASE q = p /\ o \in Page(p)
      BY <1>2, <2>3 DEF Recorded
    <2> QED
      BY <2>1, <2>2, <2>3
  <1>5. CursorCovers'
    <2> SUFFICES ASSUME NEW q \in Phones, NEW o \in Orders,
                        ~After(Pos(o), cursor[q])', <<q, o>> \notin behind'
                 PROVE  Right(q, o)'
      BY DEF CursorCovers
    <2>1. Pos(o)' = Pos(o) /\ <<q, o>> \notin behind
      BY <1>2 DEF Pos
    <2>2. CASE q # p
      <3>1. ~After(Pos(o), cursor[q])
        BY <1>2, <2>1, <2>2 DEF After
      <3> QED
        BY <1>2, <2>1, <2>2, <3>1, SameRight DEF CursorCovers
    <2>3. CASE q = p /\ o \in Page(p)
      <3>1. _reaches(p, o)' <=> _reaches(p, o)
        BY <1>2 DEF _reaches, Reached
      <3> QED
        BY <1>2, <2>3, <3>1 DEF Right
    <2>4. CASE q = p /\ o \notin Page(p)
      <3>1. ~After(Pos(o), NextCursor(p))
        BY <1>2, <2>1, <2>4 DEF After
      <3>2. o \notin Changed(p)
        BY <2>4, <3>1, NothingSkipped
      <3>3. held'[p][o] = held[p][o] /\ order'[o] = order[o]
        BY <1>2, <2>4
      <3>4. CASE After(Pos(o), cursor[p])
        <4>1. ~_reaches(p, o) /\ o \notin delivered[p]
          BY <3>2, <3>4 DEF Changed, Unseen
        <4>2. held[p][o] = None
          BY <4>1 DEF LedgerCoversPhone
        <4>3. Right(p, o)
          BY <4>1, <4>2 DEF Right
        <4> QED
          BY <1>2, <2>4, <3>3, <4>3, SameRight
      <3>5. CASE ~After(Pos(o), cursor[p])
        <4>1. Right(p, o)
          BY <2>1, <2>4, <3>5 DEF CursorCovers
        <4> QED
          BY <1>2, <2>4, <3>3, <4>1, SameRight
      <3> QED
        BY <3>4, <3>5
    <2> QED
      BY <2>2, <2>3, <2>4
  <1> QED
    BY <1>3, <1>4, <1>5

\* A lost answer leaves the ledger with more than the phone holds.
LEMMA LostKeeps ==
  ASSUME PullInv, NEW p \in Phones, PullLost(p)
  PROVE  PullInv'
  <1> USE DEF PullInv
  <1>1. Recorded(p) \in SUBSET Orders /\ delivered[p] \subseteq Recorded(p)
    BY DEF Recorded, Page, Changed, TypeOK
  <1>2. TypeOK'
    BY <1>1 DEF PullLost, TypeOK
  <1>3. LedgerCoversPhone'
    BY <1>1 DEF PullLost, LedgerCoversPhone, TypeOK
  <1>4. CursorCovers'
    BY SameRight DEF PullLost, CursorCovers
  <1> QED
    BY <1>2, <1>3, <1>4

\* From the start, every order lies ahead.
LEMMA StartOverKeeps ==
  ASSUME PullInv, NEW p \in Phones, StartOver(p)
  PROVE  PullInv'
  <1> USE DEF PullInv
  <1>1. /\ cursor' = [cursor EXCEPT ![p] = Start]
        /\ held'[p] \in {held[p], [o \in Orders |-> None]}
        /\ \A q \in Phones \ {p} : held'[q] = held[q] /\ cursor'[q] = cursor[q]
        /\ behind' = {m \in behind : m[1] # p}
        /\ UNCHANGED <<clock, txn, order, person, crew, delivered, declared>>
    BY DEF StartOver, TypeOK
  <1>2. TypeOK'
    <2>1. cursor' \in [Phones -> Position]
      BY <1>1, PositionsTyped DEF TypeOK
    <2>2. held' \in [Phones -> [Orders -> Row \cup {None}]]
      BY DEF StartOver, TypeOK
    <2> QED
      BY <1>1, <2>1, <2>2 DEF TypeOK
  <1>3. LedgerCoversPhone'
    BY <1>1 DEF LedgerCoversPhone
  <1>4. CursorCovers'
    <2> SUFFICES ASSUME NEW q \in Phones, NEW o \in Orders
                 PROVE  After(Pos(o), cursor[q])' \/ Right(q, o)' \/ <<q, o>> \in behind'
      BY DEF CursorCovers
    <2>1. Pos(o)' = Pos(o)
      BY <1>1 DEF Pos
    <2>2. CASE q = p
      <3>1. cursor'[p] = Start
        BY <1>1 DEF TypeOK
      <3>2. After(Pos(o), Start)
        BY PositionsTyped
      <3> QED
        BY <2>1, <2>2, <3>1, <3>2 DEF After, Start
    <2>3. CASE q # p
      <3>1. After(Pos(o), cursor[q])' <=> After(Pos(o), cursor[q])
        BY <1>1, <2>1, <2>3 DEF After
      <3>2. <<q, o>> \in behind => <<q, o>> \in behind'
        BY <1>1, <2>3
      <3>3. Right(q, o)' <=> Right(q, o)
        BY <1>1, <2>3, SameRight
      <3> QED
        BY <3>1, <3>2, <3>3 DEF CursorCovers
    <2> QED
      BY <2>2, <2>3
  <1> QED
    BY <1>2, <1>3, <1>4

\* A step that touches nothing.
LEMMA StutterKeeps ==
  ASSUME PullInv, UNCHANGED vars
  PROVE  PullInv'
  <1> USE DEF PullInv, vars
  <1>1. TypeOK'
    BY DEF TypeOK
  <1>2. LedgerCoversPhone'
    BY DEF LedgerCoversPhone
  <1>3. CursorCovers'
    BY SameRight DEF CursorCovers
  <1> QED
    BY <1>1, <1>2, <1>3

LEMMA StepHolds == PullInv /\ [Next]_vars => PullInv'
  <1> SUFFICES ASSUME PullInv, [Next]_vars PROVE PullInv'
    OBVIOUS
  <1>1. ASSUME NEW s \in Sessions, Begin(s) \/ Commit(s) \/ Rollback(s) PROVE PullInv'
    BY <1>1, TransactionKeeps, CommitKeeps
  <1>2. ASSUME NEW p \in Phones, NEW c \in Crews \cup {None}, assign_device_to_crew(p, c)
        PROVE  PullInv'
    <2>1. person[p] \in People /\ person' = [person EXCEPT ![p] = person[p]]
      BY <1>2 DEF PullInv, TypeOK, assign_device_to_crew
    <2> QED
      BY <1>2, <2>1, DeclarationKeeps DEF assign_device_to_crew
  <1>3. ASSUME NEW p \in Phones, NEW sub \in People, enrol_device(p, sub)
        PROVE  PullInv'
    <2>1. crew[p] \in Crews \cup {None} /\ crew' = [crew EXCEPT ![p] = crew[p]]
      BY <1>3 DEF PullInv, TypeOK, enrol_device
    <2> QED
      BY <1>3, <2>1, DeclarationKeeps DEF enrol_device
  <1>4. ASSUME NEW p \in Phones, Pull(p) \/ PullLost(p) \/ StartOver(p) PROVE PullInv'
    BY <1>4, PullKeeps, LostKeeps, StartOverKeeps
  <1>5. ASSUME UNCHANGED vars PROVE PullInv'
    BY <1>5, StutterKeeps
  <1> QED
    BY <1>1, <1>2, <1>3, <1>4, <1>5 DEF Next, Office, Declaration

-----------------------------------------------------------------------------
(* Theorems *)

\* Cursors, copies and the ledger stay well typed: no page, empty or full, leaves
\* a phone with a cursor that is no position.
THEOREM PullTyped == Spec => []TypeOK
  BY InitHolds, StepHolds, PTL DEF Spec, PullInv

\* Whatever answers are lost and phones wiped, the server's ledger names every
\* phone that holds an order.
THEOREM LedgerCovers == Spec => []LedgerCoversPhone
  BY InitHolds, StepHolds, PTL DEF Spec, PullInv

\* Whatever lies at or behind a phone's cursor it has right, for pages of any
\* size and any number of transactions, but for what changed behind its back.
THEOREM CursorKept == Spec => []CursorCovers
  BY InitHolds, StepHolds, PTL DEF Spec, PullInv
=============================================================================
