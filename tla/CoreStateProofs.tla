-------------------------- MODULE CoreStateProofs ---------------------------
(***************************************************************************)
(* What the operations on a core state preserve.  Each lemma is about one  *)
(* operation of CoreState and holds for every core state, object, proposal *)
(* and turn.                                                               *)
(***************************************************************************)
EXTENDS CoreState, StoryStoreProofs, SequenceTheorems

-----------------------------------------------------------------------------
(* Extreme elements: what the CHOOSEs of CoreState choose.                 *)

\* One with a bound has a greatest.
LEMMA GreatestExists ==
  ASSUME NEW T \in SUBSET Nat, T # {}, NEW k \in Nat, \A x \in T : x <= k
  PROVE  \E x \in T : \A y \in T : y <= x
<1> DEFINE U == {k - x : x \in T}
<1>1. U \in SUBSET Nat /\ U # {}
  <2>1. \A x \in T : k - x \in Nat OBVIOUS
  <2>2. PICK x \in T : TRUE OBVIOUS
  <2>3. k - x \in U OBVIOUS
  <2> QED BY <2>1, <2>3
<1>2. PICK u \in U : \A v \in U : u <= v BY <1>1, LeastExists
<1>3. PICK x \in T : u = k - x OBVIOUS
<1>4. \A y \in T : y <= x BY <1>2, <1>3
<1> QED BY <1>4

\* A function from a finite set to the natural numbers is bounded.  A
\* smallest set with an unbounded function would lose an element and have a
\* bounded one, or be empty.
LEMMA FiniteIsBounded ==
  ASSUME NEW S, IsFiniteSet(S), NEW f \in [S -> Nat]
  PROVE  \E k \in Nat : \A x \in S : f[x] <= k
<1> DEFINE Bounded(R) == \E k \in Nat : \A x \in R : f[x] <= k
           Bad == {n \in Nat : \E R \in SUBSET S : Cardinality(R) = n /\ ~ Bounded(R)}
<1>1. \A R \in SUBSET S : IsFiniteSet(R) /\ Cardinality(R) \in Nat
  BY FS_Subset, FS_CardinalityType
<1>2. Bad = {}
  <2>1. SUFFICES ASSUME Bad # {} PROVE FALSE OBVIOUS
  <2>2. PICK n \in Bad : \A m \in Bad : n <= m BY <2>1, LeastExists
  <2>3. PICK R \in SUBSET S : Cardinality(R) = n /\ ~ Bounded(R) BY <2>2
  <2>4. R # {} BY <2>3
  <2>5. PICK e \in R : TRUE BY <2>4
  <2>6. Cardinality(R \ {e}) = n - 1 /\ Cardinality(R \ {e}) \in Nat
    BY <1>1, <2>3, FS_RemoveElement
  <2>7. Bounded(R \ {e})
    <3>1. ASSUME ~ Bounded(R \ {e}) PROVE Cardinality(R \ {e}) \in Bad
      BY <3>1, <2>6
    <3> QED BY <3>1, <2>2, <2>6
  <2>8. PICK k \in Nat : \A x \in R \ {e} : f[x] <= k BY <2>7
  <2>9. f[e] \in Nat OBVIOUS
  <2>10. CASE f[e] <= k BY <2>10, <2>8, <2>3
  <2>11. CASE f[e] > k
    <3>1. \A x \in R : f[x] <= f[e] BY <2>8, <2>9, <2>11
    <3> QED BY <3>1, <2>9, <2>3
  <2> QED BY <2>9, <2>10, <2>11
<1>3. Cardinality(S) \in Nat /\ Cardinality(S) \notin Bad BY <1>1, <1>2
<1> QED BY <1>3

-----------------------------------------------------------------------------
(* Typing.                                                                 *)

\* A record of the right type has fields of the right types.
LEMMA CoreFields ==
  ASSUME NEW c \in Core
  PROVE  /\ c.row \in [Objects -> Row]
         /\ c.revs \in [Objects -> Seq(Revision)]
         /\ c.mans \in Seq(Manifest)
         /\ c.bound \in [Turns -> Nat]
         /\ c.mirror \in [Objects -> Value]
         /\ c.prop \in [Proposals -> Proposal]
  BY DEF Core

\* Replacing one field by a value of its type, and nothing else.
LEMMA CoreUpdate ==
  ASSUME NEW c \in Core
  PROVE  /\ \A v \in [Objects -> Row] : [c EXCEPT !.row = v] \in Core
         /\ \A v \in [Objects -> Seq(Revision)] : [c EXCEPT !.revs = v] \in Core
         /\ \A v \in Seq(Manifest) : [c EXCEPT !.mans = v] \in Core
         /\ \A v \in [Turns -> Nat] : [c EXCEPT !.bound = v] \in Core
         /\ \A v \in [Objects -> Value] : [c EXCEPT !.mirror = v] \in Core
         /\ \A v \in [Proposals -> Proposal] : [c EXCEPT !.prop = v] \in Core
  BY DEF Core

\* The state of a session that was never seeded is well typed.
LEMMA EmptyTyped == EmptyCore \in Core
<1>1. <<>> \in Seq(Revision) /\ <<>> \in Seq(Manifest) /\ <<>> \in Seq(ApplyReceipt)
  BY EmptySeq
<1>2. NoProposal \in Proposal
  BY <1>1, MaxTurnsAssumption
  DEF NoProposal, Proposal, ProposalStatus, TurnRef, NoTurn, NoRevision
<1>3. NoRow \in Row BY DEF NoRow, Row, NoRevision, Value
<1> QED BY <1>1, <1>2, <1>3 DEF EmptyCore, Core, NoManifest, Value

-----------------------------------------------------------------------------
(* Growth.                                                                 *)

\* History is kept by a state and from one state to the next.
LEMMA ExtendsReflexive ==
  ASSUME NEW S, NEW x \in Seq(S)
  PROVE  Extends(x, x)
  BY LenProperties DEF Extends

LEMMA ExtendsTransitive ==
  ASSUME NEW S, NEW x \in Seq(S), NEW y \in Seq(S), NEW z \in Seq(S),
         Extends(z, y), Extends(y, x)
  PROVE  Extends(z, x)
  BY LenProperties DEF Extends

LEMMA ExtendsAppend ==
  ASSUME NEW S, NEW x \in Seq(S), NEW e \in S
  PROVE  Extends(Append(x, e), x)
  BY AppendProperties, LenProperties DEF Extends

LEMMA KeepsReflexive ==
  ASSUME NEW c \in Core
  PROVE  Keeps(c, c)
<1>1. \A p \in Proposals : c.prop[p].receipts \in Seq(ApplyReceipt)
  BY CoreFields DEF Proposal
<1> QED BY <1>1, CoreFields, ExtendsReflexive DEF Keeps

LEMMA KeepsTransitive ==
  ASSUME NEW c \in Core, NEW d \in Core, NEW e \in Core, Keeps(e, d), Keeps(d, c)
  PROVE  Keeps(e, c)
<1>1. \A p \in Proposals : /\ c.prop[p].receipts \in Seq(ApplyReceipt)
                           /\ d.prop[p].receipts \in Seq(ApplyReceipt)
                           /\ e.prop[p].receipts \in Seq(ApplyReceipt)
  BY CoreFields DEF Proposal
<1>2. \A o \in Objects : Extends(e.revs[o], c.revs[o])
  BY CoreFields, ExtendsTransitive DEF Keeps
<1>3. Extends(e.mans, c.mans)
  BY CoreFields, ExtendsTransitive DEF Keeps
<1>4. \A p \in Proposals : Extends(e.prop[p].receipts, c.prop[p].receipts)
  BY <1>1, ExtendsTransitive DEF Keeps
<1> QED BY <1>2, <1>3, <1>4 DEF Keeps

\* What is used of sequences below.
LEMMA SeqDomain ==
  ASSUME NEW S, NEW q \in Seq(S)
  PROVE  /\ Len(q) \in Nat
         /\ DOMAIN q = 1..Len(q)
         /\ IsFiniteSet(DOMAIN q)
         /\ \A i \in DOMAIN q : q[i] \in S
<1>1. Len(q) \in Nat /\ DOMAIN q = 1..Len(q) BY LenProperties
<1>2. IsFiniteSet(1..Len(q))
  <2>1. 1 \in Int /\ Len(q) \in Int BY <1>1
  <2> QED BY <2>1, FS_Interval
<1>3. \A i \in 1..Len(q) : q[i] \in S BY ElementOfSeq
<1> QED BY <1>1, <1>2, <1>3

-----------------------------------------------------------------------------
(* Numbers and manifests that are chosen.                                  *)

\* latest_revision_for_target is a number: the receipts are bounded, those
\* of one proposal because they are a sequence and all together because
\* there are finitely many proposals.
LEMMA LatestReceiptTyped ==
  ASSUME NEW c \in Core, NEW o
  PROVE  LatestReceipt(c, o) \in Nat
<1> DEFINE R(p) == c.prop[p].receipts
           Bound(p) == CHOOSE k \in Nat : \A i \in DOMAIN R(p) : R(p)[i].rev <= k
           of == {q \in Proposals : c.prop[q].target = o}
           ns == {1} \cup UNION {{R(p)[i].rev : i \in DOMAIN R(p)} : p \in of}
<1>1. \A p \in Proposals : R(p) \in Seq(ApplyReceipt)
  BY CoreFields DEF Proposal
<1>2. \A p \in Proposals : \A i \in DOMAIN R(p) : R(p)[i].rev \in Nat
  <2> TAKE p \in Proposals
  <2>1. \A i \in DOMAIN R(p) : R(p)[i] \in ApplyReceipt BY <1>1, SeqDomain
  <2> HIDE DEF R
  <2> QED BY <2>1 DEF ApplyReceipt
<1>3. ASSUME NEW p \in Proposals
      PROVE  /\ Bound(p) \in Nat
             /\ \A i \in DOMAIN R(p) : R(p)[i].rev <= Bound(p)
  <2> DEFINE f == [i \in DOMAIN R(p) |-> R(p)[i].rev]
  <2>1. IsFiniteSet(DOMAIN R(p))
    BY <1>1, <1>3, SeqDomain
  <2>2. f \in [DOMAIN R(p) -> Nat] BY <1>2, <1>3
  <2> HIDE DEF f
  <2>3. PICK k \in Nat : \A i \in DOMAIN R(p) : f[i] <= k
    BY <2>1, <2>2, FiniteIsBounded
  <2>4. \A i \in DOMAIN R(p) : R(p)[i].rev <= k BY <2>3 DEF f
  <2> HIDE DEF R
  <2> QED BY <2>4
<1>4. PICK k \in Nat : \A p \in Proposals : Bound(p) <= k
  <2> DEFINE g == [p \in Proposals |-> Bound(p)]
  <2> HIDE DEF Bound
  <2>1. g \in [Proposals -> Nat] BY <1>3
  <2>2. IsFiniteSet(Proposals) BY ProposalAssumption
  <2> HIDE DEF g
  <2>3. PICK k \in Nat : \A p \in Proposals : g[p] <= k
    BY <2>1, <2>2, FiniteIsBounded
  <2> QED BY <2>3 DEF g
<1> HIDE DEF Bound
<1>5. ns \in SUBSET Nat /\ ns # {} BY <1>2
<1>6. \A n \in ns : n <= k + 1
  <2>1. ASSUME NEW p \in Proposals, NEW i \in DOMAIN R(p)
        PROVE  R(p)[i].rev <= k + 1
    BY <1>2, <1>3, <1>4, <2>1
  <2> QED BY <2>1
<1> HIDE DEF ns
<1>7. PICK n \in ns : \A j \in ns : j <= n
  <2>1. k + 1 \in Nat OBVIOUS
  <2> QED BY <1>5, <1>6, <2>1, GreatestExists
<1>8. (CHOOSE n1 \in ns : \A j \in ns : j <= n1) \in ns BY <1>7
<1>9. LatestReceipt(c, o) = (CHOOSE n1 \in ns : \A j \in ns : j <= n1)
  BY DEF LatestReceipt, ns
<1> QED BY <1>5, <1>8, <1>9

\* Newest is one of the manifests it is given: the last of those of the
\* latest turn.
LEMMA NewestExists ==
  ASSUME NEW c \in Core, NEW ms \in SUBSET DOMAIN c.mans, ms # {}
  PROVE  Newest(c, ms) \in ms
<1>1. /\ c.mans \in Seq(Manifest) /\ DOMAIN c.mans = 1..Len(c.mans)
      /\ Len(c.mans) \in Nat
  BY CoreFields, LenProperties
<1>2. \A m \in ms : /\ c.mans[m].turn \in Nat /\ c.mans[m].turn <= MaxTurns
                    /\ m \in Nat /\ m <= Len(c.mans)
  <2> TAKE m \in ms
  <2>1. m \in 1..Len(c.mans) BY <1>1
  <2>2. c.mans[m] \in Manifest BY <1>1, <2>1, ElementOfSeq
  <2>3. c.mans[m].turn \in Turns BY <2>2 DEF Manifest
  <2> QED BY <1>1, <2>1, <2>3, MaxTurnsAssumption DEF Turns
<1> DEFINE ts == {c.mans[m].turn : m \in ms}
<1>3. PICK t \in ts : \A u \in ts : u <= t
  <2>1. ts \in SUBSET Nat /\ ts # {} /\ \A u \in ts : u <= MaxTurns BY <1>2
  <2> HIDE DEF ts
  <2> QED BY <2>1, MaxTurnsAssumption, GreatestExists
<1> DEFINE last == {m \in ms : c.mans[m].turn = t}
<1>4. PICK m \in last : \A n \in last : n <= m
  <2>1. last \in SUBSET Nat /\ last # {} /\ \A n \in last : n <= Len(c.mans)
    BY <1>2, <1>3
  <2> HIDE DEF last
  <2> QED BY <2>1, <1>1, GreatestExists
<1>5. \A n \in ms : \/ c.mans[n].turn < c.mans[m].turn
                    \/ c.mans[n].turn = c.mans[m].turn /\ n <= m
  <2> TAKE n \in ms
  <2>1. c.mans[n].turn <= t /\ c.mans[m].turn = t /\ t \in Nat /\ c.mans[n].turn \in Nat
    BY <1>2, <1>3, <1>4
  <2>2. CASE c.mans[n].turn = t BY <2>2, <2>1, <1>4
  <2>3. CASE c.mans[n].turn # t BY <2>3, <2>1
  <2> QED BY <2>2, <2>3
<1>6. m \in ms BY <1>4
<1> HIDE DEF last, ts
<1> QED BY <1>5, <1>6 DEF Newest

\* _latest_visible_manifest_by_scope finds a manifest there is, or none.
LEMMA LatestVisibleThere ==
  ASSUME NEW s, NEW c \in Core, NEW t, NEW before
  PROVE  LatestVisible(s, c, t, before) \in {NoManifest} \cup DOMAIN c.mans
<1> DEFINE up == Ancestry(s, s.on[t])
           ms(n) == Inheritable(s, c, t, up[n], before)
           having == {n \in 0..Cardinality(Branches) : ms(n) # {}}
<1>1. \A n : ms(n) \in SUBSET DOMAIN c.mans BY DEF Inheritable
<1>2. CASE having = {} BY <1>2 DEF LatestVisible
<1>3. CASE having # {}
  <2> DEFINE n == CHOOSE x \in having : \A k \in having : x <= k
  <2>1. having \in SUBSET Nat
    <3>1. \A x \in 0..Cardinality(Branches) : x \in Nat OBVIOUS
    <3> QED BY <3>1
  <2>2. n \in having
    <3> HIDE DEF having
    <3> QED BY <1>3, <2>1, LeastExists
  <2>3. ms(n) # {} BY <2>2
  <2>4. LatestVisible(s, c, t, before) = Newest(c, ms(n))
    BY <1>3 DEF LatestVisible
  <2> HIDE DEF ms, n
  <2> QED BY <1>1, <2>3, <2>4, NewestExists
<1> QED BY <1>2, <1>3

-----------------------------------------------------------------------------
(* Sound states, and the operations that only add history to them.         *)

Solid(c) == c \in Core /\ RowsAreNewest(c) /\ MapsResolve(c)

\* d has all of c and perhaps more rows, revisions and manifests.
Grown(d, c) == Solid(d) /\ Keeps(d, c) /\ d.prop = c.prop

\* RowsAreNewest, object by object.
LEMMA RowsByObject ==
  ASSUME NEW c,
         \A o \in Objects :
            /\ c.row[o].rev = Len(c.revs[o])
            /\ Len(c.revs[o]) # 0 => c.row[o].val = c.revs[o][Len(c.revs[o])].val
  PROVE  RowsAreNewest(c)
  BY DEF RowsAreNewest

LEMMA GrownReflexive ==
  ASSUME NEW c, Solid(c)
  PROVE  Grown(c, c)
  BY KeepsReflexive DEF Grown, Solid

LEMMA GrownTransitive ==
  ASSUME NEW c, NEW d, NEW e, Solid(c), Grown(d, c), Grown(e, d)
  PROVE  Grown(e, c)
  BY KeepsTransitive DEF Grown, Solid

\* A row is as new as its object's history is long.
LEMMA RowLength ==
  ASSUME NEW c, Solid(c), NEW o \in Objects
  PROVE  /\ c.revs[o] \in Seq(Revision) /\ c.row[o] \in Row
         /\ c.row[o].rev \in Nat
         /\ Len(c.revs[o]) = c.row[o].rev
         /\ c.revs[o] = <<>> <=> c.row[o].rev = NoRevision
<1>1. c.revs[o] \in Seq(Revision) /\ c.row[o] \in Row BY CoreFields DEF Solid
<1>2. Len(c.revs[o]) = c.row[o].rev BY DEF Solid, RowsAreNewest
<1>3. c.revs[o] = <<>> <=> Len(c.revs[o]) = 0 BY <1>1, EmptySeq
<1> QED BY <1>1, <1>2, <1>3 DEF Row, NoRevision

\* upsert_authoritative_object and _revision under the next number add one
\* revision and overwrite none.
LEMMA WrittenGrown ==
  ASSUME NEW c, Solid(c), NEW o \in Objects, NEW v \in Value,
         NEW p \in Proposals \cup {None},
         NEW n, n = c.row[o].rev + 1
  PROVE  Grown(Written(c, o, n, v, p), c)
<1> DEFINE r == [val |-> v, by |-> p]
           h == Append(c.revs[o], r)
           e1 == [c EXCEPT !.row = [c.row EXCEPT ![o] = [rev |-> n, val |-> v]]]
           e == [e1 EXCEPT !.revs = [c.revs EXCEPT ![o] = h]]
<1>1. c \in Core BY DEF Solid
<1>2. /\ c.row \in [Objects -> Row] /\ c.revs \in [Objects -> Seq(Revision)]
      /\ c.mans \in Seq(Manifest) /\ c.prop \in [Proposals -> Proposal]
  BY <1>1, CoreFields
<1>3. /\ c.revs[o] \in Seq(Revision)
      /\ Len(c.revs[o]) = c.row[o].rev /\ c.row[o].rev \in Nat
      /\ n \in Nat /\ ~ (n <= Len(c.revs[o]))
  BY RowLength
<1>4. r \in Revision BY DEF Revision
<1>5. /\ h \in Seq(Revision) /\ Len(h) = n /\ h[n] = r
      /\ \A i \in 1..Len(c.revs[o]) : h[i] = c.revs[o][i]
  BY <1>3, <1>4, AppendProperties
<1>6. Extends(h, c.revs[o]) BY <1>3, <1>4, ExtendsAppend
<1> HIDE DEF h
<1>7. Written(c, o, n, v, p) = e
  <2>1. Upserted(c.revs[o], n, r) = h BY <1>3 DEF Upserted, h
  <2> QED BY <2>1, <1>1 DEF Written, Core
<1>8. e \in Core
  <2>1. [c.row EXCEPT ![o] = [rev |-> n, val |-> v]] \in [Objects -> Row]
    BY <1>2, <1>3 DEF Row
  <2>2. e1 \in Core BY <1>1, <2>1, CoreUpdate
  <2>3. [c.revs EXCEPT ![o] = h] \in [Objects -> Seq(Revision)] BY <1>2, <1>5
  <2> HIDE DEF e1
  <2> QED BY <2>2, <2>3, CoreUpdate
<1>9. /\ e.mans = c.mans /\ e.bound = c.bound /\ e.prop = c.prop
      /\ e.row[o] = [rev |-> n, val |-> v] /\ e.revs[o] = h
      /\ \A x \in Objects \ {o} : e.row[x] = c.row[x] /\ e.revs[x] = c.revs[x]
  BY <1>1, <1>2 DEF Core
<1>10. DOMAIN c.mans = 1..Len(c.mans) /\ c.row[o].rev <= n BY <1>2, <1>3, LenProperties
<1> HIDE DEF e
<1>11. RowsAreNewest(e)
  <2>1. \A x \in Objects \ {o} :
           /\ e.row[x].rev = Len(e.revs[x])
           /\ Len(e.revs[x]) # 0 => e.row[x].val = e.revs[x][Len(e.revs[x])].val
    BY <1>9 DEF Solid, RowsAreNewest
  <2>2. e.row[o].rev = n /\ Len(e.revs[o]) = n /\ e.row[o].val = e.revs[o][n].val
    BY <1>5, <1>9
  <2>3. \A x \in Objects :
           /\ e.row[x].rev = Len(e.revs[x])
           /\ Len(e.revs[x]) # 0 => e.row[x].val = e.revs[x][Len(e.revs[x])].val
    BY <2>1, <2>2
  <2> QED BY <2>3, RowsByObject
<1>12. MapsResolve(e)
  <2>1. \A m \in DOMAIN e.mans : \A x \in Objects : e.mans[m].map[x] <= Len(e.revs[x])
    <3> TAKE m \in DOMAIN e.mans
    <3> TAKE x \in Objects
    <3>1. m \in DOMAIN c.mans /\ e.mans[m] = c.mans[m] BY <1>9
    <3>2. c.mans[m].map[x] <= Len(c.revs[x]) BY <3>1 DEF Solid, MapsResolve
    <3>3. c.mans[m] \in Manifest BY <1>2, <3>1, SeqDomain
    <3>4. c.mans[m].map[x] \in Nat BY <3>3 DEF Manifest
    <3>5. CASE x = o BY <3>1, <3>2, <3>4, <3>5, <1>3, <1>5, <1>9
    <3>6. CASE x # o BY <3>1, <3>2, <3>6, <1>9
    <3> QED BY <3>5, <3>6
  <2>2. \A t \in Turns : e.bound[t] <= Len(e.mans) BY <1>9 DEF Solid, MapsResolve
  <2> QED BY <2>1, <2>2 DEF MapsResolve
<1>13. Keeps(e, c)
  <2>1. Keeps(c, c) BY <1>1, KeepsReflexive
  <2> QED BY <2>1, <1>6, <1>9 DEF Keeps
<1> QED BY <1>7, <1>8, <1>9, <1>11, <1>12, <1>13 DEF Grown, Solid

\* ... and the object has that number.
LEMMA WrittenNumber ==
  ASSUME NEW c \in Core, NEW o \in Objects, NEW v, NEW p, NEW n \in Nat
  PROVE  Written(c, o, n, v, p).row[o].rev = n
<1>1. c.row \in [Objects -> Row] BY CoreFields
<1> QED BY <1>1 DEF Written, Core

\* A row for an object that has none.
LEMMA SeedRowGrown ==
  ASSUME NEW c, Solid(c), NEW o \in Objects, c.row[o].rev = NoRevision
  PROVE  Grown(SeedRow(c, o), c) /\ SeedRow(c, o).row[o].rev = 1
<1>1. c.mirror[o] \in Value /\ c \in Core BY CoreFields DEF Solid
<1>2. PICK n : n = c.row[o].rev + 1 OBVIOUS
<1>3. Grown(Written(c, o, n, c.mirror[o], None), c) BY <1>1, <1>2, WrittenGrown
<1>4. n = 1 BY <1>2 DEF NoRevision
<1>5. Written(c, o, 1, c.mirror[o], None).row[o].rev = 1 BY <1>1, WrittenNumber
<1> QED BY <1>3, <1>4, <1>5 DEF SeedRow

\* Seeding every row of a session that has none loses no history.
LEMMA SeedRowsGrown ==
  ASSUME NEW c, Solid(c), ~ HasRows(c)
  PROVE  Grown(SeedRows(c), c)
<1> DEFINE h(o) == <<[val |-> c.mirror[o], by |-> None]>>
           rows == [o \in Objects |-> [rev |-> 1, val |-> c.mirror[o]]]
           hs == [o \in Objects |-> h(o)]
           d1 == [c EXCEPT !.row = rows]
           e == [d1 EXCEPT !.revs = hs]
<1>1. c \in Core BY DEF Solid
<1>2. /\ c.mirror \in [Objects -> Value] /\ c.mans \in Seq(Manifest)
  BY <1>1, CoreFields
<1>3. \A o \in Objects : /\ h(o) \in Seq(Revision) /\ Len(h(o)) = 1
                         /\ h(o)[1].val = c.mirror[o]
  BY <1>2 DEF Revision
<1>4. \A o \in Objects : c.revs[o] = <<>> /\ Len(c.revs[o]) = 0
  BY RowLength DEF HasRows, NoRevision
<1>5. SeedRows(c) = e BY <1>1 DEF SeedRows, Core
<1>6. e \in Core
  <2>1. rows \in [Objects -> Row] BY <1>2 DEF Row
  <2>2. d1 \in Core BY <1>1, <2>1, CoreUpdate
  <2>3. hs \in [Objects -> Seq(Revision)] BY <1>3
  <2> HIDE DEF d1, hs
  <2> QED BY <2>2, <2>3, CoreUpdate
<1>7. /\ e.mans = c.mans /\ e.bound = c.bound /\ e.prop = c.prop
      /\ \A o \in Objects : e.row[o].rev = 1 /\ e.row[o].val = c.mirror[o]
      /\ \A o \in Objects : e.revs[o] = h(o)
  BY <1>1 DEF Core
<1> HIDE DEF e, h
<1>8. RowsAreNewest(e)
  <2>1. ASSUME NEW o \in Objects
        PROVE  /\ e.row[o].rev = Len(e.revs[o])
               /\ e.row[o].val = e.revs[o][Len(e.revs[o])].val
    <3>1. /\ h(o) \in Seq(Revision) /\ Len(h(o)) = 1 /\ h(o)[1].val = c.mirror[o]
      BY <1>3
    <3>2. e.revs[o] = h(o) BY <1>7
    <3>3. e.row[o].rev = 1 /\ e.row[o].val = c.mirror[o] BY <1>7
    <3> QED BY <3>1, <3>2, <3>3
  <2> QED BY <2>1, RowsByObject
<1>9. MapsResolve(e)
  <2>1. \A m \in DOMAIN e.mans : \A x \in Objects : e.mans[m].map[x] <= Len(e.revs[x])
    <3> TAKE m \in DOMAIN e.mans
    <3> TAKE x \in Objects
    <3>1. m \in DOMAIN c.mans /\ e.mans[m] = c.mans[m] BY <1>7
    <3>2. c.mans[m].map[x] <= 0 BY <3>1, <1>4 DEF Solid, MapsResolve
    <3>3. c.mans[m] \in Manifest BY <1>2, <3>1, SeqDomain
    <3>4. c.mans[m].map[x] \in Nat BY <3>3 DEF Manifest
    <3> QED BY <3>1, <3>2, <3>4, <1>3, <1>7
  <2>2. \A t \in Turns : e.bound[t] <= Len(e.mans) BY <1>7 DEF Solid, MapsResolve
  <2> QED BY <2>1, <2>2 DEF MapsResolve
<1>10. Keeps(e, c)
  <2>1. Keeps(c, c) BY <1>1, KeepsReflexive
  <2>2. \A o \in Objects : Extends(h(o), c.revs[o])
    BY <1>3, <1>4 DEF Extends
  <2> QED BY <2>1, <2>2, <1>7 DEF Keeps
<1> QED BY <1>5, <1>6, <1>7, <1>8, <1>9, <1>10 DEF Grown, Solid

\* create_core_state_snapshot_manifest and _bind_turn_to_manifest add one
\* manifest and touch no row.
LEMMA RecordedGrown ==
  ASSUME NEW c, Solid(c), NEW t \in Turns, NEW kind \in ManifestKind,
         NEW map \in [Objects -> Nat], \A o \in Objects : map[o] <= Len(c.revs[o])
  PROVE  /\ Grown(Recorded(c, t, map, kind), c)
         /\ Recorded(c, t, map, kind).row = c.row
         /\ Recorded(c, t, map, kind).revs = c.revs
<1> DEFINE m == [turn |-> t, map |-> map, kind |-> kind]
           ms == Append(c.mans, m)
           n == Len(c.mans) + 1
           d1 == [c EXCEPT !.mans = ms]
           e == [d1 EXCEPT !.bound = [c.bound EXCEPT ![t] = n]]
<1>1. c \in Core BY DEF Solid
<1>2. /\ c.revs \in [Objects -> Seq(Revision)] /\ c.mans \in Seq(Manifest)
      /\ c.bound \in [Turns -> Nat]
  BY <1>1, CoreFields
<1>3. m \in Manifest BY DEF Manifest
<1>4. /\ Len(c.mans) \in Nat /\ DOMAIN c.mans = 1..Len(c.mans)
      /\ ms \in Seq(Manifest) /\ Len(ms) = n /\ DOMAIN ms = 1..n /\ ms[n] = m
      /\ \A i \in 1..Len(c.mans) : ms[i] = c.mans[i]
  <2>1. /\ Len(c.mans) \in Nat /\ DOMAIN c.mans = 1..Len(c.mans)
        /\ ms \in Seq(Manifest) /\ Len(ms) = n /\ ms[n] = m
        /\ \A i \in 1..Len(c.mans) : ms[i] = c.mans[i]
    BY <1>2, <1>3, AppendProperties, LenProperties
  <2> HIDE DEF ms
  <2>2. DOMAIN ms = 1..n BY <2>1, LenProperties
  <2> QED BY <2>1, <2>2
<1>5. Extends(ms, c.mans) BY <1>2, <1>3, ExtendsAppend
<1> HIDE DEF ms
<1>6. Recorded(c, t, map, kind) = e BY <1>1 DEF Recorded, ms, Core
<1>7. e \in Core
  <2>1. d1 \in Core BY <1>1, <1>4, CoreUpdate
  <2>2. [c.bound EXCEPT ![t] = n] \in [Turns -> Nat] BY <1>2, <1>4
  <2> HIDE DEF d1
  <2> QED BY <2>1, <2>2, CoreUpdate
<1>8. /\ e.mans = ms /\ e.bound = [c.bound EXCEPT ![t] = n] /\ e.prop = c.prop
      /\ e.row = c.row /\ e.revs = c.revs
  BY <1>1 DEF Core
<1> HIDE DEF e
<1>9. RowsAreNewest(e) BY <1>8 DEF Solid, RowsAreNewest
<1>10. MapsResolve(e)
  <2>1. \A k \in DOMAIN e.mans : \A x \in Objects : e.mans[k].map[x] <= Len(e.revs[x])
    <3> TAKE k \in DOMAIN e.mans
    <3> TAKE x \in Objects
    <3>1. CASE k = n BY <3>1, <1>4, <1>8
    <3>2. CASE k # n
      <4>1. k \in DOMAIN c.mans /\ e.mans[k] = c.mans[k] BY <3>2, <1>4, <1>8
      <4>2. c.mans[k].map[x] <= Len(c.revs[x]) BY <4>1 DEF Solid, MapsResolve
      <4> QED BY <4>1, <4>2, <1>8
    <3> QED BY <3>1, <3>2
  <2>2. \A u \in Turns : e.bound[u] <= Len(e.mans)
    <3> TAKE u \in Turns
    <3>1. c.bound[u] <= Len(c.mans) /\ c.bound[u] \in Nat
      BY <1>2 DEF Solid, MapsResolve
    <3>2. e.bound[u] = IF u = t THEN n ELSE c.bound[u] BY <1>2, <1>8
    <3> QED BY <3>1, <3>2, <1>4, <1>8
  <2> QED BY <2>1, <2>2 DEF MapsResolve
<1>11. Keeps(e, c)
  <2>1. Keeps(c, c) BY <1>1, KeepsReflexive
  <2> QED BY <2>1, <1>5, <1>8 DEF Keeps
<1> QED BY <1>6, <1>7, <1>8, <1>9, <1>10, <1>11 DEF Grown, Solid

\* ensure_manifest_for_identity binds the turn and adds history only.
LEMMA EnsureManifestGrown ==
  ASSUME NEW s, NEW c, Solid(c), NEW t \in Turns
  PROVE  Grown(EnsureManifest(s, c, t), c)
<1> DEFINE inherited == LatestVisible(s, c, t, FALSE)
<1>1. c \in Core BY DEF Solid
<1>2. CASE c.bound[t] # NoManifest
  <2>1. EnsureManifest(s, c, t) = c BY <1>2 DEF EnsureManifest
  <2> QED BY <2>1, GrownReflexive
<1>3. CASE c.bound[t] = NoManifest /\ inherited # NoManifest
  <2> DEFINE e == [c EXCEPT !.bound = [c.bound EXCEPT ![t] = inherited]]
  <2>1. EnsureManifest(s, c, t) = e BY <1>1, <1>3 DEF EnsureManifest, Core
  <2>2. /\ c.mans \in Seq(Manifest) /\ c.bound \in [Turns -> Nat]
    BY <1>1, CoreFields
  <2>3. inherited \in DOMAIN c.mans BY <1>1, <1>3, LatestVisibleThere
  <2> HIDE DEF inherited
  <2>4. inherited \in Nat /\ inherited <= Len(c.mans) /\ Len(c.mans) \in Nat
    <3>1. Len(c.mans) \in Nat /\ DOMAIN c.mans = 1..Len(c.mans)
      BY <2>2, LenProperties
    <3> QED BY <2>3, <3>1
  <2>5. e \in Core
    <3>1. [c.bound EXCEPT ![t] = inherited] \in [Turns -> Nat] BY <2>2, <2>4
    <3> QED BY <3>1, <1>1, CoreUpdate
  <2>6. /\ e.mans = c.mans /\ e.row = c.row /\ e.revs = c.revs /\ e.prop = c.prop
        /\ e.bound = [c.bound EXCEPT ![t] = inherited]
    BY <1>1 DEF Core
  <2> HIDE DEF e
  <2>7. RowsAreNewest(e) BY <2>6 DEF Solid, RowsAreNewest
  <2>8. MapsResolve(e)
    <3>1. \A m \in DOMAIN e.mans, x \in Objects : e.mans[m].map[x] <= Len(e.revs[x])
      BY <2>6 DEF Solid, MapsResolve
    <3>2. ASSUME NEW u \in Turns PROVE e.bound[u] <= Len(e.mans)
      <4>1. e.bound[u] = IF u = t THEN inherited ELSE c.bound[u] BY <2>2, <2>6
      <4>2. c.bound[u] <= Len(c.mans) BY DEF Solid, MapsResolve
      <4> QED BY <4>1, <4>2, <2>4, <2>6
    <3> QED BY <3>1, <3>2 DEF MapsResolve
  <2>9. Keeps(e, c)
    <3>1. Keeps(c, c) BY <1>1, KeepsReflexive
    <3> QED BY <3>1, <2>6 DEF Keeps
  <2> QED BY <2>1, <2>5, <2>6, <2>7, <2>8, <2>9 DEF Grown, Solid
<1>4. CASE c.bound[t] = NoManifest /\ inherited = NoManifest /\ CanSeed(s, t)
  <2> DEFINE seeded == IF HasRows(c) THEN c ELSE SeedRows(c)
             map == [o \in Objects |-> seeded.row[o].rev]
             kind == IF AllInitial(c) THEN "runtime_initial" ELSE "compatibility_snapshot"
  <2>1. Grown(seeded, c) BY GrownReflexive, SeedRowsGrown
  <2>2. Solid(seeded) BY <2>1 DEF Grown
  <2>3. EnsureManifest(s, c, t) = Recorded(seeded, t, map, kind)
    BY <1>4 DEF EnsureManifest, ManifestFromRows
  <2> HIDE DEF seeded
  <2>4. map \in [Objects -> Nat] /\ \A o \in Objects : map[o] <= Len(seeded.revs[o])
    BY <2>2, RowLength
  <2>5. kind \in ManifestKind BY DEF ManifestKind
  <2> HIDE DEF map, kind
  <2>6. Grown(Recorded(seeded, t, map, kind), seeded)
    BY <2>2, <2>4, <2>5, RecordedGrown
  <2> QED BY <2>1, <2>3, <2>6, GrownTransitive
<1>5. CASE c.bound[t] = NoManifest /\ inherited = NoManifest /\ ~ CanSeed(s, t)
  <2> DEFINE map == [o \in Objects |-> NoRevision]
  <2>1. EnsureManifest(s, c, t) = Recorded(c, t, map, "historical_as_of_unavailable")
    BY <1>5 DEF EnsureManifest, UnavailableManifest
  <2>2. map \in [Objects -> Nat] /\ \A o \in Objects : map[o] <= Len(c.revs[o])
    BY RowLength DEF NoRevision
  <2>3. "historical_as_of_unavailable" \in ManifestKind BY DEF ManifestKind
  <2> HIDE DEF map
  <2> QED BY <2>1, <2>2, <2>3, RecordedGrown
<1> QED BY <1>2, <1>3, <1>4, <1>5

\* record_core_mutation: the parent's map, or that of the earliest
\* revisions, with the one object changed.
LEMMA RecordMutationGrown ==
  ASSUME NEW s, NEW c, Solid(c), NEW t \in Turns, NEW o \in Objects,
         NEW n \in Nat, n <= Len(c.revs[o])
  PROVE  Grown(RecordMutation(s, c, t, o, n), c)
<1> DEFINE parent == LatestVisible(s, c, t, TRUE)
           map == IF parent = NoManifest THEN EarliestMap(c) ELSE c.mans[parent].map
           changed == [map EXCEPT ![o] = n]
<1>1. RecordMutation(s, c, t, o, n) = Recorded(c, t, changed, "runtime_mutation")
  BY DEF RecordMutation
<1>2. map \in [Objects -> Nat] /\ \A x \in Objects : map[x] <= Len(c.revs[x])
  <2>1. CASE parent = NoManifest
    <3>1. map = EarliestMap(c) BY <2>1
    <3>2. ASSUME NEW x \in Objects
          PROVE  EarliestMap(c)[x] \in Nat /\ EarliestMap(c)[x] <= Len(c.revs[x])
      <4>1. CASE c.revs[x] = <<>>
        BY <4>1, RowLength DEF EarliestMap, NoRevision
      <4>2. CASE c.revs[x] # <<>>
        <5>1. Len(c.revs[x]) \in Nat /\ Len(c.revs[x]) # 0
          BY <4>2, RowLength, EmptySeq DEF NoRevision
        <5> QED BY <4>2, <5>1 DEF EarliestMap
      <4> QED BY <4>1, <4>2
    <3>3. EarliestMap(c) \in [Objects -> Nat]
      BY <3>2 DEF EarliestMap
    <3> HIDE DEF map
    <3> QED BY <3>1, <3>2, <3>3
  <2>2. CASE parent # NoManifest
    <3>1. parent \in DOMAIN c.mans /\ map = c.mans[parent].map
      BY <2>2, LatestVisibleThere DEF Solid
    <3>2. c.mans[parent] \in Manifest
      BY <3>1, CoreFields, SeqDomain DEF Solid
    <3> HIDE DEF map
    <3>3. map \in [Objects -> Nat] BY <3>1, <3>2 DEF Manifest
    <3> QED BY <3>1, <3>3 DEF Solid, MapsResolve
  <2> QED BY <2>1, <2>2
<1> HIDE DEF map
<1>3. changed \in [Objects -> Nat] /\ \A x \in Objects : changed[x] <= Len(c.revs[x])
  BY <1>2
<1>4. "runtime_mutation" \in ManifestKind BY DEF ManifestKind
<1> HIDE DEF changed
<1> QED BY <1>1, <1>3, <1>4, RecordedGrown

\* The before snapshot is loaded.
LEMMA LoadedGrown ==
  ASSUME NEW s, NEW c, Solid(c), NEW p \in Proposals, NEW primary,
         c.prop[p].target \in Objects
  PROVE  Grown(Loaded(s, c, p, primary), c)
<1> DEFINE pinned == IF Pinned(c, p) THEN EnsureManifest(s, c, c.prop[p].turn) ELSE c
           o == c.prop[p].target
<1>1. Grown(pinned, c)
  <2>1. CASE Pinned(c, p)
    <3>1. c.prop[p] \in Proposal BY CoreFields DEF Solid
    <3>2. c.prop[p].turn \in Turns
      BY <2>1, <3>1, MaxTurnsAssumption DEF Pinned, Proposal, TurnRef, Turns, NoTurn
    <3> QED BY <2>1, <3>2, EnsureManifestGrown
  <2>2. CASE ~ Pinned(c, p) BY <2>2, GrownReflexive
  <2> QED BY <2>1, <2>2
<1> HIDE DEF pinned
<1>2. Solid(pinned) BY <1>1 DEF Grown
<1>3. CASE primary /\ pinned.row[o].rev = NoRevision
  <2>1. Loaded(s, c, p, primary) = SeedRow(pinned, o)
    BY <1>3 DEF Loaded, Target, pinned
  <2>2. Grown(SeedRow(pinned, o), pinned) BY <1>2, <1>3, SeedRowGrown
  <2> QED BY <1>1, <2>1, <2>2, GrownTransitive
<1>4. CASE ~ (primary /\ pinned.row[o].rev = NoRevision)
  <2>1. Loaded(s, c, p, primary) = pinned
    BY <1>4 DEF Loaded, Target, pinned
  <2> QED BY <1>1, <2>1
<1> QED BY <1>3, <1>4

\* apply_authoritative_mutation under the next number needs no repair: the
\* row of an object with a number above 1 has its history.
LEMMA MutatedGrown ==
  ASSUME NEW c, Solid(c), NEW p \in Proposals, c.prop[p].target \in Objects,
         NEW n \in Nat, n = c.row[c.prop[p].target].rev + 1,
         NEW before, NEW after \in Value
  PROVE  Grown(Mutated(c, p, n, before, after), c)
<1> DEFINE o == c.prop[p].target
<1>1. ~ (n > 1 /\ c.revs[o] = <<>>) BY RowLength DEF NoRevision
<1>2. Mutated(c, p, n, before, after) = Written(c, o, n, after, p)
  BY <1>1 DEF Mutated, Target
<1> QED BY <1>2, WrittenGrown

\* ... and the row has that number.
RowNumber(c, o, n) == c.row[o].rev = n

LEMMA MutatedNumber ==
  ASSUME NEW c, Solid(c), NEW p \in Proposals, c.prop[p].target \in Objects,
         NEW n \in Nat, n = c.row[c.prop[p].target].rev + 1,
         NEW before, NEW after
  PROVE  RowNumber(Mutated(c, p, n, before, after), c.prop[p].target, n)
<1> DEFINE o == c.prop[p].target
<1>1. c \in Core BY DEF Solid
<1>2. ~ (n > 1 /\ c.revs[o] = <<>>) BY RowLength DEF NoRevision
<1>3. Mutated(c, p, n, before, after) = Written(c, o, n, after, p)
  BY <1>2 DEF Mutated, Target
<1>4. Written(c, o, n, after, p).row[o].rev = n BY <1>1, WrittenNumber, SMTT(30)
<1> QED BY <1>3, <1>4 DEF RowNumber

-----------------------------------------------------------------------------
(* What the steps of apply_proposal read, and the fields they write next   *)
(* to the store.                                                           *)

\* What a sound state shows is a view of values.
LEMMA CurrentViewTyped ==
  ASSUME NEW c \in Core, NEW primary
  PROVE  CurrentView(c, primary) \in [Objects -> Value]
<1>1. \A o \in Objects : c.row[o].val \in Value BY CoreFields DEF Row
<1>2. \A o \in Objects : c.mirror[o] \in Value BY CoreFields
<1> QED BY <1>1, <1>2 DEF CurrentView

\* The manifest a turn is bound to leads to a revision there is, or to none.
LEMMA AsOfThere ==
  ASSUME NEW c, Solid(c), NEW t \in Turns, NEW o \in Objects
  PROVE  AsOf(c, t, o) \in Nat /\ AsOf(c, t, o) <= Len(c.revs[o])
<1>1. c.mans \in Seq(Manifest) /\ c.bound \in [Turns -> Nat] BY CoreFields DEF Solid
<1>2. Len(c.mans) \in Nat /\ DOMAIN c.mans = 1..Len(c.mans) BY <1>1, LenProperties
<1>3. c.bound[t] \in Nat /\ c.bound[t] <= Len(c.mans) BY <1>1 DEF Solid, MapsResolve
<1>4. CASE c.bound[t] = NoManifest
  BY <1>4, RowLength DEF AsOf, NoRevision
<1>5. CASE c.bound[t] # NoManifest
  <2>1. c.bound[t] \in DOMAIN c.mans BY <1>2, <1>3, <1>5 DEF NoManifest
  <2>2. c.mans[c.bound[t]] \in Manifest BY <1>1, <2>1, SeqDomain
  <2>3. c.mans[c.bound[t]].map[o] \in Nat BY <2>2 DEF Manifest
  <2>4. c.mans[c.bound[t]].map[o] <= Len(c.revs[o])
    BY <2>1 DEF Solid, MapsResolve
  <2> QED BY <1>5, <2>3, <2>4 DEF AsOf
<1> QED BY <1>4, <1>5

\* The turn of a pinned proposal is a turn.
LEMMA PinnedTurnTyped ==
  ASSUME NEW c \in Core, NEW p \in Proposals, Pinned(c, p)
  PROVE  c.prop[p].turn \in Turns
<1>1. c.prop[p] \in Proposal BY CoreFields
<1> QED BY <1>1, MaxTurnsAssumption DEF Pinned, Proposal, TurnRef, Turns, NoTurn

\* The before snapshot of a proposal that can be resolved is a view.
LEMMA BeforeViewTyped ==
  ASSUME NEW c, Solid(c), NEW p \in Proposals, NEW primary,
         c.prop[p].target \in Objects, Resolvable(c, p)
  PROVE  BeforeView(c, p, primary) \in [Objects -> Value]
<1> DEFINE o == c.prop[p].target
           t == c.prop[p].turn
<1>1. CurrentView(c, primary) \in [Objects -> Value]
  BY CurrentViewTyped DEF Solid
<1>2. CASE ~ Pinned(c, p) BY <1>1, <1>2 DEF BeforeView
<1>3. CASE Pinned(c, p)
  <2>1. t \in Turns BY <1>3, PinnedTurnTyped DEF Solid
  <2>2. c.revs[o] \in Seq(Revision) /\ Len(c.revs[o]) \in Nat
    BY RowLength
  <2>3. AsOf(c, t, o) \in Nat /\ AsOf(c, t, o) <= Len(c.revs[o])
    BY <2>1, AsOfThere
  <2>4. AsOf(c, t, o) # NoRevision BY <1>3 DEF Resolvable, Target
  <2>5. AsOf(c, t, o) \in 1..Len(c.revs[o]) BY <2>2, <2>3, <2>4 DEF NoRevision
  <2>6. c.revs[o][AsOf(c, t, o)] \in Revision BY <2>2, <2>5, ElementOfSeq
  <2>7. c.revs[o][AsOf(c, t, o)].val \in Value BY <2>6 DEF Revision
  <2> QED BY <1>1, <1>3, <2>7 DEF BeforeView, Target
<1> QED BY <1>2, <1>3

\* The next number, which is one more than the row's if the store is written.
LEMMA NextRevisionTyped ==
  ASSUME NEW c, Solid(c), NEW p \in Proposals, NEW w, c.prop[p].target \in Objects
  PROVE  /\ NextRevision(c, p, w) \in Nat
         /\ w => NextRevision(c, p, w) = c.row[c.prop[p].target].rev + 1
<1>1. c.row[c.prop[p].target].rev \in Nat BY RowLength
<1>2. LatestReceipt(c, c.prop[p].target) \in Nat BY LatestReceiptTyped DEF Solid
<1> QED BY <1>1, <1>2 DEF NextRevision, CurrentRevision, Target

SameStore(d, c) ==
  d.row = c.row /\ d.revs = c.revs /\ d.mans = c.mans /\ d.bound = c.bound

\* sync_mirror_state
LEMMA MirrorGrown ==
  ASSUME NEW c, Solid(c), NEW v \in [Objects -> Value]
  PROVE  /\ Grown([c EXCEPT !.mirror = v], c)
         /\ SameStore([c EXCEPT !.mirror = v], c)
<1> DEFINE e == [c EXCEPT !.mirror = v]
<1>1. c \in Core BY DEF Solid
<1>2. e \in Core BY <1>1, CoreUpdate
<1>3. SameStore(e, c) /\ e.prop = c.prop BY <1>1 DEF SameStore, Core
<1> HIDE DEF e
<1>4. RowsAreNewest(e) BY <1>3 DEF Solid, RowsAreNewest, SameStore
<1>5. MapsResolve(e) BY <1>3 DEF Solid, MapsResolve, SameStore
<1>6. Keeps(c, c) BY <1>1, KeepsReflexive
<1>7. Keeps(e, c) BY <1>3, <1>6 DEF Keeps, SameStore
<1>8. Grown(e, c) BY <1>2, <1>3, <1>4, <1>5, <1>7 DEF Grown, Solid
<1> QED BY <1>3, <1>8 DEF e

\* A write to one proposal that keeps its receipts
WithProp(c, p, r) == [c EXCEPT !.prop = [c.prop EXCEPT ![p] = r]]

LEMMA PropWrite ==
  ASSUME NEW c, Solid(c), NEW p \in Proposals, NEW r \in Proposal,
         Extends(r.receipts, c.prop[p].receipts)
  PROVE  LET e == WithProp(c, p, r)
         IN  /\ Solid(e) /\ Keeps(e, c) /\ SameStore(e, c)
             /\ e.prop[p] = r
             /\ \A q \in Proposals \ {p} : e.prop[q] = c.prop[q]
<1> DEFINE e == WithProp(c, p, r)
<1>1. c \in Core BY DEF Solid
<1>2. c.prop \in [Proposals -> Proposal] BY <1>1, CoreFields
<1>3. e \in Core
  <2>1. [c.prop EXCEPT ![p] = r] \in [Proposals -> Proposal] BY <1>2
  <2> QED BY <1>1, <2>1, CoreUpdate DEF WithProp
<1>4. SameStore(e, c) /\ e.prop = [c.prop EXCEPT ![p] = r]
  BY <1>1 DEF SameStore, Core, WithProp
<1> HIDE DEF e
<1>5. RowsAreNewest(e) BY <1>4 DEF Solid, RowsAreNewest, SameStore
<1>6. MapsResolve(e) BY <1>4 DEF Solid, MapsResolve, SameStore
<1>7. e.prop[p] = r /\ \A q \in Proposals \ {p} : e.prop[q] = c.prop[q]
  BY <1>2, <1>4
<1>8. Keeps(e, c)
  <2>1. Keeps(c, c) BY <1>1, KeepsReflexive
  <2>2. \A q \in Proposals : Extends(e.prop[q].receipts, c.prop[q].receipts)
    BY <2>1, <1>7 DEF Keeps
  <2> QED BY <2>1, <2>2, <1>4 DEF Keeps, SameStore
<1> QED BY <1>3, <1>4, <1>5, <1>6, <1>7, <1>8 DEF Solid, e

\* update_proposal_status
LEMMA MarkedSolid ==
  ASSUME NEW c, Solid(c), NEW p \in Proposals, NEW st \in ProposalStatus
  PROVE  /\ Solid(Marked(c, p, st)) /\ Keeps(Marked(c, p, st), c)
         /\ SameStore(Marked(c, p, st), c)
         /\ Marked(c, p, st).prop[p] = [c.prop[p] EXCEPT !.status = st]
         /\ \A q \in Proposals \ {p} : Marked(c, p, st).prop[q] = c.prop[q]
<1> DEFINE r == [c.prop[p] EXCEPT !.status = st]
<1>1. c \in Core /\ c.prop[p] \in Proposal BY CoreFields DEF Solid
<1>2. r \in Proposal /\ r.receipts = c.prop[p].receipts BY <1>1 DEF Proposal
<1>3. Extends(r.receipts, c.prop[p].receipts)
  <2>1. Keeps(c, c) BY <1>1, KeepsReflexive
  <2> QED BY <2>1, <1>2 DEF Keeps
<1>4. Marked(c, p, st) = WithProp(c, p, r)
  BY <1>1 DEF Marked, Core, WithProp
<1> HIDE DEF r
<1>5. /\ Solid(Marked(c, p, st)) /\ Keeps(Marked(c, p, st), c)
      /\ SameStore(Marked(c, p, st), c)
      /\ Marked(c, p, st).prop[p] = r
      /\ \A q \in Proposals \ {p} : Marked(c, p, st).prop[q] = c.prop[q]
  BY <1>2, <1>3, <1>4, PropWrite
<1> QED BY <1>5 DEF r

\* create_apply_receipt
OneMoreReceipt(d, c, p, n, w) ==
    /\ d.prop[p].status = c.prop[p].status
    /\ d.prop[p].target = c.prop[p].target
    /\ d.prop[p].turn = c.prop[p].turn /\ d.prop[p].base = c.prop[p].base
    /\ d.prop[p].receipts = Append(c.prop[p].receipts, [rev |-> n, stored |-> w])
    /\ \A q \in Proposals \ {p} : d.prop[q] = c.prop[q]

LEMMA ReceiptedSolid ==
  ASSUME NEW c, Solid(c), NEW p \in Proposals, NEW n \in Nat, NEW w \in BOOLEAN
  PROVE  /\ Solid(Receipted(c, p, n, w)) /\ Keeps(Receipted(c, p, n, w), c)
         /\ SameStore(Receipted(c, p, n, w), c)
         /\ OneMoreReceipt(Receipted(c, p, n, w), c, p, n, w)
<1> DEFINE x == [rev |-> n, stored |-> w]
           old == c.prop[p].receipts
           r == [c.prop[p] EXCEPT !.receipts = Append(old, x)]
<1>1. c \in Core /\ c.prop[p] \in Proposal BY CoreFields DEF Solid
<1>2. x \in ApplyReceipt BY DEF ApplyReceipt
<1>3. old \in Seq(ApplyReceipt) BY <1>1 DEF Proposal
<1>4. Append(old, x) \in Seq(ApplyReceipt) /\ Extends(Append(old, x), old)
  BY <1>2, <1>3, AppendProperties, ExtendsAppend
<1>5. r \in Proposal /\ r.receipts = Append(old, x)
  <2>1. PICK h : h = Append(old, x) OBVIOUS
  <2> QED BY <2>1, <1>1, <1>4 DEF Proposal
<1>6. r \in Proposal /\ Extends(r.receipts, c.prop[p].receipts)
  <2> HIDE DEF x
  <2>1. PICK h : h = r.receipts OBVIOUS
  <2>2. h = Append(old, x) BY <1>5, <2>1
  <2> HIDE DEF r
  <2>3. Extends(h, old) BY <1>4, <2>2
  <2> QED BY <1>5, <2>1, <2>3
<1>7. Receipted(c, p, n, w) = WithProp(c, p, r)
  BY <1>1 DEF Receipted, Core, WithProp
<1> HIDE DEF r
<1>8. /\ Solid(Receipted(c, p, n, w)) /\ Keeps(Receipted(c, p, n, w), c)
      /\ SameStore(Receipted(c, p, n, w), c)
      /\ Receipted(c, p, n, w).prop[p] = r
      /\ \A q \in Proposals \ {p} : Receipted(c, p, n, w).prop[q] = c.prop[q]
  BY <1>6, <1>7, PropWrite
<1>9. /\ r.status = c.prop[p].status /\ r.target = c.prop[p].target
      /\ r.turn = c.prop[p].turn /\ r.base = c.prop[p].base
  BY <1>1 DEF r, Proposal
<1> QED BY <1>5, <1>8, <1>9 DEF OneMoreReceipt

\* create_proposal
LEMMA ProposedSolid ==
  ASSUME NEW c, Solid(c), NEW p \in Proposals, NEW st \in ProposalStatus,
         NEW o \in Objects, NEW t \in TurnRef, NEW base \in Nat,
         c.prop[p].receipts = <<>>
  PROVE  /\ Solid(Proposed(c, p, st, o, t, base))
         /\ Keeps(Proposed(c, p, st, o, t, base), c)
         /\ SameStore(Proposed(c, p, st, o, t, base), c)
         /\ Proposed(c, p, st, o, t, base).prop[p] =
              [status |-> st, target |-> o, turn |-> t, base |-> base,
               receipts |-> <<>>]
         /\ \A q \in Proposals \ {p} :
              Proposed(c, p, st, o, t, base).prop[q] = c.prop[q]
<1> DEFINE r == [status |-> st, target |-> o, turn |-> t, base |-> base,
                 receipts |-> <<>>]
<1>1. c \in Core /\ c.prop[p] \in Proposal BY CoreFields DEF Solid
<1>2. r \in Proposal /\ r.receipts = <<>>
  BY EmptySeq DEF Proposal
<1>3. Extends(r.receipts, c.prop[p].receipts)
  <2>1. Keeps(c, c) BY <1>1, KeepsReflexive
  <2> QED BY <2>1, <1>2 DEF Keeps
<1>4. Proposed(c, p, st, o, t, base) = WithProp(c, p, r)
  BY <1>1 DEF Proposed, Core, WithProp
<1> HIDE DEF r
<1>5. /\ Solid(Proposed(c, p, st, o, t, base))
      /\ Keeps(Proposed(c, p, st, o, t, base), c)
      /\ SameStore(Proposed(c, p, st, o, t, base), c)
      /\ Proposed(c, p, st, o, t, base).prop[p] = r
      /\ \A q \in Proposals \ {p} :
           Proposed(c, p, st, o, t, base).prop[q] = c.prop[q]
  BY <1>2, <1>3, <1>4, PropWrite
<1> QED BY <1>5 DEF r

-----------------------------------------------------------------------------
(* Authors: which revisions are by which proposal.                         *)

\* No proposal has written more, or less, in d than in c.
SameAuthors(d, c) ==
    \A q \in Proposals, x \in Objects : WrittenBy(d, q, x) = WrittenBy(c, q, x)

LEMMA SameRevisionsSameAuthors ==
  ASSUME NEW c, NEW d, d.revs = c.revs
  PROVE  SameAuthors(d, c)
  BY DEF SameAuthors, WrittenBy

LEMMA SameAuthorsTransitive ==
  ASSUME NEW c, NEW d, NEW e, SameAuthors(d, c), SameAuthors(e, d)
  PROVE  SameAuthors(e, c)
  BY DEF SameAuthors

\* A revision written under the next number is by its proposal, and who wrote
\* the others stays as it was.
Wrote(d, c, o, p, n) ==
    \A q \in Proposals, x \in Objects :
        WrittenBy(d, q, x) = IF x = o /\ q = p THEN WrittenBy(c, q, x) \cup {n}
                             ELSE WrittenBy(c, q, x)

LEMMA WrittenAuthors ==
  ASSUME NEW c, Solid(c), NEW o \in Objects, NEW v \in Value,
         NEW p \in Proposals \cup {None},
         NEW n \in Nat, n = c.row[o].rev + 1
  PROVE  /\ Wrote(Written(c, o, n, v, p), c, o, p, n)
         /\ Written(c, o, n, v, p).mans = c.mans
<1> DEFINE r == [val |-> v, by |-> p]
           h == Append(c.revs[o], r)
           e == Written(c, o, n, v, p)
<1>1. c \in Core /\ c.revs \in [Objects -> Seq(Revision)]
  BY CoreFields DEF Solid
<1>2. /\ c.revs[o] \in Seq(Revision) /\ Len(c.revs[o]) \in Nat
      /\ n = Len(c.revs[o]) + 1 /\ ~ (n <= Len(c.revs[o]))
  BY RowLength
<1>3. r \in Revision BY DEF Revision
<1>4. /\ h \in Seq(Revision) /\ Len(h) = n /\ h[n] = r
      /\ \A i \in 1..Len(c.revs[o]) : h[i] = c.revs[o][i]
  BY <1>2, <1>3, AppendProperties
<1> HIDE DEF h
<1>5. DOMAIN h = 1..n /\ DOMAIN c.revs[o] = 1..Len(c.revs[o])
  BY <1>2, <1>4, LenProperties
<1>6. Upserted(c.revs[o], n, r) = h BY <1>2 DEF Upserted, h
<1>7. /\ e.revs[o] = h /\ e.mans = c.mans
      /\ \A x \in Objects \ {o} : e.revs[x] = c.revs[x]
  BY <1>1, <1>6 DEF Written, Core
<1> HIDE DEF e
<1>8. ASSUME NEW q \in Proposals
      PROVE  WrittenBy(e, q, o) = IF q = p THEN WrittenBy(c, q, o) \cup {n}
                                  ELSE WrittenBy(c, q, o)
  <2>1. WrittenBy(e, q, o) = {i \in 1..n : h[i].by = q} BY <1>5, <1>7 DEF WrittenBy
  <2>2. WrittenBy(c, q, o) = {i \in 1..Len(c.revs[o]) : c.revs[o][i].by = q}
    BY <1>5 DEF WrittenBy
  <2>3. 1..n = 1..Len(c.revs[o]) \cup {n} BY <1>2
  <2>4. h[n].by = p BY <1>4
  <2> QED BY <2>1, <2>2, <2>3, <2>4, <1>4
<1>9. \A q \in Proposals, x \in Objects \ {o} : WrittenBy(e, q, x) = WrittenBy(c, q, x)
  BY <1>7 DEF WrittenBy
<1>10. Wrote(e, c, o, p, n) BY <1>8, <1>9 DEF Wrote
<1> QED BY <1>7, <1>10 DEF e

\* Seeds are by no proposal.
LEMMA SeedRowAuthors ==
  ASSUME NEW c, Solid(c), NEW o \in Objects, c.row[o].rev = NoRevision
  PROVE  SameAuthors(SeedRow(c, o), c)
<1>1. c.mirror[o] \in Value BY CoreFields DEF Solid
<1>2. 1 = c.row[o].rev + 1 BY DEF NoRevision
<1>3. Wrote(SeedRow(c, o), c, o, None, 1) BY <1>1, <1>2, WrittenAuthors DEF SeedRow
<1> QED BY <1>3, ProposalAssumption DEF Wrote, SameAuthors

LEMMA SeedRowsAuthors ==
  ASSUME NEW c, Solid(c), ~ HasRows(c)
  PROVE  SameAuthors(SeedRows(c), c)
<1>1. c \in Core BY DEF Solid
<1>2. \A x \in Objects :
         /\ c.revs[x] = <<>>
         /\ SeedRows(c).revs[x] = <<[val |-> c.mirror[x], by |-> None]>>
  BY <1>1, RowLength DEF HasRows, SeedRows, Core
<1>3. ASSUME NEW q \in Proposals, NEW x \in Objects
      PROVE  WrittenBy(SeedRows(c), q, x) = {} /\ WrittenBy(c, q, x) = {}
  <2> DEFINE h == <<[val |-> c.mirror[x], by |-> None]>>
  <2>1. c.revs[x] = <<>> /\ SeedRows(c).revs[x] = h BY <1>2
  <2>2. DOMAIN h = {1} /\ h[1].by = None OBVIOUS
  <2> HIDE DEF h
  <2>3. WrittenBy(SeedRows(c), q, x) = {}
    BY <2>1, <2>2, ProposalAssumption DEF WrittenBy
  <2>4. WrittenBy(c, q, x) = {} BY <2>1 DEF WrittenBy
  <2> QED BY <2>3, <2>4
<1> QED BY <1>3 DEF SameAuthors

LEMMA RecordedAuthors ==
  ASSUME NEW c \in Core, NEW t, NEW map, NEW kind
  PROVE  SameAuthors(Recorded(c, t, map, kind), c)
<1>1. Recorded(c, t, map, kind).revs = c.revs BY DEF Recorded, Core
<1> QED BY <1>1, SameRevisionsSameAuthors

LEMMA EnsureManifestAuthors ==
  ASSUME NEW s, NEW c, Solid(c), NEW t
  PROVE  SameAuthors(EnsureManifest(s, c, t), c)
<1> DEFINE inherited == LatestVisible(s, c, t, FALSE)
           seeded == IF HasRows(c) THEN c ELSE SeedRows(c)
<1>1. c \in Core BY DEF Solid
<1>2. CASE EnsureManifest(s, c, t).revs = c.revs
  BY <1>2, SameRevisionsSameAuthors
<1>3. CASE EnsureManifest(s, c, t) = ManifestFromRows(c, t)
  <2>1. SameAuthors(seeded, c)
    BY SeedRowsAuthors, SameRevisionsSameAuthors
  <2>2. seeded \in Core BY <1>1, SeedRowsGrown DEF Grown, Solid
  <2> HIDE DEF seeded
  <2>3. SameAuthors(ManifestFromRows(c, t), seeded)
    BY <2>2, RecordedAuthors DEF ManifestFromRows, seeded
  <2> QED BY <1>3, <2>1, <2>3, SameAuthorsTransitive
<1>4. CASE EnsureManifest(s, c, t) = UnavailableManifest(c, t)
  BY <1>1, <1>4, RecordedAuthors DEF UnavailableManifest
<1>5. CASE EnsureManifest(s, c, t) = [c EXCEPT !.bound[t] = inherited]
  <2>1. [c EXCEPT !.bound[t] = inherited].revs = c.revs BY <1>1 DEF Core
  <2> QED BY <1>5, <2>1, SameRevisionsSameAuthors
<1>6. CASE EnsureManifest(s, c, t) = c BY <1>6, SameRevisionsSameAuthors
<1> QED BY <1>3, <1>4, <1>5, <1>6 DEF EnsureManifest

LEMMA LoadedAuthors ==
  ASSUME NEW s, NEW c, Solid(c), NEW p \in Proposals, NEW primary,
         c.prop[p].target \in Objects
  PROVE  SameAuthors(Loaded(s, c, p, primary), c)
<1> DEFINE pinned == IF Pinned(c, p) THEN EnsureManifest(s, c, c.prop[p].turn) ELSE c
           o == c.prop[p].target
<1>1. SameAuthors(pinned, c)
  BY EnsureManifestAuthors, SameRevisionsSameAuthors
<1>2. Solid(pinned)
  BY EnsureManifestGrown, PinnedTurnTyped DEF Grown, Solid
<1> HIDE DEF pinned
<1>3. CASE primary /\ pinned.row[o].rev = NoRevision
  <2>1. Loaded(s, c, p, primary) = SeedRow(pinned, o)
    BY <1>3 DEF Loaded, Target, pinned
  <2> QED BY <1>1, <1>2, <1>3, <2>1, SeedRowAuthors, SameAuthorsTransitive
<1>4. CASE ~ (primary /\ pinned.row[o].rev = NoRevision)
  <2>1. Loaded(s, c, p, primary) = pinned
    BY <1>4 DEF Loaded, Target, pinned
  <2> QED BY <1>1, <2>1
<1> QED BY <1>3, <1>4

LEMMA MutatedAuthors ==
  ASSUME NEW c, Solid(c), NEW p \in Proposals, c.prop[p].target \in Objects,
         NEW n \in Nat, n = c.row[c.prop[p].target].rev + 1,
         NEW before, NEW after \in Value
  PROVE  Wrote(Mutated(c, p, n, before, after), c, c.prop[p].target, p, n)
<1> DEFINE o == c.prop[p].target
<1>1. ~ (n > 1 /\ c.revs[o] = <<>>) BY RowLength DEF NoRevision
<1>2. Mutated(c, p, n, before, after) = Written(c, o, n, after, p)
  BY <1>1 DEF Mutated, Target
<1> QED BY <1>2, WrittenAuthors

\* What is whole stays whole as long as its record and its authorship do.
LEMMA WholeKept ==
  ASSUME NEW c \in Core, NEW d, Keeps(d, c), d.mans \in Seq(Manifest),
         NEW q \in Proposals,
         \A x \in Objects : WrittenBy(d, q, x) = WrittenBy(c, q, x),
         d.prop[q].target = c.prop[q].target,
         d.prop[q].turn = c.prop[q].turn,
         d.prop[q].receipts = c.prop[q].receipts,
         Whole(c, q)
  PROVE  Whole(d, q)
<1>1. Claimed(d, q) = Claimed(c, q) BY DEF Claimed
<1>2. HasWritten(d, q, Claimed(d, q)) BY <1>1 DEF Whole, HasWritten
<1>3. \A m \in DOMAIN c.mans : m \in DOMAIN d.mans /\ d.mans[m] = c.mans[m]
  <2>1. /\ DOMAIN c.mans = 1..Len(c.mans) /\ DOMAIN d.mans = 1..Len(d.mans)
        /\ Len(c.mans) \in Nat /\ Len(d.mans) \in Nat
    BY CoreFields, LenProperties
  <2> QED BY <2>1 DEF Keeps, Extends
<1>4. Manifested(d, q) BY <1>1, <1>3 DEF Whole, Manifested
<1> QED BY <1>2, <1>4 DEF Whole

\* A proposal without a receipt is whole when it has written nothing.
LEMMA BareIsWhole ==
  ASSUME NEW c, NEW p, c.prop[p].receipts = <<>>
  PROVE  /\ Claimed(c, p) = {}
         /\ Whole(c, p) <=> \A o \in Objects : WrittenBy(c, p, o) = {}
<1>1. Claimed(c, p) = {} BY DEF Claimed
<1> QED BY <1>1 DEF Whole, HasWritten, Manifested

\* record_core_mutation leads from the turn to the revision.
LeadsTo(c, t, o, n) ==
    \E m \in DOMAIN c.mans : c.mans[m].turn = t /\ c.mans[m].map[o] = n

LEMMA RecordMutationLeads ==
  ASSUME NEW s, NEW c, Solid(c), NEW t \in Turns, NEW o \in Objects,
         NEW n \in Nat, n <= Len(c.revs[o])
  PROVE  LeadsTo(RecordMutation(s, c, t, o, n), t, o, n)
<1> DEFINE parent == LatestVisible(s, c, t, TRUE)
           map == IF parent = NoManifest THEN EarliestMap(c) ELSE c.mans[parent].map
           changed == [map EXCEPT ![o] = n]
           e == RecordMutation(s, c, t, o, n)
           r == [turn |-> t, map |-> changed, kind |-> "runtime_mutation"]
<1>1. map \in [Objects -> Nat]
  <2>1. CASE parent = NoManifest
    BY <2>1 DEF EarliestMap, NoRevision
  <2>2. CASE parent # NoManifest
    <3>1. parent \in DOMAIN c.mans BY <2>2, LatestVisibleThere DEF Solid
    <3>2. c.mans[parent] \in Manifest BY <3>1, CoreFields, SeqDomain DEF Solid
    <3> QED BY <2>2, <3>2 DEF Manifest
  <2> QED BY <2>1, <2>2
<1>2. e.mans = Append(c.mans, r) BY DEF RecordMutation, Recorded, Solid, Core
<1> HIDE DEF map, e
<1>3. changed \in [Objects -> Nat] /\ changed[o] = n BY <1>1
<1> HIDE DEF changed
<1>4. r \in Manifest BY <1>3 DEF Manifest, ManifestKind
<1>5. c.mans \in Seq(Manifest) BY CoreFields DEF Solid
<1>6. /\ Append(c.mans, r) \in Seq(Manifest)
      /\ Len(c.mans) \in Nat /\ Len(Append(c.mans, r)) = Len(c.mans) + 1
      /\ Append(c.mans, r)[Len(c.mans) + 1] = r
  BY <1>4, <1>5, AppendProperties, LenProperties
<1>7. DOMAIN e.mans = 1..(Len(c.mans) + 1) /\ e.mans[Len(c.mans) + 1] = r
  <2>1. e.mans \in Seq(Manifest) /\ Len(e.mans) = Len(c.mans) + 1
        /\ e.mans[Len(c.mans) + 1] = r
    BY <1>2, <1>6
  <2> QED BY <2>1, LenProperties
<1>8. r.turn = t /\ r.map[o] = n BY <1>3
<1>9. Len(c.mans) + 1 \in DOMAIN e.mans BY <1>6, <1>7
<1> QED BY <1>7, <1>8, <1>9 DEF e, LeadsTo

-----------------------------------------------------------------------------
(* Bindings: which manifest a turn reads.                                  *)

\* Every turn of T that is bound in c is bound to the same manifest in d.
StillBound(d, c, T) ==
    \A t \in T : c.bound[t] # NoManifest => d.bound[t] = c.bound[t]

\* Writing the row and the revision of one object binds nothing.
LEMMA WrittenBound ==
  ASSUME NEW c \in Core, NEW o, NEW n, NEW v, NEW p
  PROVE  Written(c, o, n, v, p).bound = c.bound
  BY DEF Written, Core

LEMMA MutatedBound ==
  ASSUME NEW c, Solid(c), NEW p \in Proposals, c.prop[p].target \in Objects,
         NEW n \in Nat, n = c.row[c.prop[p].target].rev + 1,
         NEW before, NEW after \in Value
  PROVE  Mutated(c, p, n, before, after).bound = c.bound
<1> DEFINE o == c.prop[p].target
<1>1. ~ (n > 1 /\ c.revs[o] = <<>>) BY RowLength DEF NoRevision
<1>2. Mutated(c, p, n, before, after) = Written(c, o, n, after, p)
  BY <1>1 DEF Mutated, Target
<1> QED BY <1>2, WrittenBound DEF Solid

\* Binding one turn leaves the others as they are.
LEMMA RecordedBound ==
  ASSUME NEW c \in Core, NEW t \in Turns, NEW map, NEW kind
  PROVE  \A u \in Turns \ {t} : Recorded(c, t, map, kind).bound[u] = c.bound[u]
<1>1. c.bound \in [Turns -> Nat] BY CoreFields
<1>2. Recorded(c, t, map, kind).bound = [c.bound EXCEPT ![t] = Len(c.mans) + 1]
  BY DEF Recorded, Core
<1> QED BY <1>1, <1>2

\* ensure_manifest_for_identity binds a turn that is not bound.
LEMMA EnsureManifestBound ==
  ASSUME NEW s, NEW c, Solid(c), NEW t \in Turns
  PROVE  StillBound(EnsureManifest(s, c, t), c, Turns)
<1> DEFINE inherited == LatestVisible(s, c, t, FALSE)
           seeded == IF HasRows(c) THEN c ELSE SeedRows(c)
           d == EnsureManifest(s, c, t)
<1>1. c \in Core /\ c.bound \in [Turns -> Nat] BY CoreFields DEF Solid
<1>2. CASE c.bound[t] # NoManifest
  BY <1>2 DEF EnsureManifest, StillBound
<1>3. CASE c.bound[t] = NoManifest
  <2>1. \A u \in Turns \ {t} : d.bound[u] = c.bound[u]
    <3>1. CASE d = ManifestFromRows(c, t)
      <4>1. seeded \in Core /\ seeded.bound = c.bound
        <5>1. SeedRows(c).bound = c.bound BY <1>1 DEF SeedRows, Core
        <5> QED BY <5>1, <1>1, SeedRowsGrown DEF Grown, Solid
      <4> HIDE DEF seeded
      <4>2. \A u \in Turns \ {t} : ManifestFromRows(c, t).bound[u] = c.bound[u]
        BY <4>1, RecordedBound DEF ManifestFromRows, seeded
      <4> QED BY <4>2, <3>1
    <3>2. CASE d = UnavailableManifest(c, t)
      <4> HIDE DEF d
      <4> QED BY <3>2, <1>1, RecordedBound DEF UnavailableManifest
    <3>3. CASE d = [c EXCEPT !.bound[t] = inherited]
      <4>1. [c EXCEPT !.bound[t] = inherited].bound
              = [c.bound EXCEPT ![t] = inherited]
        BY <1>1 DEF Core
      <4> HIDE DEF d, inherited
      <4> QED BY <3>3, <4>1, <1>1
    <3> QED BY <1>3, <3>1, <3>2, <3>3 DEF EnsureManifest
  <2> HIDE DEF d
  <2> QED BY <2>1, <1>3 DEF StillBound, d
<1> QED BY <1>2, <1>3

LEMMA RecordMutationBound ==
  ASSUME NEW s, NEW c, Solid(c), NEW t \in Turns, NEW o, NEW n
  PROVE  StillBound(RecordMutation(s, c, t, o, n), c, Turns \ {t})
  BY RecordedBound DEF RecordMutation, StillBound, Solid

LEMMA LoadedBound ==
  ASSUME NEW s, NEW c, Solid(c), NEW p \in Proposals, NEW primary,
         c.prop[p].target \in Objects
  PROVE  StillBound(Loaded(s, c, p, primary), c, Turns)
<1> DEFINE pinned == IF Pinned(c, p) THEN EnsureManifest(s, c, c.prop[p].turn) ELSE c
           o == c.prop[p].target
<1>1. StillBound(pinned, c, Turns)
  BY EnsureManifestBound, PinnedTurnTyped DEF Solid, StillBound
<1>2. pinned \in Core
  BY EnsureManifestGrown, PinnedTurnTyped DEF Grown, Solid
<1> HIDE DEF pinned
<1>3. CASE primary /\ pinned.row[o].rev = NoRevision
  <2>1. Loaded(s, c, p, primary) = SeedRow(pinned, o)
    BY <1>3 DEF Loaded, Target, pinned
  <2>2. SeedRow(pinned, o).bound = pinned.bound BY <1>2, WrittenBound DEF SeedRow
  <2> QED BY <1>1, <2>1, <2>2 DEF StillBound
<1>4. CASE ~ (primary /\ pinned.row[o].rev = NoRevision)
  <2>1. Loaded(s, c, p, primary) = pinned
    BY <1>4 DEF Loaded, Target, pinned
  <2> QED BY <1>1, <2>1
<1> QED BY <1>3, <1>4
=============================================================================
