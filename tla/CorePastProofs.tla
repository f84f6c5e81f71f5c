--------------------------- MODULE CorePastProofs ---------------------------
(***************************************************************************)
(* ReadsOnlyItsPast is an invariant of CoreMutations: whatever is forked,  *)
(* switched, rolled back and proposed, a turn reads what was changed for   *)
(* turns it continues, and nothing else.                                   *)
(*                                                                         *)
(* First the branches: what the code finds going up from a branch lies     *)
(* above it, what a turn inherits was recorded for a turn it continues,    *)
(* and to continue is transitive and lasts.  Then the core state, each     *)
(* operation on it and each step of a request.                             *)
(***************************************************************************)
EXTENDS CoreMutationsProofs

-----------------------------------------------------------------------------
(* What a turn continues.                                                  *)

LEMMA AboveMeans ==
  ASSUME NEW s, NEW b, NEW a
  PROVE  a \in Above(s, b) <=>
           a \in Branches /\ \A bs \in SUBSET Branches : Closed(s, b, bs) => a \in bs
  BY DEF Above, Closed

LEMMA LineageAbove ==
  ASSUME NEW s \in Store, NEW b \in Branches
  PROVE  Lineage(s, b) \subseteq Above(s, b)
<1> SUFFICES ASSUME NEW a \in Lineage(s, b) PROVE a \in Above(s, b) OBVIOUS
<1>1. PICK n \in 0..Cardinality(Branches) : a = Ancestry(s, b)[n] BY DEF Lineage
<1>2. a # None BY DEF Lineage
<1>3. a \in Branches BY <1>1, <1>2, BranchesClosed, AncestryInClosed
<1>4. ASSUME NEW bs \in SUBSET Branches, Closed(s, b, bs) PROVE a \in bs
  BY <1>1, <1>2, <1>4, AncestryInClosed
<1> QED BY <1>3, <1>4, AboveMeans

\* Everything above a branch that was made was made.
LEMMA AboveMade ==
  ASSUME NEW s, Tree(s), NEW b \in s.made
  PROVE  Above(s, b) \subseteq s.made
<1>1. s.made \in SUBSET Branches BY StoreFields DEF Tree
<1>2. Closed(s, b, s.made) BY TreeMeans DEF Closed
<1> QED BY <1>1, <1>2, AboveMeans

LEMMA AboveItself ==
  ASSUME NEW s, NEW b \in Branches
  PROVE  b \in Above(s, b)
  BY AboveMeans DEF Closed

\* What is above a branch above is above, and so is its parent.
LEMMA AboveTransitive ==
  ASSUME NEW s, NEW b, NEW d \in Above(s, b), NEW e \in Above(s, d)
  PROVE  e \in Above(s, b)
<1>1. d \in Branches /\ e \in Branches BY AboveMeans
<1>2. ASSUME NEW bs \in SUBSET Branches, Closed(s, b, bs) PROVE e \in bs
  <2>1. d \in bs BY <1>2, AboveMeans
  <2>2. Closed(s, d, bs) BY <1>2, <2>1 DEF Closed
  <2> QED BY <2>2, AboveMeans
<1> QED BY <1>1, <1>2, AboveMeans

LEMMA AboveParent ==
  ASSUME NEW s \in Store, NEW b, NEW d \in Above(s, b), s.parent[d] # None
  PROVE  s.parent[d] \in Above(s, b)
<1>1. d \in Branches BY AboveMeans
<1>2. s.parent[d] \in Branches BY <1>1, StoreFields
<1>3. ASSUME NEW bs \in SUBSET Branches, Closed(s, b, bs) PROVE s.parent[d] \in bs
  BY <1>3, AboveMeans DEF Closed
<1> QED BY <1>2, <1>3, AboveMeans

\* A branch is not above its parent: it was forked after its parent.
LEMMA NotAboveParent ==
  ASSUME NEW s, Tree(s), NEW b \in s.made, NEW d \in Above(s, b), s.parent[d] # None
  PROVE  b \notin Above(s, s.parent[d])
<1> DEFINE rank(x) == IF s.parent[x] = None THEN 0 ELSE s.forkOrigin[x]
           older == {x \in s.made : rank(x) <= rank(b)}
           younger == {x \in s.made : rank(x) < rank(d)}
<1>1. \A x \in s.made : rank(x) \in Nat BY TreeMeans
<1>2. \A x \in s.made : s.parent[x] # None
        => s.parent[x] \in s.made /\ rank(s.parent[x]) < rank(x)
  <2> SUFFICES ASSUME NEW x \in s.made, s.parent[x] # None
               PROVE  s.parent[x] \in s.made /\ rank(s.parent[x]) < rank(x)
    OBVIOUS
  <2>1. /\ s.parent[x] \in s.made /\ s.forkOrigin[x] \in Created(s)
        /\ s.forkOrigin[x] \in Nat /\ s.on[s.forkOrigin[x]] = s.parent[x]
    BY TreeMeans
  <2>2. CASE s.parent[s.parent[x]] = None
    <3>1. 0 < s.forkOrigin[x] BY <2>1 DEF Created
    <3> QED BY <2>1, <2>2, <3>1
  <2>3. CASE s.parent[s.parent[x]] # None
    <3>1. s.forkOrigin[s.parent[x]] \in Nat
          /\ s.forkOrigin[x] > s.forkOrigin[s.parent[x]]
      BY <2>1, <2>3, TreeMeans
    <3> QED BY <2>1, <2>3, <3>1
  <2> QED BY <2>2, <2>3
<1>3. d \in s.made /\ s.parent[d] \in s.made BY AboveMade, TreeMeans
<1> HIDE DEF rank
<1>4. rank(d) <= rank(b)
  <2>1. older \in SUBSET Branches BY StoreFields DEF Tree
  <2>2. Closed(s, b, older)
    <3>1. b \in older BY <1>1
    <3>2. ASSUME NEW x \in older, s.parent[x] # None PROVE s.parent[x] \in older
      <4>1. /\ s.parent[x] \in s.made /\ rank(s.parent[x]) < rank(x)
            /\ rank(x) <= rank(b)
        BY <1>2, <3>2
      <4>2. rank(s.parent[x]) \in Nat /\ rank(x) \in Nat /\ rank(b) \in Nat
        BY <1>1, <4>1
      <4>3. rank(s.parent[x]) <= rank(b) BY <4>1, <4>2
      <4> QED BY <4>1, <4>3
    <3> QED BY <3>1, <3>2 DEF Closed
  <2>3. d \in older BY <2>1, <2>2, AboveMeans
  <2> QED BY <2>3
<1>5. Above(s, s.parent[d]) \subseteq younger
  <2>1. younger \in SUBSET Branches BY StoreFields DEF Tree
  <2>2. Closed(s, s.parent[d], younger)
    <3>1. s.parent[d] \in younger BY <1>2, <1>3
    <3>2. ASSUME NEW x \in younger, s.parent[x] # None PROVE s.parent[x] \in younger
      <4>1. /\ s.parent[x] \in s.made /\ rank(s.parent[x]) < rank(x)
            /\ rank(x) < rank(d)
        BY <1>2, <3>2
      <4>2. rank(s.parent[x]) \in Nat /\ rank(x) \in Nat /\ rank(d) \in Nat
        BY <1>1, <1>3, <4>1
      <4>3. rank(s.parent[x]) < rank(d) BY <4>1, <4>2
      <4> QED BY <4>1, <4>3
    <3> QED BY <3>1, <3>2 DEF Closed
  <2> QED BY <2>1, <2>2, AboveMeans
<1>6. b \notin younger BY <1>1, <1>3, <1>4
<1> QED BY <1>5, <1>6

LEMMA PastItself ==
  ASSUME NEW s, Tree(s), NEW t \in Created(s), t \notin s.hidden
  PROVE  InPast(s, t, t)
<1>1. t <= t /\ ~ HiddenByRollback(s, s.on[t], t) BY TreeMeans
<1> QED BY <1>1 DEF InPast

\* A turn continues what the turns it continues do.
LEMMA PastTransitive ==
  ASSUME NEW s, Tree(s), NEW t \in Created(s), NEW m \in Created(s),
         NEW u \in Created(s), InPast(s, t, m), InPast(s, m, u)
  PROVE  InPast(s, t, u)
<1>1. t \in Nat /\ m \in Nat /\ u \in Nat BY TreeMeans
<1>2. /\ s.on[t] \in s.made /\ s.on[m] \in s.made /\ s.on[u] \in s.made
      /\ s.on[u] # None /\ s.on[m] # None
  BY TreeMeans, BranchAssumption
<1>3. CASE s.on[m] = s.on[t] /\ m <= t /\ ~ HiddenByRollback(s, s.on[m], m)
  <2>1. CASE s.on[u] = s.on[m] /\ u <= m /\ ~ HiddenByRollback(s, s.on[u], u)
    <3>1. u <= t BY <1>1, <1>3, <2>1
    <3> QED BY <3>1, <1>3, <2>1 DEF InPast
  <2>2. CASE \E d \in Above(s, s.on[m]) :
                s.parent[d] = s.on[u] /\ u <= ForkPoint(s, s.on[m], d)
    BY <1>3, <2>2 DEF InPast
  <2> QED BY <2>1, <2>2 DEF InPast
<1>4. CASE \E d \in Above(s, s.on[t]) :
              s.parent[d] = s.on[m] /\ m <= ForkPoint(s, s.on[t], d)
  <2>1. PICK d \in Above(s, s.on[t]) :
               s.parent[d] = s.on[m] /\ m <= ForkPoint(s, s.on[t], d)
    BY <1>4
  <2>2. d \in s.made BY <1>2, AboveMade
  <2>3. ForkPoint(s, s.on[t], d) \in Nat
    BY <1>2, <2>1, <2>2, TreeMeans DEF ForkPoint
  <2>4. CASE s.on[u] = s.on[m] /\ u <= m /\ ~ HiddenByRollback(s, s.on[u], u)
    <3>1. u <= ForkPoint(s, s.on[t], d) BY <1>1, <2>1, <2>3, <2>4
    <3> QED BY <3>1, <2>1, <2>4 DEF InPast
  <2>5. CASE \E e \in Above(s, s.on[m]) :
                s.parent[e] = s.on[u] /\ u <= ForkPoint(s, s.on[m], e)
    <3>1. PICK e \in Above(s, s.on[m]) :
                 s.parent[e] = s.on[u] /\ u <= ForkPoint(s, s.on[m], e)
      BY <2>5
    <3>2. s.on[m] \in Above(s, s.on[t]) BY <1>2, <2>1, AboveParent DEF Tree
    <3>3. e \in Above(s, s.on[t]) BY <3>2, AboveTransitive
    <3>4. e # s.on[t] BY <1>2, <2>1, NotAboveParent
    <3>5. e \in s.made BY <1>2, <3>3, AboveMade
    <3>6. /\ s.forkOrigin[e] \in Nat /\ s.forkedFrom[e] \in Nat
          /\ s.forkedFrom[e] <= s.forkOrigin[e]
      BY <1>2, <3>1, <3>5, TreeMeans
    <3>7. u <= s.forkOrigin[e] BY <1>1, <3>1, <3>6 DEF ForkPoint
    <3> QED BY <3>1, <3>3, <3>4, <3>7 DEF InPast, ForkPoint
  <2> QED BY <2>4, <2>5 DEF InPast
<1> QED BY <1>3, <1>4 DEF InPast

\* What a turn may inherit was recorded for a turn it continues.
Continued(s, t, u) == u \in Created(s) /\ u \notin s.hidden /\ InPast(s, t, u)

LEMMA ScopeIsPast ==
  ASSUME NEW s, Tree(s), NEW t \in Created(s), NEW b \in Lineage(s, s.on[t]),
         NEW u \in InScope(s, t, b)
  PROVE  Continued(s, t, u)
<1>1. /\ u \in Created(s) /\ s.on[u] = b /\ u \notin s.hiddenIds[b]
      /\ s.on[CutoffFor(s, t, b)] = b => u <= CutoffFor(s, t, b)
  BY DEF InScope
<1>2. s.on[t] \in s.made /\ s.on[t] \in Branches BY TreeMeans
<1>3. b \in s.made /\ b # None
  BY <1>2, LineageAbove, AboveMade, TreeMeans, BranchAssumption DEF Tree
<1>4. u \notin s.hidden /\ ~ HiddenByRollback(s, s.on[u], u)
  BY <1>1, <1>3, TreeMeans DEF Tree, HiddenViewsAgree
<1>5. CASE b = s.on[t]
  BY <1>1, <1>4, <1>5 DEF CutoffFor, InPast, Continued
<1>6. CASE b # s.on[t]
  <2> DEFINE d == CHOOSE x \in Lineage(s, s.on[t]) : s.parent[x] = b
  <2>1. d \in Lineage(s, s.on[t]) /\ s.parent[d] = b BY <1>6, LineageHasChild
  <2>2. CutoffFor(s, t, b) = s.forkedFrom[d] BY <1>6 DEF CutoffFor
  <2> HIDE DEF d
  <2>3. d \in Above(s, s.on[t]) BY <2>1, <1>2, LineageAbove DEF Tree
  <2>4. d \in s.made BY <2>3, <1>2, AboveMade
  <2>5. /\ s.forkOrigin[d] \in Nat /\ s.forkedFrom[d] \in Nat
        /\ s.on[s.forkedFrom[d]] = b /\ s.forkedFrom[d] <= s.forkOrigin[d]
    BY <1>3, <2>1, <2>4, TreeMeans
  <2>6. u <= s.forkedFrom[d] /\ u \in Nat BY <1>1, <2>2, <2>5, TreeMeans
  <2>7. u <= ForkPoint(s, s.on[t], d) BY <2>5, <2>6 DEF ForkPoint
  <2> QED BY <1>1, <1>4, <2>1, <2>3, <2>7 DEF InPast, Continued
<1> QED BY <1>5, <1>6

LEMMA InheritedIsPast ==
  ASSUME NEW s, Tree(s), NEW c \in Core, NEW t \in Created(s), NEW before,
         LatestVisible(s, c, t, before) # NoManifest
  PROVE  /\ LatestVisible(s, c, t, before) \in DOMAIN c.mans
         /\ Continued(s, t, c.mans[LatestVisible(s, c, t, before)].turn)
<1> DEFINE up == Ancestry(s, s.on[t])
           ms(n) == Inheritable(s, c, t, up[n], before)
           having == {n \in 0..Cardinality(Branches) : ms(n) # {}}
           n == CHOOSE x \in having : \A k \in having : x <= k
           m == LatestVisible(s, c, t, before)
<1>1. \A k : ms(k) \in SUBSET DOMAIN c.mans BY DEF Inheritable
<1>2. having # {} BY DEF LatestVisible
<1>3. n \in having
  <2>1. having \in SUBSET Nat BY HowMany
  <2> HIDE DEF having
  <2> QED BY <1>2, <2>1, LeastExists
<1>4. m = Newest(c, ms(n)) BY <1>2 DEF LatestVisible
<1>5. n \in 0..Cardinality(Branches) /\ ms(n) # {} BY <1>3
<1> HIDE DEF ms, n, having, m
<1>6. m \in ms(n) BY <1>1, <1>4, <1>5, NewestExists
<1>7. m \in DOMAIN c.mans /\ c.mans[m].turn \in InScope(s, t, up[n])
  BY <1>6 DEF ms, Inheritable
<1>8. up[n] \in Lineage(s, s.on[t])
  <2>1. c.mans[m].turn \in Created(s) /\ s.on[c.mans[m].turn] = up[n]
    BY <1>7 DEF InScope
  <2>2. up[n] # None BY <2>1, TreeMeans, BranchAssumption
  <2> QED BY <1>5, <2>2 DEF Lineage
<1>9. Continued(s, t, c.mans[m].turn) BY <1>7, <1>8, ScopeIsPast
<1> QED BY <1>7, <1>9 DEF m

-----------------------------------------------------------------------------
(* Turns and branches go on: what a turn that can still be seen continued  *)
(* it continues.                                                           *)

Stays(n, s, t) ==
    /\ t \notin s.hidden
    /\ \A u \in Created(s) : InPast(s, t, u) => InPast(n, t, u)

Later(n, s) ==
    /\ Tree(n)
    /\ Created(s) \subseteq Created(n)
    /\ \A t \in Created(s) : t \notin n.hidden => Stays(n, s, t)

AllSettled(s) == \A t \in Created(s) : s.status[t] = "settled"

\* A branch that was made keeps what is above it while its tree is.
LEMMA AboveKept ==
  ASSUME NEW s, Tree(s), NEW n, \A x \in s.made : n.parent[x] = s.parent[x],
         NEW b \in s.made
  PROVE  Above(s, b) \subseteq Above(n, b)
<1> SUFFICES ASSUME NEW a \in Above(s, b) PROVE a \in Above(n, b) OBVIOUS
<1>1. a \in Branches BY AboveMeans
<1>2. ASSUME NEW bs \in SUBSET Branches, Closed(n, b, bs) PROVE a \in bs
  <2>1. bs \cap s.made \in SUBSET Branches OBVIOUS
  <2>2. Closed(s, b, bs \cap s.made)
    BY <1>2, TreeMeans DEF Closed
  <2> QED BY <2>1, <2>2, AboveMeans
<1> QED BY <1>1, <1>2, AboveMeans

\* A turn stays what it was if its branch keeps its fork point, the branches
\* above keep where they were forked, and what it could see it can.
LEMMA PastStays ==
  ASSUME NEW s, Tree(s), NEW n, Tree(n), Created(s) \subseteq Created(n),
         \A x \in s.made : /\ n.parent[x] = s.parent[x]
                           /\ n.forkOrigin[x] = s.forkOrigin[x],
         \A u \in Created(s) : n.on[u] = s.on[u],
         NEW t \in Created(s), t \notin s.hidden,
         n.forkedFrom[s.on[t]] = s.forkedFrom[s.on[t]],
         \A u \in Created(s) : s.on[u] = s.on[t] /\ u <= t /\ u \notin s.hidden
                                 => u \notin n.hidden
  PROVE  Stays(n, s, t)
<1> SUFFICES ASSUME NEW u \in Created(s), InPast(s, t, u) PROVE InPast(n, t, u)
  BY DEF Stays
<1>1. s.on[t] \in s.made /\ n.on[t] = s.on[t] /\ n.on[u] = s.on[u]
  BY TreeMeans
<1>2. CASE s.on[u] = s.on[t] /\ u <= t /\ ~ HiddenByRollback(s, s.on[u], u)
  <2>1. u \notin n.hidden BY <1>2, TreeMeans
  <2>2. u \in Created(n) OBVIOUS
  <2>3. ~ HiddenByRollback(n, n.on[u], u) BY <2>1, <2>2, TreeMeans
  <2> QED BY <2>3, <1>1, <1>2 DEF InPast
<1>3. CASE \E d \in Above(s, s.on[t]) :
              s.parent[d] = s.on[u] /\ u <= ForkPoint(s, s.on[t], d)
  <2>1. PICK d \in Above(s, s.on[t]) :
               s.parent[d] = s.on[u] /\ u <= ForkPoint(s, s.on[t], d)
    BY <1>3
  <2>2. d \in s.made BY <1>1, AboveMade
  <2>3. d \in Above(n, s.on[t]) BY <1>1, AboveKept
  <2>4. ForkPoint(n, s.on[t], d) = ForkPoint(s, s.on[t], d)
    BY <2>2 DEF ForkPoint
  <2> QED BY <1>1, <2>1, <2>2, <2>3, <2>4 DEF InPast
<1> QED BY <1>2, <1>3 DEF InPast

LEMMA SettledNoop ==
  ASSUME NEW s, AllSettled(s), NEW t \in Created(s)
  PROVE  SettleAdopted(s, t) = s
  BY DEF AllSettled, SettleAdopted, Adoptable, AdoptionCandidate

LEMMA SettleFields ==
  ASSUME NEW k \in Store, NEW t \in Turns
  PROVE  LET n == Settle(k, t)
         IN  /\ n.active = k.active /\ n.made = k.made /\ n.parent = k.parent
             /\ n.forkOrigin = k.forkOrigin /\ n.forkedFrom = k.forkedFrom
             /\ n.hiddenIds = k.hiddenIds /\ n.hidden = k.hidden \ {t}
             /\ n.turns = k.turns /\ n.on = k.on
             /\ n.status = [k.status EXCEPT ![t] = "settled"]
  BY SMTT(30) DEF Settle, Store

\* create_turn and its settlement
LEMMA TurnLater ==
  ASSUME NEW s, Tree(s), AllSettled(s), s.active \in s.made, s.turns < MaxTurns,
         NEW cmd, NEW n, n = Settle(CreateTurn(s, s.active, cmd), s.turns + 1)
  PROVE  /\ Later(n, s) /\ AllSettled(n) /\ n.active \in n.made
         /\ s.turns + 1 \in Created(n)
<1> DEFINE b == s.active
           t == s.turns + 1
           k == CreateTurn(s, b, cmd)
<1>1. s \in Store /\ b \in Branches /\ t \in Turns /\ s.turns \in Nat
  BY TurnIds, StoreFields DEF Tree
<1>2. k \in Store /\ n \in Store BY <1>1, CreateTurnTyped, SettleTyped
<1>3. /\ k.active = s.active /\ k.made = s.made /\ k.parent = s.parent
      /\ k.forkOrigin = s.forkOrigin /\ k.forkedFrom = s.forkedFrom
      /\ k.hiddenIds = s.hiddenIds /\ k.hidden = s.hidden
      /\ k.turns = t /\ k.on = [s.on EXCEPT ![t] = b]
      /\ k.status = [s.status EXCEPT ![t] = "started"]
  BY <1>1 DEF CreateTurn, Store
<1>13. n = Settle(k, t) OBVIOUS
<1> HIDE DEF k, t
<1>4. /\ n.active = k.active /\ n.made = k.made /\ n.parent = k.parent
      /\ n.forkOrigin = k.forkOrigin /\ n.forkedFrom = k.forkedFrom
      /\ n.hiddenIds = k.hiddenIds /\ n.hidden = k.hidden \ {t}
      /\ n.turns = k.turns /\ n.on = k.on
      /\ n.status = [k.status EXCEPT ![t] = "settled"]
  BY <1>1, <1>2, <1>13, SettleFields
<1>5. s.on \in [Turns -> Branches] /\ s.status \in [Turns -> TurnStatus]
      /\ k.status \in [Turns -> TurnStatus]
  BY <1>1, <1>2, StoreFields
<1>6. /\ Created(n) = Created(s) \cup {t} /\ t \notin Created(s)
      /\ Created(s) \subseteq Turns
      /\ \A u \in Created(s) : u < t
  <2>1. Created(s) = 1..s.turns /\ Created(n) = 1..t BY <1>3, <1>4 DEF Created
  <2>2. Created(s) \subseteq Turns BY <1>1, TurnIds
  <2> QED BY <1>1, <2>1, <2>2 DEF t
<1>7. /\ \A u \in Created(s) : n.on[u] = s.on[u] /\ n.status[u] = s.status[u]
      /\ n.on[t] = b /\ n.status[t] = "settled"
  BY <1>1, <1>3, <1>4, <1>5, <1>6
<1>8. LineageChronological(n)
  <2>1. \A u \in Created(n) : n.on[u] \in n.made
    BY <1>3, <1>4, <1>6, <1>7, TreeMeans
  <2>2. ASSUME NEW x \in n.made, n.parent[x] = None
        PROVE  n.forkOrigin[x] = NoTurn /\ n.forkedFrom[x] = NoTurn
    BY <2>2, <1>3, <1>4 DEF Tree, LineageChronological
  <2>3. ASSUME NEW x \in n.made, n.parent[x] # None
        PROVE  /\ n.parent[x] \in n.made
               /\ n.forkOrigin[x] \in Created(n) /\ n.forkedFrom[x] \in Created(n)
               /\ n.on[n.forkOrigin[x]] = n.parent[x]
               /\ n.on[n.forkedFrom[x]] = n.parent[x]
               /\ n.forkedFrom[x] <= n.forkOrigin[x]
               /\ \A u \in Created(n) : n.on[u] = x => u > n.forkOrigin[x]
    <3>1. /\ x \in s.made /\ s.parent[x] # None
          /\ n.parent[x] = s.parent[x] /\ n.forkOrigin[x] = s.forkOrigin[x]
          /\ n.forkedFrom[x] = s.forkedFrom[x]
      BY <2>3, <1>3, <1>4
    <3>2. /\ s.parent[x] \in s.made
          /\ s.forkOrigin[x] \in Created(s) /\ s.forkedFrom[x] \in Created(s)
          /\ s.on[s.forkOrigin[x]] = s.parent[x]
          /\ s.on[s.forkedFrom[x]] = s.parent[x]
          /\ s.forkedFrom[x] <= s.forkOrigin[x]
          /\ \A u \in Created(s) : s.on[u] = x => u > s.forkOrigin[x]
      BY <3>1, TreeMeans
    <3>3. t > s.forkOrigin[x] BY <3>1, <3>2, <1>6, <1>1, TreeMeans DEF Turns
    <3> QED BY <3>1, <3>2, <3>3, <1>3, <1>4, <1>6, <1>7
  <2> QED BY <2>1, <2>2, <2>3 DEF LineageChronological
<1>9. HiddenViewsAgree(n)
  <2> SUFFICES ASSUME NEW x \in Branches
               PROVE  n.hiddenIds[x] = {u \in Created(n) : n.on[u] = x /\ u \in n.hidden}
    BY DEF HiddenViewsAgree
  <2>1. s.hiddenIds[x] = {u \in Created(s) : s.on[u] = x /\ u \in s.hidden}
    BY DEF Tree, HiddenViewsAgree
  <2> QED BY <2>1, <1>3, <1>4, <1>6, <1>7
<1>10. Tree(n) BY <1>2, <1>8, <1>9 DEF Tree
<1>11. ASSUME NEW u \in Created(s), u \notin n.hidden PROVE Stays(n, s, u)
  <2>1. u \notin s.hidden BY <1>11, <1>3, <1>4, <1>6
  <2>2. s.on[u] \in s.made BY TreeMeans
  <2> QED BY <2>1, <2>2, <1>3, <1>4, <1>6, <1>7, <1>10, PastStays
<1>12. AllSettled(n) BY <1>6, <1>7 DEF AllSettled
<1> QED BY <1>3, <1>4, <1>6, <1>10, <1>11, <1>12 DEF Later, t

\* create_branch_from_turn
LEMMA ForkLater ==
  ASSUME NEW s, Tree(s), AllSettled(s), NEW t \in Turns, NEW b \in Branches,
         b \notin s.made, CanFork(s, t), NEW n, n = Fork(s, t, b)
  PROVE  Later(n, s) /\ AllSettled(n) /\ n.active \in n.made
<1>1. t \in Created(s) /\ t \notin s.hidden
  BY DEF CanFork, HiddenByRollback
<1>2. n = ForkFrom(s, t, b) BY <1>1, SettledNoop DEF Fork
<1>3. s \in Store /\ n \in Store BY <1>2, ForkFromTyped DEF Tree
<1>4. /\ n.active = b /\ n.made = s.made \cup {b}
      /\ n.parent = [s.parent EXCEPT ![b] = s.on[t]]
      /\ n.forkOrigin = [s.forkOrigin EXCEPT ![b] = t]
      /\ n.forkedFrom = [s.forkedFrom EXCEPT ![b] = t]
      /\ n.hiddenIds = s.hiddenIds /\ n.hidden = s.hidden
      /\ n.turns = s.turns /\ n.on = s.on /\ n.status = s.status
  BY <1>2, <1>3 DEF ForkFrom, Store
<1>5. /\ s.parent \in [Branches -> Branches \cup {None}]
      /\ s.forkOrigin \in [Branches -> TurnRef]
      /\ s.forkedFrom \in [Branches -> TurnRef] /\ s.made \subseteq Branches
  BY <1>3, StoreFields
<1>6. Created(n) = Created(s) BY <1>4 DEF Created
<1>7. \A x \in s.made : /\ n.parent[x] = s.parent[x]
                        /\ n.forkOrigin[x] = s.forkOrigin[x]
                        /\ n.forkedFrom[x] = s.forkedFrom[x]
  BY <1>4, <1>5
<1>8. n.parent[b] = s.on[t] /\ n.forkOrigin[b] = t /\ n.forkedFrom[b] = t
  BY <1>4, <1>5
<1>9. LineageChronological(n)
  <2>1. \A u \in Created(n) : n.on[u] \in n.made BY <1>4, <1>6, TreeMeans
  <2>2. ASSUME NEW x \in n.made, n.parent[x] = None
        PROVE  n.forkOrigin[x] = NoTurn /\ n.forkedFrom[x] = NoTurn
    <3>1. s.on[t] # None BY <1>1, TreeMeans, BranchAssumption
    <3>2. x \in s.made BY <2>2, <3>1, <1>4, <1>8
    <3> QED BY <2>2, <3>2, <1>7 DEF Tree, LineageChronological
  <2>3. ASSUME NEW x \in n.made, n.parent[x] # None
        PROVE  /\ n.parent[x] \in n.made
               /\ n.forkOrigin[x] \in Created(n) /\ n.forkedFrom[x] \in Created(n)
               /\ n.on[n.forkOrigin[x]] = n.parent[x]
               /\ n.on[n.forkedFrom[x]] = n.parent[x]
               /\ n.forkedFrom[x] <= n.forkOrigin[x]
               /\ \A u \in Created(n) : n.on[u] = x => u > n.forkOrigin[x]
    <3>1. CASE x \in s.made
      <4>1. s.parent[x] # None BY <2>3, <3>1, <1>7
      <4> QED BY <4>1, <3>1, <1>4, <1>6, <1>7, TreeMeans
    <3>2. CASE x = b
      <4>1. \A u \in Created(s) : s.on[u] # b BY TreeMeans
      <4>2. t <= t BY <1>1, TreeMeans
      <4> QED BY <4>1, <4>2, <3>2, <1>1, <1>4, <1>6, <1>8, TreeMeans
    <3> QED BY <3>1, <3>2, <1>4
  <2> QED BY <2>1, <2>2, <2>3 DEF LineageChronological
<1>10. HiddenViewsAgree(n) BY <1>4, <1>6 DEF Tree, HiddenViewsAgree
<1>11. Tree(n) BY <1>3, <1>9, <1>10 DEF Tree
<1>12. ASSUME NEW u \in Created(s), u \notin n.hidden PROVE Stays(n, s, u)
  <2>1. s.on[u] \in s.made BY TreeMeans
  <2> QED BY <2>1, <1>4, <1>6, <1>7, <1>11, <1>12, PastStays
<1>13. AllSettled(n) BY <1>4, <1>6 DEF AllSettled
<1> QED BY <1>4, <1>6, <1>11, <1>12, <1>13 DEF Later

\* switch_branch
LEMMA SwitchLater ==
  ASSUME NEW s, Tree(s), AllSettled(s), NEW b \in Branches, CanSwitch(s, b),
         NEW n, n = Switch(s, b)
  PROVE  Later(n, s) /\ AllSettled(n) /\ n.active \in n.made
<1>1. s \in Store /\ n \in Store BY SwitchDeleteTyped DEF Tree
<1>2. /\ n.active = b /\ n.made = s.made /\ n.parent = s.parent
      /\ n.forkOrigin = s.forkOrigin /\ n.forkedFrom = s.forkedFrom
      /\ n.hiddenIds = s.hiddenIds /\ n.hidden = s.hidden
      /\ n.turns = s.turns /\ n.on = s.on /\ n.status = s.status
  BY <1>1 DEF Switch, Store
<1>3. Created(n) = Created(s) BY <1>2 DEF Created
<1>4. Tree(n)
  BY <1>1, <1>2, <1>3 DEF Tree, LineageChronological, HiddenViewsAgree
<1>5. ASSUME NEW u \in Created(s), u \notin n.hidden PROVE Stays(n, s, u)
  <2>1. s.on[u] \in s.made BY TreeMeans
  <2> QED BY <2>1, <1>2, <1>3, <1>4, <1>5, PastStays
<1>6. AllSettled(n) BY <1>2, <1>3 DEF AllSettled
<1>7. n.active \in n.made BY <1>2 DEF CanSwitch, Switchable
<1> QED BY <1>3, <1>4, <1>5, <1>6, <1>7 DEF Later

\* rollback_to_turn
LEMMA RollbackLater ==
  ASSUME NEW s, Tree(s), AllSettled(s), NEW t \in Turns, CanRollback(s, t),
         NEW n, n = Rollback(s, t)
  PROVE  Later(n, s) /\ AllSettled(n) /\ n.active \in n.made
<1> DEFINE b == s.active
           later == LaterTurns(s, b, t)
<1>1. /\ t \in Created(s) /\ b \in s.made
      /\ s.on[t] = b \/ OnParentLineage(s, b, t)
  BY DEF CanRollback, Switchable
<1>2. n = RollbackTo(s, t) BY <1>1, SettledNoop DEF Rollback
<1>3. s \in Store /\ n \in Store BY <1>2, RollbackToTyped DEF Tree
<1>4. /\ n.active = b /\ n.made = s.made /\ n.parent = s.parent
      /\ n.forkOrigin = s.forkOrigin
      /\ n.forkedFrom = [s.forkedFrom EXCEPT ![b] = IF s.on[t] = b THEN @ ELSE t]
      /\ n.hiddenIds = [s.hiddenIds EXCEPT ![b] = @ \cup later]
      /\ n.hidden = s.hidden \cup later
      /\ n.turns = s.turns /\ n.on = s.on /\ n.status = s.status
  BY <1>2, <1>3, ZenonT(40) DEF RollbackTo, Store
<1>5. /\ s.forkedFrom \in [Branches -> TurnRef] /\ s.made \subseteq Branches
      /\ s.hiddenIds \in [Branches -> SUBSET Turns]
  BY <1>3, StoreFields
<1>6. Created(n) = Created(s) BY <1>4 DEF Created
<1>7. later = {u \in Created(s) : s.on[u] = b /\ (s.on[t] = b => u > t)}
  BY DEF LaterTurns
<1> HIDE DEF later
<1>8. /\ \A x \in s.made \ {b} : n.forkedFrom[x] = s.forkedFrom[x]
      /\ n.forkedFrom[b] = IF s.on[t] = b THEN s.forkedFrom[b] ELSE t
  BY <1>1, <1>4, <1>5
<1>9. LineageChronological(n)
  <2>1. \A u \in Created(n) : n.on[u] \in n.made BY <1>4, <1>6, TreeMeans
  <2>2. ASSUME NEW x \in n.made, n.parent[x] = None
        PROVE  n.forkOrigin[x] = NoTurn /\ n.forkedFrom[x] = NoTurn
    <3>1. s.forkOrigin[x] = NoTurn /\ s.forkedFrom[x] = NoTurn
      BY <2>2, <1>4 DEF Tree, LineageChronological
    <3>2. x = b => s.on[t] = b BY <2>2, <1>1, <1>4 DEF OnParentLineage
    <3> QED BY <3>1, <3>2, <1>4, <1>8
  <2>3. ASSUME NEW x \in n.made, n.parent[x] # None
        PROVE  /\ n.parent[x] \in n.made
               /\ n.forkOrigin[x] \in Created(n) /\ n.forkedFrom[x] \in Created(n)
               /\ n.on[n.forkOrigin[x]] = n.parent[x]
               /\ n.on[n.forkedFrom[x]] = n.parent[x]
               /\ n.forkedFrom[x] <= n.forkOrigin[x]
               /\ \A u \in Created(n) : n.on[u] = x => u > n.forkOrigin[x]
    <3>1. /\ x \in s.made /\ s.parent[x] # None
          /\ s.parent[x] \in s.made
          /\ s.forkOrigin[x] \in Created(s) /\ s.forkedFrom[x] \in Created(s)
          /\ s.forkOrigin[x] \in Nat /\ s.forkedFrom[x] \in Nat
          /\ s.on[s.forkOrigin[x]] = s.parent[x]
          /\ s.on[s.forkedFrom[x]] = s.parent[x]
          /\ s.forkedFrom[x] <= s.forkOrigin[x]
          /\ \A u \in Created(s) : s.on[u] = x => u > s.forkOrigin[x]
      BY <2>3, <1>4, TreeMeans
    <3>2. CASE x = b /\ s.on[t] # b
      <4>1. n.forkedFrom[x] = t BY <3>2, <1>8
      <4>2. s.on[t] = s.parent[x] BY <3>2, <1>1 DEF OnParentLineage
      <4>3. t <= s.forkOrigin[x]
        <5>1. t = s.forkOrigin[b] \/ t <= s.forkedFrom[b]
          BY <3>2, <1>1 DEF OnParentLineage
        <5>2. t \in Nat BY <1>1, TreeMeans
        <5> QED BY <5>1, <5>2, <3>1, <3>2
      <4> QED BY <4>1, <4>2, <4>3, <3>1, <1>1, <1>4, <1>6
    <3>3. CASE ~ (x = b /\ s.on[t] # b)
      <4>1. n.forkedFrom[x] = s.forkedFrom[x] BY <3>1, <3>3, <1>8
      <4> QED BY <4>1, <3>1, <1>4, <1>6
    <3> QED BY <3>2, <3>3
  <2> QED BY <2>1, <2>2, <2>3 DEF LineageChronological
<1>10. HiddenViewsAgree(n)
  <2> SUFFICES ASSUME NEW x \in Branches
               PROVE  n.hiddenIds[x] = {u \in Created(n) : n.on[u] = x /\ u \in n.hidden}
    BY DEF HiddenViewsAgree
  <2>1. s.hiddenIds[x] = {u \in Created(s) : s.on[u] = x /\ u \in s.hidden}
    BY DEF Tree, HiddenViewsAgree
  <2>2. n.hiddenIds[x] = IF x = b THEN s.hiddenIds[x] \cup later ELSE s.hiddenIds[x]
    BY <1>4, <1>5
  <2> QED BY <2>1, <2>2, <1>4, <1>6, <1>7
<1>11. Tree(n) BY <1>3, <1>9, <1>10 DEF Tree
<1>12. ASSUME NEW u \in Created(s), u \notin n.hidden PROVE Stays(n, s, u)
  <2>1. s.on[u] \in s.made /\ u \in Nat BY TreeMeans
  <2>2. u \notin s.hidden /\ u \notin later BY <1>4, <1>12
  <2>3. s.on[u] = b => s.on[t] = b /\ ~ (u > t) BY <2>2, <1>7
  <2>4. n.forkedFrom[s.on[u]] = s.forkedFrom[s.on[u]] BY <2>1, <2>3, <1>8
  <2>5. ASSUME NEW v \in Created(s), s.on[v] = s.on[u], v <= u, v \notin s.hidden
        PROVE  v \notin n.hidden
    <3>1. v \in Nat /\ t \in Nat BY <1>1, TreeMeans
    <3>2. s.on[v] = b => ~ (v > t) BY <3>1, <2>1, <2>3, <2>5
    <3>3. v \notin later BY <3>2, <2>3, <2>5, <1>7
    <3> QED BY <3>3, <2>5, <1>4
  <2> QED BY <2>2, <2>4, <2>5, <1>4, <1>6, <1>11, PastStays
<1>13. AllSettled(n) BY <1>4, <1>6 DEF AllSettled
<1> QED BY <1>1, <1>4, <1>6, <1>11, <1>12, <1>13 DEF Later

-----------------------------------------------------------------------------
(* What the operations on a core state preserve of Reading.                *)

\* The proposals of c are in d, and for the same turns.
SameTurns(d, c) ==
    \A q \in Proposals : c.prop[q].status # "absent"
        => d.prop[q].status # "absent" /\ d.prop[q].turn = c.prop[q].turn

LEMMA SamePropSameTurns ==
  ASSUME NEW d, NEW c, d.prop = c.prop
  PROVE  SameTurns(d, c)
  BY DEF SameTurns

LEMMA ValueKept ==
  ASSUME NEW c, NEW d, SameTurns(d, c), NEW v \in Value, Known(c, v)
  PROVE  /\ Known(d, v)
         /\ Plain(d, v) <=> Plain(c, v)
         /\ \A s, t : OfPast(s, d, t, v) <=> OfPast(s, c, t, v)
  BY DEF SameTurns, Value, Known, Plain, OfPast

\* A map to revisions there are.
Listed(c, map) == \A o \in Objects : map[o] \in Nat /\ map[o] <= Len(c.revs[o])

LEMMA ManifestListed ==
  ASSUME NEW c, Solid(c), NEW m \in DOMAIN c.mans
  PROVE  c.mans[m] \in Manifest /\ Listed(c, c.mans[m].map)
<1>1. c.mans \in Seq(Manifest) BY CoreFields DEF Solid
<1>2. c.mans[m] \in Manifest BY <1>1, SeqDomain
<1>3. c.mans[m].map \in [Objects -> Nat] BY <1>2 DEF Manifest
<1> QED BY <1>2, <1>3 DEF Listed, Solid, MapsResolve

LEMMA BoundIsManifest ==
  ASSUME NEW c, Solid(c), NEW t \in Turns, c.bound[t] # NoManifest
  PROVE  c.bound[t] \in DOMAIN c.mans
<1>1. c.mans \in Seq(Manifest) /\ c.bound \in [Turns -> Nat]
  BY CoreFields DEF Solid
<1>2. DOMAIN c.mans = 1..Len(c.mans) /\ Len(c.mans) \in Nat
  BY <1>1, LenProperties
<1>3. c.bound[t] \in Nat /\ c.bound[t] <= Len(c.mans)
  BY <1>1 DEF Solid, MapsResolve
<1> QED BY <1>2, <1>3 DEF NoManifest

LEMMA ListedValue ==
  ASSUME NEW c, Solid(c), NEW map, Listed(c, map), NEW o \in Objects,
         map[o] # NoRevision
  PROVE  map[o] \in DOMAIN c.revs[o] /\ c.revs[o][map[o]].val \in Value
<1>1. c.revs[o] \in Seq(Revision) BY CoreFields DEF Solid
<1>2. DOMAIN c.revs[o] = 1..Len(c.revs[o]) /\ Len(c.revs[o]) \in Nat
  BY <1>1, LenProperties
<1>3. map[o] \in DOMAIN c.revs[o] BY <1>2 DEF Listed, NoRevision
<1>4. c.revs[o][map[o]] \in Revision BY <1>1, <1>3, SeqDomain
<1> QED BY <1>3, <1>4 DEF Revision

\* The turns proposals of a listed value are for were created.
LEMMA OriginTurns ==
  ASSUME NEW s, NEW c, Origins(s, c), NEW v \in Value, NEW q \in v,
         c.prop[q].turn # NoTurn
  PROVE  c.prop[q].turn \in Created(s)
  BY DEF Origins, Value

\* A list that lies in the past of a turn lies in that of one which continues
\* it.
LEMMA ListsPastOn ==
  ASSUME NEW s, Tree(s), NEW c, Solid(c), Origins(s, c),
         NEW t \in Created(s), NEW u, Continued(s, t, u),
         NEW map, Listed(c, map), ListsPast(s, c, u, map)
  PROVE  ListsPast(s, c, t, map)
<1> SUFFICES ASSUME NEW o \in Objects, map[o] # NoRevision,
                    NEW q \in c.revs[o][map[o]].val, c.prop[q].turn # NoTurn
             PROVE  InPast(s, t, c.prop[q].turn)
  BY DEF ListsPast, OfPast
<1>1. u \in Created(s) /\ u \notin s.hidden /\ InPast(s, t, u) BY DEF Continued
<1>2. c.revs[o][map[o]].val \in Value BY ListedValue
<1>3. c.prop[q].turn \in Created(s) BY <1>2, OriginTurns
<1>4. InPast(s, u, c.prop[q].turn) BY <1>1 DEF ListsPast, OfPast
<1> QED BY <1>1, <1>3, <1>4, PastTransitive

\* ... and stays there as turns and branches go on.
LEMMA ListsPastLater ==
  ASSUME NEW s, NEW n, Later(n, s), NEW c, Solid(c), Origins(s, c),
         NEW t \in Created(s), NEW map, Listed(c, map), ListsPast(s, c, t, map)
  PROVE  ListsPast(n, c, t, map)
<1> SUFFICES ASSUME t \notin n.hidden, NEW o \in Objects, map[o] # NoRevision,
                    NEW q \in c.revs[o][map[o]].val, c.prop[q].turn # NoTurn
             PROVE  InPast(n, t, c.prop[q].turn)
  BY DEF ListsPast, OfPast
<1>1. Stays(n, s, t) BY DEF Later
<1>2. c.revs[o][map[o]].val \in Value BY ListedValue
<1>3. c.prop[q].turn \in Created(s) BY <1>2, OriginTurns
<1>4. InPast(s, t, c.prop[q].turn) BY <1>1 DEF Stays, ListsPast, OfPast
<1> QED BY <1>1, <1>3, <1>4 DEF Stays

LEMMA ReadingLater ==
  ASSUME NEW s, NEW n, Later(n, s), NEW c, Solid(c), Reading(s, c)
  PROVE  Reading(n, c)
<1>1. Origins(s, c) BY DEF Reading
<1>2. Origins(n, c) BY <1>1 DEF Origins, Later
<1>3. ASSUME ~ LateSnapshot(c), NEW m \in DOMAIN c.mans
      PROVE  ListsPast(n, c, c.mans[m].turn, c.mans[m].map)
  <2>1. c.mans[m].turn \in Created(s) BY <1>1 DEF Origins
  <2>2. ListsPast(s, c, c.mans[m].turn, c.mans[m].map) BY <1>3 DEF Reading
  <2>3. Listed(c, c.mans[m].map) BY ManifestListed
  <2> QED BY <1>1, <2>1, <2>2, <2>3, ListsPastLater
<1>4. ASSUME ~ LateSnapshot(c), NEW t \in Turns, c.bound[t] # NoManifest
      PROVE  ListsPast(n, c, t, c.mans[c.bound[t]].map)
  <2>1. t \in Created(s) BY <1>1, <1>4 DEF Origins
  <2>2. ListsPast(s, c, t, c.mans[c.bound[t]].map) BY <1>4 DEF Reading
  <2>3. Listed(c, c.mans[c.bound[t]].map)
    BY <1>4, BoundIsManifest, ManifestListed
  <2> QED BY <1>1, <2>1, <2>2, <2>3, ListsPastLater
<1> QED BY <1>2, <1>3, <1>4 DEF Reading

\* d has what c lists, and lists of its own that lie in the past.
NewLists(s, d, c) ==
    ~ LateSnapshot(d) => \A m \in DOMAIN d.mans \ DOMAIN c.mans :
        ListsPast(s, d, d.mans[m].turn, d.mans[m].map)

NewBinds(s, d, c) ==
    ~ LateSnapshot(d) => \A t \in Turns :
        d.bound[t] \notin {NoManifest, c.bound[t]}
          => ListsPast(s, d, t, d.mans[d.bound[t]].map)

LEMMA ManifestsStay ==
  ASSUME NEW c \in Core, NEW d \in Core, Keeps(d, c), NEW m \in DOMAIN c.mans
  PROVE  m \in DOMAIN d.mans /\ d.mans[m] = c.mans[m]
<1>1. c.mans \in Seq(Manifest) /\ d.mans \in Seq(Manifest) BY CoreFields
<1>2. /\ DOMAIN c.mans = 1..Len(c.mans) /\ Len(c.mans) \in Nat
      /\ DOMAIN d.mans = 1..Len(d.mans) /\ Len(d.mans) \in Nat
  BY <1>1, LenProperties
<1>3. Extends(d.mans, c.mans) BY DEF Keeps
<1> QED BY <1>2, <1>3 DEF Extends

LEMMA ListKept ==
  ASSUME NEW s, NEW c, NEW d, Solid(c), Solid(d), Keeps(d, c), SameTurns(d, c),
         Origins(s, c), NEW map, Listed(c, map), NEW o \in Objects,
         map[o] # NoRevision
  PROVE  /\ d.revs[o][map[o]] = c.revs[o][map[o]]
         /\ Plain(d, d.revs[o][map[o]].val) <=> Plain(c, c.revs[o][map[o]].val)
         /\ \A t : OfPast(s, d, t, d.revs[o][map[o]].val)
                     <=> OfPast(s, c, t, c.revs[o][map[o]].val)
<1>1. map[o] \in DOMAIN c.revs[o] /\ c.revs[o][map[o]].val \in Value
  BY ListedValue
<1>2. Known(c, c.revs[o][map[o]].val) BY <1>1 DEF Origins
<1>3. d.revs[o][map[o]] = c.revs[o][map[o]] BY <1>1, RevisionsStay DEF Solid
<1> QED BY <1>1, <1>2, <1>3, ValueKept

LEMMA LateKept ==
  ASSUME NEW s, NEW c, NEW d, Solid(c), Solid(d), Keeps(d, c), SameTurns(d, c),
         Origins(s, c), LateSnapshot(c)
  PROVE  LateSnapshot(d)
<1>1. PICK m \in DOMAIN c.mans, o \in Objects :
           /\ c.mans[m].kind = "compatibility_snapshot"
           /\ c.mans[m].map[o] # NoRevision
           /\ ~ Plain(c, c.revs[o][c.mans[m].map[o]].val)
  BY DEF LateSnapshot, Plain
<1>2. m \in DOMAIN d.mans /\ d.mans[m] = c.mans[m] BY ManifestsStay DEF Solid
<1>3. Listed(c, c.mans[m].map) BY ManifestListed
<1> DEFINE map == c.mans[m].map
<1>4. Listed(c, map) /\ map[o] # NoRevision /\ ~ Plain(c, c.revs[o][map[o]].val)
  BY <1>1, <1>3
<1> HIDE DEF map
<1>5. Plain(d, d.revs[o][map[o]].val) <=> Plain(c, c.revs[o][map[o]].val)
  BY <1>4, ListKept
<1>6. ~ Plain(d, d.revs[o][map[o]].val) BY <1>4, <1>5
<1>7. d.mans[m].map = map BY <1>2 DEF map
<1> QED BY <1>1, <1>2, <1>4, <1>6, <1>7 DEF LateSnapshot, Plain

LEMMA ReadingKept ==
  ASSUME NEW s, NEW c, NEW d, Solid(c), Solid(d), Keeps(d, c), SameTurns(d, c),
         Reading(s, c), Origins(s, d), NewLists(s, d, c), NewBinds(s, d, c)
  PROVE  Reading(s, d)
<1>1. Origins(s, c) BY DEF Reading
<1>2. ~ LateSnapshot(d) => ~ LateSnapshot(c) BY <1>1, LateKept
<1>3. ASSUME NEW t, NEW map, Listed(c, map), ListsPast(s, c, t, map)
      PROVE  ListsPast(s, d, t, map)
  BY <1>1, <1>3, ListKept DEF ListsPast
<1>4. ASSUME ~ LateSnapshot(d), NEW m \in DOMAIN d.mans
      PROVE  ListsPast(s, d, d.mans[m].turn, d.mans[m].map)
  <2>1. CASE m \in DOMAIN c.mans
    <3>1. d.mans[m] = c.mans[m] BY <2>1, ManifestsStay DEF Solid
    <3>2. ListsPast(s, c, c.mans[m].turn, c.mans[m].map)
      BY <1>2, <1>4, <2>1 DEF Reading
    <3>3. Listed(c, c.mans[m].map) BY <2>1, ManifestListed
    <3> QED BY <3>1, <3>2, <3>3, <1>3
  <2>2. CASE m \notin DOMAIN c.mans BY <2>2, <1>4 DEF NewLists
  <2> QED BY <2>1, <2>2
<1>5. ASSUME ~ LateSnapshot(d), NEW t \in Turns, d.bound[t] # NoManifest
      PROVE  ListsPast(s, d, t, d.mans[d.bound[t]].map)
  <2>1. CASE d.bound[t] = c.bound[t]
    <3>1. c.bound[t] \in DOMAIN c.mans BY <1>5, <2>1, BoundIsManifest
    <3>2. d.mans[c.bound[t]] = c.mans[c.bound[t]]
      BY <3>1, ManifestsStay DEF Solid
    <3>3. ListsPast(s, c, t, c.mans[c.bound[t]].map)
      BY <1>2, <1>5, <2>1 DEF Reading
    <3>4. Listed(c, c.mans[c.bound[t]].map) BY <3>1, ManifestListed
    <3> QED BY <2>1, <3>2, <3>3, <3>4, <1>3
  <2>2. CASE d.bound[t] # c.bound[t] BY <2>2, <1>5 DEF NewBinds
  <2> QED BY <2>1, <2>2
<1> QED BY <1>4, <1>5 DEF Reading

\* A step that leaves the manifests alone needs to keep the origins only.
SameLists(d, c) == d.mans = c.mans /\ d.bound = c.bound

LEMMA SameListsReading ==
  ASSUME NEW s, NEW c, NEW d, Solid(c), Solid(d), Keeps(d, c), SameTurns(d, c),
         Reading(s, c), Origins(s, d), SameLists(d, c)
  PROVE  Reading(s, d)
<1>1. NewLists(s, d, c) /\ NewBinds(s, d, c)
  BY DEF NewLists, NewBinds, SameLists
<1> QED BY <1>1, ReadingKept

\* A revision written under the next number.
LEMMA WrittenFields ==
  ASSUME NEW c, Solid(c), NEW o \in Objects, NEW v \in Value,
         NEW p \in Proposals \cup {None}, NEW n \in Nat, n = c.row[o].rev + 1
  PROVE  LET d == Written(c, o, n, v, p)
         IN  /\ d.mirror = c.mirror /\ SameLists(d, c)
             /\ \A x \in Objects \ {o} : d.row[x] = c.row[x] /\ d.revs[x] = c.revs[x]
             /\ d.row[o].rev = n
             /\ DOMAIN d.revs[o] = DOMAIN c.revs[o] \cup {n} /\ d.revs[o][n].val = v
             /\ \A i \in DOMAIN c.revs[o] : i # n /\ d.revs[o][i] = c.revs[o][i]
<1> DEFINE d == Written(c, o, n, v, p)
           r == [val |-> v, by |-> p]
           h == Append(c.revs[o], r)
<1>1. /\ c \in Core /\ c.row \in [Objects -> Row]
      /\ c.revs \in [Objects -> Seq(Revision)]
  BY CoreFields DEF Solid
<1>2. /\ c.revs[o] \in Seq(Revision) /\ Len(c.revs[o]) = c.row[o].rev
      /\ Len(c.revs[o]) \in Nat
  BY RowLength
<1>3. DOMAIN c.revs[o] = 1..Len(c.revs[o]) BY <1>2, LenProperties
<1>4. n = Len(c.revs[o]) + 1 /\ ~ (n <= Len(c.revs[o])) BY <1>2
<1>5. r \in Revision /\ r.val = v BY DEF Revision
<1> HIDE DEF r
<1>6. /\ h \in Seq(Revision) /\ Len(h) = n /\ h[n] = r
      /\ \A i \in 1..Len(c.revs[o]) : h[i] = c.revs[o][i]
  BY <1>2, <1>4, <1>5, AppendProperties
<1>7. DOMAIN h = 1..n BY <1>6, LenProperties
<1>8. /\ d.mirror = c.mirror /\ d.mans = c.mans /\ d.bound = c.bound
      /\ d.row = [c.row EXCEPT ![o] = [rev |-> n, val |-> v]]
      /\ d.revs = [c.revs EXCEPT ![o] = h]
  <2>1. Upserted(c.revs[o], n, r) = h BY <1>4 DEF Upserted
  <2> HIDE DEF h
  <2> QED BY <1>1, <2>1 DEF Written, Core, r
<1> HIDE DEF d, h
<1>9. d.row[o].rev = n /\ d.revs[o] = h BY <1>1, <1>8
<1>10. \A x \in Objects \ {o} : d.row[x] = c.row[x] /\ d.revs[x] = c.revs[x]
  BY <1>1, <1>8
<1>11. DOMAIN h = DOMAIN c.revs[o] \cup {n} /\ \A i \in DOMAIN c.revs[o] : i # n
  BY <1>2, <1>3, <1>4, <1>7
<1> QED BY <1>3, <1>5, <1>6, <1>8, <1>9, <1>10, <1>11, ZenonT(40) DEF d, SameLists

\* A value of known proposals, untouched by turns if it is an object's first.
LEMMA WrittenReading ==
  ASSUME NEW s, NEW c, Solid(c), Reading(s, c), NEW o \in Objects,
         NEW v \in Value, Known(c, v),
         NEW p \in Proposals \cup {None}, NEW n \in Nat, n = c.row[o].rev + 1,
         n = 1 => Plain(c, v)
  PROVE  Reading(s, Written(c, o, n, v, p))
<1> DEFINE d == Written(c, o, n, v, p)
<1>1. Grown(d, c) BY WrittenGrown
<1>2. /\ d.mirror = c.mirror /\ SameLists(d, c)
      /\ \A x \in Objects \ {o} : d.row[x] = c.row[x] /\ d.revs[x] = c.revs[x]
      /\ d.row[o].rev = n
      /\ DOMAIN d.revs[o] = DOMAIN c.revs[o] \cup {n} /\ d.revs[o][n].val = v
      /\ \A i \in DOMAIN c.revs[o] : i # n /\ d.revs[o][i] = c.revs[o][i]
  BY WrittenFields, SMTT(30)
<1> HIDE DEF d
<1>3. d.prop = c.prop BY <1>1 DEF Grown
<1>4. Origins(s, c) BY DEF Reading
<1>5. ASSUME NEW x \in Objects
      PROVE  /\ Known(d, d.mirror[x])
             /\ d.row[x].rev = NoRevision => Plain(d, d.mirror[x])
             /\ d.revs[x] # <<>> => Plain(d, d.revs[x][1].val)
             /\ \A i \in DOMAIN d.revs[x] : Known(d, d.revs[x][i].val)
  <2>1. /\ Known(d, c.mirror[x]) /\ Known(d, v)
        /\ c.row[x].rev = NoRevision => Plain(d, c.mirror[x])
        /\ c.revs[x] # <<>> => Plain(d, c.revs[x][1].val)
        /\ \A i \in DOMAIN c.revs[x] : Known(d, c.revs[x][i].val)
        /\ n = 1 => Plain(d, v)
    BY <1>3, <1>4 DEF Origins, Known, Plain
  <2>2. CASE x # o BY <2>1, <2>2, <1>2
  <2>3. CASE x = o
    <3>1. d.row[o].rev # NoRevision
      <4>1. c.row[o].rev \in Nat BY RowLength
      <4>2. n # 0 BY <4>1
      <4> QED BY <4>2, <1>2 DEF NoRevision
    <3>2. \A i \in DOMAIN d.revs[o] : Known(d, d.revs[o][i].val)
      BY <2>1, <2>3, <1>2
    <3>3. Plain(d, d.revs[o][1].val)
      <4>1. CASE n = 1 BY <4>1, <2>1, <1>2
      <4>2. CASE n # 1
        <5>1. /\ c.revs[o] \in Seq(Revision) /\ Len(c.revs[o]) = c.row[o].rev
              /\ c.row[o].rev \in Nat /\ (c.revs[o] = <<>> <=> c.row[o].rev = NoRevision)
          BY RowLength
        <5>2. DOMAIN c.revs[o] = 1..Len(c.revs[o]) BY <5>1, LenProperties
        <5>3. 1 \in DOMAIN c.revs[o] /\ c.revs[o] # <<>>
          BY <4>2, <5>1, <5>2 DEF NoRevision
        <5> QED BY <5>3, <2>1, <2>3, <1>2
      <4> QED BY <4>1, <4>2
    <3> QED BY <3>1, <3>2, <3>3, <2>1, <2>3, <1>2
  <2> QED BY <2>2, <2>3
<1>6. Origins(s, d)
  BY <1>2, <1>3, <1>4, <1>5 DEF Origins, SameLists
<1>7. SameTurns(d, c) BY <1>3, SamePropSameTurns
<1>8. Reading(s, d) BY <1>1, <1>2, <1>6, <1>7, SameListsReading DEF Grown
<1> QED BY <1>8 DEF d

LEMMA SeedRowReading ==
  ASSUME NEW s, NEW c, Solid(c), Reading(s, c), NEW o \in Objects,
         c.row[o].rev = NoRevision
  PROVE  Reading(s, SeedRow(c, o))
<1>1. c.mirror[o] \in Value BY CoreFields DEF Solid
<1>2. Known(c, c.mirror[o]) /\ Plain(c, c.mirror[o]) BY DEF Reading, Origins
<1>3. 1 \in Nat /\ 1 = c.row[o].rev + 1 BY DEF NoRevision
<1>4. Reading(s, Written(c, o, 1, c.mirror[o], None))
  BY <1>1, <1>2, <1>3, WrittenReading
<1> QED BY <1>4 DEF SeedRow

\* Rows for a session that has none: each from a mirror that is untouched.
LEMMA SeedRowsReading ==
  ASSUME NEW s, NEW c, Solid(c), Reading(s, c), ~ HasRows(c)
  PROVE  Reading(s, SeedRows(c))
<1> DEFINE d == SeedRows(c)
<1>1. Grown(d, c) BY SeedRowsGrown
<1>2. /\ d.mirror = c.mirror /\ SameLists(d, c)
      /\ d.row = [o \in Objects |-> [rev |-> 1, val |-> c.mirror[o]]]
      /\ d.revs = [o \in Objects |-> <<[val |-> c.mirror[o], by |-> None]>>]
  BY DEF SeedRows, Solid, Core, SameLists
<1> HIDE DEF d
<1>3. d.prop = c.prop BY <1>1 DEF Grown
<1>4. Origins(s, c) BY DEF Reading
<1>5. ASSUME NEW x \in Objects
      PROVE  /\ Known(d, d.mirror[x])
             /\ d.row[x].rev = NoRevision => Plain(d, d.mirror[x])
             /\ d.revs[x] # <<>> => Plain(d, d.revs[x][1].val)
             /\ \A i \in DOMAIN d.revs[x] : Known(d, d.revs[x][i].val)
  <2>1. c.row[x].rev = NoRevision BY DEF HasRows
  <2>2. Known(d, c.mirror[x]) /\ Plain(d, c.mirror[x])
    BY <2>1, <1>3, <1>4 DEF Origins, Known, Plain
  <2>3. d.row[x].rev = 1 /\ d.revs[x] = <<[val |-> c.mirror[x], by |-> None]>>
    BY <1>2
  <2>4. DOMAIN d.revs[x] = {1} /\ d.revs[x][1].val = c.mirror[x] BY <2>3
  <2> QED BY <2>2, <2>3, <2>4, <1>2 DEF NoRevision
<1>6. Origins(s, d) BY <1>2, <1>3, <1>4, <1>5 DEF Origins, SameLists
<1>7. SameTurns(d, c) BY <1>3, SamePropSameTurns
<1>8. Reading(s, d) BY <1>1, <1>2, <1>6, <1>7, SameListsReading DEF Grown
<1> QED BY <1>8 DEF d

\* A new list for a turn.
LEMMA RecordedFields ==
  ASSUME NEW c, Solid(c), NEW t \in Turns, NEW kind \in ManifestKind,
         NEW map \in [Objects -> Nat]
  PROVE  LET d == Recorded(c, t, map, kind)
             n == Len(c.mans) + 1
         IN  /\ d.row = c.row /\ d.revs = c.revs /\ d.mirror = c.mirror
             /\ d.prop = c.prop
             /\ DOMAIN d.mans = DOMAIN c.mans \cup {n}
             /\ \A m \in DOMAIN c.mans : d.mans[m] = c.mans[m]
             /\ d.mans[n] = [turn |-> t, map |-> map, kind |-> kind]
             /\ d.bound = [c.bound EXCEPT ![t] = n]
<1> DEFINE r == [turn |-> t, map |-> map, kind |-> kind]
           n == Len(c.mans) + 1
           ms == Append(c.mans, r)
           d == Recorded(c, t, map, kind)
<1>1. c \in Core /\ c.mans \in Seq(Manifest) BY CoreFields DEF Solid
<1>2. r \in Manifest BY DEF Manifest
<1>3. /\ Len(c.mans) \in Nat /\ DOMAIN c.mans = 1..Len(c.mans)
      /\ ms \in Seq(Manifest) /\ Len(ms) = n /\ ms[n] = r
      /\ \A i \in 1..Len(c.mans) : ms[i] = c.mans[i]
  BY <1>1, <1>2, AppendProperties, LenProperties
<1>4. d.row = c.row /\ d.revs = c.revs /\ d.mirror = c.mirror /\ d.prop = c.prop
      /\ d.mans = ms /\ d.bound = [c.bound EXCEPT ![t] = n]
  BY <1>1 DEF Recorded, Core
<1> HIDE DEF ms, d
<1>5. DOMAIN ms = 1..n BY <1>3, LenProperties
<1>6. 1..n = 1..Len(c.mans) \cup {n} BY <1>3
<1> QED BY <1>3, <1>4, <1>5, <1>6 DEF d

PlainLists(c, map) ==
    \A o \in Objects : map[o] # NoRevision => Plain(c, c.revs[o][map[o]].val)

LEMMA PlainIsPast ==
  ASSUME NEW s, NEW c, NEW t, NEW map, PlainLists(c, map)
  PROVE  ListsPast(s, c, t, map)
  BY DEF PlainLists, ListsPast, Plain, OfPast

\* A compatibility snapshot that is not late lists nothing made for turns.
LEMMA NotLateIsPlain ==
  ASSUME NEW c, Solid(c), NEW t \in Turns, NEW map \in [Objects -> Nat],
         NEW kind \in ManifestKind, ~ LateSnapshot(Recorded(c, t, map, kind))
  PROVE  kind = "compatibility_snapshot" => PlainLists(c, map)
<1> DEFINE d == Recorded(c, t, map, kind)
           n == Len(c.mans) + 1
<1>1. ~ LateSnapshot(d) OBVIOUS
<1>2. /\ d.row = c.row /\ d.revs = c.revs /\ d.mirror = c.mirror /\ d.prop = c.prop
      /\ DOMAIN d.mans = DOMAIN c.mans \cup {n}
      /\ \A m \in DOMAIN c.mans : d.mans[m] = c.mans[m]
      /\ d.mans[n] = [turn |-> t, map |-> map, kind |-> kind]
      /\ d.bound = [c.bound EXCEPT ![t] = n]
  BY RecordedFields
<1> HIDE DEF d, n
<1>3. n \in DOMAIN d.mans /\ d.mans[n].kind = kind /\ d.mans[n].map = map
  BY <1>2
<1>4. ASSUME kind = "compatibility_snapshot", NEW o \in Objects,
             map[o] # NoRevision,
             NEW q \in c.revs[o][map[o]].val, c.prop[q].turn # NoTurn
      PROVE  LateSnapshot(d)
  <2>1. /\ d.mans[n].kind = "compatibility_snapshot"
        /\ d.mans[n].map[o] # NoRevision
        /\ \E x \in d.revs[o][d.mans[n].map[o]].val : d.prop[x].turn # NoTurn
    BY <1>2, <1>3, <1>4
  <2> QED BY <2>1, <1>3 DEF LateSnapshot
<1> QED BY <1>1, <1>4 DEF PlainLists, Plain

LEMMA RecordedReading ==
  ASSUME NEW s, NEW c, Solid(c), Reading(s, c), NEW t \in Turns, t \in Created(s),
         NEW kind \in ManifestKind, NEW map \in [Objects -> Nat], Listed(c, map),
         ~ LateSnapshot(Recorded(c, t, map, kind)) => ListsPast(s, c, t, map)
  PROVE  Reading(s, Recorded(c, t, map, kind))
<1> DEFINE d == Recorded(c, t, map, kind)
           n == Len(c.mans) + 1
<1>1. Grown(d, c) BY RecordedGrown DEF Listed
<1>2. /\ d.row = c.row /\ d.revs = c.revs /\ d.mirror = c.mirror /\ d.prop = c.prop
      /\ DOMAIN d.mans = DOMAIN c.mans \cup {n}
      /\ \A m \in DOMAIN c.mans : d.mans[m] = c.mans[m]
      /\ d.mans[n] = [turn |-> t, map |-> map, kind |-> kind]
      /\ d.bound = [c.bound EXCEPT ![t] = n]
  BY RecordedFields, SMTT(30)
<1>3. ~ LateSnapshot(d) => ListsPast(s, c, t, map) OBVIOUS
<1> HIDE DEF d, n
<1>4. c.bound \in [Turns -> Nat] BY CoreFields DEF Solid
<1>5. d.mans[n].turn = t /\ d.mans[n].map = map BY <1>2
<1>6. ~ LateSnapshot(d) => ListsPast(s, d, t, map)
  BY <1>2, <1>3 DEF ListsPast, OfPast
<1>7. NewLists(s, d, c) BY <1>2, <1>5, <1>6 DEF NewLists
<1>8. NewBinds(s, d, c)
  <2>1. \A u \in Turns : d.bound[u] = IF u = t THEN n ELSE c.bound[u]
    BY <1>2, <1>4
  <2> QED BY <2>1, <1>5, <1>6 DEF NewBinds
<1>9. Origins(s, d)
  <2>1. Origins(s, c) BY DEF Reading
  <2>2. \A u \in Turns : d.bound[u] # NoManifest => u \in Created(s)
    BY <2>1, <1>2, <1>4 DEF Origins
  <2>3. \A m \in DOMAIN d.mans : d.mans[m].turn \in Created(s)
    BY <2>1, <1>2, <1>5 DEF Origins
  <2> QED BY <2>1, <2>2, <2>3, <1>2 DEF Origins, Known, Plain
<1>10. SameTurns(d, c) BY <1>2, SamePropSameTurns
<1>11. Reading(s, d)
  BY <1>1, <1>7, <1>8, <1>9, <1>10, ReadingKept DEF Grown
<1> QED BY <1>11 DEF d

\* ensure_manifest_for_identity: the turn inherits what lies in its past, or
\* is shown rows no turn has touched, or gets a snapshot that is late.
LEMMA EnsureManifestReading ==
  ASSUME NEW s, Tree(s), NEW c, Solid(c), Reading(s, c), NEW t \in Created(s)
  PROVE  Reading(s, EnsureManifest(s, c, t))
<1> DEFINE inherited == LatestVisible(s, c, t, FALSE)
<1>1. c \in Core /\ t \in Turns /\ Origins(s, c)
  BY TreeMeans DEF Solid, Reading
<1>2. CASE c.bound[t] # NoManifest
  BY <1>2 DEF EnsureManifest
<1>3. CASE c.bound[t] = NoManifest /\ inherited # NoManifest
  <2> DEFINE e == EnsureManifest(s, c, t)
  <2>1. e = [c EXCEPT !.bound[t] = inherited] BY <1>3 DEF EnsureManifest
  <2>2. Grown(e, c) BY <1>1, EnsureManifestGrown
  <2>3. inherited \in DOMAIN c.mans /\ Continued(s, t, c.mans[inherited].turn)
    BY <1>1, <1>3, InheritedIsPast
  <2> HIDE DEF inherited
  <2>4. /\ e.mans = c.mans /\ e.row = c.row /\ e.revs = c.revs /\ e.prop = c.prop
        /\ e.mirror = c.mirror
        /\ e.bound = [c.bound EXCEPT ![t] = inherited]
    BY <2>1, <1>1 DEF Core
  <2> HIDE DEF e
  <2>5. SameTurns(e, c) BY <2>4, SamePropSameTurns
  <2>6. NewLists(s, e, c) BY <2>4 DEF NewLists
  <2>7. c.bound \in [Turns -> Nat] BY <1>1, CoreFields
  <2>8. \A u \in Turns : e.bound[u] = IF u = t THEN inherited ELSE c.bound[u]
    BY <2>4, <2>7
  <2>9. ~ LateSnapshot(e) => ListsPast(s, e, t, e.mans[inherited].map)
    <3>1. ~ LateSnapshot(e) => ~ LateSnapshot(c)
      BY <2>2, <2>5, <1>1, LateKept DEF Grown
    <3>2. Listed(c, c.mans[inherited].map) BY <2>3, ManifestListed
    <3>3. ~ LateSnapshot(e) =>
            ListsPast(s, c, c.mans[inherited].turn, c.mans[inherited].map)
      BY <2>3, <3>1 DEF Reading
    <3>4. ~ LateSnapshot(e) => ListsPast(s, c, t, c.mans[inherited].map)
      BY <2>3, <3>2, <3>3, <1>1, ListsPastOn
    <3> QED BY <3>4, <2>4 DEF ListsPast, OfPast
  <2>10. NewBinds(s, e, c) BY <2>8, <2>9 DEF NewBinds
  <2>11. Origins(s, e)
    BY <2>4, <2>8, <1>1 DEF Origins, Known, Plain
  <2>12. Reading(s, e) BY <2>2, <2>5, <2>6, <2>10, <2>11, ReadingKept DEF Grown
  <2> QED BY <2>12 DEF e
<1>4. CASE c.bound[t] = NoManifest /\ inherited = NoManifest /\ CanSeed(s, t)
  <2> DEFINE d == IF HasRows(c) THEN c ELSE SeedRows(c)
             map == [o \in Objects |-> d.row[o].rev]
             kind == IF AllInitial(c) THEN "runtime_initial" ELSE "compatibility_snapshot"
  <2>1. Grown(d, c) /\ Reading(s, d)
    BY GrownReflexive, SeedRowsGrown, SeedRowsReading
  <2>2. Solid(d) /\ Origins(s, d) BY <2>1 DEF Grown, Reading
  <2>3. EnsureManifest(s, c, t) = Recorded(d, t, map, kind)
    BY <1>4 DEF EnsureManifest, ManifestFromRows
  <2>4. AllInitial(c) => d = c BY DEF AllInitial
  <2> HIDE DEF d
  <2>5. map \in [Objects -> Nat] /\ Listed(d, map)
    BY <2>2, RowLength DEF Listed
  <2>6. kind \in ManifestKind BY DEF ManifestKind
  <2>7. AllInitial(c) => PlainLists(d, map)
    <3> SUFFICES ASSUME AllInitial(c), NEW o \in Objects, map[o] # NoRevision
                 PROVE  Plain(d, d.revs[o][map[o]].val)
      BY DEF PlainLists
    <3>1. d.row[o].rev <= 1 BY <2>4 DEF AllInitial
    <3>2. d.row[o].rev \in Nat /\ d.row[o].rev # 0 /\ d.revs[o] # <<>>
      BY <2>2, RowLength DEF NoRevision
    <3>3. map[o] = 1 BY <3>1, <3>2
    <3> QED BY <3>2, <3>3, <2>2 DEF Origins
  <2> HIDE DEF map
  <2>8. ~ LateSnapshot(Recorded(d, t, map, kind)) => ListsPast(s, d, t, map)
    <3>1. CASE AllInitial(c) BY <3>1, <2>7, PlainIsPast
    <3>2. CASE ~ AllInitial(c)
      <4>1. kind = "compatibility_snapshot" BY <3>2
      <4> HIDE DEF kind
      <4>2. ~ LateSnapshot(Recorded(d, t, map, kind)) => PlainLists(d, map)
        BY <4>1, <1>1, <2>2, <2>5, <2>6, NotLateIsPlain
      <4> QED BY <4>2, PlainIsPast
    <3> QED BY <3>1, <3>2
  <2> HIDE DEF kind
  <2>9. Reading(s, Recorded(d, t, map, kind))
    BY <1>1, <2>1, <2>2, <2>5, <2>6, <2>8, RecordedReading
  <2> QED BY <2>3, <2>9
<1>5. CASE c.bound[t] = NoManifest /\ inherited = NoManifest /\ ~ CanSeed(s, t)
  <2> DEFINE map == [o \in Objects |-> NoRevision]
             kind == "historical_as_of_unavailable"
  <2>1. EnsureManifest(s, c, t) = Recorded(c, t, map, kind)
    BY <1>5 DEF EnsureManifest, UnavailableManifest
  <2>2. map \in [Objects -> Nat] /\ Listed(c, map)
    BY RowLength DEF NoRevision, Listed
  <2>3. kind \in ManifestKind BY DEF ManifestKind
  <2>4. ListsPast(s, c, t, map) BY DEF ListsPast
  <2> HIDE DEF map, kind
  <2>5. Reading(s, Recorded(c, t, map, kind))
    BY <1>1, <2>2, <2>3, <2>4, RecordedReading
  <2> QED BY <2>1, <2>5
<1> QED BY <1>2, <1>3, <1>4, <1>5

\* record_core_mutation: what the turn inherits, or first revisions, and the
\* one it brings.
LEMMA RecordMutationReading ==
  ASSUME NEW s, Tree(s), NEW c, Solid(c), Reading(s, c), NEW t \in Created(s),
         NEW o \in Objects, NEW n \in Nat, n <= Len(c.revs[o]),
         t \notin s.hidden /\ ~ LateSnapshot(c)
           => n = NoRevision \/ OfPast(s, c, t, c.revs[o][n].val)
  PROVE  Reading(s, RecordMutation(s, c, t, o, n))
<1> DEFINE parent == LatestVisible(s, c, t, TRUE)
           map == IF parent = NoManifest THEN EarliestMap(c) ELSE c.mans[parent].map
           changed == [map EXCEPT ![o] = n]
           kind == "runtime_mutation"
           d == Recorded(c, t, changed, kind)
<1>1. RecordMutation(s, c, t, o, n) = d BY DEF RecordMutation
<1>2. c \in Core /\ t \in Turns /\ Origins(s, c)
  BY TreeMeans DEF Solid, Reading
<1>3. map \in [Objects -> Nat] /\ Listed(c, map)
      /\ (~ LateSnapshot(c) => ListsPast(s, c, t, map))
  <2>1. CASE parent = NoManifest
    <3>1. map = EarliestMap(c) BY <2>1
    <3>2. ASSUME NEW x \in Objects
          PROVE  /\ EarliestMap(c)[x] \in Nat /\ EarliestMap(c)[x] <= Len(c.revs[x])
                 /\ EarliestMap(c)[x] # NoRevision
                      => Plain(c, c.revs[x][EarliestMap(c)[x]].val)
      <4>1. CASE c.revs[x] = <<>>
        BY <4>1, RowLength DEF EarliestMap, NoRevision
      <4>2. CASE c.revs[x] # <<>>
        <5>1. Len(c.revs[x]) \in Nat /\ Len(c.revs[x]) # 0
          BY <4>2, RowLength, EmptySeq DEF NoRevision
        <5>2. EarliestMap(c)[x] = 1 BY <4>2 DEF EarliestMap
        <5>3. Plain(c, c.revs[x][1].val) BY <4>2, <1>2 DEF Origins
        <5>4. 1 <= Len(c.revs[x]) BY <5>1
        <5> QED BY <5>2, <5>3, <5>4
      <4> QED BY <4>1, <4>2
    <3>3. EarliestMap(c) \in [Objects -> Nat] BY <3>2 DEF EarliestMap
    <3>4. Listed(c, EarliestMap(c)) BY <3>2 DEF Listed
    <3>5. PlainLists(c, EarliestMap(c)) BY <3>2 DEF PlainLists
    <3>6. ListsPast(s, c, t, EarliestMap(c)) BY <3>5, PlainIsPast
    <3> HIDE DEF map
    <3> QED BY <3>1, <3>3, <3>4, <3>6
  <2>2. CASE parent # NoManifest
    <3>1. parent \in DOMAIN c.mans /\ Continued(s, t, c.mans[parent].turn)
      BY <2>2, <1>2, InheritedIsPast
    <3>2. map = c.mans[parent].map BY <2>2
    <3> HIDE DEF parent, map
    <3>3. c.mans[parent] \in Manifest /\ Listed(c, c.mans[parent].map)
      BY <3>1, ManifestListed
    <3>4. ~ LateSnapshot(c) =>
            ListsPast(s, c, c.mans[parent].turn, c.mans[parent].map)
      BY <3>1 DEF Reading
    <3>5. ~ LateSnapshot(c) => ListsPast(s, c, t, c.mans[parent].map)
      BY <3>1, <3>3, <3>4, <1>2, ListsPastOn
    <3> QED BY <3>2, <3>3, <3>5 DEF Manifest
  <2> QED BY <2>1, <2>2
<1> HIDE DEF map
<1>4. /\ changed \in [Objects -> Nat] /\ changed[o] = n
      /\ \A x \in Objects \ {o} : changed[x] = map[x]
  BY <1>3
<1>5. kind \in ManifestKind BY DEF ManifestKind
<1> HIDE DEF changed
<1>6. Listed(c, changed)
  <2> SUFFICES ASSUME NEW x \in Objects
               PROVE  changed[x] \in Nat /\ changed[x] <= Len(c.revs[x])
    BY DEF Listed
  <2>1. CASE x = o BY <2>1, <1>4
  <2>2. CASE x # o BY <2>2, <1>3, <1>4 DEF Listed
  <2> QED BY <2>1, <2>2
<1>7. ~ LateSnapshot(c) => ListsPast(s, c, t, changed)
  <2> SUFFICES ASSUME ~ LateSnapshot(c), t \notin s.hidden, NEW x \in Objects,
                      changed[x] # NoRevision
               PROVE  OfPast(s, c, t, c.revs[x][changed[x]].val)
    BY DEF ListsPast
  <2>1. CASE x = o BY <2>1, <1>4
  <2>2. CASE x # o BY <2>2, <1>3, <1>4 DEF ListsPast
  <2> QED BY <2>1, <2>2
<1>8. Grown(d, c) BY <1>2, <1>4, <1>5, <1>6, RecordedGrown DEF Listed
<1> HIDE DEF kind, d
<1>9. ~ LateSnapshot(d) => ~ LateSnapshot(c)
  BY <1>2, <1>8, SamePropSameTurns, LateKept DEF Grown
<1>10. Reading(s, d)
  BY <1>2, <1>4, <1>5, <1>6, <1>7, <1>9, RecordedReading DEF d
<1> QED BY <1>1, <1>10

\* _load_before_snapshot binds the turn and seeds the row.
LEMMA LoadedReading ==
  ASSUME NEW s, Tree(s), NEW c, Solid(c), Reading(s, c), NEW p \in Proposals,
         NEW primary, c.prop[p].target \in Objects
  PROVE  Reading(s, Loaded(s, c, p, primary))
<1> DEFINE t == c.prop[p].turn
           o == c.prop[p].target
           pinned == IF Pinned(c, p) THEN EnsureManifest(s, c, t) ELSE c
<1>1. Solid(pinned) /\ Reading(s, pinned)
  <2>1. CASE Pinned(c, p)
    <3>1. t \in Turns BY <2>1, PinnedTurnTyped DEF Solid
    <3>2. t \in Created(s) BY <2>1 DEF Reading, Origins, Pinned
    <3>3. Grown(EnsureManifest(s, c, t), c) BY <3>1, EnsureManifestGrown
    <3>4. Reading(s, EnsureManifest(s, c, t)) BY <3>2, EnsureManifestReading
    <3> QED BY <2>1, <3>3, <3>4 DEF Grown
  <2>2. CASE ~ Pinned(c, p) BY <2>2
  <2> QED BY <2>1, <2>2
<1>2. Loaded(s, c, p, primary) =
        IF primary /\ pinned.row[o].rev = NoRevision THEN SeedRow(pinned, o) ELSE pinned
  BY DEF Loaded, Target
<1> HIDE DEF pinned
<1>3. CASE primary /\ pinned.row[o].rev = NoRevision
  BY <1>1, <1>2, <1>3, SeedRowReading
<1>4. CASE ~ (primary /\ pinned.row[o].rev = NoRevision)
  BY <1>1, <1>2, <1>4
<1> QED BY <1>3, <1>4

\* apply_authoritative_mutation
LEMMA MutatedReading ==
  ASSUME NEW s, NEW c, Solid(c), Reading(s, c), NEW p \in Proposals,
         c.prop[p].target \in Objects,
         NEW n \in Nat, n = c.row[c.prop[p].target].rev + 1,
         NEW before, NEW after \in Value, Known(c, after), n = 1 => Plain(c, after)
  PROVE  Reading(s, Mutated(c, p, n, before, after))
<1> DEFINE o == c.prop[p].target
<1>1. ~ (n > 1 /\ c.revs[o] = <<>>) BY RowLength DEF NoRevision
<1>2. Mutated(c, p, n, before, after) = Written(c, o, n, after, p)
  BY <1>1 DEF Mutated, Target
<1>3. Reading(s, Written(c, o, n, after, p)) BY WrittenReading
<1> QED BY <1>2, <1>3

\* A write to the proposals or to the mirror.
LEMMA SameStoreReading ==
  ASSUME NEW s, NEW c, NEW d, Solid(c), Solid(d), Keeps(d, c), SameStore(d, c),
         SameTurns(d, c), Reading(s, c),
         \A q \in Proposals : d.prop[q].turn \in Created(s) \cup {NoTurn},
         \A o \in Objects :
            /\ Known(d, d.mirror[o])
            /\ d.row[o].rev = NoRevision => Plain(d, d.mirror[o])
  PROVE  Reading(s, d)
<1>1. Origins(s, c) BY DEF Reading
<1>2. ASSUME NEW o \in Objects, NEW n \in DOMAIN c.revs[o]
      PROVE  /\ Known(d, c.revs[o][n].val)
             /\ Plain(d, c.revs[o][n].val) <=> Plain(c, c.revs[o][n].val)
  <2>1. c.revs[o] \in Seq(Revision) BY CoreFields DEF Solid
  <2>4. c.revs[o][n] \in Revision BY <2>1, SeqDomain
  <2>2. c.revs[o][n].val \in Value BY <2>4 DEF Revision
  <2>3. Known(c, c.revs[o][n].val) BY <1>1 DEF Origins
  <2> QED BY <2>2, <2>3, ValueKept
<1>3. ASSUME NEW o \in Objects, c.revs[o] # <<>>
      PROVE  Plain(d, c.revs[o][1].val)
  <2>1. /\ c.revs[o] \in Seq(Revision) /\ Len(c.revs[o]) \in Nat
        /\ Len(c.revs[o]) # 0
    BY <1>3, RowLength, EmptySeq DEF NoRevision
  <2>2. DOMAIN c.revs[o] = 1..Len(c.revs[o]) BY <2>1, LenProperties
  <2>3. 1 \in DOMAIN c.revs[o] BY <2>1, <2>2
  <2>4. Plain(c, c.revs[o][1].val) BY <1>1, <1>3 DEF Origins
  <2> QED BY <2>3, <2>4, <1>2
<1>4. /\ d.row = c.row /\ d.revs = c.revs /\ d.mans = c.mans /\ d.bound = c.bound
  BY DEF SameStore
<1>5. \A o \in Objects :
         /\ d.revs[o] # <<>> => Plain(d, d.revs[o][1].val)
         /\ \A n \in DOMAIN d.revs[o] : Known(d, d.revs[o][n].val)
  BY <1>2, <1>3, <1>4
<1>6. /\ \A t \in Turns : d.bound[t] # NoManifest => t \in Created(s)
      /\ \A m \in DOMAIN d.mans : d.mans[m].turn \in Created(s)
  BY <1>1, <1>4 DEF Origins
<1>7. Origins(s, d) BY <1>5, <1>6 DEF Origins
<1>8. SameLists(d, c) BY <1>4 DEF SameLists
<1> QED BY <1>7, <1>8, SameListsReading

\* ... to the proposals alone
LEMMA SameMirrorReading ==
  ASSUME NEW s, NEW c, NEW d, Solid(c), Solid(d), Keeps(d, c), SameStore(d, c),
         d.mirror = c.mirror, SameTurns(d, c), Reading(s, c),
         \A q \in Proposals : d.prop[q].turn \in Created(s) \cup {NoTurn}
  PROVE  Reading(s, d)
<1>1. ASSUME NEW o \in Objects
      PROVE  /\ Known(d, d.mirror[o])
             /\ d.row[o].rev = NoRevision => Plain(d, d.mirror[o])
  <2>1. c.mirror[o] \in Value BY CoreFields DEF Solid
  <2>2. /\ Known(c, c.mirror[o])
        /\ c.row[o].rev = NoRevision => Plain(c, c.mirror[o])
    BY DEF Reading, Origins
  <2>3. Known(d, c.mirror[o]) /\ (Plain(d, c.mirror[o]) <=> Plain(c, c.mirror[o]))
    BY <2>1, <2>2, ValueKept
  <2> QED BY <2>2, <2>3 DEF SameStore
<1> QED BY <1>1, SameStoreReading

\* ... to the mirror alone: sync_mirror_state
Untouched(c, view) ==
    \A o \in Objects : /\ Known(c, view[o])
                       /\ c.row[o].rev = NoRevision => Plain(c, view[o])

LEMMA MirrorReading ==
  ASSUME NEW s, NEW c, Solid(c), Reading(s, c), NEW v \in [Objects -> Value],
         Untouched(c, v)
  PROVE  Reading(s, [c EXCEPT !.mirror = v])
<1> DEFINE d == [c EXCEPT !.mirror = v]
<1>1. Grown(d, c) /\ SameStore(d, c) BY MirrorGrown
<1>2. d.mirror = v BY DEF Solid, Core
<1> HIDE DEF d
<1>3. d.prop = c.prop BY <1>1 DEF Grown
<1>4. SameTurns(d, c) BY <1>3, SamePropSameTurns
<1>5. ASSUME NEW o \in Objects
      PROVE  /\ Known(d, d.mirror[o])
             /\ d.row[o].rev = NoRevision => Plain(d, d.mirror[o])
  BY <1>1, <1>2, <1>3 DEF Untouched, Known, Plain, SameStore
<1>6. \A q \in Proposals : d.prop[q].turn \in Created(s) \cup {NoTurn}
  BY <1>3 DEF Reading, Origins
<1>7. Reading(s, d) BY <1>1, <1>4, <1>5, <1>6, SameStoreReading DEF Grown
<1> QED BY <1>7 DEF d

\* create_proposal, for a turn there is
LEMMA ProposedReading ==
  ASSUME NEW s, NEW c, Healthy(c), Reading(s, c),
         NEW p \in Proposals, c.prop[p].status = "absent",
         NEW st \in ProposalStatus,
         NEW o \in Objects, NEW t \in TurnRef, t \in Created(s) \cup {NoTurn},
         NEW base \in Nat
  PROVE  Reading(s, Proposed(c, p, st, o, t, base))
<1> DEFINE d == Proposed(c, p, st, o, t, base)
<1>1. c.prop[p].receipts = <<>> BY NotAppliedIsBare DEF Applied
<1>2. /\ Solid(d) /\ Keeps(d, c) /\ SameStore(d, c)
      /\ d.prop[p] = [status |-> st, target |-> o, turn |-> t, base |-> base,
                      receipts |-> <<>>]
      /\ \A q \in Proposals \ {p} : d.prop[q] = c.prop[q]
  BY <1>1, ProposedSolid DEF Healthy
<1>3. d.mirror = c.mirror BY DEF Proposed, Healthy, Solid, Core
<1> HIDE DEF d
<1>4. d.prop[p].turn = t BY <1>2
<1>5. SameTurns(d, c) BY <1>2 DEF SameTurns
<1>6. \A q \in Proposals : c.prop[q].turn \in Created(s) \cup {NoTurn}
  BY DEF Reading, Origins
<1>7. \A q \in Proposals : d.prop[q].turn \in Created(s) \cup {NoTurn}
  BY <1>2, <1>4, <1>6
<1>8. Reading(s, d)
  BY <1>2, <1>3, <1>5, <1>7, SameMirrorReading DEF Healthy
<1> QED BY <1>8 DEF d

\* update_proposal_status
LEMMA MarkedReading ==
  ASSUME NEW s, NEW c, Solid(c), Reading(s, c), NEW p \in Proposals,
         NEW st \in ProposalStatus, st # "absent"
  PROVE  Reading(s, Marked(c, p, st))
<1> DEFINE d == Marked(c, p, st)
<1>1. c.prop[p] \in Proposal BY CoreFields DEF Solid
<1>2. /\ Solid(d) /\ Keeps(d, c) /\ SameStore(d, c)
      /\ d.prop[p] = [c.prop[p] EXCEPT !.status = st]
      /\ \A q \in Proposals \ {p} : d.prop[q] = c.prop[q]
  BY MarkedSolid
<1>3. d.mirror = c.mirror BY DEF Marked, Solid, Core
<1> HIDE DEF d
<1>4. d.prop[p].turn = c.prop[p].turn /\ d.prop[p].status = st
  BY <1>1, <1>2 DEF Proposal
<1>5. SameTurns(d, c) BY <1>2, <1>4 DEF SameTurns
<1>6. \A q \in Proposals : c.prop[q].turn \in Created(s) \cup {NoTurn}
  BY DEF Reading, Origins
<1>7. \A q \in Proposals : d.prop[q].turn \in Created(s) \cup {NoTurn}
  BY <1>2, <1>4, <1>6
<1>8. Reading(s, d) BY <1>2, <1>3, <1>5, <1>7, SameMirrorReading
<1> QED BY <1>8 DEF d

\* create_apply_receipt
LEMMA ReceiptedReading ==
  ASSUME NEW s, NEW c, Solid(c), Reading(s, c), NEW p \in Proposals,
         NEW n \in Nat, NEW w \in BOOLEAN
  PROVE  /\ Reading(s, Receipted(c, p, n, w))
         /\ SameTurns(Receipted(c, p, n, w), c)
<1> DEFINE d == Receipted(c, p, n, w)
<1>1. /\ Solid(d) /\ Keeps(d, c) /\ SameStore(d, c)
      /\ OneMoreReceipt(d, c, p, n, w)
  BY ReceiptedSolid
<1>2. d.mirror = c.mirror BY DEF Receipted, Solid, Core
<1> HIDE DEF d
<1>3. SameTurns(d, c) BY <1>1 DEF SameTurns, OneMoreReceipt
<1>4. \A q \in Proposals : c.prop[q].turn \in Created(s) \cup {NoTurn}
  BY DEF Reading, Origins
<1>5. \A q \in Proposals : d.prop[q].turn \in Created(s) \cup {NoTurn}
  BY <1>1, <1>4 DEF OneMoreReceipt
<1>6. Reading(s, d) BY <1>1, <1>2, <1>3, <1>5, SameMirrorReading
<1> QED BY <1>3, <1>6 DEF d

-----------------------------------------------------------------------------
(* The invariant, step by step.                                            *)

LEMMA PastMeans ==
  ASSUME Inv, Past
  PROVE  /\ Tree(story) /\ AllSettled(story) /\ story.active \in story.made
         /\ Reading(story, core) /\ Reading(story, work) /\ Reading(story, save)
         /\ req.pc \in Applying => Untouched(work, req.after)
  BY DEF Inv, TypeOK, Past, Tree, AllSettled, Untouched

\* A step of the request that has nothing in hand after it.
LEMMA QuietPast ==
  ASSUME Inv, Past, story' = story,
         Reading(story, core'), Reading(story, work'), Reading(story, save'),
         req'.pc \notin Applying
  PROVE  Past'
  BY DEF Past, Applying

\* A step of apply_proposal.
BringsTo(s, c, p, val) ==
    c.prop[p].turn # NoTurn /\ c.prop[p].turn \notin s.hidden /\ ~ LateSnapshot(c)
      => OfPast(s, c, c.prop[p].turn, val)

LEMMA MidwayPast ==
  ASSUME Inv, Past, story' = story,
         Reading(story, core'), Reading(story, work'), Reading(story, save'),
         Untouched(work', req'.after),
         req'.pc \in {"loaded", "receipted"} =>
            BringsTo(story, work', req'.p, req'.after[Target(work', req'.p)]),
         req'.pc = "written" /\ Writes(req'.ch) =>
            BringsTo(story, work', req'.p,
                     work'.revs[Target(work', req'.p)][req'.rev].val)
  PROVE  Past'
<1>1. Tree(story') /\ AllSettled(story') /\ story'.active \in story'.made
  BY PastMeans
<1>2. \A v : BringsTo(story, work', req'.p, v) => Brings(work, req.p, v)'
  BY DEF BringsTo, Brings
<1> QED BY <1>1, <1>2 DEF Past, Tree, AllSettled, Untouched, Target, Writes

\* A new story.
LEMMA LaterPast ==
  ASSUME Tree(story'), AllSettled(story'), (story.active \in story.made)',
         Reading(story', core'), work' = core', save' = core', req'.pc = "idle"
  PROVE  Past'
  BY DEF Past, Tree, AllSettled, Applying

LEMMA SubmissionPast ==
  ASSUME Inv, Past,
         \/ \E ch \in Channels, p \in Proposals, o \in Objects,
               t \in TurnRef, base \in Bases : Submit(ch, p, o, t, base)
         \/ \E ch \in Channels, p \in Proposals, o \in Objects,
               base \in Bases : SubmitForReview(ch, p, o, base)
         \/ \E p \in Proposals : ApplyReviewed(p)
  PROVE  Past'
<1>1. Bases \subseteq Nat /\ NoTurn \in TurnRef
  BY InputAssumption, MaxTurnsAssumption DEF NoTurn, TurnRef
<1>2. Idle.pc = "idle" BY DEF Idle
<1>3. ASSUME NEW ch \in Channels, NEW p \in Proposals, NEW o \in Objects,
             NEW t \in TurnRef, NEW base \in Bases, Submit(ch, p, o, t, base)
      PROVE  Past'
  <2>1. /\ req.pc \notin Midway /\ work.prop[p].status = "absent"
        /\ work' = Proposed(work, p, "pending", o, t, base)
        /\ core' = core /\ save' = save /\ story' = story
        /\ req' = [Idle EXCEPT !.pc = "submitted", !.ch = ch, !.p = p]
    BY <1>3 DEF Submit, MaySubmit, Flush, Midway
  <2>2. t \in Created(story) \cup {NoTurn} BY <1>3 DEF Submit, Legal
  <2>3. Healthy(work) /\ Reading(story, work) BY <2>1, InvMeans, PastMeans
  <2>4. "pending" \in ProposalStatus BY DEF ProposalStatus
  <2>5. Reading(story, work') BY <1>1, <2>1, <2>2, <2>3, <2>4, ProposedReading
  <2>6. req'.pc \notin Applying BY <2>1 DEF Idle, Applying
  <2> QED BY <2>1, <2>5, <2>6, PastMeans, QuietPast
<1>4. ASSUME NEW ch \in Channels, NEW p \in Proposals, NEW o \in Objects,
             NEW base \in Bases, SubmitForReview(ch, p, o, base)
      PROVE  Past'
  <2>1. /\ core.prop[p].status = "absent" /\ req' = Idle /\ story' = story
        /\ core' = Proposed(core, p, "review_required", o, NoTurn, base)
        /\ work' = core' /\ save' = core'
    BY <1>4 DEF SubmitForReview, Commit
  <2>2. Healthy(core) /\ Reading(story, core) BY InvMeans, PastMeans
  <2>3. "review_required" \in ProposalStatus BY DEF ProposalStatus
  <2>4. Reading(story, core') BY <1>1, <2>1, <2>2, <2>3, ProposedReading
  <2> QED BY <1>2, <2>1, <2>4, QuietPast DEF Applying
<1>5. ASSUME NEW p \in Proposals, ApplyReviewed(p) PROVE Past'
  <2>1. /\ req' = [Idle EXCEPT !.pc = "submitted", !.ch = "review", !.p = p]
        /\ core' = core /\ work' = work /\ save' = save /\ story' = story
    BY <1>5 DEF ApplyReviewed
  <2>2. req'.pc \notin Applying BY <2>1 DEF Idle, Applying
  <2> QED BY <2>1, <2>2, PastMeans, QuietPast
<1> QED BY <1>3, <1>4, <1>5

\* What is current is known, and plain where there is no row.
LEMMA CurrentUntouched ==
  ASSUME NEW s, NEW c, Solid(c), Reading(s, c), NEW primary
  PROVE  Untouched(c, CurrentView(c, primary))
<1> SUFFICES ASSUME NEW o \in Objects
             PROVE  /\ Known(c, CurrentView(c, primary)[o])
                    /\ c.row[o].rev = NoRevision
                         => Plain(c, CurrentView(c, primary)[o])
  BY DEF Untouched
<1>1. Known(c, c.mirror[o]) /\ (c.row[o].rev = NoRevision => Plain(c, c.mirror[o]))
  BY DEF Reading, Origins
<1>2. CASE primary /\ c.row[o].rev # NoRevision
  <2>1. CurrentView(c, primary)[o] = c.row[o].val BY <1>2 DEF CurrentView
  <2>2. /\ Len(c.revs[o]) = c.row[o].rev /\ Len(c.revs[o]) \in Nat
        /\ DOMAIN c.revs[o] = 1..Len(c.revs[o])
    BY RowLength, LenProperties
  <2>3. c.row[o].val = c.revs[o][Len(c.revs[o])].val
        /\ Len(c.revs[o]) \in DOMAIN c.revs[o]
    BY <1>2, <2>2 DEF Solid, RowsAreNewest, NoRevision
  <2>4. Known(c, c.row[o].val) BY <2>3 DEF Reading, Origins
  <2> QED BY <1>2, <2>1, <2>4
<1>3. CASE ~ (primary /\ c.row[o].rev # NoRevision)
  <2>1. CurrentView(c, primary)[o] = c.mirror[o] BY <1>3 DEF CurrentView
  <2> QED BY <1>1, <2>1
<1> QED BY <1>2, <1>3

\* What a proposal makes of what its turn reads: known, plain where there is
\* no row, and of the past of the turn.
LEMMA BeforePast ==
  ASSUME NEW s, Tree(s), NEW c, Solid(c), Reading(s, c), NEW p \in Proposals,
         c.prop[p].status # "absent", NEW o \in Objects, o = c.prop[p].target,
         NEW primary, Resolvable(c, p),
         NEW after, after = [BeforeView(c, p, primary) EXCEPT ![o] = @ \cup {p}]
  PROVE  /\ Untouched(c, after)
         /\ c.prop[p].turn # NoTurn /\ c.prop[p].turn \notin s.hidden
              /\ ~ LateSnapshot(c)
              => OfPast(s, c, c.prop[p].turn, after[o])
<1> DEFINE t == c.prop[p].turn
           before == BeforeView(c, p, primary)
           now == CurrentView(c, primary)
           n == AsOf(c, t, o)
<1>1. Origins(s, c) /\ Untouched(c, now) BY CurrentUntouched DEF Reading
<1>2. before \in [Objects -> Value] BY BeforeViewTyped
<1>3. now \in [Objects -> Value] BY CurrentViewTyped DEF Solid
<1>4. /\ before = IF t # NoTurn THEN [now EXCEPT ![o] = c.revs[o][n].val] ELSE now
      /\ t # NoTurn => n # NoRevision
  BY DEF BeforeView, Target, Pinned, Resolvable
<1> HIDE DEF before, now
<1>5. after[o] = before[o] \cup {p} /\ \A x \in Objects \ {o} : after[x] = before[x]
  BY <1>2 DEF before
<1>6. \A x \in Objects \ {o} : after[x] = now[x]
  BY <1>3, <1>4, <1>5
<1>7. CASE t = NoTurn
  <2>1. after[o] = now[o] \cup {p} BY <1>4, <1>5, <1>7
  <2>2. Known(c, after[o]) BY <1>1, <2>1 DEF Untouched, Known
  <2>3. c.row[o].rev = NoRevision => Plain(c, after[o])
    BY <1>1, <1>7, <2>1 DEF Untouched, Plain
  <2> QED BY <1>1, <1>6, <1>7, <2>2, <2>3 DEF Untouched
<1>8. CASE t # NoTurn
  <2>1. after[o] = c.revs[o][n].val \cup {p} BY <1>3, <1>4, <1>5, <1>8
  <2>2. t \in Turns /\ t \in Created(s)
    BY <1>1, <1>8, PinnedTurnTyped DEF Solid, Pinned, Origins
  <2>3. n \in Nat /\ n <= Len(c.revs[o]) /\ n # 0
    BY <1>4, <1>8, <2>2, AsOfThere DEF NoRevision
  <2>4. /\ Len(c.revs[o]) = c.row[o].rev /\ Len(c.revs[o]) \in Nat
        /\ DOMAIN c.revs[o] = 1..Len(c.revs[o])
    BY RowLength, LenProperties
  <2>5. n \in DOMAIN c.revs[o] /\ c.row[o].rev # NoRevision
    BY <2>3, <2>4 DEF NoRevision
  <2>6. Known(c, after[o])
    <3>1. Known(c, c.revs[o][n].val) BY <1>1, <2>5 DEF Origins
    <3> QED BY <2>1, <3>1 DEF Known
  <2>7. Untouched(c, after) BY <1>1, <1>6, <2>5, <2>6 DEF Untouched
  <2>8. ASSUME t \notin s.hidden, ~ LateSnapshot(c)
        PROVE  OfPast(s, c, t, after[o])
    <3>1. c.bound[t] # NoManifest /\ n = c.mans[c.bound[t]].map[o]
      BY <1>4, <1>8 DEF AsOf
    <3>2. ListsPast(s, c, t, c.mans[c.bound[t]].map)
      BY <2>2, <2>8, <3>1 DEF Reading
    <3>3. OfPast(s, c, t, c.revs[o][n].val)
      BY <1>4, <1>8, <2>8, <3>1, <3>2 DEF ListsPast
    <3>4. InPast(s, t, t) BY <2>2, <2>8, PastItself
    <3> QED BY <2>1, <3>3, <3>4 DEF OfPast
  <2> QED BY <2>7, <2>8
<1> QED BY <1>7, <1>8

LEMMA LoadPast ==
  ASSUME Inv, Past, Load
  PROVE  Past'
<1> DEFINE p == req.p
           o == work.prop[p].target
           c == Loaded(story, work, p, Leads(req.ch))
           after == [BeforeView(c, p, Leads(req.ch)) EXCEPT
                        ![Target(c, p)] = @ \cup {p}]
<1>1. /\ req.pc = "submitted" /\ Resolvable(c, p)
      /\ story' = story /\ core' = core /\ save' = work /\ work' = c
  BY DEF Load
<1>2. req'.pc = "loaded" /\ req'.p = p /\ req'.after = after
  BY DEF Load, Inv, TypeOK, RequestState
<1>3. Solid(work) /\ Reading(story, work) /\ Tree(story) BY InvMeans, PastMeans
<1>4. InHand(work) /\ p \in Proposals /\ o \in Objects
  BY <1>1, InvMeans DEF Inv, OnItsWay, InHand
<1>5. Grown(c, work) BY <1>3, <1>4, LoadedGrown
<1>6. Reading(story, c) BY <1>3, <1>4, LoadedReading
<1> HIDE DEF c
<1>7. Solid(c) /\ c.prop = work.prop BY <1>5 DEF Grown
<1>8. c.prop[p].status # "absent" /\ o = c.prop[p].target /\ Target(c, p) = o
  BY <1>4, <1>7 DEF InHand, Target
<1>9. after = [BeforeView(c, p, Leads(req.ch)) EXCEPT ![o] = @ \cup {p}]
  BY <1>8
<1> HIDE DEF after, o
<1>10. /\ Untouched(c, after)
       /\ c.prop[p].turn # NoTurn /\ c.prop[p].turn \notin story.hidden
            /\ ~ LateSnapshot(c)
            => OfPast(story, c, c.prop[p].turn, after[o])
  BY <1>1, <1>3, <1>4, <1>6, <1>7, <1>8, <1>9, BeforePast
<1>11. BringsTo(story, c, p, after[o]) BY <1>10 DEF BringsTo
<1>12. Target(work', p) = o BY <1>1, <1>8
<1> QED BY <1>1, <1>2, <1>3, <1>6, <1>10, <1>11, <1>12, PastMeans, MidwayPast

\* Adding history alone keeps what is untouched.
LEMMA UntouchedKept ==
  ASSUME NEW c, NEW d, Solid(c), Grown(d, c), NEW v, Untouched(c, v)
  PROVE  Untouched(d, v)
<1>1. d.prop = c.prop /\ Solid(d) /\ Keeps(d, c) BY DEF Grown
<1>2. ASSUME NEW o \in Objects, d.row[o].rev = NoRevision
      PROVE  c.row[o].rev = NoRevision
  <2>1. /\ c.row[o].rev \in Nat /\ Len(c.revs[o]) = c.row[o].rev
        /\ d.row[o].rev \in Nat /\ Len(d.revs[o]) = d.row[o].rev
    BY <1>1, RowLength
  <2>2. Len(c.revs[o]) <= Len(d.revs[o]) BY <1>1 DEF Keeps, Extends
  <2> QED BY <1>2, <2>1, <2>2 DEF NoRevision
<1> QED BY <1>1, <1>2 DEF Untouched, Known, Plain

LEMMA ReceiptPast ==
  ASSUME Inv, Past, Receipt
  PROVE  Past'
<1> DEFINE p == req.p
           w == Writes(req.ch)
           c == IF Leads(req.ch) THEN work ELSE [work EXCEPT !.mirror = req.after]
           d == Receipted(c, p, req.rev, w)
           o == work.prop[p].target
<1>1. req.pc = "loaded" /\ Flush(d) /\ Goto("receipted") BY DEF Receipt
<1>2. /\ core' = core /\ save' = save /\ work' = d /\ story' = story
      /\ req'.pc = "receipted" /\ req'.p = p
  BY <1>1, StepFields DEF PC, Flush
<1>3. req'.after = req.after
  BY <1>1 DEF Goto, Inv, TypeOK, RequestState
<1>4. /\ Solid(work) /\ Reading(story, work) /\ Tree(story)
      /\ Untouched(work, req.after)
  BY <1>1, InvMeans, PastMeans DEF Applying
<1>5. p \in Proposals /\ o \in Objects
  BY <1>1, InvMeans DEF Inv, OnItsWay, Applying, InHand
<1>6. req.after \in [Objects -> Value] /\ req.rev \in Nat /\ w \in BOOLEAN
  BY RequestFields DEF View
<1>7. Solid(c) /\ Keeps(c, work) /\ c.prop = work.prop /\ SameStore(c, work)
      /\ Reading(story, c)
  <2>1. CASE Leads(req.ch)
    BY <2>1, <1>4, KeepsReflexive DEF Solid, SameStore
  <2>2. CASE ~ Leads(req.ch)
    <3>1. Reading(story, [work EXCEPT !.mirror = req.after])
      BY <1>4, <1>6, MirrorReading
    <3> QED BY <2>2, <3>1, <1>4, <1>6, MirrorGrown DEF Grown
  <2> QED BY <2>1, <2>2
<1> HIDE DEF c
<1>8. /\ Solid(d) /\ Keeps(d, c) /\ SameStore(d, c)
      /\ OneMoreReceipt(d, c, p, req.rev, w)
  BY <1>5, <1>6, <1>7, ReceiptedSolid
<1>9. Reading(story, d) /\ SameTurns(d, c)
  BY <1>5, <1>6, <1>7, ReceiptedReading
<1> HIDE DEF d, w
<1>10. Keeps(d, work) BY <1>4, <1>7, <1>8, KeepsTransitive DEF Solid
<1>11. SameTurns(d, work) BY <1>7, <1>9 DEF SameTurns
<1>12. /\ d.prop[p].turn = work.prop[p].turn /\ Target(d, p) = o
       /\ d.row = work.row
  BY <1>7, <1>8 DEF OneMoreReceipt, SameStore, Target
<1>13. Untouched(d, req.after)
  <2> SUFFICES ASSUME NEW x \in Objects
               PROVE  /\ Known(d, req.after[x])
                      /\ d.row[x].rev = NoRevision => Plain(d, req.after[x])
    BY DEF Untouched
  <2>1. req.after[x] \in Value BY <1>6
  <2>2. /\ Known(work, req.after[x])
        /\ work.row[x].rev = NoRevision => Plain(work, req.after[x])
    BY <1>4 DEF Untouched
  <2> QED BY <2>1, <2>2, <1>11, <1>12, ValueKept
<1>14. BringsTo(story, d, p, req.after[o])
  <2> SUFFICES ASSUME d.prop[p].turn # NoTurn, d.prop[p].turn \notin story.hidden,
                      ~ LateSnapshot(d)
               PROVE  OfPast(story, d, d.prop[p].turn, req.after[o])
    BY DEF BringsTo
  <2>1. ~ LateSnapshot(work)
    BY <1>4, <1>8, <1>10, <1>11, LateKept DEF Reading
  <2>2. Brings(work, p, req.after[o]) BY <1>1 DEF Past, Target
  <2>3. OfPast(story, work, work.prop[p].turn, req.after[o])
    BY <2>1, <2>2, <1>12 DEF Brings
  <2>4. req.after[o] \in Value /\ Known(work, req.after[o])
    BY <1>4, <1>5, <1>6 DEF Untouched
  <2> QED BY <2>3, <2>4, <1>11, <1>12, ValueKept, SMTT(30)
<1> QED BY <1>2, <1>3, <1>9, <1>12, <1>13, <1>14, PastMeans, MidwayPast

LEMMA WriteStorePast ==
  ASSUME Inv, Past, WriteStore
  PROVE  Past'
<1> DEFINE p == req.p
           o == work.prop[p].target
           after == req.after[o]
           d == IF Writes(req.ch)
                THEN Mutated(work, p, req.rev, req.before, after) ELSE work
<1>1. req.pc = "receipted" /\ Flush(d) /\ Goto("written")
  BY DEF WriteStore, Target
<1>2. /\ core' = core /\ save' = save /\ work' = d /\ story' = story
      /\ req'.pc = "written" /\ req'.p = p
  BY <1>1, StepFields DEF PC, Flush
<1>3. /\ req'.ch = req.ch /\ req'.rev = req.rev /\ req'.after = req.after
  BY <1>1 DEF Goto, Inv, TypeOK, RequestState
<1>4. /\ Solid(work) /\ p \in Proposals /\ o \in Objects /\ Reading(story, work)
      /\ Untouched(work, req.after)
  BY <1>1, MidwayMeans, PastMeans DEF Midway
<1>5. req.rev \in Nat /\ after \in Value BY <1>4, RequestFields DEF View
<1>6. CASE Writes(req.ch)
  <2>1. d = Mutated(work, p, req.rev, req.before, after) BY <1>6
  <2>2. req.rev = work.row[o].rev + 1
    BY <1>1, <1>6 DEF Inv, OnItsWay, Target
  <2> HIDE DEF d
  <2>3. Grown(d, work) BY <2>1, <2>2, <1>4, <1>5, MutatedGrown
  <2>4. Known(work, after) /\ (req.rev = 1 => Plain(work, after))
    <3>1. work.row[o].rev \in Nat BY <1>4, RowLength
    <3>2. req.rev = 1 => work.row[o].rev = NoRevision
      BY <2>2, <3>1 DEF NoRevision
    <3> QED BY <3>2, <1>4 DEF Untouched
  <2> HIDE DEF after
  <2>5. Reading(story, d) BY <2>1, <2>2, <2>4, <1>4, <1>5, MutatedReading
  <2>6. d.revs[o][req.rev].val = after
    <3>1. Holds(Mutated(work, p, req.rev, req.before, after), o, req.rev, after)
      BY <2>2, <1>4, <1>5, MutatedRevision
    <3> QED BY <3>1, <2>1 DEF Holds
  <2>7. d.prop = work.prop /\ Solid(d) /\ Keeps(d, work) BY <2>3 DEF Grown
  <2>8. Untouched(d, req.after) BY <2>3, <1>4, UntouchedKept
  <2>9. BringsTo(story, d, p, after)
    <3>1. ~ LateSnapshot(d) => ~ LateSnapshot(work)
      BY <2>7, <1>4, SamePropSameTurns, LateKept DEF Reading
    <3>2. Brings(work, p, after) BY <1>1 DEF Past, Target, after
    <3> QED BY <3>1, <3>2, <2>7 DEF Brings, BringsTo, OfPast
  <2>10. Target(d, p) = o BY <2>7 DEF Target
  <2> QED BY <1>2, <1>3, <2>5, <2>6, <2>8, <2>9, <2>10, PastMeans, MidwayPast
<1>7. CASE ~ Writes(req.ch)
  <2>1. d = work BY <1>7
  <2> QED BY <2>1, <1>2, <1>3, <1>4, <1>7, PastMeans, MidwayPast
<1> QED BY <1>6, <1>7

LEMMA RecordPast ==
  ASSUME Inv, Past, Record
  PROVE  Past'
<1> DEFINE p == req.p
           o == work.prop[p].target
           t == work.prop[p].turn
           d == IF Writes(req.ch) /\ Pinned(work, p)
                THEN RecordMutation(story, work, t, o, req.rev) ELSE work
<1>1. req.pc = "written" /\ Flush(d) /\ Goto("recorded")
  BY DEF Record, Target
<1>2. /\ core' = core /\ save' = save /\ work' = d /\ story' = story
      /\ req'.pc = "recorded" /\ req'.p = p
  BY <1>1, StepFields DEF PC, Flush
<1>3. req'.after = req.after
  BY <1>1 DEF Goto, Inv, TypeOK, RequestState
<1>4. /\ Solid(work) /\ p \in Proposals /\ o \in Objects /\ Reading(story, work)
      /\ Untouched(work, req.after) /\ Tree(story)
  BY <1>1, MidwayMeans, PastMeans DEF Midway
<1>5. Reading(story, d) /\ Untouched(d, req.after)
  <2>1. CASE Writes(req.ch) /\ Pinned(work, p)
    <3>1. d = RecordMutation(story, work, t, o, req.rev) BY <2>1
    <3>2. t \in Turns /\ t \in Created(story) /\ t # NoTurn
      BY <2>1, <1>4, PinnedTurnTyped DEF Solid, Pinned, Reading, Origins
    <3>3. req.rev \in Nat /\ req.rev <= Len(work.revs[o])
      BY <1>1, <2>1, RequestFields DEF Inv, OnItsWay, Target
    <3>4. Brings(work, p, work.revs[o][req.rev].val)
      BY <1>1, <2>1 DEF Past, Target
    <3> HIDE DEF d
    <3>5. t \notin story.hidden /\ ~ LateSnapshot(work)
            => OfPast(story, work, t, work.revs[o][req.rev].val)
      BY <3>2, <3>4 DEF Brings
    <3> HIDE DEF t, o
    <3>6. Grown(d, work) BY <3>1, <3>2, <3>3, <1>4, RecordMutationGrown
    <3>7. Reading(story, d)
      BY <3>1, <3>2, <3>3, <3>5, <1>4, RecordMutationReading
    <3> QED BY <3>6, <3>7, <1>4, UntouchedKept
  <2>2. CASE ~ (Writes(req.ch) /\ Pinned(work, p)) BY <2>2, <1>4
  <2> QED BY <2>1, <2>2
<1> HIDE DEF d
<1> QED BY <1>2, <1>3, <1>5, PastMeans, MidwayPast

LEMMA FinishPast ==
  ASSUME Inv, Past, Finish
  PROVE  Past'
<1> DEFINE p == req.p
           c == IF Leads(req.ch) THEN [work EXCEPT !.mirror = req.after] ELSE work
           d == Marked(c, p, "applied")
<1>1. req.pc = "recorded" /\ Flush(d) /\ Goto("routed") BY DEF Finish
<1>2. /\ core' = core /\ save' = save /\ work' = d /\ story' = story
      /\ req'.pc = "routed"
  BY <1>1, StepFields DEF PC, Flush
<1>3. /\ Solid(work) /\ p \in Proposals /\ Reading(story, work)
      /\ Untouched(work, req.after)
  BY <1>1, MidwayMeans, PastMeans DEF Midway
<1>4. Solid(c) /\ Reading(story, c)
  <2>1. CASE Leads(req.ch)
    <3>1. req.after \in [Objects -> Value] BY RequestFields DEF View
    <3>2. Reading(story, [work EXCEPT !.mirror = req.after])
      BY <3>1, <1>3, MirrorReading
    <3> QED BY <3>1, <3>2, <2>1, <1>3, MirrorGrown DEF Grown
  <2>2. CASE ~ Leads(req.ch) BY <2>2, <1>3
  <2> QED BY <2>1, <2>2
<1> HIDE DEF c
<1>5. "applied" \in ProposalStatus /\ "applied" # "absent" BY DEF ProposalStatus
<1>6. Reading(story, d) BY <1>3, <1>4, <1>5, MarkedReading
<1> HIDE DEF d
<1> QED BY <1>2, <1>6, PastMeans, QuietPast DEF Applying

LEMMA ApplyPast ==
  ASSUME Inv, Past, Apply
  PROVE  Past'
<1>1. ASSUME NEW c, Solid(c), Reading(story, c), InHand(c),
             Flush(Marked(c, req.p, "failed")), Goto("failed")
      PROVE  Past'
  <2>1. "failed" \in ProposalStatus /\ "failed" # "absent" BY DEF ProposalStatus
  <2>2. Reading(story, Marked(c, req.p, "failed"))
    BY <1>1, <2>1, MarkedReading DEF InHand
  <2>3. /\ core' = core /\ save' = save /\ req'.pc = "failed" /\ story' = story
        /\ work' = Marked(c, req.p, "failed")
    BY <1>1, StepFields DEF PC, Flush
  <2> QED BY <2>2, <2>3, PastMeans, QuietPast DEF Applying
<1>2. CASE Refuse
  <2>1. req.pc = "submitted" BY <1>2 DEF Refuse
  <2>2. Solid(work) /\ Reading(story, work) /\ InHand(work)
    BY <2>1, InvMeans, PastMeans DEF Inv, OnItsWay
  <2> QED BY <2>2, <1>1, <1>2 DEF Refuse
<1>3. CASE Fail
  <2>1. req.pc \in Applying BY <1>3 DEF Fail, Applying
  <2>2. Solid(save) /\ Reading(story, save) /\ InHand(save)
    BY <2>1, InvMeans, PastMeans DEF Inv, OnItsWay, Healthy
  <2> QED BY <2>2, <1>1, <1>3 DEF Fail
<1> QED BY <1>2, <1>3, LoadPast, ReceiptPast, WriteStorePast, RecordPast,
           FinishPast DEF Apply

LEMMA EndPast ==
  ASSUME Inv, Past, EndApplied \/ EndFailed \/ Crash
  PROVE  Past'
<1>1. /\ work' = core' /\ save' = core' /\ req' = Idle /\ story' = story
      /\ core' = core \/ core' = work
  BY DEF EndApplied, EndFailed, Crash, Discard, Commit
<1>2. Reading(story, core') BY <1>1, PastMeans
<1>3. req'.pc \notin Applying BY <1>1 DEF Idle, Applying
<1> QED BY <1>1, <1>2, <1>3, QuietPast

\* A turn, fork, switch or rollback goes on with the story, and a turn may be
\* bound to what it reads.
LEMMA TurnsPast ==
  ASSUME Inv, Past,
         \/ \E reads \in BOOLEAN : TakeTurn(reads)
         \/ \E t \in Turns, b \in Branches : ForkBranch(t, b)
         \/ \E b \in Branches : SwitchBranch(b)
         \/ \E t \in Turns : RollbackToTurn(t)
  PROVE  Past'
<1>1. /\ Tree(story) /\ AllSettled(story) /\ story.active \in story.made
      /\ Solid(core) /\ Reading(story, core)
  BY InvMeans, PastMeans DEF Healthy
<1>2. ASSUME NEW n, Later(n, story), AllSettled(n), n.active \in n.made,
             NEW c, Reading(n, c), Committed(n, c)
      PROVE  Past'
  BY <1>2, LaterPast DEF Committed, Later
<1>3. ASSUME NEW reads \in BOOLEAN, TakeTurn(reads) PROVE Past'
  <2> DEFINE t == story.turns + 1
             n == Settle(CreateTurn(story, story.active, TurnCommand(reads)), t)
  <2>1. story.turns < MaxTurns
        /\ Committed(n, IF reads THEN EnsureManifest(n, core, t) ELSE core)
    BY <1>3 DEF TakeTurn
  <2>2. Later(n, story) /\ AllSettled(n) /\ n.active \in n.made /\ t \in Created(n)
    BY <1>1, <2>1, TurnLater
  <2> HIDE DEF n, t
  <2>3. Reading(n, core) /\ Tree(n) BY <1>1, <2>2, ReadingLater DEF Later
  <2>4. Reading(n, EnsureManifest(n, core, t))
    BY <1>1, <2>2, <2>3, EnsureManifestReading
  <2> QED BY <2>1, <2>2, <2>3, <2>4, <1>2
<1>4. ASSUME NEW t \in Turns, NEW b \in Branches, ForkBranch(t, b) PROVE Past'
  <2> DEFINE n == Fork(story, t, b)
  <2>1. b \notin story.made /\ CanFork(story, t) /\ Committed(n, core)
    BY <1>4 DEF ForkBranch
  <2>2. Later(n, story) /\ AllSettled(n) /\ n.active \in n.made
    BY <1>1, <2>1, ForkLater
  <2> HIDE DEF n
  <2>3. Reading(n, core) BY <1>1, <2>2, ReadingLater
  <2> QED BY <2>1, <2>2, <2>3, <1>2
<1>5. ASSUME NEW b \in Branches, SwitchBranch(b) PROVE Past'
  <2> DEFINE n == Switch(story, b)
  <2>1. CanSwitch(story, b) /\ Committed(n, core) BY <1>5 DEF SwitchBranch
  <2>2. Later(n, story) /\ AllSettled(n) /\ n.active \in n.made
    BY <1>1, <2>1, SwitchLater
  <2> HIDE DEF n
  <2>3. Reading(n, core) BY <1>1, <2>2, ReadingLater
  <2> QED BY <2>1, <2>2, <2>3, <1>2
<1>6. ASSUME NEW t \in Turns, RollbackToTurn(t) PROVE Past'
  <2> DEFINE n == Rollback(story, t)
  <2>1. CanRollback(story, t) /\ Committed(n, core) BY <1>6 DEF RollbackToTurn
  <2>2. Later(n, story) /\ AllSettled(n) /\ n.active \in n.made
    BY <1>1, <2>1, RollbackLater
  <2> HIDE DEF n
  <2>3. Reading(n, core) BY <1>1, <2>2, ReadingLater
  <2> QED BY <2>1, <2>2, <2>3, <1>2
<1> QED BY <1>3, <1>4, <1>5, <1>6

LEMMA PastNext == Inv /\ Past /\ [Next]_vars => Past'
<1> SUFFICES ASSUME Inv, Past, [Next]_vars PROVE Past' OBVIOUS
<1>1. CASE UNCHANGED vars BY <1>1 DEF vars, Past, Brings, Writes
<1> QED BY <1>1, SubmissionPast, ApplyPast, EndPast, TurnsPast DEF Next

LEMMA PastInit == Init => Past
<1> SUFFICES ASSUME Init PROVE Past OBVIOUS
<1>1. story = FreshStore /\ work = core /\ save = core /\ req.pc = "idle"
  BY DEF Init, Idle
<1>2. Created(story) = {} /\ story.active \in story.made
  BY <1>1, MaxTurnsAssumption DEF Created, FreshStore
<1>3. LineageChronological(story) /\ HiddenViewsAgree(story)
  BY <1>1, FreshInv DEF StoreInv
<1>4. Reading(story, EmptyCore) /\ Solid(EmptyCore)
  <2> DEFINE c == EmptyCore
  <2>1. /\ \A o \in Objects : /\ c.row[o].rev = 0 /\ c.revs[o] = <<>>
                              /\ c.mirror[o] = {}
        /\ \A p \in Proposals : c.prop[p] = NoProposal
        /\ \A t \in Turns : c.bound[t] = 0
        /\ c.mans = <<>>
    BY DEF EmptyCore, NoRow, NoRevision, NoManifest
  <2>2. NoProposal.turn = NoTurn BY DEF NoProposal
  <2> HIDE DEF c
  <2>3. Origins(story, c)
    BY <2>1, <2>2 DEF Origins, Known, Plain, NoManifest
  <2>4. Reading(story, c) BY <2>1, <2>3 DEF Reading, NoManifest
  <2>5. RowsAreNewest(c) /\ MapsResolve(c)
    BY <2>1 DEF RowsAreNewest, MapsResolve
  <2> QED BY <2>4, <2>5, EmptyTyped DEF Solid, c
<1>5. Reading(story, SeedRows(EmptyCore))
  <2>1. ~ HasRows(EmptyCore) BY DEF HasRows, EmptyCore, NoRow
  <2> QED BY <2>1, <1>4, SeedRowsReading
<1>6. Reading(story, core) BY <1>4, <1>5 DEF Init
<1>7. \A t \in Created(story) : story.status[t] = "settled" BY <1>2
<1> QED BY <1>1, <1>2, <1>3, <1>6, <1>7 DEF Past, Applying

LEMMA PastReads ==
  ASSUME Inv, Past
  PROVE  ReadsOnlyItsPast
<1> SUFFICES ASSUME ~ LateSnapshot(core), NEW t \in Created(story),
                    NEW o \in Objects, AsOf(core, t, o) # NoRevision,
                    ~ HiddenByRollback(story, story.on[t], t)
             PROVE  OfPast(story, core, t, core.revs[o][AsOf(core, t, o)].val)
  BY DEF ReadsOnlyItsPast
<1>1. Tree(story) /\ Reading(story, core) BY PastMeans
<1>2. t \notin story.hidden /\ t \in Turns BY <1>1, TreeMeans
<1>3. core.bound[t] # NoManifest
      /\ AsOf(core, t, o) = core.mans[core.bound[t]].map[o]
  BY DEF AsOf
<1>4. ListsPast(story, core, t, core.mans[core.bound[t]].map)
  BY <1>1, <1>2, <1>3 DEF Reading
<1> QED BY <1>2, <1>3, <1>4 DEF ListsPast

\* Without late snapshots a turn never reads what was changed for turns of
\* other branches, for later turns, or for turns of its branch that a rollback
\* has hidden, however branches are forked, switched and rolled back.
THEOREM AlwaysReadsItsPast == Spec => []ReadsOnlyItsPast
<1>1. Spec => []Past BY PastInit, PastNext, CoreSound, PTL DEF Spec
<1> QED BY <1>1, PastReads, CoreSound, PTL
=============================================================================
