---------------------------- MODULE Policy_proofs ----------------------------
(***************************************************************************)
(* Proofs about the permission policy: which rule decides, that a turn      *)
(* follows the rules of one moment since its message, that a revocation     *)
(* removes what its user saw, and that the ledger tells the truth.          *)
(***************************************************************************)
EXTENDS Policy, FiniteSetTheorems, SequenceTheorems, WellFoundedInduction, TLAPS

-----------------------------------------------------------------------------
(* Order *)

\* The first match of a list, if it has one.
LEMMA LeastOfNaturals ==
  ASSUME NEW S, S \subseteq Nat, S # {}
  PROVE  \E n \in S : \A m \in S : n <= m
<1>. DEFINE R == OpToRel(<, Nat)
<1>1. \A m, n \in Nat : <<m, n>> \in R <=> m < n
  BY DEF OpToRel
<1>2. IsWellFoundedOn(R, Nat)
  BY NatLessThanWellFounded
<1>. HIDE DEF R
<1>3. \E n \in S : \A m \in S : ~(<<m, n>> \in R)
  BY <1>2, WFMin
<1>4. PICK n \in S : \A m \in S : ~(<<m, n>> \in R)
  BY <1>3
<1>5. \A m \in S : ~(m < n)
  BY <1>1, <1>4, Zenon
<1>. QED
  BY <1>5

\* A finite set whose members have places of their own is listed by them.
LEMMA EachInItsPlace ==
  ASSUME NEW S, IsFiniteSet(S),
         NEW place \in [S -> 1..Cardinality(S)],
         \A q, r \in S : place[q] = place[r] => q = r
  PROVE  /\ Cardinality(S) \in Nat
         /\ InPlace(S, place) \in [1..Cardinality(S) -> S]
         /\ \A r \in S : InPlace(S, place)[place[r]] = r
         /\ \A i \in 1..Cardinality(S) : place[InPlace(S, place)[i]] = i
<1>1. Cardinality(S) \in Nat
  BY FS_CardinalityType
<1>2. IsFiniteSet(1..Cardinality(S)) /\ Cardinality(1..Cardinality(S)) = Cardinality(S)
  BY <1>1, FS_Interval
<1>3. place \in Injection(S, 1..Cardinality(S))
  BY DEF Injection, IsInjective
<1>4. place \in Surjection(S, 1..Cardinality(S))
  BY <1>2, <1>3, FS_Injection
<1>5. \A i \in 1..Cardinality(S) : \E r \in S : place[r] = i
  BY <1>4 DEF Surjection
<1>6. \A i \in 1..Cardinality(S) :
        InPlace(S, place)[i] \in S /\ place[InPlace(S, place)[i]] = i
  BY <1>5 DEF InPlace
<1>7. InPlace(S, place) \in [1..Cardinality(S) -> S]
  BY <1>6 DEF InPlace
<1>8. \A r \in S : InPlace(S, place)[place[r]] = r
  BY <1>6
<1>. QED
  BY <1>1, <1>6, <1>7, <1>8

\* Rows of a table: they have ids of their own.
Rows(S) == IsFiniteSet(S) /\ (\A r \in S : r.id \in Nat) /\ \A r, s \in S : r.id = s.id => r = s

\* The order of the query is one: no row precedes itself, and of two one precedes.
LEMMA PrecedesIsOrder ==
  ASSUME NEW S, Rows(S)
  PROVE  /\ \A r \in S : ~Precedes(r, r)
         /\ \A q, r \in S : q = r \/ Precedes(q, r) \/ Precedes(r, q)
         /\ \A p, q, r \in S : Precedes(p, q) /\ Precedes(q, r) => Precedes(p, r)
BY DEF Rows, Precedes

\* The rules of a profile.
Own(rules, profile) == {r \in rules : r.profile = profile}

\* A list of the members of a set, each once, in the order of the query.
Lists(list, S) ==
  /\ list \in Seq(S) /\ Len(list) \in Nat
  /\ \A r \in S : \E i \in 1..Len(list) : list[i] = r
  /\ \A i, j \in 1..Len(list) :
       (list[i] = list[j] => i = j) /\ (Precedes(list[i], list[j]) => i < j)

\* list_for_profile returns each rule of the profile once, in the order of its query.
LEMMA ListIsOrdered ==
  ASSUME NEW rules, Rows(rules), NEW profile
  PROVE  Lists(ListForProfile(rules, profile), Own(rules, profile))
<1>. DEFINE own == Own(rules, profile)
            n == Cardinality(own)
            Down(r) == {q \in own : q = r \/ Precedes(q, r)}
            place == [r \in own |-> Cardinality(Down(r))]
            list == ListForProfile(rules, profile)
<1>1. IsFiniteSet(own) /\ Rows(own)
  BY FS_Subset DEF Rows, Own
<1>2. /\ \A r \in own : ~Precedes(r, r)
      /\ \A q, r \in own : q = r \/ Precedes(q, r) \/ Precedes(r, q)
      /\ \A p, q, r \in own : Precedes(p, q) /\ Precedes(q, r) => Precedes(p, r)
  BY <1>1, PrecedesIsOrder
<1>3. list = InPlace(own, place)
  BY DEF ListForProfile, Own
<1>. HIDE DEF own, list
<1>4. n \in Nat
  BY <1>1, FS_CardinalityType
<1>5. ASSUME NEW r \in own PROVE IsFiniteSet(Down(r)) /\ Cardinality(Down(r)) \in 1..n
  <2>1. Down(r) \in SUBSET own /\ r \in Down(r)
    OBVIOUS
  <2>2. IsFiniteSet(Down(r)) /\ Cardinality(Down(r)) <= n
    BY <1>1, <2>1, FS_Subset
  <2>3. Cardinality(Down(r)) \in Nat /\ Cardinality(Down(r)) # 0
    BY <2>1, <2>2, FS_CardinalityType, FS_EmptySet
  <2>. QED
    BY <1>4, <2>2, <2>3
<1>6. ASSUME NEW q \in own, NEW r \in own, Precedes(q, r) PROVE place[q] < place[r]
  <2>1. Down(q) \in SUBSET Down(r)
    BY <1>2, <1>6
  <2>2. r \in Down(r) /\ r \notin Down(q)
    BY <1>2, <1>6
  <2>3. /\ Cardinality(Down(q)) <= Cardinality(Down(r))
        /\ Cardinality(Down(q)) # Cardinality(Down(r))
    BY <1>5, <2>1, <2>2, FS_Subset
  <2>4. Cardinality(Down(q)) \in 1..n /\ Cardinality(Down(r)) \in 1..n
    BY <1>5
  <2>. QED
    BY <1>4, <2>3, <2>4
<1>7. place \in [own -> 1..n]
  BY <1>5
<1>8. \A q, r \in own : place[q] = place[r] => q = r
  BY <1>2, <1>4, <1>6, <1>7
<1>. HIDE DEF place
<1>9. /\ list \in [1..n -> own] /\ \A r \in own : list[place[r]] = r
      /\ \A i \in 1..n : place[list[i]] = i
  BY <1>1, <1>3, <1>7, <1>8, EachInItsPlace
<1>10. \A r \in own : \E i \in 1..n : list[i] = r
  BY <1>7, <1>9
<1>11. \A i, j \in 1..n : (list[i] = list[j] => i = j) /\ (Precedes(list[i], list[j]) => i < j)
  BY <1>6, <1>9
<1>12. list \in Seq(own) /\ Len(list) = n
  BY <1>4, <1>9
<1>. HIDE DEF n
<1>. QED
  BY <1>4, <1>10, <1>11, <1>12 DEF Lists, own, list

-----------------------------------------------------------------------------
(* Evaluation *)

\* The first match decides.
LEMMA FirstMatchDecides ==
  ASSUME NEW n \in Nat, NEW rules, DOMAIN rules = 1..n, NEW tool, NEW scope,
         NEW i \in 1..n, Matches(rules[i], tool, scope),
         \A j \in 1..n : Matches(rules[j], tool, scope) => i <= j
  PROVE  Evaluate(rules, tool, scope) = rules[i].decision
<1>. DEFINE hits == {j \in DOMAIN rules : Matches(rules[j], tool, scope)}
            least == CHOOSE j \in hits : \A k \in hits : j <= k
<1>1. i \in hits /\ \A k \in hits : i <= k
  OBVIOUS
<1>2. least \in hits /\ \A k \in hits : least <= k
  BY <1>1
<1>3. least = i
  BY <1>1, <1>2
<1>. QED
  BY <1>1, <1>3 DEF Evaluate

\* Of the scope, only what matches it is read.
LEMMA SameMatchesDecideAlike ==
  ASSUME NEW rules, NEW tool, NEW s1, NEW s2,
         \A i \in DOMAIN rules : Matches(rules[i], tool, s1) <=> Matches(rules[i], tool, s2)
  PROVE  Evaluate(rules, tool, s1) = Evaluate(rules, tool, s2)
<1>. DEFINE Hits(s) == {i \in DOMAIN rules : Matches(rules[i], tool, s)}
            Decided(hits) == IF hits = {} THEN "ask"
                             ELSE rules[CHOOSE i \in hits : \A j \in hits : i <= j].decision
<1>1. Hits(s1) = Hits(s2)
  OBVIOUS
<1>2. Evaluate(rules, tool, s1) = Decided(Hits(s1)) /\ Evaluate(rules, tool, s2) = Decided(Hits(s2))
  BY DEF Evaluate
<1>. HIDE DEF Hits, Decided
<1>. QED
  BY <1>1, <1>2

\* A profile has four rules of its own, without a prefix.
LEMMA ProfileRulesAre ==
  ASSUME NEW profile
  PROVE  \E a, b, c, d : /\ ProfileRules(profile) = <<a, b, c, d>>
                         /\ \A r \in {a, b, c, d} : r.prefix = None
BY DEF ProfileRules, Rule

\* The stored rules come first, then those of the profile.
LEMMA OverlayIs ==
  ASSUME NEW S, NEW list \in Seq(S), NEW profile
  PROVE  /\ DOMAIN Overlay(list, profile) = 1..(Len(list) + 4)
         /\ \A i \in 1..Len(list) : Overlay(list, profile)[i] = list[i]
         /\ \A i \in 1..4 : Overlay(list, profile)[Len(list) + i] = ProfileRules(profile)[i]
<1>. DEFINE own == ProfileRules(profile)
            all == list \o own
            n == Len(list)
<1>1. PICK a, b, c, d : own = <<a, b, c, d>>
  BY ProfileRulesAre
<1>. DEFINE T == S \cup {a, b, c, d}
<1>. HIDE DEF own
<1>3. list \in Seq(T) /\ own \in Seq(T) /\ n \in Nat /\ Len(own) = 4
  BY <1>1
<1>. HIDE DEF T
<1>4. /\ all \in Seq(T) /\ Len(all) = Len(list) + Len(own)
      /\ \A i \in 1..Len(list) + Len(own) :
           all[i] = IF i <= Len(list) THEN list[i] ELSE own[i - Len(list)]
  BY <1>3, ConcatProperties, Zenon
<1>. HIDE DEF all
<1>5. /\ DOMAIN all = 1..(n + 4)
      /\ \A i \in 1..(n + 4) : all[i] = IF i <= n THEN list[i] ELSE own[i - n]
  BY <1>3, <1>4
<1>. HIDE DEF n
<1>6. \A i \in 1..4 : n + i \in 1..(n + 4) /\ ~(n + i <= n) /\ (n + i) - n = i
  BY <1>3
<1>7. /\ \A i \in 1..n : all[i] = list[i]
      /\ \A i \in 1..4 : all[n + i] = own[i]
  BY <1>3, <1>5, <1>6
<1>. QED
  BY <1>5, <1>7 DEF own, all, n, Overlay

\* A stored rule that covers the scope and precedes all others that do decides.
LEMMA FirstStoredDecides ==
  ASSUME NEW rules, Rows(rules), NEW profile, NEW tool, NEW scope,
         NEW r \in rules, r.profile = profile, Matches(r, tool, scope),
         \A q \in rules : q.profile = profile /\ Matches(q, tool, scope) => q = r \/ Precedes(r, q)
  PROVE  Effective(rules, profile, tool, scope) = r.decision
<1>. DEFINE own == Own(rules, profile)
            list == ListForProfile(rules, profile)
            n == Len(list)
            all == Overlay(list, profile)
<1>c. Lists(list, own)
  BY ListIsOrdered
<1>b. \A q \in own : q \in rules /\ q.profile = profile
  BY DEF Own
<1>a. r \in own
  BY DEF Own
<1>. HIDE DEF list, own
<1>1. /\ list \in Seq(own) /\ n \in Nat /\ \A i \in 1..n : list[i] \in own
      /\ \A q \in own : \E i \in 1..n : list[i] = q
      /\ \A i, j \in 1..n : (list[i] = list[j] => i = j) /\ (Precedes(list[i], list[j]) => i < j)
  BY <1>c DEF Lists
<1>2. /\ DOMAIN all = 1..(n + 4) /\ \A i \in 1..n : all[i] = list[i]
  BY <1>1, OverlayIs
<1>. HIDE DEF n, all
<1>3. PICK k \in 1..n : list[k] = r
  BY <1>1, <1>a
<1>4. ASSUME NEW j \in 1..(n + 4), Matches(all[j], tool, scope) PROVE k <= j
  <2>1. CASE j \in 1..n
    <3>1. list[j] = r \/ Precedes(r, list[j])
      BY <1>b, <1>1, <1>2, <1>4, <2>1
    <3>. QED
      BY <1>1, <1>3, <2>1, <3>1
  <2>2. CASE j \notin 1..n
    BY <1>1, <1>3, <2>2
  <2>. QED
    BY <2>1, <2>2
<1>5. n + 4 \in Nat /\ k \in 1..(n + 4) /\ all[k] = r
  BY <1>1, <1>2, <1>3
<1>6. Evaluate(all, tool, scope) = r.decision
  BY <1>2, <1>4, <1>5, FirstMatchDecides
<1>. QED
  BY <1>6 DEF Effective, all, list

\* Where no stored rule covers the scope, the profile decides alone.
LEMMA ProfileDecides ==
  ASSUME NEW rules, Rows(rules), NEW profile, NEW tool, NEW scope,
         \A q \in rules : q.profile = profile => ~Matches(q, tool, scope)
  PROVE  Effective(rules, profile, tool, scope) = Evaluate(ProfileRules(profile), tool, scope)
<1>. DEFINE list == ListForProfile(rules, profile)
            n == Len(list)
            own == ProfileRules(profile)
            all == Overlay(list, profile)
<1>1. list \in Seq(Own(rules, profile)) /\ n \in Nat
  BY ListIsOrdered DEF Lists
<1>2. /\ DOMAIN all = 1..(n + 4) /\ \A i \in 1..n : all[i] = list[i]
      /\ \A i \in 1..4 : all[n + i] = own[i]
  BY <1>1, OverlayIs
<1>3. \A i \in 1..n : ~Matches(list[i], tool, scope)
  BY <1>1 DEF Own
<1>4. PICK a, b, c, d : own = <<a, b, c, d>>
  BY ProfileRulesAre
<1>5. DOMAIN own = 1..4
  BY <1>4
<1>. HIDE DEF list, n, own, all
<1>6. \A j \in 1..(n + 4) : j \in 1..n \/ \E i \in 1..4 : j = n + i
  <2>1. ASSUME NEW j \in 1..(n + 4), j \notin 1..n PROVE j - n \in 1..4 /\ j = n + (j - n)
    BY <1>1, <2>1
  <2>. QED
    BY <2>1
<1>7. \A i \in 1..4 : n + i \in 1..(n + 4)
  BY <1>1
<1>8. CASE \E i \in 1..4 : Matches(own[i], tool, scope)
  <2>. DEFINE hits == {i \in 1..4 : Matches(own[i], tool, scope)}
  <2>1. \E i \in hits : \A k \in hits : i <= k
    <3>1. hits \subseteq Nat /\ hits # {}
      BY <1>8
    <3>. HIDE DEF hits
    <3>. QED
      BY <3>1, LeastOfNaturals
  <2>2. PICK i \in 1..4 : /\ Matches(own[i], tool, scope)
                         /\ \A k \in 1..4 : Matches(own[k], tool, scope) => i <= k
    BY <2>1
  <2>3. Evaluate(own, tool, scope) = own[i].decision
    <3>. DEFINE four == 4
    <3>1. four \in Nat /\ DOMAIN own = 1..four /\ i \in 1..four
      BY <1>5
    <3>2. \A k \in 1..four : Matches(own[k], tool, scope) => i <= k
      BY <2>2
    <3>. HIDE DEF four
    <3>. QED
      BY <2>2, <3>1, <3>2, FirstMatchDecides
  <2>4. ASSUME NEW j \in 1..(n + 4), Matches(all[j], tool, scope) PROVE n + i <= j
    <3>1. j \notin 1..n
      BY <1>2, <1>3, <2>4
    <3>2. PICK k \in 1..4 : j = n + k
      BY <1>6, <3>1
    <3>3. Matches(own[k], tool, scope)
      BY <1>2, <2>4, <3>2
    <3>. QED
      BY <1>1, <2>2, <3>2, <3>3
  <2>5. n + 4 \in Nat /\ n + i \in 1..(n + 4) /\ all[n + i] = own[i]
    BY <1>1, <1>2, <1>7
  <2>6. Evaluate(all, tool, scope) = own[i].decision
    BY <1>2, <2>2, <2>4, <2>5, FirstMatchDecides
  <2>. QED
    BY <2>3, <2>6 DEF Effective, all, own, list
<1>9. CASE \A i \in 1..4 : ~Matches(own[i], tool, scope)
  <2>1. {i \in DOMAIN own : Matches(own[i], tool, scope)} = {}
    BY <1>5, <1>9
  <2>2. {i \in DOMAIN all : Matches(all[i], tool, scope)} = {}
    BY <1>2, <1>3, <1>6, <1>9
  <2>3. Evaluate(own, tool, scope) = "ask" /\ Evaluate(all, tool, scope) = "ask"
    BY <2>1, <2>2, Zenon DEF Evaluate
  <2>. QED
    BY <2>3 DEF Effective, all, own, list
<1>. QED
  BY <1>8, <1>9

\* The scope does not matter to rules without a prefix, nor to stored rules that match
\* two scopes alike.
LEMMA ProfileMatchesAlike ==
  ASSUME NEW profile, NEW tool, NEW s1, NEW s2
  PROVE  \A i \in DOMAIN ProfileRules(profile) :
           Matches(ProfileRules(profile)[i], tool, s1) <=> Matches(ProfileRules(profile)[i], tool, s2)
<1>1. PICK a, b, c, d : /\ ProfileRules(profile) = <<a, b, c, d>>
                        /\ \A r \in {a, b, c, d} : r.prefix = None
  BY ProfileRulesAre
<1>2. \A r \in {a, b, c, d} : Matches(r, tool, s1) <=> Matches(r, tool, s2)
  BY <1>1 DEF Matches
<1>3. \A i \in DOMAIN <<a, b, c, d>> : <<a, b, c, d>>[i] \in {a, b, c, d}
  OBVIOUS
<1>. QED
  BY <1>1, <1>2, <1>3

LEMMA OverlayMatchesAlike ==
  ASSUME NEW rules, Rows(rules), NEW profile, NEW tool, NEW s1, NEW s2,
         \A r \in rules : r.profile = profile => (Matches(r, tool, s1) <=> Matches(r, tool, s2))
  PROVE  Effective(rules, profile, tool, s1) = Effective(rules, profile, tool, s2)
<1>. DEFINE list == ListForProfile(rules, profile)
            n == Len(list)
            own == ProfileRules(profile)
            all == Overlay(list, profile)
<1>1. list \in Seq(Own(rules, profile)) /\ n \in Nat
  BY ListIsOrdered DEF Lists
<1>2. /\ DOMAIN all = 1..(n + 4) /\ \A i \in 1..n : all[i] = list[i]
      /\ \A i \in 1..4 : all[n + i] = own[i]
  BY <1>1, OverlayIs
<1>3. \A i \in 1..n : Matches(list[i], tool, s1) <=> Matches(list[i], tool, s2)
  BY <1>1 DEF Own
<1>4. \A i \in 1..4 : Matches(own[i], tool, s1) <=> Matches(own[i], tool, s2)
  <2>1. PICK a, b, c, d : own = <<a, b, c, d>>
    BY ProfileRulesAre
  <2>2. DOMAIN own = 1..4
    BY <2>1
  <2>. QED
    BY <2>2, ProfileMatchesAlike
<1>. HIDE DEF list, n, own, all
<1>5. \A j \in 1..(n + 4) : j \in 1..n \/ \E i \in 1..4 : j = n + i
  <2>1. ASSUME NEW j \in 1..(n + 4), j \notin 1..n PROVE j - n \in 1..4 /\ j = n + (j - n)
    BY <1>1, <2>1
  <2>. QED
    BY <2>1
<1>6. \A j \in DOMAIN all : Matches(all[j], tool, s1) <=> Matches(all[j], tool, s2)
  BY <1>2, <1>3, <1>4, <1>5
<1>7. Evaluate(all, tool, s1) = Evaluate(all, tool, s2)
  BY <1>6, SameMatchesDecideAlike
<1>. QED
  BY <1>7 DEF Effective, all, list

\* Of the rows of a table some were the newest to be written.
LEMMA NewestExists ==
  ASSUME NEW S, Rows(S), S # {}, NEW b \in Nat, \A r \in S : r.id <= b
  PROVE  \E r \in S : /\ \A s \in S : s.id <= r.id
                     /\ (CHOOSE q \in S : \A s \in S : s.id <= q.id) = r
<1>. DEFINE left == {b - r.id : r \in S}
<1>1. left \subseteq Nat /\ left # {}
  BY DEF Rows
<1>2. PICK n \in left : \A m \in left : n <= m
  <2>. HIDE DEF left
  <2>. QED
    BY <1>1, LeastOfNaturals
<1>3. PICK r \in S : n = b - r.id
  OBVIOUS
<1>4. \A s \in S : s.id <= r.id
  BY <1>2, <1>3 DEF Rows
<1>5. \A q \in S : (\A s \in S : s.id <= q.id) => q = r
  BY <1>4 DEF Rows
<1>. QED
  BY <1>4, <1>5

\* The table as the statements on it leave it.
TableTypes ==
  nextId \in Nat \ {0} /\ \A r \in table : r.id \in 1..(nextId - 1) /\ r \in Stored(r.id)

\* What a tool gets is what the user last said about it: the order in which
\* list_for_profile returns the rules makes the first match the right one.
THEOREM OrderMakesStoredRulesWin ==
  ASSUME TableTypes, TableInv
  PROVE  StoredRulesWin
<1>. SUFFICES ASSUME NEW profile \in Profile, NEW tool \in Tool, NEW scope \in Scope
     PROVE  LET own    == {r \in table : r.profile = profile /\ r.tool = tool}
                scoped == {r \in own : r.prefix # None /\ <<r.prefix, scope>> \in Inside}
                newest(S) == (CHOOSE r \in S : \A s \in S : s.id <= r.id).decision
                cell   == {r \in own : r.prefix = None}
            IN  /\ Effective(table, profile, tool, scope) =
                     IF scoped # {} THEN newest(scoped) ELSE MatrixCell(table, profile, tool)
                /\ MatrixCell(table, profile, tool) =
                     IF cell # {} THEN newest(cell)
                     ELSE Evaluate(ProfileRules(profile), tool, scope)
  BY DEF StoredRulesWin
<1>. DEFINE own    == {r \in table : r.profile = profile /\ r.tool = tool}
            scoped == {r \in own : r.prefix # None /\ <<r.prefix, scope>> \in Inside}
            cell   == {r \in own : r.prefix = None}
            newest(S) == CHOOSE r \in S : \A s \in S : s.id <= r.id
<1>1. Rows(table) /\ nextId \in Nat /\ \A r \in table : r.id <= nextId /\ r.id \in Nat
  BY DEF TableTypes, TableInv, Rows
<1>2. None \notin Scope /\ None \notin Prefix /\ Inside \subseteq Prefix \X Scope
  BY PolicyAssumption
<1>3. /\ \A r \in scoped : r \in table /\ r.profile = profile /\ Matches(r, tool, scope)
      /\ \A r \in table : r.profile = profile /\ Matches(r, tool, scope) => r \in scoped \cup cell
      /\ \A r \in scoped, q \in cell : Precedes(r, q)
  BY DEF Matches, Precedes
<1>4. /\ \A r \in cell : r \in table /\ r.profile = profile /\ Matches(r, tool, None)
      /\ \A r \in table : r.profile = profile /\ Matches(r, tool, None) => r \in cell
  BY <1>2 DEF Matches
<1>5. /\ \A r, q \in scoped : q.id <= r.id => q = r \/ Precedes(r, q)
      /\ \A r, q \in cell : q.id <= r.id => q = r \/ Precedes(r, q)
  BY <1>1 DEF Rows, Precedes
<1>6. Rows(scoped) /\ Rows(cell)
  BY <1>1, FS_Subset DEF Rows
<1>7. ASSUME scoped # {}
      PROVE  Effective(table, profile, tool, scope) = newest(scoped).decision
  <2>1. PICK r \in scoped : (\A s \in scoped : s.id <= r.id) /\ newest(scoped) = r
    <3>1. \A r \in scoped : r.id <= nextId
      BY <1>1
    <3>. HIDE DEF scoped
    <3>. QED
      BY <1>1, <1>6, <1>7, <3>1, NewestExists
  <2>. HIDE DEF scoped, cell
  <2>2. \A q \in table : q.profile = profile /\ Matches(q, tool, scope) => q = r \/ Precedes(r, q)
    BY <1>3, <1>5, <2>1
  <2>3. r \in table /\ r.profile = profile /\ Matches(r, tool, scope)
    BY <1>3
  <2>4. Effective(table, profile, tool, scope) = r.decision
    BY <1>1, <2>2, <2>3, FirstStoredDecides
  <2>. QED
    BY <2>1, <2>4
<1>8. ASSUME scoped = {}
      PROVE  Effective(table, profile, tool, scope) = MatrixCell(table, profile, tool)
  <2>1. \A r \in table : r.profile = profile =>
          (Matches(r, tool, scope) <=> Matches(r, tool, None))
    BY <1>3, <1>4, <1>8 DEF Matches
  <2>. QED
    BY <1>1, <1>2, <2>1, OverlayMatchesAlike DEF MatrixCell, Effective
<1>9. ASSUME cell # {}
      PROVE  MatrixCell(table, profile, tool) = newest(cell).decision
  <2>1. PICK r \in cell : (\A s \in cell : s.id <= r.id) /\ newest(cell) = r
    <3>1. \A r \in cell : r.id <= nextId
      BY <1>1
    <3>. HIDE DEF cell
    <3>. QED
      BY <1>1, <1>6, <1>9, <3>1, NewestExists
  <2>. HIDE DEF scoped, cell
  <2>2. \A q \in table : q.profile = profile /\ Matches(q, tool, None) => q = r \/ Precedes(r, q)
    BY <1>4, <1>5, <2>1
  <2>3. r \in table /\ r.profile = profile /\ Matches(r, tool, None)
    BY <1>4
  <2>4. Effective(table, profile, tool, None) = r.decision
    BY <1>1, <2>2, <2>3, FirstStoredDecides
  <2>. QED
    BY <2>1, <2>4 DEF MatrixCell
<1>10. ASSUME cell = {}
       PROVE  MatrixCell(table, profile, tool) = Evaluate(ProfileRules(profile), tool, scope)
  <2>1. MatrixCell(table, profile, tool) = Evaluate(ProfileRules(profile), tool, None)
    BY <1>1, <1>4, <1>10, ProfileDecides DEF MatrixCell
  <2>2. Evaluate(ProfileRules(profile), tool, None) = Evaluate(ProfileRules(profile), tool, scope)
    BY ProfileMatchesAlike, SameMatchesDecideAlike
  <2>. QED
    BY <2>1, <2>2
<1>. HIDE DEF scoped, cell, newest
<1>11. /\ Effective(table, profile, tool, scope) =
             IF scoped # {} THEN newest(scoped).decision ELSE MatrixCell(table, profile, tool)
       /\ MatrixCell(table, profile, tool) =
             IF cell # {} THEN newest(cell).decision
             ELSE Evaluate(ProfileRules(profile), tool, scope)
  BY <1>7, <1>8, <1>9, <1>10
<1>. QED
  BY <1>11, Zenon DEF scoped, cell, newest

-----------------------------------------------------------------------------
(* The ledger *)

\* What any step of any writer does to the tables of the ledger.
LedgerNext ==
  \/ \E w \in Writer : LedgerRead(w) \/ LedgerFails(w) \/ \E k \in LedgerKind : LedgerCommit(w, k)
  \/ UNCHANGED entryVars /\ (StorageFails \/ UNCHANGED faults)

\* A commit chains to the last entry unless a read had failed; a transaction that reads
\* after the commit sees it, and one that read before can no longer write.
LEMMA LedgerStep ==
  ASSUME LedgerInv, LedgerNext
  PROVE  LedgerInv'
<1>a. /\ ledger \in Seq([kind : LedgerKind, by : Writer, prev : Nat]) /\ Len(ledger) \in Nat
      /\ prev \in [Writer -> 0..Len(ledger)] /\ snapshot \in [Writer -> -2..Len(ledger)]
      /\ faults \in 0..MaxFaults /\ readFailed \in BOOLEAN /\ MaxFaults \in Nat
  BY MaxFaultsAssumption DEF LedgerInv, LedgerTypeOK, NoTransaction
<1>b. /\ ~readFailed => \A i \in 1..Len(ledger) : ledger[i].prev = i - 1
      /\ \A w \in Writer : /\ snapshot[w] >= 0 => prev[w] = snapshot[w]
                           /\ snapshot[w] = -1 => readFailed
  BY DEF LedgerInv, ChainIntact, ChainHolds, NoSnapshot
<1>. USE DEF NoTransaction, NoSnapshot
<1>1. ASSUME NEW w \in Writer, LedgerRead(w) PROVE LedgerInv'
  <2>1. CASE prev' = [prev EXCEPT ![w] = Len(ledger)] /\ snapshot' = [snapshot EXCEPT ![w] = Len(ledger)]
          /\ UNCHANGED <<faults, readFailed>>
    <3>1. /\ ledger' = ledger /\ prev' = [prev EXCEPT ![w] = Len(ledger)]
          /\ snapshot' = [snapshot EXCEPT ![w] = Len(ledger)]
          /\ faults' \in 0..MaxFaults /\ readFailed' = readFailed
      BY <1>a, <1>1, <2>1 DEF LedgerRead, StorageFails
    <3>2. prev' \in [Writer -> 0..Len(ledger)] /\ snapshot' \in [Writer -> -2..Len(ledger)]
      BY <1>a, <3>1
    <3>3. LedgerTypeOK'
      BY <1>a, <3>1, <3>2 DEF LedgerTypeOK
    <3>4. ChainIntact'
      BY <1>b, <3>1 DEF ChainIntact, ChainHolds
    <3>5. ASSUME NEW v \in Writer
          PROVE  /\ snapshot'[v] >= 0 => prev'[v] = snapshot'[v]
                 /\ snapshot'[v] = -1 => readFailed'
      BY <1>a, <1>b, <3>1
    <3>. QED
      BY <3>3, <3>4, <3>5 DEF LedgerInv
  <2>2. CASE StorageFails /\ prev' = [prev EXCEPT ![w] = 0] /\ snapshot' = [snapshot EXCEPT ![w] = -1]
          /\ readFailed' = TRUE
    <3>1. /\ ledger' = ledger /\ prev' = [prev EXCEPT ![w] = 0]
          /\ snapshot' = [snapshot EXCEPT ![w] = -1]
          /\ faults' \in 0..MaxFaults /\ readFailed' = TRUE
      BY <1>a, <1>1, <2>2 DEF LedgerRead, StorageFails
    <3>2. prev' \in [Writer -> 0..Len(ledger)] /\ snapshot' \in [Writer -> -2..Len(ledger)]
      BY <1>a, <3>1
    <3>3. LedgerTypeOK'
      BY <1>a, <3>1, <3>2 DEF LedgerTypeOK
    <3>4. ChainIntact'
      BY <1>b, <3>1 DEF ChainIntact, ChainHolds
    <3>5. ASSUME NEW v \in Writer
          PROVE  /\ snapshot'[v] >= 0 => prev'[v] = snapshot'[v]
                 /\ snapshot'[v] = -1 => readFailed'
      BY <1>a, <1>b, <3>1
    <3>. QED
      BY <3>3, <3>4, <3>5 DEF LedgerInv
  <2>. QED
    BY <1>1, <2>1, <2>2 DEF LedgerRead
<1>2. ASSUME NEW w \in Writer, LedgerFails(w) PROVE LedgerInv'
  <2>1. /\ ledger' = ledger /\ faults' \in 0..MaxFaults /\ readFailed' = readFailed
        /\ prev' = [prev EXCEPT ![w] = 0] /\ snapshot' = [snapshot EXCEPT ![w] = -2]
    BY <1>a, <1>2 DEF LedgerFails, StorageFails
  <2>2. LedgerTypeOK'
    BY <1>a, <2>1 DEF LedgerTypeOK
  <2>3. ChainIntact'
    BY <1>b, <2>1 DEF ChainIntact, ChainHolds
  <2>4. \A v \in Writer : /\ snapshot'[v] >= 0 => prev'[v] = snapshot'[v]
                          /\ snapshot'[v] = -1 => readFailed'
    BY <1>a, <1>b, <2>1
  <2>. QED
    BY <2>2, <2>3, <2>4 DEF LedgerInv
<1>3. ASSUME NEW w \in Writer, NEW k \in LedgerKind, LedgerCommit(w, k) PROVE LedgerInv'
  <2>. DEFINE e == [kind |-> k, by |-> w, prev |-> prev[w]]
  <2>1. /\ ledger' = Append(ledger, e) /\ faults' = faults /\ readFailed' = readFailed
        /\ prev' = [prev EXCEPT ![w] = 0] /\ snapshot' = [snapshot EXCEPT ![w] = -2]
        /\ snapshot[w] \in {Len(ledger), -1}
    BY <1>3 DEF LedgerCommit, Writable
  <2>2. e \in [kind : LedgerKind, by : Writer, prev : Nat]
    BY <1>a
  <2>3. ~readFailed => e.prev = Len(ledger)
    BY <1>a, <1>b, <2>1
  <2>. HIDE DEF e
  <2>4. /\ ledger' \in Seq([kind : LedgerKind, by : Writer, prev : Nat])
        /\ Len(ledger') = Len(ledger) + 1 /\ ledger'[Len(ledger) + 1] = e
        /\ \A i \in 1..Len(ledger) : ledger'[i] = ledger[i]
    BY <1>a, <2>1, <2>2
  <2>5. prev' \in [Writer -> 0..Len(ledger')] /\ snapshot' \in [Writer -> -2..Len(ledger')]
    BY <1>a, <2>1, <2>4
  <2>6. LedgerTypeOK'
    BY <1>a, <2>1, <2>4, <2>5 DEF LedgerTypeOK
  <2>7. ASSUME ~readFailed', NEW i \in 1..Len(ledger') PROVE ledger'[i].prev = i - 1
    BY <1>a, <1>b, <2>1, <2>3, <2>4, <2>7
  <2>8. \A v \in Writer : /\ snapshot'[v] >= 0 => prev'[v] = snapshot'[v]
                          /\ snapshot'[v] = -1 => readFailed'
    BY <1>a, <1>b, <2>1
  <2>. QED
    BY <2>6, <2>7, <2>8 DEF LedgerInv, ChainIntact, ChainHolds
<1>4. CASE UNCHANGED entryVars /\ (StorageFails \/ UNCHANGED faults)
  <2>1. /\ ledger' = ledger /\ prev' = prev /\ snapshot' = snapshot /\ readFailed' = readFailed
        /\ faults' \in 0..MaxFaults
    BY <1>a, <1>4 DEF entryVars, StorageFails
  <2>. QED
    BY <1>a, <1>b, <2>1 DEF LedgerInv, LedgerTypeOK, ChainIntact, ChainHolds
<1>. QED
  BY <1>1, <1>2, <1>3, <1>4 DEF LedgerNext

\* A commit adds one entry, of its writer.
LEMMA CommitAdds ==
  ASSUME LedgerTypeOK, NEW w \in Writer, NEW k \in LedgerKind, LedgerCommit(w, k)
  PROVE  /\ \A v \in Writer \ {w} : /\ Entries(v, RuleKinds)' = Entries(v, RuleKinds)
                                    /\ Entries(v, {"session.start"})' = Entries(v, {"session.start"})
         /\ Entries(w, RuleKinds) = {} /\ k \in RuleKinds => Cardinality(Entries(w, RuleKinds)') = 1
         /\ k \notin RuleKinds => Entries(w, RuleKinds)' = Entries(w, RuleKinds)
         /\ k = "session.start" => Entries(w, {"session.start"})' # {}
         /\ Entries(w, {"session.start"}) \subseteq Entries(w, {"session.start"})'
<1>. DEFINE n == Len(ledger) + 1
<1>1. /\ ledger' = Append(ledger, [kind |-> k, by |-> w, prev |-> prev[w]])
      /\ ledger \in Seq([kind : LedgerKind, by : Writer, prev : Nat])
  BY DEF LedgerCommit, LedgerTypeOK
<1>2. /\ Len(ledger) \in Nat /\ Len(ledger') = n /\ ledger'[n].by = w /\ ledger'[n].kind = k
      /\ \A i \in 1..Len(ledger) : ledger'[i] = ledger[i]
      /\ \A i \in 1..n : i \in 1..Len(ledger) \/ i = n
      /\ n \notin 1..Len(ledger) /\ n \in 1..n /\ \A i \in 1..Len(ledger) : i \in 1..n
  BY <1>1
<1>. HIDE DEF n
<1>3. ASSUME NEW v \in Writer
      PROVE  /\ Entries(v, RuleKinds)' =
                  Entries(v, RuleKinds) \cup (IF v = w /\ k \in RuleKinds THEN {n} ELSE {})
             /\ Entries(v, {"session.start"})' =
                  Entries(v, {"session.start"}) \cup (IF v = w /\ k = "session.start" THEN {n} ELSE {})
  BY <1>2 DEF Entries
<1>4. \A v \in Writer \ {w} : /\ Entries(v, RuleKinds)' = Entries(v, RuleKinds)
                              /\ Entries(v, {"session.start"})' = Entries(v, {"session.start"})
  BY <1>3
<1>5. Entries(w, RuleKinds) = {} /\ k \in RuleKinds => Cardinality(Entries(w, RuleKinds)') = 1
  <2>1. Entries(w, RuleKinds) = {} /\ k \in RuleKinds => Entries(w, RuleKinds)' = {n}
    BY <1>3
  <2>. QED
    BY <2>1, FS_Singleton
<1>. QED
  BY <1>3, <1>4, <1>5

-----------------------------------------------------------------------------
(* The steps *)

\* Contents of the table, whatever the ids of its rows.
Content == SUBSET UNION {Stored(id) : id \in Nat}

\* The inductive invariant, with the type of the ghost that remembers contents.
Inv == PolicyInv /\ past \in Seq(Content)

\* Every step is one of the ledger.
LEMMA StepsOnLedger ==
  ASSUME Inv, [Next]_vars
  PROVE  LedgerNext
<1>a. /\ Request \subseteq Writer /\ Turn \subseteq Writer
      /\ \A q \in Request : EntryKind(q) \in LedgerKind
      /\ \A t \in Turn : todo[t] \in Seq(LedgerKind)
  BY PolicyAssumption DEF Inv, PolicyInv, EntryKind, LedgerKind, RuleKinds
<1>1. ASSUME NEW q \in Request, RequestNext(q) PROVE LedgerNext
  <2>1. CASE AuditRead(q)
    BY <1>a, <2>1 DEF AuditRead, LedgerNext
  <2>2. CASE AuditWrite(q)
    BY <1>a, <2>2 DEF AuditWrite, LedgerNext
  <2>3. CASE SetRule(q) \/ GetRule(q) \/ RemoveRule(q)
    BY <2>3 DEF SetRule, GetRule, RemoveRule, LedgerNext, entryVars
  <2>4. CASE AskToRevoke(q)
    BY <2>4 DEF AskToRevoke, LedgerNext, entryVars, ledgerVars
  <2>5. ASSUME NEW profile \in Profile, NEW tool \in Tool, NEW prefix \in Prefix \cup {None},
               NEW d \in Wanted, AskToSet(q, profile, tool, prefix, d)
        PROVE LedgerNext
    BY <2>5 DEF AskToSet, LedgerNext, entryVars, ledgerVars
  <2>. QED
    BY <1>1, <2>1, <2>2, <2>3, <2>4, <2>5 DEF RequestNext
<1>2. ASSUME NEW t \in Turn, TurnNext(t) PROVE LedgerNext
  <2>1. CASE RecordRead(t)
    BY <1>a, <2>1 DEF RecordRead, LedgerNext
  <2>2. CASE RecordWrite(t)
    <3>1. Head(todo[t]) \in LedgerKind
      BY <1>a, <2>2 DEF RecordWrite
    <3>. QED
      BY <1>a, <2>2, <3>1 DEF RecordWrite, LedgerNext
  <2>3. CASE LoadOverrides(t)
    BY <2>3 DEF LoadOverrides, LedgerNext, entryVars
  <2>4. CASE Arrive(t) \/ EndTurn(t)
    BY <2>4 DEF Arrive, EndTurn, LedgerNext, entryVars, ledgerVars
  <2>5. ASSUME NEW tool \in Tool, NEW scope \in Scope, CallTool(t, tool, scope)
        PROVE LedgerNext
    BY <2>5 DEF CallTool, LedgerNext, entryVars, ledgerVars
  <2>. QED
    BY <1>2, <2>1, <2>2, <2>3, <2>4, <2>5 DEF TurnNext
<1>3. CASE UNCHANGED vars
  BY <1>3 DEF vars, ledgerVars, entryVars, LedgerNext
<1>. QED
  BY <1>1, <1>2, <1>3 DEF Next

\* A rule is replaced: the others stay, and the new row has an id of its own.
Sets(q) ==
  /\ pc[q] = "setting" /\ pc'[q] = "auditing" /\ q \in Request
  /\ \E row \in Stored(nextId) :
       /\ \A s \in table' : s \in table \/ s = row
       /\ \A s \in table' : SameKey(s, row) => s = row
       /\ row \in table'
  /\ past' = Append(past, table') /\ IsFiniteSet(table')
  /\ changed' = changed \cup {q} /\ nextId' = nextId + 1

\* A rule is removed.
Removes(q) ==
  /\ pc[q] = "removing" /\ pc'[q] = "auditing" /\ q \in Request
  /\ table' = table \ {s \in table : s.id = rule[q].id} /\ table' # table
  /\ past' = Append(past, table')
  /\ changed' = changed \cup {q} /\ nextId' = nextId

\* What a step may do to the store.
LEMMA StepsOnStore ==
  ASSUME Inv, [Next]_vars
  PROVE  (\E q \in Request : Sets(q) \/ Removes(q)) \/ UNCHANGED storeVars
<1>a. /\ Request \subseteq Writer /\ nextId \in Nat \ {0} /\ IsFiniteSet(table)
      /\ pc = [w \in Writer |-> pc[w]] /\ \A q \in Request : pc[q] = "setting" => rule[q] \in Body
  BY PolicyAssumption DEF Inv, PolicyInv, TypeOK, TableInv, RequestInv
<1>1. ASSUME NEW q \in Request, SetRule(q), ~UNCHANGED storeVars PROVE Sets(q)
  <2>. DEFINE r == rule[q]
              row == [profile |-> r.profile, tool |-> r.tool, prefix |-> r.prefix,
                      decision |-> r.decision, id |-> nextId]
  <2>1. /\ pc[q] = "setting" /\ pc' = [pc EXCEPT ![q] = "auditing"]
        /\ table' = Others(r) \cup {row} /\ past' = Append(past, Others(r) \cup {row})
        /\ changed' = changed \cup {q} /\ nextId' = nextId + 1
    BY <1>1 DEF SetRule, Store, Goto, FreshId
  <2>2. row \in Stored(nextId) /\ r \in Body
    BY <1>a, <2>1, PolicyAssumption DEF Body, Stored
  <2>3. \A s \in Others(r) : s \in table /\ ~SameKey(s, row)
    BY DEF Others, SameKey
  <2>4. IsFiniteSet(Others(r))
    BY <1>a, FS_Subset DEF Others
  <2>. HIDE DEF row
  <2>5. IsFiniteSet(Others(r) \cup {row})
    BY <2>4, FS_AddElement
  <2>6. pc'[q] = "auditing"
    BY <1>a, <2>1
  <2>. QED
    BY <2>1, <2>2, <2>3, <2>5, <2>6 DEF Sets
<1>2. ASSUME NEW q \in Request, RemoveRule(q), ~UNCHANGED storeVars PROVE Removes(q)
  <2>. DEFINE gone == {s \in table : s.id = rule[q].id}
  <2>1. /\ pc[q] = "removing" /\ pc' = [pc EXCEPT ![q] = "auditing"] /\ gone # {}
        /\ table' = table \ gone /\ past' = Append(past, table \ gone)
        /\ changed' = changed \cup {q} /\ nextId' = nextId
    BY <1>2 DEF RemoveRule, Store, Goto
  <2>2. pc'[q] = "auditing" /\ table' # table
    BY <1>a, <2>1
  <2>. QED
    BY <2>1, <2>2 DEF Removes
<1>3. ASSUME NEW q \in Request, RequestNext(q), ~SetRule(q), ~RemoveRule(q)
      PROVE  UNCHANGED storeVars
  <2>1. CASE AskToRevoke(q) \/ GetRule(q) \/ AuditRead(q) \/ AuditWrite(q)
    BY <2>1 DEF AskToRevoke, GetRule, AuditRead, AuditWrite
  <2>2. ASSUME NEW profile \in Profile, NEW tool \in Tool, NEW prefix \in Prefix \cup {None},
               NEW d \in Wanted, AskToSet(q, profile, tool, prefix, d)
        PROVE UNCHANGED storeVars
    BY <2>2 DEF AskToSet
  <2>. QED
    BY <1>3, <2>1, <2>2 DEF RequestNext
<1>4. ASSUME NEW t \in Turn, TurnNext(t) PROVE UNCHANGED storeVars
  <2>1. CASE Arrive(t) \/ LoadOverrides(t) \/ EndTurn(t) \/ RecordRead(t) \/ RecordWrite(t)
    BY <2>1 DEF Arrive, LoadOverrides, EndTurn, RecordRead, RecordWrite
  <2>2. ASSUME NEW tool \in Tool, NEW scope \in Scope, CallTool(t, tool, scope)
        PROVE UNCHANGED storeVars
    BY <2>2 DEF CallTool
  <2>. QED
    BY <1>4, <2>1, <2>2 DEF TurnNext
<1>5. CASE UNCHANGED vars
  BY <1>5 DEF vars
<1>. QED
  BY <1>1, <1>2, <1>3, <1>4, <1>5 DEF Next

\* The store only moves on: no id is given twice, a row that it gets is new, and a
\* content that it had stays in what is remembered.
LEMMA StoreMovesOn ==
  ASSUME Inv, (\E q \in Request : Sets(q) \/ Removes(q)) \/ UNCHANGED storeVars
  PROVE  /\ TableTypes' /\ TableInv' /\ (past \in Seq(Content))'
         /\ nextId <= nextId' /\ changed \subseteq changed' /\ changed' \subseteq Request
         /\ \A s \in table' : s \in table \/ s.id = nextId
         /\ Len(past) \in Nat /\ Len(past') \in Nat /\ Len(past) <= Len(past')
         /\ \A v \in DOMAIN past : v \in DOMAIN past' /\ past'[v] = past[v]
<1>a. /\ nextId \in Nat \ {0} /\ IsFiniteSet(table) /\ changed \subseteq Request
      /\ \A r \in table : r.id \in 1..(nextId - 1) /\ r \in Stored(r.id)
      /\ OneRulePerKey /\ (\A r, s \in table : r.id = s.id => r = s)
      /\ past \in Seq(Content) /\ past # <<>> /\ past[Len(past)] = table /\ Len(past) \in Nat
  BY DEF Inv, PolicyInv, TypeOK, TableInv
<1>1. ASSUME UNCHANGED storeVars
      PROVE  /\ TableTypes' /\ TableInv' /\ (past \in Seq(Content))'
             /\ nextId <= nextId' /\ changed \subseteq changed' /\ changed' \subseteq Request
             /\ \A s \in table' : s \in table \/ s.id = nextId
             /\ Len(past) \in Nat /\ Len(past') \in Nat /\ Len(past) <= Len(past')
             /\ \A v \in DOMAIN past : v \in DOMAIN past' /\ past'[v] = past[v]
  BY <1>a, <1>1 DEF storeVars, TableTypes, TableInv, OneRulePerKey
<1>2. ASSUME NEW q \in Request, Sets(q) \/ Removes(q)
      PROVE  /\ TableTypes' /\ TableInv' /\ (past \in Seq(Content))'
             /\ nextId <= nextId' /\ changed \subseteq changed' /\ changed' \subseteq Request
             /\ \A s \in table' : s \in table \/ s.id = nextId
             /\ Len(past) \in Nat /\ Len(past') \in Nat /\ Len(past) <= Len(past')
             /\ \A v \in DOMAIN past : v \in DOMAIN past' /\ past'[v] = past[v]
  <2>1. /\ past' = Append(past, table') /\ changed' = changed \cup {q}
        /\ nextId' \in Nat \ {0} /\ nextId <= nextId'
    BY <1>a, <1>2 DEF Sets, Removes
  <2>2. /\ \A s \in table' : s \in table \/ (s.id = nextId /\ nextId' = nextId + 1 /\ s \in Stored(s.id))
        /\ \A s, r \in table' : s.id = nextId /\ r.id = nextId => s = r
        /\ \A s, r \in table' : s \notin table /\ SameKey(r, s) => s = r
    <3>1. CASE Removes(q)
      BY <1>a, <3>1 DEF Removes
    <3>2. CASE Sets(q)
      <4>1. PICK row \in Stored(nextId) :
              /\ \A s \in table' : s \in table \/ s = row
              /\ \A s \in table' : SameKey(s, row) => s = row
        BY <3>2 DEF Sets
      <4>2. row.id = nextId /\ row \in Stored(row.id) /\ nextId' = nextId + 1
        BY <3>2, <4>1 DEF Stored, Sets
      <4>3. \A s \in table' : s.id = nextId => s = row
        BY <1>a, <4>1
      <4>. QED
        BY <4>1, <4>2, <4>3
    <3>. QED
      BY <1>2, <3>1, <3>2
  <2>3. IsFiniteSet(table')
    <3>1. Removes(q) => table' \in SUBSET table
      BY DEF Removes
    <3>. QED
      BY <1>2, <1>a, <3>1, FS_Subset DEF Sets
  <2>4. TableTypes'
    BY <1>a, <2>1, <2>2 DEF TableTypes
  <2>5. OneRulePerKey'
    BY <1>a, <2>2 DEF OneRulePerKey, SameKey
  <2>6. \A r, s \in table' : r.id = s.id => r = s
    BY <1>a, <2>2
  <2>7. table' \in Content
    BY <2>4 DEF TableTypes, Content
  <2>8. /\ past' \in Seq(Content) /\ Len(past') = Len(past) + 1 /\ past'[Len(past')] = table'
        /\ \A v \in 1..Len(past) : past'[v] = past[v]
    BY <1>a, <2>1, <2>7
  <2>9. past' # <<>> /\ DOMAIN past = 1..Len(past) /\ DOMAIN past' = 1..Len(past')
    BY <1>a, <2>8
  <2>10. TableInv'
    BY <2>3, <2>5, <2>6, <2>8, <2>9 DEF TableInv
  <2>. QED
    BY <1>a, <2>1, <2>2, <2>4, <2>8, <2>9, <2>10
<1>. QED
  BY <1>1, <1>2

\* What another than w sees of a step of w: of pc and of the ledger nothing.
OthersKeep(w) == \A v \in Writer \ {w} :
  /\ pc'[v] = pc[v]
  /\ Entries(v, RuleKinds)' = Entries(v, RuleKinds)
  /\ Entries(v, {"session.start"})' = Entries(v, {"session.start"})

\* Entries stay as they are while nothing is committed.
LEMMA SameLedgerSameEntries ==
  ASSUME ledger' = ledger, NEW w, NEW kinds
  PROVE  Entries(w, kinds)' = Entries(w, kinds)
BY DEF Entries

LEMMA RequestFrame ==
  ASSUME Inv, NEW q \in Request, RequestNext(q)
  PROVE  /\ OthersKeep(q) /\ UNCHANGED turnVars
         /\ \A p \in Request \ {q} : rule'[p] = rule[p]
         /\ Entries(q, {"session.start"}) \subseteq Entries(q, {"session.start"})'
<1>a. /\ Request \subseteq Writer /\ pc = [w \in Writer |-> pc[w]] /\ LedgerTypeOK
      /\ DOMAIN rule = Request /\ EntryKind(q) \in LedgerKind
  BY PolicyAssumption DEF Inv, PolicyInv, TypeOK, EntryKind, LedgerKind, RuleKinds
<1>b. ASSUME ledger' = ledger, \A v \in Writer \ {q} : pc'[v] = pc[v]
      PROVE  OthersKeep(q) /\ Entries(q, {"session.start"}) \subseteq Entries(q, {"session.start"})'
  BY <1>b, SameLedgerSameEntries DEF OthersKeep
<1>1. CASE SetRule(q) \/ GetRule(q) \/ RemoveRule(q)
  <2>1. /\ ledger' = ledger /\ UNCHANGED turnVars /\ rule' = rule
        /\ \A v \in Writer \ {q} : pc'[v] = pc[v]
    BY <1>a, <1>1 DEF SetRule, GetRule, RemoveRule, Goto, entryVars
  <2>. QED
    BY <1>b, <2>1
<1>2. CASE AskToRevoke(q)
  <2>1. /\ ledger' = ledger /\ UNCHANGED turnVars /\ \A p \in Request \ {q} : rule'[p] = rule[p]
        /\ \A v \in Writer \ {q} : pc'[v] = pc[v]
    BY <1>a, <1>2 DEF AskToRevoke, Goto, ledgerVars
  <2>. QED
    BY <1>b, <2>1
<1>3. ASSUME NEW profile \in Profile, NEW tool \in Tool, NEW prefix \in Prefix \cup {None},
             NEW d \in Wanted, AskToSet(q, profile, tool, prefix, d)
      PROVE /\ OthersKeep(q) /\ UNCHANGED turnVars
            /\ \A p \in Request \ {q} : rule'[p] = rule[p]
            /\ Entries(q, {"session.start"}) \subseteq Entries(q, {"session.start"})'
  <2>1. /\ ledger' = ledger /\ UNCHANGED turnVars /\ \A p \in Request \ {q} : rule'[p] = rule[p]
        /\ \A v \in Writer \ {q} : pc'[v] = pc[v]
    BY <1>a, <1>3 DEF AskToSet, Goto, ledgerVars
  <2>. QED
    BY <1>b, <2>1
<1>4. CASE AuditRead(q)
  <2>1. ledger' = ledger /\ UNCHANGED turnVars /\ rule' = rule /\ pc' = pc
    BY <1>4 DEF AuditRead, LedgerRead
  <2>. QED
    BY <1>b, <2>1
<1>5. CASE AuditWrite(q)
  <2>1. /\ UNCHANGED turnVars /\ rule' = rule
        /\ \A v \in Writer \ {q} : pc'[v] = pc[v]
        /\ LedgerCommit(q, EntryKind(q)) \/ LedgerFails(q)
    BY <1>a, <1>5 DEF AuditWrite, Goto
  <2>2. CASE LedgerFails(q)
    BY <1>b, <2>1, <2>2 DEF LedgerFails
  <2>3. CASE LedgerCommit(q, EntryKind(q))
    BY <1>a, <2>1, <2>3, CommitAdds DEF OthersKeep
  <2>. QED
    BY <2>1, <2>2, <2>3
<1>. QED
  BY <1>1, <1>2, <1>3, <1>4, <1>5 DEF RequestNext

LEMMA TurnFrame ==
  ASSUME Inv, NEW t \in Turn, TurnNext(t)
  PROVE  /\ OthersKeep(t) /\ UNCHANGED <<storeVars, rule>>
         /\ \A u \in Turn \ {t} : /\ overrides'[u] = overrides[u] /\ todo'[u] = todo[u]
                                  /\ calls'[u] = calls[u] /\ from'[u] = from[u]
                                  /\ decided'[u] = decided[u]
<1>. DEFINE Same == \A u \in Turn \ {t} : /\ overrides'[u] = overrides[u] /\ todo'[u] = todo[u]
                                          /\ calls'[u] = calls[u] /\ from'[u] = from[u]
                                          /\ decided'[u] = decided[u]
<1>a. /\ Turn \subseteq Writer /\ pc = [w \in Writer |-> pc[w]] /\ LedgerTypeOK
      /\ todo \in [Turn -> Seq(LedgerKind)] /\ calls \in [Turn -> 0..MaxCalls]
      /\ overrides = [u \in Turn |-> overrides[u]] /\ decided = [u \in Turn |-> decided[u]]
      /\ from \in [Turn -> 0..Len(past)]
  BY PolicyAssumption DEF Inv, PolicyInv, TypeOK
<1>b. ASSUME ledger' = ledger, \A v \in Writer \ {t} : pc'[v] = pc[v]
      PROVE  OthersKeep(t)
  BY <1>b, SameLedgerSameEntries DEF OthersKeep
<1>1. ASSUME Arrive(t) \/ EndTurn(t) PROVE OthersKeep(t) /\ UNCHANGED <<storeVars, rule>> /\ Same
  <2>1. /\ ledger' = ledger /\ UNCHANGED <<storeVars, rule>> /\ Same
        /\ \A v \in Writer \ {t} : pc'[v] = pc[v]
    BY <1>a, <1>1 DEF Arrive, EndTurn, Goto, ledgerVars
  <2>. QED
    BY <1>b, <2>1
<1>2. ASSUME LoadOverrides(t) PROVE OthersKeep(t) /\ UNCHANGED <<storeVars, rule>> /\ Same
  <2>1. /\ ledger' = ledger /\ UNCHANGED <<storeVars, rule>>
        /\ \A v \in Writer \ {t} : pc'[v] = pc[v]
        /\ \E x : overrides' = [overrides EXCEPT ![t] = x]
        /\ todo' = [todo EXCEPT ![t] = <<"session.start">>] /\ UNCHANGED <<calls, from, decided>>
    BY <1>a, <1>2 DEF LoadOverrides, Goto, entryVars
  <2>2. Same
    BY <1>a, <2>1
  <2>. QED
    BY <1>b, <2>1, <2>2
<1>3. ASSUME NEW tool \in Tool, NEW scope \in Scope, CallTool(t, tool, scope)
      PROVE  OthersKeep(t) /\ UNCHANGED <<storeVars, rule>> /\ Same
  <2>1. /\ ledger' = ledger /\ UNCHANGED <<storeVars, rule, pc, overrides, from>>
        /\ \E x : todo' = [todo EXCEPT ![t] = x]
        /\ \E x : calls' = [calls EXCEPT ![t] = x]
        /\ \E x : decided' = [decided EXCEPT ![t] = x]
    BY <1>3, Zenon DEF CallTool, ledgerVars
  <2>2. Same
    BY <1>a, <2>1
  <2>. QED
    BY <1>b, <2>1, <2>2
<1>4. ASSUME RecordRead(t) PROVE OthersKeep(t) /\ UNCHANGED <<storeVars, rule>> /\ Same
  <2>1. ledger' = ledger /\ UNCHANGED <<storeVars, rule, pc>> /\ Same
    BY <1>4 DEF RecordRead, LedgerRead, turnVars
  <2>. QED
    BY <1>b, <2>1
<1>5. ASSUME RecordWrite(t) PROVE OthersKeep(t) /\ UNCHANGED <<storeVars, rule>> /\ Same
  <2>1. /\ UNCHANGED <<storeVars, rule>> /\ Same
        /\ \A v \in Writer \ {t} : pc'[v] = pc[v]
        /\ LedgerCommit(t, Head(todo[t])) \/ LedgerFails(t)
        /\ todo[t] # <<>>
    BY <1>a, <1>5 DEF RecordWrite
  <2>2. CASE LedgerFails(t)
    BY <1>b, <2>1, <2>2 DEF LedgerFails
  <2>3. CASE LedgerCommit(t, Head(todo[t]))
    <3>1. Head(todo[t]) \in LedgerKind
      BY <1>a, <2>1
    <3>. QED
      BY <1>a, <2>1, <2>3, <3>1, CommitAdds DEF OthersKeep
  <2>. QED
    BY <2>1, <2>2, <2>3
<1>. QED
  BY <1>1, <1>2, <1>3, <1>4, <1>5 DEF TurnNext

-----------------------------------------------------------------------------
(* The invariant of the requests *)

\* A row has the id it was stored under.
LEMMA RowIs ==
  ASSUME NEW r
  PROVE  r \in Row <=> r.id \in 1..(nextId - 1) /\ r \in Stored(r.id)
BY DEF Row, Stored

\* What a request knows of the store, and what it has of the ledger, holds for as long
\* as it makes no step itself.
LEMMA RequestWaits ==
  ASSUME Inv, NEW q \in Request, RequestInv(q), TableTypes', nextId <= nextId',
         changed \subseteq changed', \A s \in table' : s \in table \/ s.id = nextId,
         pc'[q] = pc[q], rule'[q] = rule[q], Entries(q, RuleKinds)' = Entries(q, RuleKinds)
  PROVE  RequestInv(q)'
<1>a. nextId \in Nat /\ nextId' \in Nat
  BY DEF Inv, PolicyInv, TypeOK, TableTypes
<1>1. ASSUME pc[q] \in {"getting", "removing"}
      PROVE  rule[q] \in Row' /\ \A s \in table' : s.id = rule[q].id => s = rule[q]
  <2>1. rule[q] \in Row /\ \A s \in table : s.id = rule[q].id => s = rule[q]
    BY <1>1 DEF RequestInv
  <2>2. rule[q].id \in 1..(nextId - 1) /\ rule[q] \in Stored(rule[q].id)
    BY <2>1, RowIs
  <2>3. rule[q].id \in 1..(nextId' - 1) /\ rule[q].id # nextId
    BY <1>a, <2>2
  <2>4. rule[q] \in Row'
    BY <2>2, <2>3 DEF Row
  <2>. QED
    BY <2>1, <2>3, <2>4
<1>. QED
  BY <1>1 DEF RequestInv, Body

LEMMA RequestMoves ==
  ASSUME Inv, NEW q \in Request, RequestNext(q), RequestInv(q), TableTypes', TableInv',
         nextId <= nextId', changed \subseteq changed',
         \A s \in table' : s \in table \/ s.id = nextId
  PROVE  RequestInv(q)'
<1>a. /\ q \in Writer /\ pc = [w \in Writer |-> pc[w]] /\ LedgerTypeOK /\ q \in DOMAIN rule
      /\ EntryKind(q) \in RuleKinds /\ EntryKind(q) \in LedgerKind /\ TableTypes /\ TableInv
  BY PolicyAssumption
  DEF Inv, PolicyInv, TypeOK, EntryKind, LedgerKind, RuleKinds, TableTypes
<1>b. /\ pc[q] \in {"idle", "setting", "getting", "removing", "auditing", "ok", "notfound", "failed"}
      /\ pc[q] = "setting" => rule[q] \in Body
      /\ pc[q] \in {"getting", "removing"} =>
           rule[q] \in Row /\ \A s \in table : s.id = rule[q].id => s = rule[q]
      /\ pc[q] \in {"auditing", "ok"} => q \in changed
      /\ pc[q] # "ok" => Entries(q, RuleKinds) = {}
  BY DEF RequestInv
<1>1. CASE SetRule(q)
  <2>1. /\ ledger' = ledger /\ pc[q] = "setting" /\ pc'[q] \in {"auditing", "failed"}
        /\ pc'[q] = "auditing" => q \in changed'
    BY <1>a, <1>1 DEF SetRule, Goto, Store, entryVars
  <2>2. Entries(q, RuleKinds)' = {}
    BY <1>b, <2>1, SameLedgerSameEntries
  <2>. QED
    BY <2>1, <2>2 DEF RequestInv
<1>2. CASE RemoveRule(q)
  <2>1. /\ ledger' = ledger /\ pc[q] = "removing" /\ pc'[q] \in {"auditing", "notfound", "failed"}
        /\ pc'[q] = "auditing" => q \in changed'
    BY <1>a, <1>2 DEF RemoveRule, Goto, Store, entryVars
  <2>2. Entries(q, RuleKinds)' = {}
    BY <1>b, <2>1, SameLedgerSameEntries
  <2>. QED
    BY <2>1, <2>2 DEF RequestInv
<1>3. CASE GetRule(q)
  <2>1. /\ ledger' = ledger /\ pc[q] = "getting" /\ pc'[q] \in {"removing", "failed"}
        /\ UNCHANGED <<storeVars, rule>>
    BY <1>a, <1>3 DEF GetRule, Goto, entryVars
  <2>2. Entries(q, RuleKinds)' = {}
    BY <1>b, <2>1, SameLedgerSameEntries
  <2>3. Row' = Row
    BY <2>1 DEF Row, storeVars
  <2>. QED
    BY <1>b, <2>1, <2>2, <2>3 DEF RequestInv, storeVars
<1>4. CASE AskToRevoke(q)
  <2>1. PICK r \in table : rule' = [rule EXCEPT ![q] = r]
    BY <1>4 DEF AskToRevoke
  <2>2. /\ ledger' = ledger /\ pc[q] = "idle" /\ pc'[q] = "getting" /\ rule'[q] = r
        /\ UNCHANGED storeVars
    BY <1>a, <1>4, <2>1 DEF AskToRevoke, Goto, ledgerVars
  <2>3. Entries(q, RuleKinds)' = {}
    BY <1>b, <2>2, SameLedgerSameEntries
  <2>4. r \in Row /\ Row' = Row
    BY <1>a, <2>2, RowIs DEF Row, storeVars, TableTypes
  <2>5. \A s \in table' : s.id = r.id => s = r
    BY <1>a, <2>2 DEF TableInv, storeVars
  <2>. QED
    BY <2>2, <2>3, <2>4, <2>5 DEF RequestInv
<1>5. ASSUME NEW profile \in Profile, NEW tool \in Tool, NEW prefix \in Prefix \cup {None},
             NEW d \in Wanted, AskToSet(q, profile, tool, prefix, d)
      PROVE  RequestInv(q)'
  <2>1. /\ ledger' = ledger /\ pc[q] = "idle" /\ pc'[q] = "setting" /\ rule'[q] \in Body
    BY <1>a, <1>5 DEF AskToSet, Goto, ledgerVars, Body
  <2>2. Entries(q, RuleKinds)' = {}
    BY <1>b, <2>1, SameLedgerSameEntries
  <2>. QED
    BY <2>1, <2>2 DEF RequestInv, Body
<1>6. CASE AuditRead(q)
  <2>1. ledger' = ledger /\ UNCHANGED <<pc, rule>>
    BY <1>6 DEF AuditRead, LedgerRead
  <2>2. Entries(q, RuleKinds)' = Entries(q, RuleKinds)
    BY <2>1, SameLedgerSameEntries
  <2>. QED
    BY <2>1, <2>2, RequestWaits
<1>7. CASE AuditWrite(q)
  <2>1. pc[q] = "auditing" /\ q \in changed' /\ Entries(q, RuleKinds) = {}
    BY <1>b, <1>7 DEF AuditWrite, Goto
  <2>2. CASE LedgerCommit(q, EntryKind(q)) /\ Goto(q, "auditing", "ok")
    <3>1. Cardinality(Entries(q, RuleKinds)') = 1
      BY <1>a, <2>1, <2>2, CommitAdds
    <3>2. pc'[q] = "ok"
      BY <1>a, <2>2 DEF Goto
    <3>. QED
      BY <2>1, <3>1, <3>2 DEF RequestInv
  <2>3. CASE LedgerFails(q) /\ Goto(q, "auditing", "failed")
    <3>1. Entries(q, RuleKinds)' = {} /\ pc'[q] = "failed"
      BY <1>a, <2>1, <2>3, SameLedgerSameEntries DEF Goto, LedgerFails
    <3>. QED
      BY <3>1 DEF RequestInv
  <2>. QED
    BY <1>7, <2>2, <2>3 DEF AuditWrite
<1>. QED
  BY <1>1, <1>2, <1>3, <1>4, <1>5, <1>6, <1>7 DEF RequestNext

\* The types of what a request does to pc, to its rule and to the turns.
LEMMA RequestTypes ==
  ASSUME Inv, NEW q \in Request, RequestNext(q), TableTypes', nextId <= nextId'
  PROVE  /\ (pc \in [Writer -> {"idle", "setting", "getting", "removing", "auditing", "ok", "notfound",
                        "failed", "loading", "opening", "running", "ending", "done"}])'
         /\ (rule \in [Request -> {None} \cup Body \cup Row])'
<1>. DEFINE Steps == {"idle", "setting", "getting", "removing", "auditing", "ok", "notfound",
                      "failed", "loading", "opening", "running", "ending", "done"}
            Held == {None} \cup Body \cup Row
<1>a. /\ q \in Writer /\ pc \in [Writer -> Steps] /\ rule \in [Request -> Held]
      /\ TableTypes /\ nextId \in Nat /\ nextId' \in Nat
  BY PolicyAssumption DEF Inv, PolicyInv, TypeOK, TableTypes
<1>b. Row \subseteq Row' /\ Body' = Body
  <2>. DEFINE m == nextId
              n == nextId'
  <2>1. m \in Nat /\ n \in Nat /\ m <= n
    BY <1>a
  <2>2. ASSUME m \in Nat, n \in Nat, m <= n PROVE \A id \in 1..(m - 1) : id \in 1..(n - 1)
    <3>. HIDE DEF m, n
    <3>. QED
      BY <2>2
  <2>. QED
    BY <2>1, <2>2 DEF Row, Body, Stored
<1>c. /\ table \subseteq Row
      /\ Held \subseteq Held' /\ Row \subseteq Held /\ Body \subseteq Held
  BY <1>a, <1>b, RowIs DEF TableTypes
<1>d. \A x \in Steps : [pc EXCEPT ![q] = x] \in [Writer -> Steps]
  BY <1>a
<1>e. /\ rule \in [Request -> Held'] /\ DOMAIN rule = Request
      /\ \A x \in Held : [rule EXCEPT ![q] = x] \in [Request -> Held']
  <2>. HIDE DEF Held
  <2>. QED
    BY <1>a, <1>c
<1>1. ASSUME NEW profile \in Profile, NEW tool \in Tool, NEW prefix \in Prefix \cup {None},
             NEW d \in Wanted, AskToSet(q, profile, tool, prefix, d)
      PROVE  pc' \in [Writer -> Steps] /\ rule' \in [Request -> Held']
  <2>. DEFINE new == [profile |-> profile, tool |-> tool, prefix |-> prefix, decision |-> d]
  <2>1. new \in Body
    BY DEF Body
  <2>2. pc' = [pc EXCEPT ![q] = "setting"] /\ rule' = [rule EXCEPT ![q] = new]
    BY <1>1 DEF AskToSet, Goto
  <2>. HIDE DEF new, Held
  <2>. QED
    BY <1>c, <1>d, <1>e, <2>1, <2>2
<1>2. ASSUME AskToRevoke(q) PROVE pc' \in [Writer -> Steps] /\ rule' \in [Request -> Held']
  <2>1. PICK r \in table : rule' = [rule EXCEPT ![q] = r]
    BY <1>2 DEF AskToRevoke
  <2>2. pc' = [pc EXCEPT ![q] = "getting"]
    BY <1>2 DEF AskToRevoke, Goto
  <2>. HIDE DEF Held
  <2>. QED
    BY <1>c, <1>d, <1>e, <2>1, <2>2
<1>3. ASSUME SetRule(q) \/ GetRule(q) \/ RemoveRule(q) \/ AuditRead(q) \/ AuditWrite(q)
      PROVE  pc' \in [Writer -> Steps] /\ rule' \in [Request -> Held']
  <2>1. rule' = rule /\ (pc' = pc \/ \E x \in Steps : pc' = [pc EXCEPT ![q] = x])
    BY <1>3 DEF SetRule, GetRule, RemoveRule, AuditRead, AuditWrite, Goto
  <2>. HIDE DEF Held
  <2>. QED
    BY <1>a, <1>d, <1>e, <2>1
<1>. QED
  BY <1>1, <1>2, <1>3 DEF RequestNext

-----------------------------------------------------------------------------
(* The invariant of the turns *)

\* The rules that a turn holds stay those of a moment since its message while the store
\* moves on.
LEMMA TurnWaits ==
  ASSUME Inv, NEW t \in Turn, TurnInv(t), RulesHeld(t),
         \A v \in DOMAIN past : v \in DOMAIN past' /\ past'[v] = past[v],
         pc'[t] = pc[t], overrides'[t] = overrides[t], todo'[t] = todo[t],
         calls'[t] = calls[t], from'[t] = from[t], decided'[t] = decided[t],
         Entries(t, {"session.start"})' = Entries(t, {"session.start"})
  PROVE  TurnInv(t)' /\ RulesHeld(t)'
<1>1. TurnInv(t)'
  BY DEF TurnInv
<1>2. ASSUME pc[t] \in {"opening", "running", "ending"} \/ decided[t] # {}
      PROVE  \E profile \in Profile : \E v \in DOMAIN past' : from'[t] <= v /\
         \/ overrides'[t] = [profile |-> profile, loaded |-> TRUE,
                             rules |-> Overlay(ListForProfile(past'[v], profile), profile)]
         \/ overrides'[t] = [profile |-> profile, loaded |-> FALSE,
                             rules |-> Overlay(<<>>, profile)]
  <2>1. PICK profile \in Profile, v \in DOMAIN past : from[t] <= v /\
         \/ overrides[t] = [profile |-> profile, loaded |-> TRUE,
                            rules |-> Overlay(ListForProfile(past[v], profile), profile)]
         \/ overrides[t] = [profile |-> profile, loaded |-> FALSE,
                            rules |-> Overlay(<<>>, profile)]
    BY <1>2, Zenon DEF RulesHeld
  <2>2. past'[v] = past[v] /\ v \in DOMAIN past' /\ from'[t] <= v
    BY <2>1
  <2>. QED
    BY <2>1, <2>2, Zenon
<1>3. \A d \in decided'[t] : d.verdict = Evaluate(overrides'[t].rules, d.tool, d.scope)
  BY DEF RulesHeld
<1>. QED
  BY <1>1, <1>2, <1>3, Zenon DEF RulesHeld

\* What a turn's own step does to what it knows.
LEMMA TurnMoves ==
  ASSUME Inv, NEW t \in Turn, TurnNext(t), TurnInv(t), RulesHeld(t)
  PROVE  TurnInv(t)' /\ RulesHeld(t)'
<1>. DEFINE Loaded(o) ==
       \E profile \in Profile : \E v \in DOMAIN past : from[t] <= v /\
         \/ o = [profile |-> profile, loaded |-> TRUE,
                 rules |-> Overlay(ListForProfile(past[v], profile), profile)]
         \/ o = [profile |-> profile, loaded |-> FALSE, rules |-> Overlay(<<>>, profile)]
            Follows(ds, o) == \A d \in ds : d.verdict = Evaluate(o.rules, d.tool, d.scope)
            started == Entries(t, {"session.start"})
            Busy == {"opening", "running", "ending"}
<1>a. /\ t \in Writer /\ pc = [w \in Writer |-> pc[w]] /\ LedgerTypeOK
      /\ todo \in [Turn -> Seq(LedgerKind)] /\ calls \in [Turn -> 0..MaxCalls]
      /\ overrides = [u \in Turn |-> overrides[u]] /\ decided = [u \in Turn |-> decided[u]]
      /\ from \in [Turn -> 0..Len(past)] /\ past \in Seq(Content) /\ past # <<>>
      /\ past[Len(past)] = table
  BY PolicyAssumption DEF Inv, PolicyInv, TypeOK, TableInv
<1>b. /\ pc[t] \in {"idle", "loading", "opening", "running", "ending", "done", "failed"}
      /\ todo[t] # <<>> => pc[t] \in Busy
      /\ pc[t] = "opening" => todo[t] = <<"session.start">>
      /\ pc[t] = "ending" => todo[t] = <<"session.end">>
      /\ pc[t] \in {"idle", "loading", "opening"} => calls[t] = 0 /\ decided[t] = {}
      /\ pc[t] \in {"running", "ending"} \/ calls[t] > 0 => started # {}
  BY DEF TurnInv
<1>c. /\ pc[t] \in Busy \/ decided[t] # {} => Loaded(overrides[t])
      /\ Follows(decided[t], overrides[t])
  BY Zenon DEF RulesHeld
<1>d. ASSUME UNCHANGED <<past, from>>,
             pc'[t] \in Busy \/ decided'[t] # {} => Loaded(overrides'[t]),
             Follows(decided'[t], overrides'[t])
      PROVE  RulesHeld(t)'
  BY <1>d, Zenon DEF RulesHeld
<1>. HIDE DEF Loaded, Follows, started, Busy
<1>1. CASE Arrive(t)
  <2>1. /\ pc[t] = "idle" /\ pc'[t] = "loading" /\ ledger' = ledger
        /\ UNCHANGED <<todo, calls, decided>>
    BY <1>a, <1>1 DEF Arrive, Goto, ledgerVars
  <2>2. calls[t] = 0 /\ decided[t] = {} /\ todo[t] = <<>>
    BY <1>b, <2>1 DEF Busy
  <2>3. TurnInv(t)'
    BY <2>1, <2>2 DEF TurnInv
  <2>4. RulesHeld(t)'
    BY <2>1, <2>2 DEF RulesHeld
  <2>. QED
    BY <2>3, <2>4
<1>2. CASE LoadOverrides(t)
  <2>1. /\ pc[t] = "loading" /\ pc'[t] = "opening" /\ todo'[t] = <<"session.start">>
        /\ UNCHANGED <<calls, decided, from, past>>
    BY <1>a, <1>2 DEF LoadOverrides, Goto, storeVars
  <2>2. calls[t] = 0 /\ decided[t] = {}
    BY <1>b, <2>1
  <2>3. TurnInv(t)'
    BY <2>1, <2>2 DEF TurnInv
  <2>4. PICK profile \in Profile :
          \/ overrides' = [overrides EXCEPT ![t] = [profile |-> profile,
                             rules |-> Overlay(ListForProfile(table, profile), profile),
                             loaded |-> TRUE]]
          \/ overrides' = [overrides EXCEPT ![t] = [profile |-> profile,
                             rules |-> Overlay(<<>>, profile), loaded |-> FALSE]]
    BY <1>2, Zenon DEF LoadOverrides
  <2>5. \/ overrides'[t] = [profile |-> profile, loaded |-> TRUE,
                            rules |-> Overlay(ListForProfile(table, profile), profile)]
        \/ overrides'[t] = [profile |-> profile, loaded |-> FALSE, rules |-> Overlay(<<>>, profile)]
    BY <1>a, <2>4
  <2>6. Len(past) \in DOMAIN past /\ from[t] <= Len(past)
    BY <1>a
  <2>7. Loaded(overrides'[t])
    BY <1>a, <2>5, <2>6, Zenon DEF Loaded
  <2>8. Follows(decided'[t], overrides'[t])
    BY <2>1, <2>2 DEF Follows
  <2>9. RulesHeld(t)'
    BY <1>d, <2>1, <2>7, <2>8
  <2>. QED
    BY <2>3, <2>9
<1>3. ASSUME NEW tool \in Tool, NEW scope \in Scope, CallTool(t, tool, scope)
      PROVE  TurnInv(t)' /\ RulesHeld(t)'
  <2>. DEFINE d == [tool |-> tool, scope |-> scope,
                    verdict |-> Evaluate(overrides[t].rules, tool, scope)]
  <2>1. /\ pc[t] = "running" /\ pc' = pc /\ ledger' = ledger
        /\ decided' = [decided EXCEPT ![t] = @ \cup {d}]
        /\ UNCHANGED <<overrides, from, past>>
    BY <1>3, Zenon DEF CallTool, ledgerVars, storeVars
  <2>2. started # {} /\ started' = started /\ Loaded(overrides[t])
    BY <1>b, <1>c, <2>1, SameLedgerSameEntries DEF started, Busy
  <2>3. TurnInv(t)'
    BY <2>1, <2>2 DEF TurnInv, started
  <2>4. decided'[t] = decided[t] \cup {d}
    BY <1>a, <2>1
  <2>5. d.tool = tool /\ d.scope = scope /\ d.verdict = Evaluate(overrides[t].rules, tool, scope)
    OBVIOUS
  <2>. HIDE DEF d
  <2>6. Follows(decided'[t], overrides'[t])
    BY <1>c, <2>1, <2>4, <2>5 DEF Follows
  <2>7. RulesHeld(t)'
    BY <1>d, <2>1, <2>2, <2>6
  <2>. QED
    BY <2>3, <2>7
<1>4. CASE EndTurn(t)
  <2>1. /\ pc[t] = "running" /\ pc'[t] = "ending" /\ todo'[t] = <<"session.end">>
        /\ UNCHANGED <<ledger, overrides, decided, from, past>>
    BY <1>a, <1>4 DEF EndTurn, Goto, storeVars, ledgerVars
  <2>2. started # {} /\ started' = started /\ Loaded(overrides[t])
    BY <1>b, <1>c, <2>1, SameLedgerSameEntries DEF started, Busy
  <2>3. TurnInv(t)'
    BY <2>1, <2>2 DEF TurnInv, started
  <2>4. RulesHeld(t)'
    BY <1>c, <1>d, <2>1, <2>2
  <2>. QED
    BY <2>3, <2>4
<1>5. CASE RecordRead(t)
  <2>1. /\ UNCHANGED <<ledger, pc, todo, calls, overrides, decided, from, past>>
    BY <1>5 DEF RecordRead, LedgerRead, turnVars, storeVars
  <2>2. Entries(t, {"session.start"})' = Entries(t, {"session.start"})
    BY <2>1, SameLedgerSameEntries
  <2>. QED
    BY <2>1, <2>2, TurnWaits
<1>6. CASE RecordWrite(t)
  <2>1. /\ todo[t] # <<>> /\ todo'[t] = Tail(todo[t])
        /\ UNCHANGED <<calls, overrides, decided, from, past>>
        /\ \/ LedgerCommit(t, Head(todo[t])) /\ pc' = [pc EXCEPT ![t] = AfterEntry(t, TRUE)]
           \/ LedgerFails(t) /\ pc' = [pc EXCEPT ![t] = AfterEntry(t, FALSE)]
    BY <1>a, <1>6 DEF RecordWrite, storeVars
  <2>2. pc[t] \in Busy /\ Loaded(overrides[t])
    BY <1>b, <1>c, <2>1
  <2>3. RulesHeld(t)'
    BY <1>c, <1>d, <2>1, <2>2
  <2>4. /\ pc[t] = "opening" => todo'[t] = <<>> /\ Head(todo[t]) = "session.start"
        /\ pc[t] = "ending" => todo'[t] = <<>>
    <3>1. ASSUME NEW k PROVE Head(<<k>>) = k /\ Tail(<<k>>) = <<>>
      OBVIOUS
    <3>2. ASSUME NEW s, NEW k, s = <<k>> PROVE Head(s) = k /\ Tail(s) = <<>>
      BY <3>1, <3>2, Zenon
    <3>. QED
      BY <1>b, <2>1, <3>2, Zenon
  <2>5. Head(todo[t]) \in LedgerKind
    BY <1>a, <2>1
  <2>6. ASSUME LedgerCommit(t, Head(todo[t])), pc' = [pc EXCEPT ![t] = AfterEntry(t, TRUE)]
        PROVE  TurnInv(t)'
    <3>1. /\ Head(todo[t]) = "session.start" => started' # {}
          /\ started \subseteq started'
      BY <1>a, <2>5, <2>6, CommitAdds DEF started
    <3>2. pc'[t] = IF pc[t] = "ending" THEN "done" ELSE "running"
      BY <1>a, <2>2, <2>6 DEF AfterEntry, Busy
    <3>3. started' # {}
      BY <1>b, <2>2, <2>4, <3>1 DEF Busy
    <3>. QED
      BY <2>2, <2>4, <3>2, <3>3 DEF TurnInv, started
  <2>7. ASSUME LedgerFails(t), pc' = [pc EXCEPT ![t] = AfterEntry(t, FALSE)]
        PROVE  TurnInv(t)'
    <3>1. started' = started
      BY <2>7, SameLedgerSameEntries DEF LedgerFails, started
    <3>2. pc'[t] = IF pc[t] = "running" THEN "running" ELSE "failed"
      BY <1>a, <2>2, <2>7 DEF AfterEntry, Busy
    <3>. QED
      BY <1>b, <2>1, <2>2, <2>4, <3>1, <3>2 DEF TurnInv, started, Busy
  <2>. QED
    BY <2>1, <2>3, <2>6, <2>7
<1>. QED
  BY <1>1, <1>2, <1>3, <1>4, <1>5, <1>6 DEF TurnNext

\* The types of what a turn does.
LEMMA TurnTypes ==
  ASSUME Inv, NEW t \in Turn, TurnNext(t)
  PROVE  /\ (pc \in [Writer -> {"idle", "setting", "getting", "removing", "auditing", "ok", "notfound",
                        "failed", "loading", "opening", "running", "ending", "done"}])'
         /\ (todo \in [Turn -> Seq(LedgerKind)])' /\ (calls \in [Turn -> 0..MaxCalls])'
         /\ (overrides = [u \in Turn |-> overrides[u]])' /\ (decided = [u \in Turn |-> decided[u]])'
         /\ (from \in [Turn -> 0..Len(past)])'
<1>. DEFINE Steps == {"idle", "setting", "getting", "removing", "auditing", "ok", "notfound",
                      "failed", "loading", "opening", "running", "ending", "done"}
            Typed == /\ pc' \in [Writer -> Steps] /\ todo' \in [Turn -> Seq(LedgerKind)]
                     /\ calls' \in [Turn -> 0..MaxCalls]
                     /\ overrides' = [u \in Turn |-> overrides'[u]]
                     /\ decided' = [u \in Turn |-> decided'[u]]
                     /\ from' \in [Turn -> 0..Len(past')]
<1>a. /\ t \in Writer /\ pc \in [Writer -> Steps] /\ todo \in [Turn -> Seq(LedgerKind)]
      /\ calls \in [Turn -> 0..MaxCalls] /\ MaxCalls \in Nat
      /\ overrides = [u \in Turn |-> overrides[u]] /\ decided = [u \in Turn |-> decided[u]]
      /\ from \in [Turn -> 0..Len(past)] /\ Len(past) \in Nat
      /\ todo[t] # <<>> => pc[t] \in {"opening", "running", "ending"}
  BY PolicyAssumption DEF Inv, PolicyInv, TypeOK, TurnInv
<1>b. /\ \A x \in Steps : [pc EXCEPT ![t] = x] \in [Writer -> Steps]
      /\ \A x \in Seq(LedgerKind) : [todo EXCEPT ![t] = x] \in [Turn -> Seq(LedgerKind)]
      /\ \A x \in 0..MaxCalls : [calls EXCEPT ![t] = x] \in [Turn -> 0..MaxCalls]
      /\ \A x \in 0..Len(past) : [from EXCEPT ![t] = x] \in [Turn -> 0..Len(past)]
  BY <1>a
<1>c. ASSUME NEW x, NEW f, NEW g, g = [u \in Turn |-> g[u]], f = [g EXCEPT ![t] = x]
      PROVE  f = [u \in Turn |-> f[u]]
  BY <1>c
<1>d. /\ <<"session.start">> \in Seq(LedgerKind) /\ <<"session.end">> \in Seq(LedgerKind)
      /\ <<"tool.run", "tool.result">> \in Seq(LedgerKind) /\ <<"tool.denied">> \in Seq(LedgerKind)
  BY DEF LedgerKind
<1>e. past' = past
  BY TurnFrame DEF storeVars
<1>1. ASSUME Arrive(t) PROVE Typed
  BY <1>a, <1>b, <1>e, <1>1 DEF Arrive, Goto
<1>2. ASSUME EndTurn(t) PROVE Typed
  BY <1>a, <1>b, <1>d, <1>e, <1>2 DEF EndTurn, Goto
<1>3. ASSUME RecordRead(t) PROVE Typed
  BY <1>a, <1>e, <1>3 DEF RecordRead, turnVars
<1>4. ASSUME LoadOverrides(t) PROVE Typed
  <2>1. /\ pc' = [pc EXCEPT ![t] = "opening"] /\ todo' = [todo EXCEPT ![t] = <<"session.start">>]
        /\ UNCHANGED <<calls, from, decided>>
        /\ \E x : overrides' = [overrides EXCEPT ![t] = x]
    BY <1>4 DEF LoadOverrides, Goto
  <2>2. overrides' = [u \in Turn |-> overrides'[u]]
    BY <1>a, <1>c, <2>1, Zenon
  <2>. QED
    BY <1>a, <1>b, <1>d, <1>e, <2>1, <2>2
<1>5. ASSUME NEW tool \in Tool, NEW scope \in Scope, CallTool(t, tool, scope) PROVE Typed
  <2>1. /\ UNCHANGED <<pc, overrides, from>> /\ calls[t] < MaxCalls
        /\ todo' = [todo EXCEPT ![t] = <<"tool.run", "tool.result">>]
             \/ todo' = [todo EXCEPT ![t] = <<"tool.denied">>]
        /\ calls' = [calls EXCEPT ![t] = calls[t] + 1]
        /\ \E x : decided' = [decided EXCEPT ![t] = x]
    <3>1. /\ UNCHANGED <<pc, overrides, from>> /\ calls[t] < MaxCalls
          /\ calls' = [calls EXCEPT ![t] = calls[t] + 1]
          /\ \E x : decided' = [decided EXCEPT ![t] = x]
      BY <1>5, Zenon DEF CallTool
    <3>2. \E allowed \in BOOLEAN : todo' = [todo EXCEPT ![t] =
            IF allowed THEN <<"tool.run", "tool.result">> ELSE <<"tool.denied">>]
      BY <1>5, Zenon DEF CallTool
    <3>. QED
      BY <3>1, <3>2
  <2>2. decided' = [u \in Turn |-> decided'[u]]
    BY <1>a, <1>c, <2>1, Zenon
  <2>3. calls[t] + 1 \in 0..MaxCalls
    BY <1>a, <2>1
  <2>4. todo' \in [Turn -> Seq(LedgerKind)]
    <3>1. \E x \in Seq(LedgerKind) : todo' = [todo EXCEPT ![t] = x]
      BY <1>d, <2>1
    <3>. QED
      BY <1>b, <3>1
  <2>5. calls' \in [Turn -> 0..MaxCalls]
    BY <1>b, <2>1, <2>3
  <2>6. pc' \in [Writer -> Steps] /\ overrides' = [u \in Turn |-> overrides'[u]]
    BY <1>a, <2>1
  <2>7. from' \in [Turn -> 0..Len(past')]
    BY <1>a, <1>e, <2>1
  <2>. QED
    BY <2>2, <2>4, <2>5, <2>6, <2>7
<1>6. ASSUME RecordWrite(t) PROVE Typed
  <2>1. /\ todo' = [todo EXCEPT ![t] = Tail(todo[t])] /\ todo[t] # <<>>
        /\ UNCHANGED <<overrides, calls, from, decided>>
        /\ pc' = [pc EXCEPT ![t] = AfterEntry(t, TRUE)]
             \/ pc' = [pc EXCEPT ![t] = AfterEntry(t, FALSE)]
    BY <1>6 DEF RecordWrite
  <2>2. Tail(todo[t]) \in Seq(LedgerKind)
    BY <1>a, <2>1
  <2>3. AfterEntry(t, TRUE) \in Steps /\ AfterEntry(t, FALSE) \in Steps
    BY <1>a, <2>1 DEF AfterEntry
  <2>. QED
    BY <1>a, <1>b, <1>e, <2>1, <2>2, <2>3
<1>. QED
  BY <1>1, <1>2, <1>3, <1>4, <1>5, <1>6 DEF TurnNext

-----------------------------------------------------------------------------
(* The theorems *)

LEMMA InvInit ==
  ASSUME Init
  PROVE  Inv
<1>a. /\ Before \subseteq Stored(1) /\ IsFiniteSet(Before) /\ Cardinality(Before) <= 1
      /\ MaxCalls \in Nat /\ MaxFaults \in Nat /\ Request \subseteq Writer /\ Turn \subseteq Writer
  BY PolicyAssumption, MaxFaultsAssumption
<1>b. /\ ledger = <<>> /\ prev = [w \in Writer |-> 0] /\ snapshot = [w \in Writer |-> -2]
      /\ faults = 0 /\ readFailed = FALSE
      /\ table = Before /\ nextId = 2 /\ changed = {} /\ past = <<table>>
      /\ pc = [w \in Writer |-> "idle"] /\ rule = [q \in Request |-> None]
      /\ overrides = [t \in Turn |-> <<>>] /\ todo = [t \in Turn |-> <<>>]
      /\ calls = [t \in Turn |-> 0] /\ from = [t \in Turn |-> 0] /\ decided = [t \in Turn |-> {}]
  BY DEF Init, LedgerInit, NoTransaction
<1>1. LedgerTypeOK
  <2>1. ledger \in Seq([kind : LedgerKind, by : Writer, prev : Nat]) /\ Len(ledger) = 0
    BY <1>b
  <2>2. prev \in [Writer -> 0..Len(ledger)]
    BY <1>b, <2>1
  <2>3. snapshot \in [Writer -> -2..Len(ledger)]
    BY <1>b, <2>1
  <2>4. faults \in 0..MaxFaults
    BY <1>b, MaxFaultsAssumption
  <2>5. readFailed \in BOOLEAN
    BY <1>b
  <2>. QED
    BY <2>1, <2>2, <2>3, <2>4, <2>5 DEF LedgerTypeOK, NoTransaction
<1>2. LedgerInv
  BY <1>1, <1>b DEF LedgerInv, ChainIntact, ChainHolds, NoSnapshot
<1>3. \A r, s \in Before : r = s
  <2>1. Before # {} => \E r : Before = {r}
    <3>1. CASE Before = {}
      BY <3>1
    <3>2. CASE Before # {}
      <4>1. Cardinality(Before) \in Nat /\ Cardinality(Before) # 0
        BY <1>a, <3>2, FS_CardinalityType, FS_EmptySet
      <4>2. Cardinality(Before) = 1
        BY <1>a, <4>1
      <4>. QED
        BY <1>a, <4>2, FS_Singleton
    <3>. QED
      BY <3>1, <3>2
  <2>. QED
    BY <2>1
<1>4. \A r \in table : r.id = 1 /\ r \in Stored(r.id) /\ r.id \in 1..(nextId - 1)
  BY <1>a, <1>b DEF Stored
<1>5. past \in Seq(Content) /\ past # <<>> /\ Len(past) = 1 /\ past[Len(past)] = table
  <2>1. table \in Content
    BY <1>4 DEF Content
  <2>. QED
    BY <1>b, <2>1
<1>6. TableInv
  BY <1>a, <1>b, <1>3, <1>5 DEF TableInv, OneRulePerKey
<1>7. TypeOK
  BY <1>a, <1>b, <1>1, <1>4, <1>5 DEF TypeOK
<1>8. \A w, kinds : Entries(w, kinds) = {}
  BY <1>b DEF Entries
<1>9. \A q \in Request : RequestInv(q)
  BY <1>a, <1>b, <1>8 DEF RequestInv
<1>10. \A t \in Turn : TurnInv(t) /\ RulesHeld(t)
  BY <1>a, <1>b, <1>8 DEF TurnInv, RulesHeld
<1>11. /\ rule \in [Request -> {None} \cup Body \cup Row] /\ todo \in [Turn -> Seq(LedgerKind)]
       /\ overrides = [t \in Turn |-> overrides[t]] /\ decided = [t \in Turn |-> decided[t]]
  BY <1>b
<1>. QED
  BY <1>2, <1>5, <1>6, <1>7, <1>9, <1>10, <1>11 DEF Inv, PolicyInv

LEMMA InvNext ==
  ASSUME Inv, [Next]_vars
  PROVE  Inv'
<1>a. /\ Request \subseteq Writer /\ Turn \subseteq Writer /\ Request \cap Turn = {}
  BY PolicyAssumption
<1>b. LedgerInv'
  BY StepsOnLedger, LedgerStep DEF Inv, PolicyInv
<1>c. /\ TableTypes' /\ TableInv' /\ (past \in Seq(Content))'
      /\ nextId <= nextId' /\ changed \subseteq changed' /\ changed' \subseteq Request
      /\ \A s \in table' : s \in table \/ s.id = nextId
      /\ Len(past) \in Nat /\ Len(past') \in Nat /\ Len(past) <= Len(past')
      /\ \A v \in DOMAIN past : v \in DOMAIN past' /\ past'[v] = past[v]
  BY StepsOnStore, StoreMovesOn
<1>d. /\ \A q \in Request : RequestInv(q)
      /\ \A t \in Turn : TurnInv(t) /\ RulesHeld(t)
  BY DEF Inv, PolicyInv
<1>. DEFINE Types ==
       /\ pc \in [Writer -> {"idle", "setting", "getting", "removing", "auditing", "ok", "notfound",
                        "failed", "loading", "opening", "running", "ending", "done"}]
       /\ rule \in [Request -> {None} \cup Body \cup Row] /\ todo \in [Turn -> Seq(LedgerKind)]
       /\ calls \in [Turn -> 0..MaxCalls] /\ from \in [Turn -> 0..Len(past)]
       /\ overrides = [t \in Turn |-> overrides[t]] /\ decided = [t \in Turn |-> decided[t]]
            All == /\ \A q \in Request : RequestInv(q)
                   /\ \A t \in Turn : TurnInv(t) /\ RulesHeld(t)
<1>e. Types
  BY DEF Inv, PolicyInv, TypeOK
<1>1. ASSUME NEW q \in Request, RequestNext(q) PROVE Types' /\ All'
  <2>1. /\ OthersKeep(q) /\ UNCHANGED turnVars /\ \A p \in Request \ {q} : rule'[p] = rule[p]
    BY <1>1, RequestFrame
  <2>2. Types'
    <3>1. from \in [Turn -> 0..Len(past')]
      BY <1>c, <1>e
    <3>2. /\ (pc \in [Writer -> {"idle", "setting", "getting", "removing", "auditing", "ok", "notfound",
                        "failed", "loading", "opening", "running", "ending", "done"}])'
          /\ (rule \in [Request -> {None} \cup Body \cup Row])'
      BY <1>1, <1>c, RequestTypes
    <3>. QED
      BY <1>e, <2>1, <3>1, <3>2, Zenon DEF turnVars
  <2>3. RequestInv(q)'
    BY <1>1, <1>c, <1>d, RequestMoves
  <2>4. ASSUME NEW p \in Request \ {q} PROVE RequestInv(p)'
    <3>1. /\ pc'[p] = pc[p] /\ rule'[p] = rule[p] /\ Entries(p, RuleKinds)' = Entries(p, RuleKinds)
      BY <1>a, <2>1 DEF OthersKeep
    <3>. QED
      BY <1>c, <1>d, <3>1, RequestWaits
  <2>5. ASSUME NEW t \in Turn PROVE TurnInv(t)' /\ RulesHeld(t)'
    <3>1. pc'[t] = pc[t] /\ Entries(t, {"session.start"})' = Entries(t, {"session.start"})
      BY <1>a, <2>1 DEF OthersKeep
    <3>2. /\ overrides'[t] = overrides[t] /\ todo'[t] = todo[t]
          /\ calls'[t] = calls[t] /\ from'[t] = from[t] /\ decided'[t] = decided[t]
      BY <2>1 DEF turnVars
    <3>. QED
      BY <1>c, <1>d, <3>1, <3>2, TurnWaits
  <2>6. ASSUME NEW p \in Request PROVE RequestInv(p)'
    <3>1. CASE p = q
      BY <2>3, <3>1
    <3>2. CASE p # q
      BY <2>4, <3>2
    <3>. QED
      BY <3>1, <3>2
  <2>. QED
    BY <2>2, <2>5, <2>6
<1>2. ASSUME NEW t \in Turn, TurnNext(t) PROVE Types' /\ All'
  <2>1. /\ OthersKeep(t) /\ UNCHANGED <<storeVars, rule>>
        /\ \A u \in Turn \ {t} : /\ overrides'[u] = overrides[u] /\ todo'[u] = todo[u]
                                 /\ calls'[u] = calls[u] /\ from'[u] = from[u]
                                 /\ decided'[u] = decided[u]
    BY <1>2, TurnFrame
  <2>2. Types'
    <3>1. Row' = Row /\ Body' = Body
      BY <2>1 DEF storeVars, Row, Body
    <3>2. (rule \in [Request -> {None} \cup Body \cup Row])'
      BY <1>e, <2>1, <3>1
    <3>. QED
      BY <1>2, <3>2, TurnTypes
  <2>3. TurnInv(t)' /\ RulesHeld(t)'
    BY <1>2, <1>d, TurnMoves
  <2>4. ASSUME NEW u \in Turn \ {t} PROVE TurnInv(u)' /\ RulesHeld(u)'
    <3>1. pc'[u] = pc[u] /\ Entries(u, {"session.start"})' = Entries(u, {"session.start"})
      BY <1>a, <2>1 DEF OthersKeep
    <3>. QED
      BY <1>c, <1>d, <2>1, <3>1, TurnWaits
  <2>5. ASSUME NEW q \in Request PROVE RequestInv(q)'
    <3>1. pc'[q] = pc[q] /\ rule'[q] = rule[q] /\ Entries(q, RuleKinds)' = Entries(q, RuleKinds)
      BY <1>a, <2>1 DEF OthersKeep
    <3>. QED
      BY <1>c, <1>d, <3>1, RequestWaits
  <2>6. ASSUME NEW u \in Turn PROVE TurnInv(u)' /\ RulesHeld(u)'
    <3>1. CASE u = t
      BY <2>3, <3>1
    <3>2. CASE u # t
      BY <2>4, <3>2
    <3>. QED
      BY <3>1, <3>2
  <2>. QED
    BY <2>2, <2>5, <2>6
<1>3. ASSUME UNCHANGED vars PROVE Types' /\ All'
  <2>1. /\ UNCHANGED <<pc, rule, todo, calls, from, overrides, decided, past, nextId, table, changed>>
        /\ ledger' = ledger
    BY <1>3 DEF vars, ledgerVars, storeVars, turnVars
  <2>2. Row' = Row /\ Body' = Body
    BY <2>1 DEF Row, Body
  <2>3. Types'
    BY <1>e, <2>1, <2>2
  <2>4. \A w, kinds : Entries(w, kinds)' = Entries(w, kinds)
    BY <2>1 DEF Entries
  <2>5. ASSUME NEW q \in Request PROVE RequestInv(q)'
    <3>1. pc'[q] = pc[q] /\ rule'[q] = rule[q] /\ Entries(q, RuleKinds)' = Entries(q, RuleKinds)
      BY <2>1, <2>4
    <3>. QED
      BY <1>c, <1>d, <3>1, RequestWaits
  <2>6. ASSUME NEW t \in Turn PROVE TurnInv(t)' /\ RulesHeld(t)'
    <3>1. /\ pc'[t] = pc[t] /\ Entries(t, {"session.start"})' = Entries(t, {"session.start"})
          /\ overrides'[t] = overrides[t] /\ todo'[t] = todo[t]
          /\ calls'[t] = calls[t] /\ from'[t] = from[t] /\ decided'[t] = decided[t]
      BY <2>1, <2>4
    <3>. QED
      BY <1>c, <1>d, <3>1, TurnWaits
  <2>. QED
    BY <2>3, <2>5, <2>6
<1>4. Types' /\ All'
  BY <1>1, <1>2, <1>3 DEF Next
<1>. QED
  BY <1>b, <1>c, <1>4 DEF Inv, PolicyInv, TypeOK, LedgerInv, TableTypes

LEMMA Invariance == Spec => []Inv
<1>1. Init => Inv
  BY InvInit
<1>2. Inv /\ [Next]_vars => Inv'
  BY InvNext
<1>. QED
  BY <1>1, <1>2, PTL DEF Spec

\* The audit of the permissions API (web_agent.rs) and the ledger of a turn (session.rs): the chain of hashes verifies
\* while no read of it has failed, a change of a rule that was acknowledged has its entry,
\* no entry tells of a change that the store never made, and a turn that ran a tool has its
\* session.start; for any number of requests, turns, rules and failing statements.
THEOREM LedgerTellsTheTruth == Spec => []AuditIsTrue
<1>1. ASSUME Inv PROVE AuditIsTrue
  <2>1. TypeOK /\ ChainIntact
    BY <1>1 DEF Inv, PolicyInv, LedgerInv
  <2>2. AcknowledgedIsAudited
    BY <1>1 DEF Inv, PolicyInv, RequestInv, AcknowledgedIsAudited
  <2>3. EntriesAreTrue
    BY <1>1 DEF Inv, PolicyInv, RequestInv, EntriesAreTrue
  <2>4. ToolRunsHaveAStart
    BY <1>1 DEF Inv, PolicyInv, TurnInv, ToolRunsHaveAStart
  <2>. QED
    BY <2>1, <2>2, <2>3, <2>4 DEF AuditIsTrue
<1>. QED
  BY <1>1, Invariance, PTL

\* A turn decides by what the store held at some moment since its message.
LEMMA HeldRulesDecide ==
  ASSUME Inv
  PROVE  DecidedByRulesInForce
<1>. SUFFICES ASSUME NEW t \in Turn, NEW d \in decided[t], overrides[t].loaded
              PROVE  \E v \in from[t]..Len(past) :
                       d.verdict = Effective(past[v], overrides[t].profile, d.tool, d.scope)
  BY DEF DecidedByRulesInForce
<1>1. /\ past \in Seq(Content) /\ from[t] \in 0..Len(past) /\ Len(past) \in Nat
      /\ d.verdict = Evaluate(overrides[t].rules, d.tool, d.scope)
  BY DEF Inv, PolicyInv, TypeOK, RulesHeld
<1>2. PICK profile \in Profile, v \in DOMAIN past : from[t] <= v /\
         \/ overrides[t] = [profile |-> profile, loaded |-> TRUE,
                            rules |-> Overlay(ListForProfile(past[v], profile), profile)]
         \/ overrides[t] = [profile |-> profile, loaded |-> FALSE,
                            rules |-> Overlay(<<>>, profile)]
  BY Zenon DEF Inv, PolicyInv, RulesHeld
<1>3. /\ overrides[t].profile = profile
      /\ overrides[t].rules = Overlay(ListForProfile(past[v], profile), profile)
  BY <1>2
<1>4. d.verdict = Effective(past[v], overrides[t].profile, d.tool, d.scope)
  BY <1>1, <1>3, Zenon DEF Effective
<1>5. v \in from[t]..Len(past)
  BY <1>1, <1>2
<1>. QED
  BY <1>4, <1>5

\* The rules of rule_store.rs and their evaluation (permission.rs): under one key there is one rule; the
\* newest rule that covers the scope decides, else the cell of the matrix; a turn decides by
\* the rules of one moment since its message; and a revocation removes the very rule that its
\* user was shown, whatever other requests set or revoke in between.
THEOREM StoredRulesDecide == Spec => RulesInForceDecide
<1>1. ASSUME Inv PROVE OneRulePerKey /\ StoredRulesWin /\ DecidedByRulesInForce
  <2>1. TableTypes /\ TableInv
    BY <1>1 DEF Inv, PolicyInv, TypeOK, TableTypes
  <2>. QED
    BY <1>1, <2>1, OrderMakesStoredRulesWin, HeldRulesDecide DEF TableInv
<1>2. ASSUME Inv, [Next]_vars
      PROVE  [\A q \in Request : (pc[q] = "removing" /\ q \in changed' \ changed)
                => table \ table' = {rule[q]}]_vars
  <2>. SUFFICES ASSUME NEW q \in Request, pc[q] = "removing", q \in changed' \ changed
                PROVE  table \ table' = {rule[q]}
    OBVIOUS
  <2>1. Removes(q)
    <3>1. ~UNCHANGED storeVars
      BY DEF storeVars
    <3>2. PICK p \in Request : Sets(p) \/ Removes(p)
      BY <1>2, <3>1, StepsOnStore
    <3>3. p = q
      BY <3>2 DEF Sets, Removes
    <3>. QED
      BY <3>2, <3>3 DEF Sets
  <2>2. \A s \in table : s.id = rule[q].id => s = rule[q]
    BY <1>2 DEF Inv, PolicyInv, RequestInv
  <2>. QED
    BY <2>1, <2>2 DEF Removes
<1>. QED
  BY <1>1, <1>2, Invariance, PTL DEF RulesInForceDecide, RevokeHitsWhatWasSeen, Spec
=============================================================================
