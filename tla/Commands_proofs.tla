--------------------------- MODULE Commands_proofs ---------------------------
(***************************************************************************)
(* Proofs about the commands of the CLI.  The conversations of a session:    *)
(* whoever appends, compacts or dies, the stream stays well formed, a client *)
(* that may append has seen all of it, and what is sent to either provider   *)
(* pairs its calls and results.  forge squad: every tool run that was asked  *)
(* for had its own yes, and the single agent works alone.                    *)
(***************************************************************************)
EXTENDS Conversation, SquadCommand, SequenceTheorems, FiniteSetTheorems,
        WellFoundedInduction, TLAPS

Event == Message \cup Marker

\* A base of s that Base may choose: the place of the last marker, or 0.
IsLastMarker(s, n) == n \in 0..Len(s) /\ IsBase(s, n) /\ (n > 0 => s[n] \in Marker)

\* The part of StreamWellFormed that is about markers.
WellMarked(s) == \A i \in 1..Len(s) :
  /\ s[i] = "start" <=> i = 1
  /\ s[i] = "epoch" => i < Len(s) /\ s[i + 1] = "summary"

-----------------------------------------------------------------------------
(* What replay yields *)

\* A set of numbers has a least one.
LEMMA LeastOfNaturals ==
  ASSUME NEW S, S \subseteq Nat, S # {}
  PROVE  \E n \in S : \A m \in S : n <= m
<1>. DEFINE R == OpToRel(<, Nat)
<1>1. \A m, n \in Nat : <<m, n>> \in R <=> m < n
  BY DEF OpToRel
<1>2. IsWellFoundedOn(R, Nat)
  BY NatLessThanWellFounded
<1>. HIDE DEF R
<1>3. PICK n \in S : \A m \in S : ~(<<m, n>> \in R)
  BY <1>2, WFMin
<1>4. \A m \in S : ~(m < n)
  BY <1>1, <1>3, Zenon
<1>. QED
  BY <1>4

\* There is a last marker, unless there is none at all.
LEMMA LastMarkerExists ==
  ASSUME NEW s, Len(s) \in Nat
  PROVE  \E n \in 0..Len(s) : IsLastMarker(s, n)
<1>. DEFINE k == Len(s)
            bases == {n \in 0..k : \A i \in (n + 1)..k : s[i] \notin Marker}
<1>1. k \in Nat
  OBVIOUS
<1>2. bases \subseteq Nat /\ k \in bases
  BY <1>1
<1>3. PICK n \in bases : \A m \in bases : n <= m
  <2>. HIDE DEF bases
  <2>. QED
    BY <1>2, LeastOfNaturals
<1>4. n > 0 => s[n] \in Marker
  <2>1. SUFFICES ASSUME n > 0, s[n] \notin Marker PROVE FALSE
    OBVIOUS
  <2>2. n - 1 \in 0..k
    BY <1>1, <2>1
  <2>3. \A i \in ((n - 1) + 1)..k : i = n \/ i \in (n + 1)..k
    BY <1>1
  <2>4. n - 1 \in bases
    BY <2>1, <2>2, <2>3
  <2>5. n <= n - 1 /\ n \in Int
    <3>. HIDE DEF bases
    <3>1. n <= n - 1
      BY <1>3, <2>4, Zenon
    <3>2. n \in Nat
      BY <1>2, <1>3
    <3>. QED
      BY <3>1, <3>2
  <2>. QED
    BY <2>5
<1>. QED
  BY <1>3, <1>4 DEF IsLastMarker, IsBase

\* And there is one only: it is what Base chooses.
LEMMA BaseIs ==
  ASSUME NEW s, Len(s) \in Nat, NEW n, IsLastMarker(s, n)
  PROVE  Base(s) = n
<1>1. ASSUME NEW a, NEW b, IsLastMarker(s, a), IsLastMarker(s, b), a < b PROVE FALSE
  <2>1. b \in (a + 1)..Len(s) /\ b > 0
    BY <1>1 DEF IsLastMarker
  <2>. QED
    BY <1>1, <2>1 DEF IsLastMarker, IsBase
<1>2. \E b \in 0..Len(s) : IsBase(s, b) /\ (b > 0 => s[b] \in Marker)
  BY DEF IsLastMarker
<1>3. Base(s) \in 0..Len(s) /\ IsBase(s, Base(s)) /\ (Base(s) > 0 => s[Base(s)] \in Marker)
  BY <1>2, Zenon DEF Base
<1>4. IsLastMarker(s, Base(s))
  BY <1>3 DEF IsLastMarker
<1>5. n \in Nat /\ Base(s) \in Nat
  BY <1>3 DEF IsLastMarker
<1>6. ~(n < Base(s)) /\ ~(Base(s) < n)
  BY <1>1, <1>4, Zenon
<1>. QED
  BY <1>5, <1>6

\* Replay drops what is up to the last marker and keeps the rest, which is messages.
LEMMA ReplayIs ==
  ASSUME NEW s \in Seq(Event), NEW n, IsLastMarker(s, n)
  PROVE  /\ Replay(s) \in Seq(Message)
         /\ Len(Replay(s)) = Len(s) - n
         /\ \A i \in 1..(Len(s) - n) : Replay(s)[i] = s[n + i]
<1>. DEFINE k == Len(s)
            r == Replay(s)
<1>1. k \in Nat /\ \A i \in 1..k : s[i] \in Event
  OBVIOUS
<1>2. n \in 0..k /\ \A i \in (n + 1)..k : s[i] \notin Marker
  BY DEF IsLastMarker, IsBase
<1>3. r = SubSeq(s, n + 1, k)
  BY <1>1, BaseIs DEF Replay
<1>4. Len(r) = k - n /\ r = [i \in 1..(k - n) |-> s[n + i]]
  <2>1. Len(SubSeq(s, n + 1, k)) = k - n
    BY <1>1, <1>2, SubSeqProperties
  <2>2. SubSeq(s, n + 1, k) = [i \in 1..(k - n) |-> s[n + i]]
    BY <1>1, <1>2
  <2>. QED
    BY <1>3, <2>1, <2>2
<1>. HIDE DEF k, r
<1>5. ASSUME NEW i \in 1..(k - n) PROVE s[n + i] \in Message
  BY <1>1, <1>2 DEF Event
<1>6. r \in Seq(Message)
  BY <1>1, <1>2, <1>4, <1>5
<1>. QED
  BY <1>4, <1>6 DEF k, r

\* A history replayed from a stream that pairs its calls pairs its own.
LEMMA ReplayPairs ==
  ASSUME NEW s \in Seq(Event), Paired(s, FALSE)
  PROVE  Paired(Replay(s), FALSE)
<1>. DEFINE k == Len(s)
            r == Replay(s)
<1>1. PICK n \in 0..k : IsLastMarker(s, n)
  BY LastMarkerExists
<1>2. k \in Nat /\ Len(r) = k - n /\ \A i \in 1..(k - n) : r[i] = s[n + i]
  BY <1>1, ReplayIs
<1>3. \A i \in 1..k : /\ s[i] = "calls" => i < k /\ s[i + 1] = "results"
                      /\ s[i] = "results" => i > 1 /\ s[i - 1] = "calls"
  BY DEF Paired
<1>4. n > 0 => s[n] # "calls"
  BY <1>1 DEF IsLastMarker, Marker
<1>. SUFFICES \A i \in 1..Len(r) : /\ r[i] = "calls" => i < Len(r) /\ r[i + 1] = "results"
                                   /\ r[i] = "results" => i > 1 /\ r[i - 1] = "calls"
  BY DEF Paired
<1>. HIDE DEF k, r
<1>5. SUFFICES ASSUME NEW i \in 1..(k - n)
               PROVE  /\ r[i] = "calls" => i < k - n /\ r[i + 1] = "results"
                      /\ r[i] = "results" => i > 1 /\ r[i - 1] = "calls"
  BY <1>2
<1>6. n + i \in 1..k /\ r[i] = s[n + i]
  BY <1>2
<1>7. ASSUME r[i] = "calls" PROVE i < k - n /\ r[i + 1] = "results"
  <2>1. n + i < k /\ s[(n + i) + 1] = "results"
    BY <1>3, <1>6, <1>7
  <2>2. i + 1 \in 1..(k - n) /\ n + (i + 1) = (n + i) + 1
    BY <1>2, <2>1
  <2>. QED
    BY <1>2, <2>1, <2>2
<1>8. ASSUME r[i] = "results" PROVE i > 1 /\ r[i - 1] = "calls"
  <2>1. n + i > 1 /\ s[(n + i) - 1] = "calls"
    BY <1>3, <1>6, <1>8
  <2>2. i # 1
    <3>1. SUFFICES ASSUME i = 1 PROVE FALSE
      OBVIOUS
    <3>2. n > 0 /\ (n + i) - 1 = n
      BY <1>2, <2>1, <3>1
    <3>. QED
      BY <1>4, <2>1, <3>2
  <2>3. i - 1 \in 1..(k - n) /\ n + (i - 1) = (n + i) - 1
    BY <1>2, <2>2
  <2>. QED
    BY <1>2, <2>1, <2>2, <2>3
<1>. QED
  BY <1>7, <1>8

\* A client that has replayed the whole stream and gone on appends the rest of its
\* history: a reopen yields that history, and the stream pairs its calls as it does.
LEMMA UnsavedContinues ==
  ASSUME NEW s \in Seq(Event), NEW m \in Seq(Message), NEW p \in 0..Len(m),
         SubSeq(m, 1, p) = Replay(s), Paired(s, FALSE), Paired(m, FALSE)
  PROVE  LET t == s \o SubSeq(m, p + 1, Len(m))
         IN  /\ t \in Seq(Event) /\ Len(t) = Len(s) + Len(m) - p
             /\ \A j \in 1..Len(s) : t[j] = s[j]
             /\ \A j \in (Len(s) + 1)..Len(t) : t[j] \in Message
             /\ Paired(t, FALSE) /\ Replay(t) = m
<1>. DEFINE k == Len(s)
            l == Len(m)
            u == SubSeq(m, p + 1, l)
            t == s \o u
<1>1. /\ k \in Nat /\ l \in Nat /\ p \in 0..l
      /\ \A j \in 1..k : s[j] \in Event
      /\ \A j \in 1..l : m[j] \in Message /\ m[j] \notin Marker
  <2>1. \A j \in 1..l : m[j] \in Message
    OBVIOUS
  <2>. QED
    BY <2>1 DEF Message, Marker
<1>2. PICK n \in 0..k : IsLastMarker(s, n)
  BY <1>1, LastMarkerExists
<1>3. /\ p = k - n /\ \A i \in 1..p : m[i] = s[n + i]
  <2>1. Len(SubSeq(m, 1, p)) = p /\ \A i \in 1..p : SubSeq(m, 1, p)[i] = m[i]
    BY <1>1, SubSeqProperties
  <2>2. Len(Replay(s)) = k - n /\ \A i \in 1..(k - n) : Replay(s)[i] = s[n + i]
    BY <1>2, ReplayIs
  <2>3. p = k - n
    BY <2>1, <2>2
  <2>. QED
    BY <2>1, <2>2, <2>3, Zenon
<1>4. u \in Seq(Message) /\ Len(u) = l - p /\ \A i \in 1..(l - p) : u[i] = m[p + i]
  <2>1. u \in Seq(Message)
    BY <1>1, SubSeqProperties
  <2>2. Len(u) = l - p /\ u = [i \in 1..(l - p) |-> m[p + i]]
    BY <1>1
  <2>. QED
    BY <2>1, <2>2
<1>. HIDE DEF u
<1>5. /\ t \in Seq(Event) /\ Len(t) = Len(s) + Len(u)
      /\ \A i \in 1..(Len(s) + Len(u)) :
           t[i] = IF i <= Len(s) THEN s[i] ELSE u[i - Len(s)]
  <2>1. u \in Seq(Event)
    BY <1>4 DEF Event
  <2>. QED
    BY <2>1, ConcatProperties, Zenon
<1>6. /\ Len(t) = k + (l - p)
      /\ \A j \in 1..k : t[j] = s[j]
      /\ \A j \in 1..(l - p) : t[k + j] = u[j]
  <2>1. /\ Len(t) = k + (l - p)
        /\ \A i \in 1..(k + (l - p)) : t[i] = IF i <= k THEN s[i] ELSE u[i - k]
    BY <1>4, <1>5
  <2>. HIDE DEF t, k, l
  <2>2. \A j \in 1..(l - p) : k + j \in 1..(k + (l - p)) /\ ~(k + j <= k) /\ (k + j) - k = j
    BY <1>1
  <2>3. \A j \in 1..k : j \in 1..(k + (l - p)) /\ j <= k
    BY <1>1
  <2>. QED
    BY <2>1, <2>2, <2>3
<1>. HIDE DEF t, k, l
<1>7. Len(t) = n + l
  BY <1>1, <1>2, <1>3, <1>6
<1>8. ASSUME NEW i \in 1..l PROVE t[n + i] = m[i]
  <2>1. CASE i <= p
    BY <1>1, <1>2, <1>3, <1>6, <2>1
  <2>2. CASE i > p
    <3>1. i - p \in 1..(l - p) /\ k + (i - p) = n + i /\ p + (i - p) = i
      BY <1>1, <1>2, <1>3, <2>2
    <3>. QED
      BY <1>4, <1>6, <3>1
  <2>. QED
    BY <1>1, <2>1, <2>2
<1>9. IsLastMarker(t, n)
  <2>1. ASSUME NEW j \in (n + 1)..Len(t) PROVE t[j] \notin Marker
    <3>1. j - n \in 1..l /\ n + (j - n) = j
      BY <1>1, <1>2, <1>7
    <3>. QED
      BY <1>1, <1>8, <3>1
  <2>2. n > 0 => t[n] \in Marker
    BY <1>1, <1>2, <1>6 DEF IsLastMarker
  <2>. QED
    BY <1>1, <1>2, <1>7, <2>1, <2>2 DEF IsLastMarker, IsBase
<1>10. Replay(t) = m
  <2>1. /\ Replay(t) \in Seq(Message) /\ Len(Replay(t)) = Len(m)
        /\ \A i \in 1..Len(m) : Replay(t)[i] = m[i]
    <3>1. /\ Replay(t) \in Seq(Message) /\ Len(Replay(t)) = Len(t) - n
          /\ \A i \in 1..(Len(t) - n) : Replay(t)[i] = t[n + i]
      BY <1>5, <1>9, ReplayIs
    <3>2. Len(t) - n = l
      BY <1>1, <1>2, <1>7
    <3>. QED
      BY <1>8, <3>1, <3>2 DEF l
  <2>. QED
    BY <2>1, SeqEqual
<1>11. Paired(t, FALSE)
  <2>1. /\ \A i \in 1..k : /\ s[i] = "calls" => i < k /\ s[i + 1] = "results"
                           /\ s[i] = "results" => i > 1 /\ s[i - 1] = "calls"
        /\ \A i \in 1..l : /\ m[i] = "calls" => i < l /\ m[i + 1] = "results"
                           /\ m[i] = "results" => i > 1 /\ m[i - 1] = "calls"
    BY DEF Paired, k, l
  <2>2. SUFFICES ASSUME NEW j \in 1..Len(t)
                 PROVE  /\ t[j] = "calls" => j < Len(t) /\ t[j + 1] = "results"
                        /\ t[j] = "results" => j > 1 /\ t[j - 1] = "calls"
    BY DEF Paired
  <2>3. CASE j <= k
    <3>a. k \in Nat /\ l - p \in Nat /\ Len(t) = k + (l - p)
      BY <1>1, <1>6
    <3>b. j \in 1..k /\ k <= Len(t)
      BY <3>a, <2>3
    <3>1. j \in 1..k /\ t[j] = s[j] /\ k <= Len(t)
      BY <1>6, <3>b
    <3>2. \A i \in {j - 1, j + 1} : i \in 1..k => t[i] = s[i]
      BY <1>6
    <3>. QED
      BY <1>1, <2>1, <3>1, <3>2, <1>6
  <2>4. CASE j > k
    <3>1. j - n \in 1..l /\ n + (j - n) = j /\ j - n > p /\ p >= 0
      BY <1>1, <1>2, <1>3, <1>7, <2>4
    <3>2. t[j] = m[j - n]
      BY <1>8, <3>1
    <3>3. ASSUME t[j] = "calls" PROVE j < Len(t) /\ t[j + 1] = "results"
      <4>1. j - n < l /\ m[(j - n) + 1] = "results"
        BY <2>1, <3>1, <3>2, <3>3
      <4>2. (j - n) + 1 \in 1..l /\ n + ((j - n) + 1) = j + 1 /\ j < Len(t)
        BY <1>1, <1>2, <1>7, <3>1, <4>1
      <4>. QED
        BY <1>8, <4>1, <4>2
    <3>4. ASSUME t[j] = "results" PROVE j > 1 /\ t[j - 1] = "calls"
      <4>1. j - n > 1 /\ m[(j - n) - 1] = "calls"
        BY <2>1, <3>1, <3>2, <3>4
      <4>2. (j - n) - 1 \in 1..l /\ n + ((j - n) - 1) = j - 1 /\ j > 1
        BY <1>1, <1>2, <1>7, <3>1, <4>1
      <4>. QED
        BY <1>8, <4>1, <4>2
    <3>. QED
      BY <3>3, <3>4
  <2>. QED
    BY <1>1, <1>6, <2>3, <2>4
<1>12. \A j \in (k + 1)..Len(t) : t[j] \in Message
  <2>1. ASSUME NEW j \in (k + 1)..Len(t) PROVE t[j] \in Message
    <3>1. j - n \in 1..l /\ n + (j - n) = j
      BY <1>1, <1>2, <1>7
    <3>. QED
      BY <1>1, <1>8, <3>1
  <2>. QED
    BY <2>1
<1>13. Len(t) = k + l - p
  BY <1>1, <1>6
<1>. QED
  BY <1>5, <1>6, <1>10, <1>11, <1>12, <1>13 DEF t, k, l, u

\* A new epoch: a reopen yields its baseline.
LEMMA EpochBegins ==
  ASSUME NEW s \in Seq(Event), Paired(s, FALSE)
  PROVE  LET t == s \o <<"epoch", "summary">>
         IN  /\ t \in Seq(Event) /\ Len(t) = Len(s) + 2
             /\ \A j \in 1..Len(s) : t[j] = s[j]
             /\ t[Len(s) + 1] = "epoch" /\ t[Len(s) + 2] = "summary"
             /\ Paired(t, FALSE) /\ Replay(t) = <<"summary">>
<1>. DEFINE k == Len(s)
            b == <<"epoch", "summary">>
            t == s \o b
<1>1. b \in Seq(Event) /\ Len(b) = 2 /\ b[1] = "epoch" /\ b[2] = "summary"
  BY DEF Event, Message, Marker
<1>. HIDE DEF b
<1>2. /\ t \in Seq(Event) /\ Len(t) = k + 2 /\ k \in Nat
      /\ \A i \in 1..(k + 2) : t[i] = IF i <= k THEN s[i] ELSE b[i - k]
  BY <1>1, ConcatProperties
<1>3. \A i \in 1..k : /\ s[i] = "calls" => i < k /\ s[i + 1] = "results"
                      /\ s[i] = "results" => i > 1 /\ s[i - 1] = "calls"
  BY DEF Paired
<1>. HIDE DEF t, k
<1>4. (\A j \in 1..k : t[j] = s[j]) /\ t[k + 1] = "epoch" /\ t[k + 2] = "summary"
  BY <1>1, <1>2
<1>5. Paired(t, FALSE)
  <2>1. SUFFICES ASSUME NEW j \in 1..Len(t)
                 PROVE  /\ t[j] = "calls" => j < Len(t) /\ t[j + 1] = "results"
                        /\ t[j] = "results" => j > 1 /\ t[j - 1] = "calls"
    BY DEF Paired
  <2>2. CASE j \in 1..k
    <3>1. \A i \in {j - 1, j + 1} : i \in 1..k => t[i] = s[i]
      BY <1>4
    <3>. QED
      BY <1>2, <1>3, <1>4, <2>2, <3>1
  <2>3. CASE j \in {k + 1, k + 2}
    BY <1>4, <2>3
  <2>. QED
    BY <1>2, <2>1, <2>2, <2>3
<1>6. Replay(t) = <<"summary">>
  <2>1. IsLastMarker(t, k + 1)
    <3>1. ASSUME NEW i \in ((k + 1) + 1)..Len(t) PROVE t[i] \notin Marker
      <4>1. i = k + 2
        BY <1>2
      <4>. QED
        BY <1>4, <4>1 DEF Marker
    <3>. QED
      BY <1>2, <1>4, <3>1 DEF IsLastMarker, IsBase, Marker
  <2>a. PICK n : n = k + 1 /\ IsLastMarker(t, n)
    BY <2>1
  <2>2. /\ Replay(t) \in Seq(Message) /\ Len(Replay(t)) = Len(t) - n
        /\ \A i \in 1..(Len(t) - n) : Replay(t)[i] = t[n + i]
    BY <1>2, <2>a, ReplayIs
  <2>3. Len(Replay(t)) = 1 /\ Replay(t)[1] = "summary"
    <3>1. Len(t) - n = 1 /\ n + 1 = k + 2
      BY <1>2, <2>a
    <3>. QED
      BY <1>4, <2>2, <3>1
  <2>4. <<"summary">> \in Seq(Message)
    BY DEF Message
  <2>5. Len(<<"summary">>) = 1 /\ \A i \in 1..1 : Replay(t)[i] = <<"summary">>[i]
    BY <2>3
  <2>6. Len(Replay(t)) = Len(<<"summary">>)
        /\ \A i \in 1..Len(Replay(t)) : Replay(t)[i] = <<"summary">>[i]
    BY <2>3, <2>5
  <2>. QED
    BY <2>2, <2>4, <2>6, SeqEqual, Zenon
<1>. QED
  BY <1>2, <1>4, <1>5, <1>6 DEF t, b, k

\* What StartSession writes to an empty stream.
LEMMA SessionStarts ==
  ASSUME NEW s \in Seq(Event), Len(s) = 0
  PROVE  LET t == s \o <<"start">>
         IN  /\ t \in Seq(Event) /\ Len(t) = 1 /\ t[1] = "start"
             /\ Paired(t, FALSE) /\ Replay(t) = <<>>
<1>. DEFINE t == s \o <<"start">>
<1>1. <<"start">> \in Seq(Event) /\ s = <<>>
  BY EmptySeq DEF Event, Marker
<1>2. t = <<"start">> /\ t \in Seq(Event) /\ Len(t) = 1 /\ t[1] = "start"
  BY <1>1
<1>. HIDE DEF t
<1>3. Paired(t, FALSE)
  BY <1>2 DEF Paired
<1>4. IsLastMarker(t, 1)
  BY <1>2 DEF IsLastMarker, IsBase, Marker
<1>5. Replay(t) \in Seq(Message) /\ Len(Replay(t)) = 0
  <2>1. t \in Seq(Event)
    BY <1>2
  <2>2. Replay(t) \in Seq(Message) /\ Len(Replay(t)) = Len(t) - 1
    BY <1>4, <2>1, ReplayIs
  <2>. QED
    BY <1>2, <2>2
<1>6. Replay(t) = <<>>
  BY <1>5
<1>. QED
  BY <1>2, <1>3, <1>6 DEF t

\* Growing by messages, or by an epoch with its baseline, leaves the marks well placed.
LEMMA MarksStay ==
  ASSUME NEW s, NEW t, Len(s) \in Nat, Len(t) \in Nat, Len(s) > 0, Len(s) <= Len(t),
         WellMarked(s), \A j \in 1..Len(s) : t[j] = s[j],
         \A j \in (Len(s) + 1)..Len(t) :
           t[j] # "start" /\ (t[j] = "epoch" => j < Len(t) /\ t[j + 1] = "summary")
  PROVE  WellMarked(t)
<1>. DEFINE k == Len(s)
            l == Len(t)
<1>1. /\ k \in Nat /\ l \in Nat /\ k > 0 /\ k <= l
      /\ \A j \in 1..k : t[j] = s[j]
      /\ \A j \in (k + 1)..l : t[j] # "start" /\ (t[j] = "epoch" => j < l /\ t[j + 1] = "summary")
      /\ \A i \in 1..k : /\ s[i] = "start" <=> i = 1
                         /\ s[i] = "epoch" => i < k /\ s[i + 1] = "summary"
  BY DEF WellMarked
<1>. SUFFICES ASSUME NEW i \in 1..l
              PROVE  /\ t[i] = "start" <=> i = 1
                     /\ t[i] = "epoch" => i < l /\ t[i + 1] = "summary"
  BY DEF WellMarked
<1>. HIDE DEF k, l
<1>2. CASE i \in 1..k
  <2>1. i + 1 \in 1..k => t[i + 1] = s[i + 1]
    BY <1>1
  <2>. QED
    BY <1>1, <1>2, <2>1
<1>3. CASE i \in (k + 1)..l
  BY <1>1, <1>3
<1>. QED
  BY <1>1, <1>2, <1>3

-----------------------------------------------------------------------------
(* What a client adds to its history *)

LEMMA HistoryGrows ==
  ASSUME NEW m \in Seq(Message), NEW x \in Message
  PROVE  /\ Append(m, x) \in Seq(Message) /\ Len(Append(m, x)) = Len(m) + 1
         /\ Append(m, x)[Len(m) + 1] = x
         /\ \A p \in 0..Len(m) : SubSeq(Append(m, x), 1, p) = SubSeq(m, 1, p)
         /\ Paired(m, FALSE) /\ x # "results" => Paired(Append(m, x), x = "calls")
         /\ Paired(m, TRUE) /\ m # <<>> /\ m[Len(m)] = "calls" /\ x = "results" =>
              Paired(Append(m, x), FALSE)
<1>. DEFINE k == Len(m)
            a == Append(m, x)
<1>1. /\ a \in Seq(Message) /\ Len(a) = k + 1 /\ k \in Nat /\ a[k + 1] = x
      /\ \A i \in 1..k : a[i] = m[i]
  BY AppendProperties
<1>2. ASSUME NEW p \in 0..k PROVE SubSeq(a, 1, p) = SubSeq(m, 1, p)
  <2>1. /\ Len(SubSeq(a, 1, p)) = p /\ \A i \in 1..p : SubSeq(a, 1, p)[i] = a[i]
        /\ SubSeq(a, 1, p) \in Seq(Message)
    BY <1>1, SubSeqProperties
  <2>2. /\ Len(SubSeq(m, 1, p)) = p /\ \A i \in 1..p : SubSeq(m, 1, p)[i] = m[i]
        /\ SubSeq(m, 1, p) \in Seq(Message)
    BY SubSeqProperties
  <2>3. \A i \in 1..p : SubSeq(a, 1, p)[i] = SubSeq(m, 1, p)[i]
    BY <1>1, <2>1, <2>2
  <2>. QED
    BY <2>1, <2>2, <2>3, SeqEqual
<1>3. m # <<>> <=> k > 0
  OBVIOUS
<1>4. ASSUME NEW r \in BOOLEAN, Paired(m, r)
      PROVE  \A i \in 1..k : /\ m[i] = "calls" => (i < k /\ m[i + 1] = "results") \/ (r /\ i = k)
                             /\ m[i] = "results" => i > 1 /\ m[i - 1] = "calls"
  BY <1>4 DEF Paired
<1>. HIDE DEF a, k
<1>5. ASSUME Paired(m, FALSE), x # "results" PROVE Paired(a, x = "calls")
  <2>1. SUFFICES ASSUME NEW i \in 1..(k + 1)
                 PROVE  /\ a[i] = "calls" =>
                             (i < k + 1 /\ a[i + 1] = "results") \/ (x = "calls" /\ i = k + 1)
                        /\ a[i] = "results" => i > 1 /\ a[i - 1] = "calls"
    BY <1>1 DEF Paired
  <2>2. \A j \in 1..k : /\ m[j] = "calls" => j < k /\ m[j + 1] = "results"
                        /\ m[j] = "results" => j > 1 /\ m[j - 1] = "calls"
    BY <1>4, <1>5
  <2>3. CASE i \in 1..k
    <3>1. \A j \in {i - 1, i + 1} : j \in 1..k => a[j] = m[j]
      BY <1>1
    <3>. QED
      BY <1>1, <2>2, <2>3, <3>1
  <2>4. CASE i = k + 1
    BY <1>1, <1>5, <2>4
  <2>. QED
    BY <1>1, <2>3, <2>4
<1>6. ASSUME Paired(m, TRUE), k > 0, m[k] = "calls", x = "results" PROVE Paired(a, FALSE)
  <2>1. SUFFICES ASSUME NEW i \in 1..(k + 1)
                 PROVE  /\ a[i] = "calls" => i < k + 1 /\ a[i + 1] = "results"
                        /\ a[i] = "results" => i > 1 /\ a[i - 1] = "calls"
    BY <1>1 DEF Paired
  <2>2. \A j \in 1..k : /\ m[j] = "calls" => (j < k /\ m[j + 1] = "results") \/ j = k
                        /\ m[j] = "results" => j > 1 /\ m[j - 1] = "calls"
    BY <1>4, <1>6
  <2>3. CASE i \in 1..k
    <3>1. \A j \in {i - 1, i + 1} : j \in 1..k => a[j] = m[j]
      BY <1>1
    <3>. QED
      BY <1>1, <1>6, <2>2, <2>3, <3>1
  <2>4. CASE i = k + 1
    BY <1>1, <1>6, <2>4
  <2>. QED
    BY <1>1, <2>3, <2>4
<1>. QED
  BY <1>1, <1>2, <1>3, <1>5, <1>6 DEF a, k

-----------------------------------------------------------------------------
(* The invariant: a client moves, the others do not *)

Opened == {"ready", "summarizing", "looping", "executing", "persisting"}
Steps  == {"idle", "ready"} \cup Working \cup Over

\* Client c gets these values, and the others keep theirs.
Moved(c, a, h, m, p, k, b) ==
  /\ pc' = [pc EXCEPT ![c] = a] /\ head' = [head EXCEPT ![c] = h]
  /\ messages' = [messages EXCEPT ![c] = m] /\ persisted' = [persisted EXCEPT ![c] = p]
  /\ step' = [step EXCEPT ![c] = k] /\ ok' = [ok EXCEPT ![c] = b]

\* Values that the invariant allows a client, when the stream is s.
Allowed(s, a, h, m, p, k, b) ==
  /\ a \in Steps /\ h \in 0..Len(s) /\ m \in Seq(Message) /\ p \in 0..Len(m)
  /\ k \in 0..(MaxSteps + 1) /\ b \in BOOLEAN
  /\ a \in {"idle", "opening", "reading"} => m = <<>> /\ p = 0
  /\ a = "opening" => h = 0
  /\ a \in Opened \/ a = "reading" => h > 0
  /\ Paired(m, a = "executing")
  /\ a = "executing" => m # <<>> /\ m[Len(m)] = "calls" /\ k <= MaxSteps
  /\ a \in Opened /\ h = Len(s) => SubSeq(m, 1, p) = Replay(s)

\* Where the stream does not change or grows, what is left to show is about the client
\* that moves: one that does not has no head that a longer stream could match.
LEMMA ClientMoves ==
  ASSUME SessionInv, NEW c \in Client, StreamWellFormed',
         events' \in Seq(Event), events' = events \/ Len(events) < Len(events'),
         NEW a, NEW h, NEW m, NEW p, NEW k, NEW b,
         Moved(c, a, h, m, p, k, b), Allowed(events', a, h, m, p, k, b)
  PROVE  SessionInv'
<1>. USE DEF Moved, Allowed
<1>1. /\ events \in Seq(Event) /\ pc \in [Client -> Steps]
      /\ head \in [Client -> 0..Len(events)] /\ messages \in [Client -> Seq(Message)]
      /\ persisted \in [Client -> Nat] /\ \A d \in Client : persisted[d] \in 0..Len(messages[d])
      /\ step \in [Client -> 0..(MaxSteps + 1)] /\ ok \in [Client -> BOOLEAN]
      /\ Len(events) \in Nat /\ Len(events') \in Nat
  BY DEF SessionInv, TypeOK, Event, Steps
<1>2. /\ pc'[c] = a /\ head'[c] = h /\ messages'[c] = m /\ persisted'[c] = p /\ step'[c] = k
      /\ \A d \in Client \ {c} : /\ pc'[d] = pc[d] /\ head'[d] = head[d]
                                 /\ messages'[d] = messages[d] /\ persisted'[d] = persisted[d]
                                 /\ step'[d] = step[d]
  BY <1>1
<1>3. TypeOK'
  <2>1. \A d \in Client : head'[d] \in 0..Len(events')
    BY <1>1, <1>2
  <2>2. head' \in [Client -> 0..Len(events')]
    BY <1>1, <2>1
  <2>3. pc' \in [Client -> Steps] /\ messages' \in [Client -> Seq(Message)]
    BY <1>1
  <2>4. step' \in [Client -> 0..(MaxSteps + 1)] /\ ok' \in [Client -> BOOLEAN]
    BY <1>1
  <2>5. \A d \in Client : persisted'[d] \in 0..Len(messages'[d])
    BY <1>1, <1>2
  <2>. QED
    BY <2>2, <2>3, <2>4, <2>5 DEF TypeOK, Event, Steps
<1>4. persisted' \in [Client -> Nat]
  <2>1. p \in Nat
    OBVIOUS
  <2>. QED
    BY <1>1, <2>1
<1>5. ViewIsReplay'
  <2>1. SUFFICES ASSUME NEW d \in Client, pc'[d] \in Opened, head'[d] = Len(events')
                 PROVE  SubSeq(messages'[d], 1, persisted'[d]) = Replay(events')
    BY DEF ViewIsReplay, Open, Opened, Replay, Base, IsBase
  <2>2. CASE d = c
    BY <1>2, <2>1, <2>2
  <2>3. CASE d # c
    <3>1. /\ pc[d] \in Opened /\ head[d] = Len(events') /\ head[d] <= Len(events)
          /\ messages'[d] = messages[d] /\ persisted'[d] = persisted[d]
      BY <1>1, <1>2, <2>1, <2>3
    <3>2. events' = events
      BY <1>1, <3>1
    <3>3. SubSeq(messages[d], 1, persisted[d]) = Replay(events)
      BY <3>1, <3>2 DEF SessionInv, ViewIsReplay, Open, Opened
    <3>. QED
      BY <3>1, <3>2, <3>3
  <2>. QED
    BY <2>2, <2>3
<1>6. ASSUME NEW d \in Client PROVE ClientInv(d)'
  <2>1. CASE d = c
    BY <1>2, <2>1 DEF ClientInv, Open, Opened, Paired
  <2>2. CASE d # c
    <3>1. ClientInv(d)
      BY DEF SessionInv
    <3>. QED
      BY <1>2, <2>2, <3>1 DEF ClientInv, Open, Paired
  <2>. QED
    BY <2>1, <2>2
<1>. QED
  BY <1>3, <1>4, <1>5, <1>6 DEF SessionInv

LEMMA SessionInit ==
  ASSUME Init
  PROVE  SessionInv
<1>1. events = <<>> /\ Len(events) = 0 /\ events \in Seq(Message \cup Marker)
  BY DEF Init
<1>2. messages \in [Client -> Seq(Message)] /\ \A c \in Client : messages[c] = <<>>
  BY DEF Init
<1>3. TypeOK
  <2>1. pc \in [Client -> {"idle", "ready"} \cup Working \cup Over]
    BY DEF Init
  <2>2. head \in [Client -> 0..Len(events)] /\ \A c \in Client : persisted[c] \in 0..Len(messages[c])
    BY <1>1, <1>2 DEF Init
  <2>3. step \in [Client -> 0..(MaxSteps + 1)] /\ ok \in [Client -> BOOLEAN]
    BY BoundsAssumption DEF Init
  <2>. QED
    BY <1>1, <1>2, <2>1, <2>2, <2>3 DEF TypeOK
<1>4. ViewIsReplay /\ persisted \in [Client -> Nat]
  BY DEF Init, ViewIsReplay, Open
<1>5. StreamWellFormed
  BY <1>1 DEF StreamWellFormed, Paired
<1>6. \A c \in Client : ClientInv(c)
  <2>1. SUFFICES ASSUME NEW c \in Client PROVE ClientInv(c)
    OBVIOUS
  <2>2. pc[c] = "idle" /\ messages[c] = <<>> /\ persisted[c] = 0 /\ Len(messages[c]) = 0
    BY <1>2 DEF Init
  <2>. QED
    BY <2>2 DEF ClientInv, Open, Paired
<1>. QED
  BY <1>3, <1>4, <1>5, <1>6 DEF SessionInv

\* What the invariant says of one client.
LEMMA ClientFacts ==
  ASSUME SessionInv, NEW c \in Client
  PROVE  /\ events \in Seq(Event) /\ Len(events) \in Nat /\ StreamWellFormed
         /\ Paired(events, FALSE)
         /\ pc \in [Client -> Steps] /\ pc[c] \in Steps /\ pc = [pc EXCEPT ![c] = pc[c]]
         /\ head[c] \in 0..Len(events) /\ head = [head EXCEPT ![c] = head[c]]
         /\ messages[c] \in Seq(Message) /\ Len(messages[c]) \in Nat
         /\ messages = [messages EXCEPT ![c] = messages[c]]
         /\ persisted[c] \in 0..Len(messages[c]) /\ persisted = [persisted EXCEPT ![c] = persisted[c]]
         /\ step[c] \in 0..(MaxSteps + 1) /\ step = [step EXCEPT ![c] = step[c]]
         /\ ok[c] \in BOOLEAN /\ ok = [ok EXCEPT ![c] = ok[c]]
         /\ ClientInv(c)
         /\ Open(c) /\ head[c] = Len(events) =>
              SubSeq(messages[c], 1, persisted[c]) = Replay(events)
<1>1. /\ events \in Seq(Event) /\ pc \in [Client -> Steps]
      /\ head \in [Client -> 0..Len(events)] /\ messages \in [Client -> Seq(Message)]
      /\ persisted \in [Client -> Nat] /\ persisted[c] \in 0..Len(messages[c])
      /\ step \in [Client -> 0..(MaxSteps + 1)] /\ ok \in [Client -> BOOLEAN]
      /\ StreamWellFormed /\ ClientInv(c)
  BY DEF SessionInv, TypeOK, Event, Steps
<1>2. Paired(events, FALSE)
  BY <1>1 DEF StreamWellFormed
<1>3. Open(c) /\ head[c] = Len(events) =>
        SubSeq(messages[c], 1, persisted[c]) = Replay(events)
  BY DEF SessionInv, ViewIsReplay
<1>4. Len(events) \in Nat /\ messages[c] \in Seq(Message)
  BY <1>1
<1>5. Len(messages[c]) \in Nat
  BY <1>4
<1>. QED
  BY <1>1, <1>2, <1>3, <1>4, <1>5

\* The steps of a client that only move it on: nothing is written, nothing is read.
LEMMA PassesOn ==
  ASSUME SessionInv, NEW c \in Client, NEW b \in BOOLEAN, NEW a \in Steps,
         UNCHANGED <<events, head, messages, persisted, step>>,
         pc' = [pc EXCEPT ![c] = a], ok' = [ok EXCEPT ![c] = b],
         pc[c] # "executing", a \in {"ready"} \cup Opened => pc[c] \in Opened,
         a \notin {"idle", "opening", "reading", "executing"}
  PROVE  SessionInv'
<1>1. StreamWellFormed'
  BY ClientFacts DEF StreamWellFormed, Paired
<1>2. Paired(messages[c], FALSE)
  BY ClientFacts DEF ClientInv, Paired
<1>3. Allowed(events', a, head[c], messages[c], persisted[c], step[c], b)
  <2>1. a \in Opened => head[c] > 0
    BY ClientFacts DEF ClientInv, Open, Opened
  <2>2. a \in Opened /\ head[c] = Len(events') =>
          SubSeq(messages[c], 1, persisted[c]) = Replay(events')
    BY ClientFacts DEF Open, Opened
  <2>3. Paired(messages[c], a = "executing")
    BY <1>2 DEF Paired
  <2>4. /\ head[c] \in 0..Len(events') /\ messages[c] \in Seq(Message)
        /\ persisted[c] \in 0..Len(messages[c]) /\ step[c] \in 0..(MaxSteps + 1)
    BY ClientFacts
  <2>. QED
    BY <2>1, <2>2, <2>3, <2>4 DEF Allowed
<1>4. Moved(c, a, head[c], messages[c], persisted[c], step[c], b)
  BY ClientFacts DEF Moved
<1>5. events' \in Seq(Event) /\ events' = events
  BY ClientFacts
<1>. QED
  BY <1>1, <1>3, <1>4, <1>5, ClientMoves

LEMMA ReadHeadInv ==
  ASSUME SessionInv, NEW c \in Client, ReadHead(c)
  PROVE  SessionInv'
<1>1. PICK h \in {0, Len(events)} : head' = [head EXCEPT ![c] = h]
  BY DEF ReadHead
<1>2. h \in 0..Len(events) /\ head'[c] = h
  <2>1. head \in [Client -> 0..Len(events)]
    BY DEF SessionInv, TypeOK
  <2>. QED
    BY <1>1, <2>1, ClientFacts
<1>. DEFINE a == IF h = 0 THEN "opening" ELSE "reading"
<1>3. Moved(c, a, h, <<>>, 0, step[c], ok[c]) /\ events' = events
  BY <1>1, <1>2, ClientFacts DEF ReadHead, Goto, Moved
<1>4. Allowed(events', a, h, <<>>, 0, step[c], ok[c])
  <2>1. /\ a \in Steps /\ a \notin Opened /\ a # "executing" /\ Paired(<<>>, a = "executing")
        /\ (a = "opening" => h = 0) /\ (a = "reading" => h > 0)
    BY <1>2, ClientFacts DEF Steps, Working, Opened, Paired
  <2>2. /\ h \in 0..Len(events') /\ step[c] \in 0..(MaxSteps + 1) /\ ok[c] \in BOOLEAN
    BY <1>2, <1>3, ClientFacts
  <2>3. <<>> \in Seq(Message) /\ 0 \in 0..Len(<<>>)
    OBVIOUS
  <2>. HIDE DEF a
  <2>. QED
    BY <2>1, <2>2, <2>3 DEF Allowed
<1>5. StreamWellFormed' /\ events' \in Seq(Event)
  BY <1>3, ClientFacts DEF StreamWellFormed, Paired
<1>. HIDE DEF a
<1>. QED
  BY <1>3, <1>4, <1>5, ClientMoves

LEMMA RestartInv ==
  ASSUME SessionInv, NEW c \in Client, Restart(c)
  PROVE  SessionInv'
<1>1. Moved(c, "idle", 0, <<>>, 0, 0, TRUE) /\ events' = events
  BY DEF Restart, Moved
<1>2. StreamWellFormed' /\ events' \in Seq(Event) /\ 0 \in 0..Len(events')
  BY <1>1, ClientFacts DEF StreamWellFormed, Paired
<1>3. Allowed(events', "idle", 0, <<>>, 0, 0, TRUE)
  <2>1. /\ <<>> \in Seq(Message) /\ 0 \in 0..Len(<<>>) /\ 0 \in 0..(MaxSteps + 1)
    BY BoundsAssumption
  <2>. QED
    BY <1>2, <2>1 DEF Allowed, Steps, Opened, Paired
<1>. QED
  BY <1>1, <1>2, <1>3, ClientMoves

LEMMA ReadEventsInv ==
  ASSUME SessionInv, NEW c \in Client, ReadEvents(c)
  PROVE  SessionInv'
<1>1. CASE pc' = [pc EXCEPT ![c] = "failed"] /\ UNCHANGED <<messages, persisted>>
  <2>1. UNCHANGED <<events, head, messages, persisted, step>> /\ ok' = [ok EXCEPT ![c] = ok[c]]
    BY <1>1, ClientFacts DEF ReadEvents
  <2>2. ok[c] \in BOOLEAN /\ pc[c] = "reading" /\ "failed" \in Steps /\ "failed" \notin Opened
    BY ClientFacts DEF ReadEvents, Goto, Steps, Over, Opened
  <2>. QED
    BY <1>1, <2>1, <2>2, PassesOn
<1>2. CASE /\ pc' = [pc EXCEPT ![c] = "ready"]
           /\ messages' = [messages EXCEPT ![c] = Replay(events)]
           /\ persisted' = [persisted EXCEPT ![c] = Len(Replay(events))]
  <2>. DEFINE m == Replay(events)
  <2>1. Moved(c, "ready", head[c], m, Len(m), step[c], ok[c]) /\ events' = events
    BY <1>2, ClientFacts DEF ReadEvents, Moved
  <2>2. PICK n \in 0..Len(events) : IsLastMarker(events, n)
    BY ClientFacts, LastMarkerExists
  <2>3. m \in Seq(Message)
    BY <2>2, ClientFacts, ReplayIs
  <2>4. Paired(m, FALSE)
    BY ClientFacts, ReplayPairs
  <2>5. StreamWellFormed' /\ events' \in Seq(Event) /\ head[c] \in 0..Len(events') /\ head[c] > 0
        /\ step[c] \in 0..(MaxSteps + 1) /\ ok[c] \in BOOLEAN
    BY <2>1, ClientFacts DEF StreamWellFormed, Paired, ReadEvents, Goto, ClientInv
  <2>6. m = Replay(events')
    BY <2>1
  <2>. HIDE DEF m
  <2>7. SubSeq(m, 1, Len(m)) = m /\ Len(m) \in 0..Len(m)
    BY <2>3
  <2>8. Allowed(events', "ready", head[c], m, Len(m), step[c], ok[c])
    BY <2>3, <2>4, <2>5, <2>6, <2>7 DEF Allowed, Steps, Paired
  <2>. QED
    BY <2>1, <2>5, <2>8, ClientMoves
<1>. QED
  BY <1>1, <1>2 DEF ReadEvents, Goto

LEMMA PushUserInv ==
  ASSUME SessionInv, NEW c \in Client, PushUser(c)
  PROVE  SessionInv'
<1>. DEFINE x == "task"
            m == Append(messages[c], x)
<1>1. Moved(c, "looping", head[c], m, persisted[c], 1, ok[c]) /\ events' = events /\ pc[c] = "ready"
  BY ClientFacts DEF PushUser, Goto, Moved
<1>2. Paired(messages[c], FALSE) /\ head[c] > 0
  BY <1>1, ClientFacts DEF ClientInv, Open, Paired
<1>3. x \in Message /\ x # "results" /\ x # "calls"
  BY DEF Message
<1>. HIDE DEF x
<1>4. /\ m \in Seq(Message) /\ Len(m) = Len(messages[c]) + 1
      /\ \A p \in 0..Len(messages[c]) : SubSeq(m, 1, p) = SubSeq(messages[c], 1, p)
      /\ Paired(m, x = "calls")
  <2>. DEFINE old == messages[c]
  <2>1. old \in Seq(Message)
    BY ClientFacts
  <2>. HIDE DEF old, m
  <2>2. /\ Append(old, x) \in Seq(Message) /\ Len(Append(old, x)) = Len(old) + 1
        /\ \A p \in 0..Len(old) : SubSeq(Append(old, x), 1, p) = SubSeq(old, 1, p)
        /\ (Paired(old, FALSE) => Paired(Append(old, x), x = "calls"))
    BY <1>3, <2>1, HistoryGrows, Zenon
  <2>. QED
    BY <1>2, <1>3, <2>2 DEF old, m
<1>. HIDE DEF m
<1>5. /\ persisted[c] \in 0..Len(m) /\ ok[c] \in BOOLEAN /\ 1 \in 0..(MaxSteps + 1)
      /\ SubSeq(m, 1, persisted[c]) = SubSeq(messages[c], 1, persisted[c])
  <2>1. persisted[c] \in 0..Len(messages[c]) /\ ok[c] \in BOOLEAN /\ Len(messages[c]) \in Nat
    BY ClientFacts
  <2>. QED
    BY <1>4, <2>1, BoundsAssumption
<1>6. head[c] = Len(events') => SubSeq(m, 1, persisted[c]) = Replay(events')
  BY <1>1, <1>5, ClientFacts DEF Open
<1>7. StreamWellFormed' /\ events' \in Seq(Event) /\ head[c] \in 0..Len(events')
  BY <1>1, ClientFacts DEF StreamWellFormed, Paired
<1>8. Allowed(events', "looping", head[c], m, persisted[c], 1, ok[c])
  BY <1>2, <1>3, <1>4, <1>5, <1>6, <1>7 DEF Allowed, Steps, Working, Paired
<1>. QED
  BY <1>1, <1>7, <1>8, ClientMoves

LEMMA AnswerInv ==
  ASSUME SessionInv, NEW c \in Client, NEW x, NEW a, Answer(c, x, a),
         x \in {"reply", "cut", "calls"}, a \in {"persisting", "executing"},
         a = "executing" <=> x = "calls"
  PROVE  SessionInv'
<1>. DEFINE m == Append(messages[c], x)
<1>1. /\ Moved(c, a, head[c], m, persisted[c], step[c], TRUE) /\ events' = events
      /\ pc[c] = "looping" /\ step[c] <= MaxSteps
  BY ClientFacts DEF Answer, Goto, Moved
<1>2. Paired(messages[c], FALSE) /\ head[c] > 0
  BY <1>1, ClientFacts DEF ClientInv, Open, Paired
<1>3. x \in Message /\ x # "results" /\ (a = "executing" <=> x = "calls")
  BY DEF Message
<1>4. /\ m \in Seq(Message) /\ Len(m) = Len(messages[c]) + 1 /\ m[Len(messages[c]) + 1] = x
      /\ \A p \in 0..Len(messages[c]) : SubSeq(m, 1, p) = SubSeq(messages[c], 1, p)
      /\ Paired(m, x = "calls")
  BY <1>2, <1>3, ClientFacts, HistoryGrows
<1>. HIDE DEF m
<1>5. /\ persisted[c] \in 0..Len(m) /\ step[c] \in 0..(MaxSteps + 1) /\ m # <<>>
      /\ SubSeq(m, 1, persisted[c]) = SubSeq(messages[c], 1, persisted[c])
  <2>1. /\ persisted[c] \in 0..Len(messages[c]) /\ Len(messages[c]) \in Nat
        /\ step[c] \in 0..(MaxSteps + 1)
    BY ClientFacts
  <2>. QED
    BY <1>4, <2>1
<1>6. head[c] = Len(events') => SubSeq(m, 1, persisted[c]) = Replay(events')
  BY <1>1, <1>5, ClientFacts DEF Open
<1>7. StreamWellFormed' /\ events' \in Seq(Event) /\ head[c] \in 0..Len(events')
  BY <1>1, ClientFacts DEF StreamWellFormed, Paired
<1>8. a \in Steps /\ a \in Opened
  BY DEF Steps, Working, Opened
<1>9. Paired(m, a = "executing")
  BY <1>3, <1>4 DEF Paired
<1>10. a = "executing" => m[Len(m)] = "calls"
  BY <1>3, <1>4
<1>11. Allowed(events', a, head[c], m, persisted[c], step[c], TRUE)
  BY <1>1, <1>2, <1>3, <1>4, <1>5, <1>6, <1>7, <1>8, <1>9, <1>10 DEF Allowed
<1>. QED
  BY <1>1, <1>7, <1>11, ClientMoves

LEMMA RunToolsInv ==
  ASSUME SessionInv, NEW c \in Client, RunTools(c)
  PROVE  SessionInv'
<1>. DEFINE x == "results"
            m == Append(messages[c], x)
<1>1. /\ Moved(c, "looping", head[c], m, persisted[c], step[c] + 1, ok[c]) /\ events' = events
      /\ pc[c] = "executing"
  BY ClientFacts DEF RunTools, Goto, Moved
<1>2. /\ Paired(messages[c], TRUE) /\ head[c] > 0 /\ step[c] <= MaxSteps
      /\ messages[c] # <<>> /\ messages[c][Len(messages[c])] = "calls"
  BY <1>1, ClientFacts DEF ClientInv, Open, Paired
<1>3. x \in Message /\ x = "results"
  BY DEF Message
<1>. HIDE DEF x
<1>4. /\ m \in Seq(Message) /\ Len(m) = Len(messages[c]) + 1
      /\ \A p \in 0..Len(messages[c]) : SubSeq(m, 1, p) = SubSeq(messages[c], 1, p)
      /\ Paired(m, FALSE)
  <2>. DEFINE old == messages[c]
  <2>1. old \in Seq(Message)
    BY ClientFacts
  <2>. HIDE DEF old, m
  <2>2. /\ Append(old, x) \in Seq(Message) /\ Len(Append(old, x)) = Len(old) + 1
        /\ \A p \in 0..Len(old) : SubSeq(Append(old, x), 1, p) = SubSeq(old, 1, p)
        /\ (Paired(old, TRUE) /\ old # <<>> /\ old[Len(old)] = "calls" => Paired(Append(old, x), FALSE))
    BY <1>3, <2>1, HistoryGrows, Zenon
  <2>. QED
    BY <1>2, <1>3, <2>2 DEF old, m
<1>. HIDE DEF m
<1>5. /\ persisted[c] \in 0..Len(m) /\ ok[c] \in BOOLEAN /\ step[c] + 1 \in 0..(MaxSteps + 1)
      /\ SubSeq(m, 1, persisted[c]) = SubSeq(messages[c], 1, persisted[c])
  <2>1. /\ persisted[c] \in 0..Len(messages[c]) /\ Len(messages[c]) \in Nat
        /\ ok[c] \in BOOLEAN /\ step[c] \in 0..(MaxSteps + 1)
    BY ClientFacts
  <2>. QED
    BY <1>2, <1>4, <2>1, BoundsAssumption
<1>6. head[c] = Len(events') => SubSeq(m, 1, persisted[c]) = Replay(events')
  BY <1>1, <1>5, ClientFacts DEF Open
<1>7. StreamWellFormed' /\ events' \in Seq(Event) /\ head[c] \in 0..Len(events')
  BY <1>1, ClientFacts DEF StreamWellFormed, Paired
<1>8. Allowed(events', "looping", head[c], m, persisted[c], step[c] + 1, ok[c])
  BY <1>2, <1>4, <1>5, <1>6, <1>7 DEF Allowed, Steps, Working, Paired
<1>. QED
  BY <1>1, <1>7, <1>8, ClientMoves

-----------------------------------------------------------------------------
(* Appends *)

LEMMA StartSessionInv ==
  ASSUME SessionInv, NEW c \in Client, StartSession(c)
  PROVE  SessionInv'
<1>1. CASE pc' = [pc EXCEPT ![c] = "failed"] /\ AppendFails
  <2>1. UNCHANGED <<events, head, messages, persisted, step>> /\ ok' = [ok EXCEPT ![c] = ok[c]]
    BY <1>1, ClientFacts DEF StartSession, AppendFails
  <2>2. ok[c] \in BOOLEAN /\ pc[c] = "opening" /\ "failed" \in Steps /\ "failed" \notin Opened
    BY ClientFacts DEF StartSession, Goto, Steps, Over, Opened
  <2>. QED
    BY <1>1, <2>1, <2>2, PassesOn
<1>2. CASE pc' = [pc EXCEPT ![c] = "ready"] /\ Append_(c, <<"start">>)
  <2>1. /\ pc[c] = "opening" /\ messages[c] = <<>> /\ persisted[c] = 0
        /\ events \in Seq(Event) /\ Len(events) = 0
    BY <1>2, ClientFacts DEF StartSession, Goto, ClientInv, Append_
  <2>2. /\ events' \in Seq(Event) /\ Len(events') = 1 /\ events'[1] = "start"
        /\ Paired(events', FALSE) /\ Replay(events') = <<>>
    BY <1>2, <2>1, SessionStarts DEF Append_
  <2>3. Moved(c, "ready", 1, <<>>, 0, step[c], ok[c])
    <3>1. Len(<<"start">>) = 1
      OBVIOUS
    <3>2. head' = [head EXCEPT ![c] = 1]
      BY <1>2, <2>1, <3>1 DEF Append_
    <3>3. /\ messages = [messages EXCEPT ![c] = <<>>] /\ persisted = [persisted EXCEPT ![c] = 0]
          /\ step = [step EXCEPT ![c] = step[c]] /\ ok = [ok EXCEPT ![c] = ok[c]]
      BY <2>1, ClientFacts
    <3>. QED
      BY <1>2, <3>2, <3>3 DEF StartSession, Moved
  <2>4. StreamWellFormed'
    BY <2>2 DEF StreamWellFormed, Paired
  <2>5. Allowed(events', "ready", 1, <<>>, 0, step[c], ok[c])
    <3>1. <<>> \in Seq(Message) /\ Len(<<>>) = 0 /\ SubSeq(<<>>, 1, 0) = <<>>
      OBVIOUS
    <3>2. step[c] \in 0..(MaxSteps + 1) /\ ok[c] \in BOOLEAN
      BY ClientFacts
    <3>. QED
      BY <2>2, <3>1, <3>2 DEF Allowed, Steps, Opened, Paired
  <2>. QED
    BY <2>1, <2>2, <2>3, <2>4, <2>5, ClientMoves
<1>. QED
  BY <1>1, <1>2 DEF StartSession, Goto

\* An append to a stream that has started keeps the marks of it well placed.
LEMMA StreamGrows ==
  ASSUME StreamWellFormed, events \in Seq(Event), Len(events) > 0, Len(events') \in Nat,
         Len(events) <= Len(events'), Paired(events', FALSE),
         \A j \in 1..Len(events) : events'[j] = events[j],
         \A j \in (Len(events) + 1)..Len(events') :
           /\ events'[j] # "start"
           /\ events'[j] = "epoch" => j < Len(events') /\ events'[j + 1] = "summary"
  PROVE  StreamWellFormed'
<1>1. WellMarked(events)
  BY DEF StreamWellFormed, WellMarked
<1>. DEFINE t == events'
<1>2. WellMarked(t)
  <2>. HIDE DEF t
  <2>. SUFFICES /\ Len(events) \in Nat /\ Len(t) \in Nat /\ Len(events) > 0 /\ Len(events) <= Len(t)
                /\ WellMarked(events) /\ \A j \in 1..Len(events) : t[j] = events[j]
                /\ \A j \in (Len(events) + 1)..Len(t) :
                     t[j] # "start" /\ (t[j] = "epoch" => j < Len(t) /\ t[j + 1] = "summary")
    BY MarksStay
  <2>1. Len(events) \in Nat
    OBVIOUS
  <2>. QED
    BY <1>1, <2>1, Zenon DEF t
<1>. QED
  BY <1>2 DEF WellMarked, StreamWellFormed, Paired

LEMMA CompactInv ==
  ASSUME SessionInv, NEW c \in Client, Compact(c)
  PROVE  SessionInv'
<1>1. CASE pc' = [pc EXCEPT ![c] = "failed"] /\ AppendFails /\ UNCHANGED <<messages, persisted>>
  <2>1. UNCHANGED <<events, head, messages, persisted, step>> /\ ok' = [ok EXCEPT ![c] = ok[c]]
    BY <1>1, ClientFacts DEF Compact, AppendFails
  <2>2. ok[c] \in BOOLEAN /\ pc[c] = "summarizing" /\ "failed" \in Steps /\ "failed" \notin Opened
    BY ClientFacts DEF Compact, Goto, Steps, Over, Opened
  <2>. QED
    BY <1>1, <2>1, <2>2, PassesOn
<1>2. CASE /\ pc' = [pc EXCEPT ![c] = "ready"] /\ Append_(c, <<"epoch", "summary">>)
           /\ messages' = [messages EXCEPT ![c] = <<"summary">>]
           /\ persisted' = [persisted EXCEPT ![c] = 1]
  <2>1. /\ pc[c] = "summarizing" /\ head[c] = Len(events) /\ head[c] > 0
        /\ events \in Seq(Event) /\ Len(events) \in Nat /\ Paired(events, FALSE) /\ StreamWellFormed
    BY <1>2, ClientFacts DEF Compact, Goto, ClientInv, Append_, Open
  <2>2. /\ events' \in Seq(Event) /\ Len(events') = Len(events) + 2
        /\ \A j \in 1..Len(events) : events'[j] = events[j]
        /\ events'[Len(events) + 1] = "epoch" /\ events'[Len(events) + 2] = "summary"
        /\ Paired(events', FALSE) /\ Replay(events') = <<"summary">>
    BY <1>2, <2>1, EpochBegins DEF Append_
  <2>3. StreamWellFormed'
    <3>1. ASSUME NEW j \in (Len(events) + 1)..Len(events')
          PROVE  /\ events'[j] # "start"
                 /\ events'[j] = "epoch" => j < Len(events') /\ events'[j + 1] = "summary"
      <4>1. j = Len(events) + 1 \/ j = Len(events) + 2
        BY <2>1, <2>2
      <4>. QED
        BY <2>1, <2>2, <4>1
    <3>2. Len(events') \in Nat /\ Len(events) <= Len(events')
      BY <2>1, <2>2
    <3>. QED
      BY <2>1, <2>2, <3>1, <3>2, StreamGrows
  <2>4. Moved(c, "ready", Len(events'), <<"summary">>, 1, step[c], ok[c])
    <3>1. head' = [head EXCEPT ![c] = Len(events')]
      BY <1>2, <2>2 DEF Append_
    <3>. QED
      BY <1>2, <3>1, ClientFacts DEF Compact, Moved
  <2>5. Allowed(events', "ready", Len(events'), <<"summary">>, 1, step[c], ok[c])
    <3>1. /\ <<"summary">> \in Seq(Message) /\ Len(<<"summary">>) = 1
          /\ SubSeq(<<"summary">>, 1, 1) = <<"summary">>
      <4>1. <<"summary">> \in Seq(Message)
        BY DEF Message
      <4>2. Len(<<"summary">>) = 1
        OBVIOUS
      <4>. DEFINE m == <<"summary">>
      <4>. HIDE DEF m
      <4>3. m \in Seq(Message) => SubSeq(m, 1, Len(m)) = m
        OBVIOUS
      <4>. QED
        BY <4>1, <4>2, <4>3 DEF m
    <3>2. step[c] \in 0..(MaxSteps + 1) /\ ok[c] \in BOOLEAN
      BY ClientFacts
    <3>3. Paired(<<"summary">>, FALSE)
      BY DEF Paired
    <3>4. Len(events') \in Nat /\ Len(events') > 0
      BY <2>1, <2>2
    <3>. QED
      BY <2>2, <3>1, <3>2, <3>3, <3>4 DEF Allowed, Steps, Paired
  <2>6. Len(events) < Len(events')
    BY <2>1, <2>2
  <2>. QED
    BY <2>2, <2>3, <2>4, <2>5, <2>6, ClientMoves
<1>. QED
  BY <1>1, <1>2 DEF Compact, Goto

LEMMA AfterTurnIs ==
  ASSUME NEW c \in Client
  PROVE  AfterTurn(c) \in {"ready", "done", "failed"}
BY DEF AfterTurn

LEMMA PersistNewInv ==
  ASSUME SessionInv, NEW c \in Client, PersistNew(c)
  PROVE  SessionInv'
<1>. DEFINE a == AfterTurn(c)
<1>1. a \in Steps /\ a \notin {"idle", "opening", "reading", "executing"}
  BY AfterTurnIs DEF Steps, Over
<1>2. pc' = [pc EXCEPT ![c] = a] /\ pc[c] = "persisting" /\ Open(c) /\ pc[c] \in Opened
  BY DEF PersistNew, Goto, Open, Opened
<1>. HIDE DEF a
<1>3. CASE AppendFails /\ UNCHANGED persisted
  <2>1. UNCHANGED <<events, head, messages, persisted, step>> /\ ok' = [ok EXCEPT ![c] = ok[c]]
    BY <1>3, ClientFacts DEF PersistNew, AppendFails
  <2>2. ok[c] \in BOOLEAN /\ pc[c] # "executing"
    BY <1>2, ClientFacts
  <2>. QED
    BY <1>1, <1>2, <2>1, <2>2, PassesOn
<1>4. CASE Append_(c, Unsaved(c)) /\ persisted' = [persisted EXCEPT ![c] = Len(messages[c])]
  <2>. DEFINE m == messages[c]
              p == persisted[c]
              u == SubSeq(m, p + 1, Len(m))
  <2>1. /\ head[c] = Len(events) /\ head[c] > 0 /\ events \in Seq(Event) /\ Len(events) \in Nat
        /\ Paired(events, FALSE) /\ StreamWellFormed /\ Paired(m, FALSE)
        /\ SubSeq(m, 1, p) = Replay(events) /\ m \in Seq(Message) /\ p \in 0..Len(m)
        /\ Len(m) \in Nat
    BY <1>2, <1>4, ClientFacts DEF ClientInv, Append_, Paired
  <2>2. events' = events \o u /\ head' = [head EXCEPT ![c] = Len(events) + Len(u)]
    BY <1>4 DEF Append_, Unsaved
  <2>3. /\ events' \in Seq(Event) /\ Len(events') = Len(events) + Len(m) - p
        /\ \A j \in 1..Len(events) : events'[j] = events[j]
        /\ \A j \in (Len(events) + 1)..Len(events') : events'[j] \in Message
        /\ Paired(events', FALSE) /\ Replay(events') = m
    <3>. HIDE DEF m, p
    <3>. QED
      BY <2>1, <2>2, UnsavedContinues
  <2>4. Len(u) = Len(m) - p
    BY <2>1, SubSeqProperties
  <2>5. Len(events') = Len(events) + Len(u)
    <3>. HIDE DEF m, p, u
    <3>. QED
      BY <2>1, <2>3, <2>4
  <2>6. Len(events') \in Nat /\ Len(events) <= Len(events')
    <3>. HIDE DEF m, p, u
    <3>. QED
      BY <2>1, <2>3
  <2>7. StreamWellFormed'
    <3>1. \A j \in (Len(events) + 1)..Len(events') : events'[j] \notin Marker
      BY <2>3 DEF Message, Marker
    <3>. QED
      BY <2>1, <2>3, <2>6, <3>1, StreamGrows DEF Marker
  <2>8. events' = events \/ Len(events) < Len(events')
    <3>1. CASE Len(events) = Len(events')
      BY <2>1, <2>3, <3>1, SeqEqual
    <3>. QED
      BY <2>1, <2>6, <3>1
  <2>9. Moved(c, a, Len(events'), m, Len(m), step[c], ok[c])
    BY <1>2, <1>4, <2>2, <2>5, ClientFacts DEF PersistNew, Moved
  <2>10. Allowed(events', a, Len(events'), m, Len(m), step[c], ok[c])
    <3>1. step[c] \in 0..(MaxSteps + 1) /\ ok[c] \in BOOLEAN
      BY ClientFacts
    <3>2. SubSeq(m, 1, Len(m)) = m /\ Len(m) \in 0..Len(m)
      <4>. HIDE DEF m
      <4>. QED
        BY <2>1
    <3>3. Paired(m, a = "executing")
      BY <1>1, <2>1 DEF Paired
    <3>4. Len(events') > 0
      BY <2>1, <2>6
    <3>. HIDE DEF m
    <3>. QED
      BY <1>1, <2>1, <2>3, <2>6, <3>1, <3>2, <3>3, <3>4 DEF Allowed
  <2>. QED
    BY <2>3, <2>7, <2>8, <2>9, <2>10, ClientMoves
<1>. QED
  BY <1>3, <1>4 DEF PersistNew

-----------------------------------------------------------------------------
(* Every step *)

LEMMA SessionNext ==
  ASSUME SessionInv, [Next]_vars
  PROVE  SessionInv'
<1>1. ASSUME NEW c \in Client, ReadHead(c) PROVE SessionInv'
  BY <1>1, ReadHeadInv
<1>2. ASSUME NEW c \in Client, MaybeCompact(c) \/ SummaryFails(c) \/ LoopFails(c) \/ Quit(c)
      PROVE SessionInv'
  <2>. DEFINE a == pc'[c]
              b == ok'[c]
  <2>1. /\ UNCHANGED <<events, head, messages, persisted, step>>
        /\ pc' = [pc EXCEPT ![c] = a] /\ ok' = [ok EXCEPT ![c] = b]
        /\ pc[c] \in Opened /\ pc[c] # "executing"
    BY <1>2, ClientFacts DEF MaybeCompact, SummaryFails, LoopFails, Quit, Goto, Opened
  <2>2. a \in {"summarizing", "failed", "persisting", "done"} /\ b \in BOOLEAN
    <3>1. a \in {"summarizing", "failed", "persisting", "done"}
      BY <1>2, ClientFacts DEF MaybeCompact, SummaryFails, LoopFails, Quit, Goto
    <3>2. ok \in [Client -> BOOLEAN] /\ (ok' = ok \/ ok' = [ok EXCEPT ![c] = FALSE])
      BY <1>2 DEF MaybeCompact, SummaryFails, LoopFails, Quit, SessionInv, TypeOK
    <3>. QED
      BY <3>1, <3>2
  <2>. HIDE DEF a, b
  <2>3. a \in Steps /\ a \notin {"idle", "opening", "reading", "executing"}
    BY <2>2 DEF Steps, Working, Over
  <2>. QED
    BY <2>1, <2>2, <2>3, PassesOn
<1>3. ASSUME NEW c \in Client, PushUser(c) PROVE SessionInv'
  BY <1>3, PushUserInv
<1>4. ASSUME NEW c \in Client, Generate(c) PROVE SessionInv'
  <2>1. ASSUME Answer(c, "calls", "executing") PROVE SessionInv'
    BY <2>1, AnswerInv
  <2>2. ASSUME NEW x \in {"reply", "cut"}, Answer(c, x, "persisting") PROVE SessionInv'
    <3>. DEFINE a == "persisting"
    <3>1. Answer(c, x, a) /\ (a = "executing" <=> x = "calls")
      BY <2>2
    <3>2. x \in {"reply", "cut", "calls"} /\ a \in {"persisting", "executing"}
      BY <2>2
    <3>. HIDE DEF a
    <3>. QED
      BY <3>1, <3>2, AnswerInv, Zenon
  <2>. QED
    BY <1>4, <2>1, <2>2 DEF Generate
<1>5. ASSUME NEW c \in Client, StartSession(c) PROVE SessionInv'
  BY <1>5, StartSessionInv
<1>6. ASSUME NEW c \in Client, ReadEvents(c) PROVE SessionInv'
  BY <1>6, ReadEventsInv
<1>7. ASSUME NEW c \in Client, Compact(c) PROVE SessionInv'
  BY <1>7, CompactInv
<1>8. ASSUME NEW c \in Client, RunTools(c) PROVE SessionInv'
  BY <1>8, RunToolsInv
<1>9. ASSUME NEW c \in Client, PersistNew(c) PROVE SessionInv'
  BY <1>9, PersistNewInv
<1>10. ASSUME NEW c \in Client, Restart(c) PROVE SessionInv'
  BY <1>10, RestartInv
<1>11. CASE UNCHANGED vars
  <2>. USE <1>11 DEF vars, SessionInv
  <2>1. TypeOK' /\ (persisted \in [Client -> Nat])'
    BY DEF TypeOK
  <2>2. StreamWellFormed'
    BY DEF StreamWellFormed, Paired
  <2>3. ViewIsReplay'
    BY DEF ViewIsReplay, Open
  <2>4. \A c \in Client : ClientInv(c)'
    BY DEF ClientInv, Open, Paired
  <2>. QED
    BY <2>1, <2>2, <2>3, <2>4
<1>. QED
  BY <1>1, <1>2, <1>3, <1>4, <1>5, <1>6, <1>7, <1>8, <1>9, <1>10, <1>11 DEF Next, ClientStep

THEOREM SessionInvAlways == Spec => []SessionInv
<1>1. Init => SessionInv
  BY SessionInit
<1>2. SessionInv /\ [Next]_vars => SessionInv'
  BY SessionNext
<1>. QED
  BY <1>1, <1>2, PTL DEF Spec

\* Whoever appends, compacts, loses a race or dies: the stream stays well formed, what a
\* client would append to is what it has replayed, and what it sends to the model pairs
\* each call with its results (DurableSession, EventStore::append, run_agent_loop).
THEOREM HistoryAlwaysSound == Spec => []HistoryIsSound
<1>1. SessionInv => HistoryIsSound
  BY DEF SessionInv, HistoryIsSound, SentHistoryIsPaired, ClientInv, Paired
<1>. QED
  BY <1>1, SessionInvAlways, PTL

\* The step of AppendsSeeAll.
Seen(c) ==
  /\ Len(events) < Len(events') /\ SubSeq(events', 1, Len(events)) = events
  /\ head'[c] = Len(events')
  /\ Len(Replay(events)) <= Len(messages[c])
  /\ SubSeq(messages[c], 1, Len(Replay(events))) = Replay(events)

\* An append that leaves anything behind appends to what its writer has seen.
LEMMA AppendSees ==
  ASSUME SessionInv, NEW c \in Client, NEW batch \in Seq(Event), Append_(c, batch),
         events' # events,
         SubSeq(messages[c], 1, persisted[c]) = Replay(events)
  PROVE  Seen(c)
<1>1. /\ events' = events \o batch /\ events \in Seq(Event) /\ batch # <<>>
      /\ head \in [Client -> 0..Len(events)]
  <2>1. events \in Seq(Event) /\ head \in [Client -> 0..Len(events)]
    BY DEF SessionInv, TypeOK, Event
  <2>2. batch = <<>> => events \o batch = events
    BY <2>1
  <2>. QED
    BY <2>1, <2>2 DEF Append_
<1>2. /\ events' \in Seq(Event) /\ Len(events') = Len(events) + Len(batch)
      /\ \A i \in 1..(Len(events) + Len(batch)) :
           events'[i] = IF i <= Len(events) THEN events[i] ELSE batch[i - Len(events)]
  BY <1>1, ConcatProperties
<1>3. Len(events) \in Nat /\ Len(batch) \in Nat /\ Len(batch) > 0
  BY <1>1
<1>4. Len(events) < Len(events')
  BY <1>2, <1>3
<1>5. SubSeq(events', 1, Len(events)) = events
  <2>1. /\ SubSeq(events', 1, Len(events)) \in Seq(Event)
        /\ Len(SubSeq(events', 1, Len(events))) = Len(events)
        /\ \A i \in 1..Len(events) : SubSeq(events', 1, Len(events))[i] = events'[i]
    BY <1>2, <1>3, SubSeqProperties
  <2>2. \A i \in 1..Len(events) : SubSeq(events', 1, Len(events))[i] = events[i]
    BY <1>2, <1>3, <2>1
  <2>. QED
    BY <1>1, <2>1, <2>2, SeqEqual
<1>6. head'[c] = Len(events')
  BY <1>1, <1>2 DEF Append_
<1>7. /\ Len(Replay(events)) = persisted[c] /\ persisted[c] \in 0..Len(messages[c])
      /\ Len(messages[c]) \in Nat
  <2>1. /\ messages[c] \in Seq(Message) /\ Len(messages[c]) \in Nat
        /\ persisted[c] \in 0..Len(messages[c])
    BY ClientFacts
  <2>2. Len(SubSeq(messages[c], 1, persisted[c])) = persisted[c]
    BY <2>1, SubSeqProperties
  <2>. QED
    BY <2>1, <2>2
<1>. QED
  BY <1>4, <1>5, <1>6, <1>7 DEF Seen

\* Nothing in the stream is ever written over, and whoever adds to it has replayed all that
\* was there: optimistic concurrency over a head and a replay read in two statements.
THEOREM EveryAppendSeesAll == Spec => AppendsSeeAll
<1>1. ASSUME SessionInv, [Next]_vars, events' # events
      PROVE  \E c \in Client : Seen(c)
  <2>1. PICK c \in Client : StartSession(c) \/ Compact(c) \/ PersistNew(c)
    BY <1>1 DEF Next, vars, ClientStep, ReadHead, MaybeCompact, PushUser, ReadEvents,
                SummaryFails, Generate, Answer, LoopFails, RunTools, Quit, Restart
  <2>2. CASE StartSession(c)
    <3>1. Append_(c, <<"start">>) /\ pc[c] = "opening"
      BY <1>1, <2>2 DEF StartSession, Goto, AppendFails
    <3>2. <<"start">> \in Seq(Event)
      BY DEF Event, Marker
    <3>3. messages[c] = <<>> /\ persisted[c] = 0 /\ Len(events) = 0 /\ events \in Seq(Event)
      BY <1>1, <3>1, ClientFacts DEF ClientInv, Append_
    <3>4. SubSeq(messages[c], 1, persisted[c]) = Replay(events)
      <4>1. IsLastMarker(events, 0)
        BY <3>3 DEF IsLastMarker, IsBase
      <4>2. Replay(events) \in Seq(Message) /\ Len(Replay(events)) = Len(events) - 0
        BY <3>3, <4>1, ReplayIs
      <4>3. Replay(events) = <<>>
        BY <3>3, <4>2
      <4>. QED
        BY <3>3, <4>3
    <3>. QED
      BY <1>1, <3>1, <3>2, <3>4, AppendSees
  <2>3. CASE Compact(c)
    <3>1. Append_(c, <<"epoch", "summary">>) /\ pc[c] = "summarizing"
      BY <1>1, <2>3 DEF Compact, Goto, AppendFails
    <3>2. <<"epoch", "summary">> \in Seq(Event)
      BY DEF Event, Marker, Message
    <3>3. SubSeq(messages[c], 1, persisted[c]) = Replay(events)
      BY <1>1, <3>1, ClientFacts DEF Open, Append_
    <3>. QED
      BY <1>1, <3>1, <3>2, <3>3, AppendSees
  <2>4. CASE PersistNew(c)
    <3>. DEFINE u == Unsaved(c)
    <3>1. Append_(c, u) /\ pc[c] = "persisting"
      BY <1>1, <2>4 DEF PersistNew, Goto, AppendFails
    <3>2. u \in Seq(Event)
      <4>1. /\ messages[c] \in Seq(Message) /\ persisted[c] \in 0..Len(messages[c])
            /\ Len(messages[c]) \in Nat
        BY <1>1, ClientFacts
      <4>2. messages[c] \in Seq(Event)
        BY <4>1 DEF Event
      <4>. QED
        BY <4>1, <4>2, SubSeqProperties DEF Unsaved
    <3>3. SubSeq(messages[c], 1, persisted[c]) = Replay(events)
      BY <1>1, <3>1, ClientFacts DEF Open, Append_
    <3>. HIDE DEF u
    <3>. QED
      BY <1>1, <3>1, <3>2, <3>3, AppendSees
  <2>. QED
    BY <2>1, <2>2, <2>3, <2>4
<1>2. SessionInv /\ [Next]_vars =>
        [events' # events =>
           /\ Len(events) < Len(events') /\ SubSeq(events', 1, Len(events)) = events
           /\ \E c \in Client :
                /\ head'[c] = Len(events')
                /\ Len(Replay(events)) <= Len(messages[c])
                /\ SubSeq(messages[c], 1, Len(Replay(events))) = Replay(events)]_vars
  BY <1>1, Zenon DEF Seen
<1>3. Spec => []SessionInv
  BY SessionInvAlways
<1>. QED
  BY <1>2, <1>3, PTL DEF Spec, AppendsSeeAll

-----------------------------------------------------------------------------
(* What pieces make when they are put together *)

\* The pieces q that are put together up to the nth.
Joined(q, n, f) == f = [i \in 1..n |-> IF i = 1 THEN q[i] ELSE f[i - 1] \o q[i]]

LEMMA PiecesJoin ==
  ASSUME NEW q, NEW n \in Nat
  PROVE  \E f : Joined(q, n, f)
<1>. DEFINE T == {m \in Nat : ~\E f : Joined(q, m, f)}
<1>. SUFFICES ASSUME T # {} PROVE FALSE
  OBVIOUS
<1>1. PICK m \in T : \A k \in T : m <= k
  <2>1. T \subseteq Nat
    OBVIOUS
  <2>. HIDE DEF T
  <2>. QED
    BY <2>1, LeastOfNaturals
<1>2. m \in Nat /\ ~\E f : Joined(q, m, f)
  OBVIOUS
<1>3. m # 0
  <2>1. Joined(q, 0, [i \in 1..0 |-> 0])
    BY DEF Joined
  <2>. QED
    BY <1>2, <2>1
<1>4. PICK f : Joined(q, m - 1, f)
  <2>1. m - 1 \in Nat
    BY <1>2, <1>3
  <2>2. m - 1 \in T => m <= m - 1
    BY <1>1
  <2>. QED
    BY <1>2, <2>1, <2>2
<1>. DEFINE g == [i \in 1..m |-> IF i = m THEN (IF i = 1 THEN q[i] ELSE f[i - 1] \o q[i]) ELSE f[i]]
<1>5. \A i \in 1..(m - 1) : f[i] = IF i = 1 THEN q[i] ELSE f[i - 1] \o q[i]
  BY <1>4 DEF Joined
<1>6. ASSUME NEW i \in 1..m PROVE g[i] = IF i = 1 THEN q[i] ELSE g[i - 1] \o q[i]
  <2>1. CASE i = 1
    BY <1>2, <1>5, <2>1
  <2>2. CASE i # 1
    <3>1. i - 1 \in 1..m /\ i - 1 # m
      BY <1>2, <2>2
    <3>2. g[i - 1] = f[i - 1]
      BY <3>1
    <3>3. g[i] = f[i - 1] \o q[i]
      <4>1. CASE i = m
        BY <2>2, <4>1
      <4>2. CASE i # m
        <5>1. i \in 1..(m - 1)
          BY <1>2, <4>2
        <5>2. f[i] = f[i - 1] \o q[i]
          BY <1>5, <2>2, <5>1
        <5>. QED
          BY <4>2, <5>2
      <4>. QED
        BY <4>1, <4>2
    <3>. QED
      BY <2>2, <3>2, <3>3
  <2>. QED
    BY <2>1, <2>2
<1>7. g = [i \in 1..m |-> g[i]]
  OBVIOUS
<1>. HIDE DEF g
<1>8. Joined(q, m, g)
  BY <1>6, <1>7 DEF Joined
<1>. QED
  BY <1>2, <1>8

\* FlattenSeq puts its pieces together one by one.
LEMMA FlattenSteps ==
  ASSUME NEW S, NEW q \in Seq(Seq(S)), q # <<>>
  PROVE  \E f \in [DOMAIN q -> Seq(S)] :
           /\ f[1] = q[1] /\ \A i \in 2..Len(q) : f[i] = f[i - 1] \o q[i]
           /\ FlattenSeq(q) = f[Len(q)]
<1>. DEFINE f == CHOOSE h : Joined(q, Len(q), h)
<1>1. Len(q) \in Nat /\ Len(q) # 0 /\ DOMAIN q = 1..Len(q)
  OBVIOUS
<1>2. Joined(q, Len(q), f)
  BY <1>1, PiecesJoin, Zenon
<1>3. FlattenSeq(q) = f[Len(q)]
  BY <1>1 DEF FlattenSeq, Joined
<1>. HIDE DEF f
<1>4. \A i \in 1..Len(q) : f[i] = IF i = 1 THEN q[i] ELSE f[i - 1] \o q[i]
  BY <1>2 DEF Joined
<1>5. \A i \in 1..Len(q) : f[i] \in Seq(S)
  <2>. DEFINE T == {i \in 1..Len(q) : f[i] \notin Seq(S)}
  <2>. SUFFICES ASSUME T # {} PROVE FALSE
    OBVIOUS
  <2>1. PICK i \in T : \A j \in T : i <= j
    <3>1. T \subseteq Nat
      BY <1>1
    <3>. HIDE DEF T
    <3>. QED
      BY <3>1, LeastOfNaturals
  <2>2. i \in 1..Len(q) /\ f[i] \notin Seq(S)
    OBVIOUS
  <2>3. i # 1
    BY <1>4, <2>2
  <2>4. f[i - 1] \in Seq(S)
    <3>1. i - 1 \in 1..Len(q)
      BY <2>2, <2>3
    <3>2. i - 1 \in T => i <= i - 1
      BY <2>1
    <3>. QED
      BY <2>2, <3>1, <3>2
  <2>5. f[i] = f[i - 1] \o q[i]
    BY <1>4, <2>2, <2>3
  <2>6. q[i] \in Seq(S)
    BY <1>1, <2>2
  <2>. QED
    BY <2>2, <2>4, <2>5, <2>6, ConcatProperties
<1>6. f \in [DOMAIN q -> Seq(S)]
  BY <1>1, <1>2, <1>5 DEF Joined
<1>7. f[1] = q[1] /\ \A i \in 2..Len(q) : f[i] = f[i - 1] \o q[i]
  <2>1. 1 \in 1..Len(q) /\ \A i \in 2..Len(q) : i \in 1..Len(q) /\ i # 1
    BY <1>1
  <2>. QED
    BY <1>4, <2>1, Zenon
<1>. QED
  BY <1>3, <1>6, <1>7

\* ... from nothing on.
Parts(q, f) == f[0] = <<>> /\ \A i \in 1..Len(q) : f[i] = f[i - 1] \o q[i]

LEMMA FlattenParts ==
  ASSUME NEW S, NEW q \in Seq(Seq(S))
  PROVE  \E f \in [0..Len(q) -> Seq(S)] : Parts(q, f) /\ FlattenSeq(q) = f[Len(q)]
<1>1. CASE q = <<>>
  <2>. DEFINE f == [i \in 0..0 |-> <<>>]
  <2>1. Len(q) = 0 /\ FlattenSeq(q) = <<>>
    BY <1>1 DEF FlattenSeq
  <2>2. f \in [0..Len(q) -> Seq(S)] /\ f[0] = <<>>
    BY <2>1
  <2>. HIDE DEF f
  <2>. QED
    BY <2>1, <2>2 DEF Parts
<1>2. CASE q # <<>>
  <2>1. Len(q) \in Nat \ {0} /\ DOMAIN q = 1..Len(q) /\ q[1] \in Seq(S)
    BY <1>2
  <2>2. PICK g \in [DOMAIN q -> Seq(S)] :
           /\ g[1] = q[1] /\ \A i \in 2..Len(q) : g[i] = g[i - 1] \o q[i]
           /\ FlattenSeq(q) = g[Len(q)]
    BY <1>2, FlattenSteps
  <2>. DEFINE f == [i \in 0..Len(q) |-> IF i = 0 THEN <<>> ELSE g[i]]
  <2>3. f \in [0..Len(q) -> Seq(S)] /\ f[Len(q)] = g[Len(q)]
    BY <2>1
  <2>4. ASSUME NEW i \in 1..Len(q) PROVE f[i] = f[i - 1] \o q[i]
    <3>1. CASE i = 1
      BY <2>1, <2>2, <3>1, ConcatEmptySeq
    <3>2. CASE i # 1
      <4>1. i \in 2..Len(q) /\ i - 1 \in 0..Len(q) /\ i - 1 # 0 /\ i # 0 /\ i \in 0..Len(q)
        BY <2>1, <3>2
      <4>2. f[i] = g[i] /\ f[i - 1] = g[i - 1]
        BY <4>1
      <4>. QED
        BY <2>2, <4>1, <4>2
    <3>. QED
      BY <3>1, <3>2
  <2>5. f[0] = <<>>
    BY <2>1
  <2>. HIDE DEF f
  <2>. QED
    BY <2>2, <2>3, <2>4, <2>5 DEF Parts
<1>. QED
  BY <1>1, <1>2

\* Whatever puts the pieces together, makes what FlattenSeq makes.
LEMMA FlattenIs ==
  ASSUME NEW S, NEW q \in Seq(Seq(S)), NEW h, Parts(q, h)
  PROVE  FlattenSeq(q) = h[Len(q)]
<1>1. PICK f \in [0..Len(q) -> Seq(S)] : Parts(q, f) /\ FlattenSeq(q) = f[Len(q)]
  BY FlattenParts
<1>2. Len(q) \in Nat
  OBVIOUS
<1>. DEFINE T == {i \in 0..Len(q) : f[i] # h[i]}
<1>. SUFFICES ASSUME T # {} PROVE FALSE
  BY <1>1, <1>2
<1>3. PICK i \in T : \A j \in T : i <= j
  <2>1. T \subseteq Nat
    BY <1>2
  <2>. HIDE DEF T
  <2>. QED
    BY <2>1, LeastOfNaturals
<1>4. i \in 0..Len(q) /\ f[i] # h[i] /\ i # 0
  BY <1>1 DEF Parts
<1>5. f[i - 1] = h[i - 1]
  <2>1. i - 1 \in 0..Len(q)
    BY <1>2, <1>4
  <2>2. i - 1 \in T => i <= i - 1
    BY <1>3
  <2>. QED
    BY <1>4, <2>1, <2>2
<1>6. i \in 1..Len(q)
  BY <1>2, <1>4
<1>. QED
  BY <1>1, <1>4, <1>5, <1>6 DEF Parts

\* One more of what a sequence begins with.
LEMMA OneMore ==
  ASSUME NEW S, NEW e \in Seq(S), NEW n \in 1..Len(e)
  PROVE  SubSeq(e, 1, n) = SubSeq(e, 1, n - 1) \o <<e[n]>>
<1>1. n \in Nat /\ n - 1 \in Nat /\ Len(e) \in Nat /\ DOMAIN e = 1..Len(e) /\ e[n] \in S
  OBVIOUS
<1>2. \A k \in 0..Len(e) : SubSeq(e, 1, k) \in Seq(S) /\ Len(SubSeq(e, 1, k)) = k
  BY <1>1
<1>3. SubSeq(e, 1, n - 1) \o <<e[n]>> \in Seq(S) /\ Len(SubSeq(e, 1, n - 1) \o <<e[n]>>) = n
  <2>1. n - 1 \in 0..Len(e) /\ <<e[n]>> \in Seq(S) /\ Len(<<e[n]>>) = 1
    BY <1>1
  <2>. QED
    BY <1>1, <1>2, <2>1
<1>4. ASSUME NEW i \in 1..n PROVE SubSeq(e, 1, n)[i] = (SubSeq(e, 1, n - 1) \o <<e[n]>>)[i]
  BY <1>1
<1>. QED
  BY <1>1, <1>2, <1>3, <1>4, SeqEqual

\* Pieces of one element each are what they hold, and a first piece of none is left out.
LEMMA FlattenOnes ==
  ASSUME NEW S, NEW e \in Seq(S), NEW q, q = [i \in 1..Len(e) |-> <<e[i]>>]
  PROVE  FlattenSeq(q) = e
<1>1. Len(e) \in Nat /\ DOMAIN e = 1..Len(e)
  OBVIOUS
<1>2. q \in Seq(Seq(S)) /\ Len(q) = Len(e)
  BY <1>1
<1>. DEFINE h == [i \in 0..Len(e) |-> SubSeq(e, 1, i)]
<1>3. h[0] = <<>> /\ h[Len(e)] = e
  BY <1>1
<1>4. ASSUME NEW i \in 1..Len(q) PROVE h[i] = h[i - 1] \o q[i]
  <2>1. i \in 1..Len(e) /\ i \in 0..Len(e) /\ i - 1 \in 0..Len(e) /\ q[i] = <<e[i]>>
    BY <1>1, <1>2
  <2>. QED
    BY <2>1, OneMore
<1>. HIDE DEF h
<1>5. Parts(q, h)
  BY <1>3, <1>4 DEF Parts
<1>. QED
  BY <1>2, <1>3, <1>5, FlattenIs

LEMMA FlattenRest ==
  ASSUME NEW S, NEW e \in Seq(S), NEW q,
         q = [i \in 1..(Len(e) + 1) |-> IF i = 1 THEN <<>> ELSE <<e[i - 1]>>]
  PROVE  FlattenSeq(q) = e
<1>1. Len(e) \in Nat /\ DOMAIN e = 1..Len(e)
  OBVIOUS
<1>2. q \in Seq(Seq(S)) /\ Len(q) = Len(e) + 1
  BY <1>1
<1>. DEFINE h == [i \in 0..(Len(e) + 1) |-> IF i = 0 THEN <<>> ELSE SubSeq(e, 1, i - 1)]
<1>3. h[0] = <<>> /\ h[Len(e) + 1] = e
  BY <1>1
<1>4. ASSUME NEW i \in 1..Len(q) PROVE h[i] = h[i - 1] \o q[i]
  <2>1. i \in 1..(Len(e) + 1)
    BY <1>2
  <2>2. CASE i = 1
    BY <1>1, <2>1, <2>2
  <2>3. CASE i # 1
    <3>1. i - 1 \in 1..Len(e) /\ h[i] = SubSeq(e, 1, i - 1) /\ h[i - 1] = SubSeq(e, 1, (i - 1) - 1)
          /\ q[i] = <<e[i - 1]>>
      BY <1>1, <2>1, <2>3
    <3>. QED
      BY <3>1, OneMore
  <2>. QED
    BY <2>2, <2>3
<1>. HIDE DEF h
<1>5. Parts(q, h)
  BY <1>3, <1>4 DEF Parts
<1>. QED
  BY <1>2, <1>3, <1>5, FlattenIs

\* Pieces of which only the first has something make the first.
LEMMA FlattenFirst ==
  ASSUME NEW S, NEW e \in Seq(S), NEW n \in Nat, NEW q,
         q = [i \in 1..n |-> IF i = 1 THEN e ELSE <<>>]
  PROVE  FlattenSeq(q) = IF n = 0 THEN <<>> ELSE e
<1>. DEFINE h == [i \in 0..n |-> IF i = 0 THEN <<>> ELSE e]
<1>1. q \in Seq(Seq(S)) /\ Len(q) = n
  <2>1. <<>> \in Seq(S)
    OBVIOUS
  <2>2. q \in [1..n -> Seq(S)]
    BY <2>1
  <2>. QED
    BY <2>2
<1>2. h[0] = <<>> /\ h[n] = IF n = 0 THEN <<>> ELSE e
  OBVIOUS
<1>3. ASSUME NEW i \in 1..n PROVE h[i] = h[i - 1] \o q[i]
  <2>1. h[i] = e /\ h[i - 1] = IF i = 1 THEN <<>> ELSE e
    OBVIOUS
  <2>2. e \o <<>> = e /\ <<>> \o e = e
    BY ConcatEmptySeq
  <2>. QED
    BY <2>1, <2>2
<1>. HIDE DEF h
<1>4. Parts(q, h)
  BY <1>1, <1>2, <1>3 DEF Parts
<1>. QED
  BY <1>1, <1>2, <1>4, FlattenIs

LEMMA FlattenNone ==
  ASSUME NEW n \in Nat PROVE FlattenSeq([i \in 1..n |-> <<>>]) = <<>>
<1>. DEFINE q == [i \in 1..n |-> <<>>]  r == [i \in 1..n |-> IF i = 1 THEN <<>> ELSE <<>>]
<1>1. q = r
  OBVIOUS
<1>2. <<>> \in Seq({})
  OBVIOUS
<1>3. FlattenSeq(r) = <<>>
  BY <1>2, FlattenFirst
<1>. QED
  BY <1>1, <1>3

-----------------------------------------------------------------------------
(* What the messages of a history are sent as *)

\* The ids of the tools of a turn.
Ids(i) == [k \in 1..Uses |-> <<i, k>>]

\* What is spoken has its text and uses no tool.
LEMMA SpokenValues ==
  ASSUME NEW t
  PROVE  /\ Values(<<Text(t)>>, "text") = <<t>>
         /\ Values(<<Text(t)>>, "tool_use") = <<>> /\ Values(<<Text(t)>>, "tool_result") = <<>>
<1>. DEFINE c == <<Text(t)>>
            q(y) == [i \in DOMAIN c |-> IF c[i].type = y THEN <<c[i].of>> ELSE <<>>]
<1>1. DOMAIN c = 1..1 /\ c[1].type = "text" /\ c[1].of = t
  BY DEF Text
<1>2. q("text") = [i \in 1..1 |-> IF i = 1 THEN <<t>> ELSE <<>>]
  BY <1>1
<1>3. q("tool_use") = [i \in 1..1 |-> <<>>] /\ q("tool_result") = [i \in 1..1 |-> <<>>]
  BY <1>1
<1>4. \A y : Values(c, y) = FlattenSeq(q(y))
  BY DEF Values
<1>. HIDE DEF c, q
<1>5. <<t>> \in Seq({t}) /\ 1 \in Nat
  OBVIOUS
<1>6. FlattenSeq(q("text")) = <<t>>
  <2>. DEFINE e == <<t>>
  <2>1. e \in Seq({t}) /\ 1 \in Nat /\ 1 # 0 /\ q("text") = [i \in 1..1 |-> IF i = 1 THEN e ELSE <<>>]
    BY <1>2
  <2>. HIDE DEF e
  <2>2. FlattenSeq(q("text")) = IF 1 = 0 THEN <<>> ELSE e
    BY <2>1, FlattenFirst
  <2>. QED
    BY <2>2 DEF e
<1>7. FlattenSeq(q("tool_use")) = <<>> /\ FlattenSeq(q("tool_result")) = <<>>
  BY <1>3, <1>5, FlattenNone
<1>. QED
  BY <1>4, <1>6, <1>7 DEF c

LEMMA IdsAre ==
  ASSUME NEW n
  PROVE  /\ Ids(n) \in Seq({<<n, k>> : k \in 1..Uses}) /\ Len(Ids(n)) = Uses
         /\ \A k \in 1..Uses : Ids(n)[k] = <<n, k>>
<1>1. Ids(n) \in [1..Uses -> {<<n, k>> : k \in 1..Uses}] /\ \A k \in 1..Uses : Ids(n)[k] = <<n, k>>
  BY DEF Ids
<1>. QED
  BY <1>1, UsesAssumption

\* A turn has its text, and the ids of its tools in their order.
LEMMA CallValues ==
  ASSUME NEW n
  PROVE  /\ Values(Calls(n).content, "text") = <<Spoken>>
         /\ Values(Calls(n).content, "tool_use") = Ids(n)
         /\ Values(Calls(n).content, "tool_result") = <<>>
<1>. DEFINE c == Calls(n).content
            q(t) == [i \in DOMAIN c |-> IF c[i].type = t THEN <<c[i].of>> ELSE <<>>]
<1>1. /\ DOMAIN c = 1..(Uses + 1) /\ c[1] = Text(Spoken)
      /\ \A i \in 1..(Uses + 1) : i # 1 => c[i] = ToolUse(<<n, i - 1>>)
  BY UsesAssumption DEF Calls, ChatMessage
<1>2. c[1].type = "text" /\ c[1].of = Spoken
  BY <1>1 DEF Text
<1>3. \A i \in 1..(Uses + 1) : i # 1 => c[i].type = "tool_use" /\ c[i].of = <<n, i - 1>>
  <2>1. ASSUME NEW i \in 1..(Uses + 1), i # 1 PROVE c[i].type = "tool_use" /\ c[i].of = <<n, i - 1>>
    <3>1. c[i] = ToolUse(<<n, i - 1>>)
      BY <1>1, <2>1
    <3>. HIDE DEF c
    <3>. QED
      BY <3>1 DEF ToolUse
  <2>. QED
    BY <2>1
<1>4. \A t : Values(c, t) = FlattenSeq(q(t))
  BY DEF Values
<1>5. \A t : q(t) = [i \in 1..(Uses + 1) |-> IF c[i].type = t THEN <<c[i].of>> ELSE <<>>]
  BY <1>1
<1>. HIDE DEF c, q
<1>6. q("text") = [i \in 1..(Uses + 1) |-> IF i = 1 THEN <<Spoken>> ELSE <<>>]
  <2>1. \A i \in 1..(Uses + 1) : (IF c[i].type = "text" THEN <<c[i].of>> ELSE <<>>) = IF i = 1 THEN <<Spoken>> ELSE <<>>
    BY <1>2, <1>3
  <2>. QED
    BY <1>5, <2>1
<1>7. q("tool_result") = [i \in 1..(Uses + 1) |-> <<>>]
  <2>1. \A i \in 1..(Uses + 1) : (IF c[i].type = "tool_result" THEN <<c[i].of>> ELSE <<>>) = <<>>
    BY <1>2, <1>3
  <2>. QED
    BY <1>5, <2>1
<1>8. q("tool_use") = [i \in 1..(Len(Ids(n)) + 1) |-> IF i = 1 THEN <<>> ELSE <<Ids(n)[i - 1]>>]
  <2>1. ASSUME NEW i \in 1..(Uses + 1)
        PROVE  (IF c[i].type = "tool_use" THEN <<c[i].of>> ELSE <<>>) = IF i = 1 THEN <<>> ELSE <<Ids(n)[i - 1]>>
    <3>1. CASE i = 1
      BY <1>2, <3>1
    <3>2. CASE i # 1
      <4>1. i - 1 \in 1..Uses
        BY <3>2, UsesAssumption
      <4>2. c[i].type = "tool_use" /\ c[i].of = Ids(n)[i - 1]
        BY <1>3, <3>2, <4>1, IdsAre
      <4>. QED
        BY <3>2, <4>2
    <3>. QED
      BY <3>1, <3>2
  <2>2. Len(Ids(n)) = Uses
    BY IdsAre
  <2>. QED
    BY <1>5, <2>1, <2>2
<1>9. FlattenSeq(q("text")) = <<Spoken>>
  <2>1. <<Spoken>> \in Seq({Spoken}) /\ Uses + 1 \in Nat /\ Uses + 1 # 0
    BY UsesAssumption
  <2>. QED
    BY <1>6, <2>1, FlattenFirst
<1>10. FlattenSeq(q("tool_result")) = <<>>
  <2>1. Uses + 1 \in Nat
    BY UsesAssumption
  <2>. QED
    BY <1>7, <2>1, FlattenNone
<1>11. FlattenSeq(q("tool_use")) = Ids(n)
  BY <1>8, IdsAre, FlattenRest
<1>. QED
  BY <1>4, <1>9, <1>10, <1>11 DEF c

\* Results have the ids they are of.
LEMMA ResultValues ==
  ASSUME NEW n
  PROVE  /\ Values(Results(n).content, "text") = <<>>
         /\ Values(Results(n).content, "tool_use") = <<>>
         /\ Values(Results(n).content, "tool_result") = Ids(n)
<1>. DEFINE c == Results(n).content
            q(t) == [i \in DOMAIN c |-> IF c[i].type = t THEN <<c[i].of>> ELSE <<>>]
<1>1. c = [i \in 1..Uses |-> ToolResult(<<n, i>>)]
  BY DEF Results, ChatMessage
<1>2. DOMAIN c = 1..Uses /\ \A i \in 1..Uses : c[i].type = "tool_result" /\ c[i].of = Ids(n)[i]
  <2>1. DOMAIN c = 1..Uses
    BY <1>1
  <2>2. ASSUME NEW i \in 1..Uses PROVE c[i].type = "tool_result" /\ c[i].of = Ids(n)[i]
    <3>1. c[i] = ToolResult(<<n, i>>) /\ Ids(n)[i] = <<n, i>>
      BY <1>1, IdsAre
    <3>. HIDE DEF c
    <3>. QED
      BY <3>1 DEF ToolResult
  <2>. QED
    BY <2>1, <2>2
<1>3. \A t : Values(c, t) = FlattenSeq(q(t))
  BY DEF Values
<1>4. q("text") = [i \in 1..Uses |-> <<>>] /\ q("tool_use") = [i \in 1..Uses |-> <<>>]
  BY <1>2
<1>5. q("tool_result") = [i \in 1..Len(Ids(n)) |-> <<Ids(n)[i]>>]
  <2>1. Len(Ids(n)) = Uses
    BY IdsAre
  <2>. QED
    BY <1>2, <2>1
<1>. HIDE DEF c, q
<1>6. FlattenSeq(q("text")) = <<>> /\ FlattenSeq(q("tool_use")) = <<>>
  BY <1>4, FlattenNone, UsesAssumption
<1>7. FlattenSeq(q("tool_result")) = Ids(n)
  BY <1>5, IdsAre, FlattenOnes
<1>. QED
  BY <1>3, <1>6, <1>7 DEF c

\* What a message of a history is sent as to openai.
Pieces(m) == [i \in DOMAIN m |-> IF History(m)[i].role = "user" THEN OpenaiUser(History(m)[i].content)
                                 ELSE OpenaiAssistant(History(m)[i].content)]

ToolMessages(n) == [k \in 1..Uses |-> ToolMessage(<<n, k>>)]

LEMMA TextOfUser ==
  ASSUME NEW t PROVE OpenaiUser(<<Text(t)>>) = <<Plain("user", <<t>>, <<>>)>>
<1>. DEFINE c == <<Text(t)>>  p == <<Plain("user", <<t>>, <<>>)>>
<1>1. Values(c, "text") = <<t>> /\ Values(c, "tool_result") = <<>> /\ <<t>> # <<>>
  BY SpokenValues
<1>. HIDE DEF c
<1>2. [i \in DOMAIN Values(c, "tool_result") |-> ToolMessage(Values(c, "tool_result")[i])] = <<>>
  BY <1>1
<1>3. OpenaiUser(c) = <<>> \o p
  BY <1>1, <1>2 DEF OpenaiUser
<1>4. p \in Seq({Plain("user", <<t>>, <<>>)})
  OBVIOUS
<1>5. <<>> \o p = p
  BY <1>4, ConcatEmptySeq
<1>. QED
  BY <1>3, <1>5 DEF c

LEMMA UserPieces ==
  /\ OpenaiUser(<<Text(Spoken)>>) = <<Plain("user", <<Spoken>>, <<>>)>>
  /\ \A n : OpenaiUser(Results(n).content) = ToolMessages(n)
<1>1. ASSUME NEW n PROVE OpenaiUser(Results(n).content) = ToolMessages(n)
  <2>. DEFINE c == Results(n).content
  <2>1. Values(c, "text") = <<>> /\ Values(c, "tool_result") = Ids(n)
    BY ResultValues
  <2>. HIDE DEF c
  <2>2. DOMAIN Ids(n) = 1..Uses /\ \A k \in 1..Uses : Ids(n)[k] = <<n, k>>
    BY DEF Ids
  <2>3. [i \in DOMAIN Values(c, "tool_result") |-> ToolMessage(Values(c, "tool_result")[i])] = ToolMessages(n)
    BY <2>1, <2>2 DEF ToolMessages
  <2>4. OpenaiUser(c) = ToolMessages(n) \o <<>>
    BY <2>1, <2>3 DEF OpenaiUser
  <2>. DEFINE T == {ToolMessage(<<n, k>>) : k \in 1..Uses}
  <2>5. ToolMessages(n) \in Seq(T)
    <3>1. ToolMessages(n) \in [1..Uses -> T]
      BY DEF ToolMessages
    <3>. HIDE DEF T
    <3>. QED
      BY <3>1, UsesAssumption
  <2>6. ToolMessages(n) \o <<>> = ToolMessages(n)
    BY <2>5, ConcatEmptySeq
  <2>. QED
    BY <2>4, <2>6 DEF c
<1>. QED
  BY <1>1, TextOfUser

LEMMA AssistantPieces ==
  /\ OpenaiAssistant(<<Text(Spoken)>>) = <<Plain("assistant", <<Spoken>>, <<>>)>>
  /\ \A n : OpenaiAssistant(Calls(n).content) = <<Plain("assistant", <<Spoken>>, Ids(n))>>
BY SpokenValues, CallValues DEF OpenaiAssistant

LEMMA PiecesAre ==
  ASSUME NEW m \in Seq(Message), NEW i \in 1..Len(m)
  PROVE  /\ m[i] \in {"task", "summary"} => Pieces(m)[i] = <<Plain("user", <<Spoken>>, <<>>)>>
         /\ m[i] = "reply" => Pieces(m)[i] = <<Plain("assistant", <<Spoken>>, <<>>)>>
         /\ m[i] = "calls" => Pieces(m)[i] = <<Plain("assistant", <<Spoken>>, Ids(i))>>
         /\ m[i] = "results" => Pieces(m)[i] = ToolMessages(i - 1)
<1>1. DOMAIN m = 1..Len(m)
  OBVIOUS
<1>2. Pieces(m)[i] = IF History(m)[i].role = "user" THEN OpenaiUser(History(m)[i].content)
                     ELSE OpenaiAssistant(History(m)[i].content)
  BY <1>1 DEF Pieces
<1>3. /\ m[i] \in {"task", "summary"} => History(m)[i] = Said("user")
      /\ m[i] = "reply" => History(m)[i] = Said("assistant")
      /\ m[i] = "calls" => History(m)[i] = Calls(i)
      /\ m[i] = "results" => History(m)[i] = Results(i - 1)
  BY <1>1 DEF History
<1>4. /\ Said("user").role = "user" /\ Said("user").content = <<Text(Spoken)>>
      /\ Said("assistant").role = "assistant" /\ Said("assistant").content = <<Text(Spoken)>>
      /\ Calls(i).role = "assistant" /\ Results(i - 1).role = "user"
  BY DEF Said, Calls, Results, ChatMessage
<1>5. CASE m[i] \in {"task", "summary"}
  BY <1>2, <1>3, <1>4, <1>5, UserPieces
<1>6. CASE m[i] = "reply"
  BY <1>2, <1>3, <1>4, <1>6, AssistantPieces
<1>7. CASE m[i] = "calls"
  BY <1>2, <1>3, <1>4, <1>7, AssistantPieces
<1>8. CASE m[i] = "results"
  BY <1>2, <1>3, <1>4, <1>8, UserPieces
<1>. QED
  BY <1>5, <1>6, <1>7, <1>8

-----------------------------------------------------------------------------
(* Calls and their results, as messages are added *)

\* The messages that openai is sent.
Sent == {Plain("system", System, <<>>), Plain("user", <<Spoken>>, <<>>), Plain("assistant", <<Spoken>>, <<>>)}
        \cup {Plain("assistant", <<Spoken>>, Ids(i)) : i \in Nat}
        \cup {ToolMessage(<<i, k>>) : i \in Nat, k \in 1..Uses}

\* Every call has its result, but for those at place p.
Answered(g, p) ==
  \A i \in 1..Len(g) : i # p => \A k \in DOMAIN g[i].calls :
    i + k \in 1..Len(g) /\ g[i + k] = ToolMessage(g[i].calls[k])

FromCalls(g) ==
  \A i \in 1..Len(g) : g[i].role = "tool" => \E j \in 1..(i - 1) : i - j \in DOMAIN g[j].calls

LEMMA SentTogether ==
  ASSUME NEW u \in Seq(Sent), NEW v \in Seq(Sent), NEW w \in Seq(Sent)
  PROVE  /\ u \o v \in Seq(Sent) /\ Len(u \o v) = Len(u) + Len(v) /\ Len(v) \in Nat
         /\ (u \o v) \o w = u \o (v \o w)
<1>1. u \o v \in Seq(Sent) /\ Len(u \o v) = Len(u) + Len(v) /\ Len(v) \in Nat
  OBVIOUS
<1>2. (u \o v) \o w = u \o (v \o w)
  BY ConcatAssociative, SMTT(30)
<1>. QED
  BY <1>1, <1>2

LEMMA ToolsAreSent ==
  ASSUME NEW n \in Nat PROVE ToolMessages(n) \in Seq(Sent)
<1>1. \A k \in 1..Uses : ToolMessage(<<n, k>>) \in Sent
  BY DEF Sent
<1>2. ToolMessages(n) \in [1..Uses -> Sent]
  BY <1>1, Zenon DEF ToolMessages
<1>. QED
  BY <1>2, UsesAssumption

LEMMA SentCalls ==
  ASSUME NEW x \in Sent
  PROVE  /\ \E n \in Nat : DOMAIN x.calls = 1..n
         /\ x.role = "tool" => x.calls = <<>>
<1>1. \A i : DOMAIN Ids(i) = 1..Uses
  BY DEF Ids
<1>2. DOMAIN <<>> = 1..0
  OBVIOUS
<1>3. x.calls = <<>> \/ \E i \in Nat : x.calls = Ids(i) /\ x.role = "assistant"
  BY DEF Sent, Plain, ToolMessage
<1>. QED
  BY <1>1, <1>2, <1>3, UsesAssumption

LEMMA SaysMore ==
  ASSUME NEW g \in Seq(Sent), NEW x \in Sent, x.role # "tool", Answered(g, 0), FromCalls(g)
  PROVE  /\ FromCalls(g \o <<x>>) /\ Answered(g \o <<x>>, Len(g) + 1)
         /\ x.calls = <<>> => Answered(g \o <<x>>, 0)
<1>. DEFINE h == g \o <<x>>
<1>1. Len(g) \in Nat /\ Len(h) = Len(g) + 1 /\ h[Len(g) + 1] = x /\ \A i \in 1..Len(g) : h[i] = g[i] /\ g[i] \in Sent
  OBVIOUS
<1>. HIDE DEF h
<1>2. ASSUME NEW i \in 1..Len(g), NEW k \in DOMAIN h[i].calls
      PROVE  i + k \in 1..Len(h) /\ h[i + k] = ToolMessage(h[i].calls[k])
  <2>1. h[i] = g[i] /\ i # 0
    BY <1>1
  <2>2. i + k \in 1..Len(g) /\ g[i + k] = ToolMessage(g[i].calls[k])
    BY <1>2, <2>1 DEF Answered
  <2>. QED
    BY <1>1, <2>1, <2>2
<1>3. ASSUME NEW i \in 1..Len(h), h[i].role = "tool"
      PROVE  \E j \in 1..(i - 1) : i - j \in DOMAIN h[j].calls
  <2>1. i \in 1..Len(g) /\ h[i] = g[i]
    BY <1>1, <1>3
  <2>2. PICK j \in 1..(i - 1) : i - j \in DOMAIN g[j].calls
    BY <1>3, <2>1 DEF FromCalls
  <2>3. j \in 1..Len(g) /\ h[j] = g[j]
    BY <1>1, <2>1, <2>2
  <2>. QED
    BY <2>2, <2>3
<1>4. \A i \in 1..Len(h) : i = Len(g) + 1 \/ i \in 1..Len(g)
  BY <1>1
<1>5. Answered(h, Len(g) + 1) /\ FromCalls(h)
  BY <1>2, <1>3, <1>4 DEF Answered, FromCalls
<1>6. ASSUME x.calls = <<>> PROVE Answered(h, 0)
  <2>1. DOMAIN h[Len(g) + 1].calls = {}
    BY <1>1, <1>6
  <2>. QED
    BY <1>2, <1>4, <2>1 DEF Answered
<1>. QED
  BY <1>5, <1>6 DEF h

LEMMA ResultsFollow ==
  ASSUME NEW g \in Seq(Sent), g # <<>>, NEW n \in Nat, g[Len(g)].calls = Ids(n),
         Answered(g, Len(g)), FromCalls(g)
  PROVE  Answered(g \o ToolMessages(n), 0) /\ FromCalls(g \o ToolMessages(n))
<1>. DEFINE r == ToolMessages(n)  h == g \o r  l == Len(g)
<1>1. /\ r \in Seq(Sent) /\ Len(r) = Uses
      /\ \A k \in 1..Uses : r[k] = ToolMessage(<<n, k>>) /\ r[k].calls = <<>>
  <2>1. \A k \in 1..Uses : r[k] = ToolMessage(<<n, k>>) /\ r[k] \in Sent /\ r[k].calls = <<>>
    BY DEF ToolMessages, Sent, ToolMessage
  <2>2. r \in [1..Uses -> Sent]
    BY <2>1 DEF ToolMessages
  <2>. QED
    BY <2>1, <2>2, UsesAssumption
<1>. HIDE DEF r
<1>2. /\ l \in Nat \ {0} /\ Len(h) = l + Uses /\ Uses \in Nat
      /\ \A i \in 1..l : h[i] = g[i]
      /\ \A k \in 1..Uses : h[l + k] = r[k]
  BY <1>1, UsesAssumption
<1>3. DOMAIN Ids(n) = 1..Uses /\ \A k \in 1..Uses : Ids(n)[k] = <<n, k>>
  BY DEF Ids
<1>. HIDE DEF h, l
<1>4. g[l].calls = Ids(n) /\ Answered(g, l) /\ l = Len(g)
  BY DEF l
<1>5. \A i \in 1..Len(h) : i \in 1..l \/ \E k \in 1..Uses : i = l + k
  <2>. TAKE i \in 1..Len(h)
  <2>1. CASE i <= l
    BY <1>2, <2>1
  <2>2. CASE i > l
    <3>1. i - l \in 1..Uses /\ i = l + (i - l)
      BY <1>2, <2>2
    <3>. QED
      BY <3>1
  <2>. QED
    BY <1>2, <2>1, <2>2
<1>6. ASSUME NEW i \in 1..Len(h), NEW k \in DOMAIN h[i].calls
      PROVE  i + k \in 1..Len(h) /\ h[i + k] = ToolMessage(h[i].calls[k])
  <2>1. CASE i = l
    <3>1. h[i].calls = Ids(n) /\ k \in 1..Uses
      BY <1>2, <1>3, <1>4, <1>6, <2>1
    <3>2. h[i + k] = ToolMessage(<<n, k>>) /\ i + k \in 1..Len(h)
      BY <1>1, <1>2, <2>1, <3>1
    <3>. QED
      BY <1>3, <3>1, <3>2
  <2>2. CASE i \in 1..l /\ i # l
    <3>1. h[i] = g[i]
      BY <1>2, <2>2
    <3>2. i + k \in 1..l /\ g[i + k] = ToolMessage(g[i].calls[k])
      BY <1>4, <1>6, <2>2, <3>1 DEF Answered
    <3>. QED
      BY <1>2, <3>1, <3>2
  <2>3. CASE \E j \in 1..Uses : i = l + j
    <3>1. PICK j \in 1..Uses : i = l + j
      BY <2>3
    <3>2. h[i] = r[j]
      BY <1>2, <3>1
    <3>3. h[i].calls = <<>>
      BY <1>1, <3>2
    <3>. QED
      BY <1>6, <3>3
  <2>. QED
    BY <1>5, <2>1, <2>2, <2>3
<1>7. ASSUME NEW i \in 1..Len(h), h[i].role = "tool"
      PROVE  \E j \in 1..(i - 1) : i - j \in DOMAIN h[j].calls
  <2>1. CASE i \in 1..l
    <3>1. PICK j \in 1..(i - 1) : i - j \in DOMAIN g[j].calls
      BY <1>2, <1>4, <1>7, <2>1 DEF FromCalls
    <3>2. j \in 1..l /\ h[j] = g[j]
      BY <1>2, <2>1, <3>1
    <3>. QED
      BY <3>1, <3>2
  <2>2. CASE \E k \in 1..Uses : i = l + k
    <3>1. PICK k \in 1..Uses : i = l + k
      BY <2>2
    <3>2. l \in 1..(i - 1) /\ i - l = k /\ l \in 1..l
      BY <1>2, <3>1
    <3>3. DOMAIN h[l].calls = 1..Uses
      BY <1>2, <1>3, <1>4, <3>2
    <3>. QED
      BY <3>2, <3>3
  <2>. QED
    BY <1>5, <2>1, <2>2
<1>8. Answered(h, 0) /\ FromCalls(h)
  BY <1>6, <1>7 DEF Answered, FromCalls
<1>. QED
  BY <1>8 DEF h, r

-----------------------------------------------------------------------------
(* A history that pairs its calls is sent so *)

LEMMA OpenaiPairs ==
  ASSUME NEW m \in Seq(Message), Paired(m, FALSE), \A i \in DOMAIN m : m[i] # "cut"
  PROVE  OpenaiAnswersCalls(OpenaiMessages(System, History(m)))
<1>. DEFINE q == Pieces(m)  sys == <<Plain("system", System, <<>>)>>
<1>0. Len(m) \in Nat /\ DOMAIN m = 1..Len(m) /\ \A i \in 1..Len(m) : m[i] \in Message \ {"cut"}
  OBVIOUS
<1>1. q \in Seq(Seq(Sent)) /\ Len(q) = Len(m)
  <2>1. ASSUME NEW i \in 1..Len(m) PROVE q[i] \in Seq(Sent)
    <3>1. <<Plain("user", <<Spoken>>, <<>>)>> \in Seq(Sent) /\ <<Plain("assistant", <<Spoken>>, <<>>)>> \in Seq(Sent)
      BY DEF Sent
    <3>2. <<Plain("assistant", <<Spoken>>, Ids(i))>> \in Seq(Sent)
      BY <1>0 DEF Sent
    <3>3. ToolMessages(i - 1) \in Seq(Sent)
      <4>. DEFINE n == i - 1
      <4>1. n \in Nat
        BY <1>0
      <4>. HIDE DEF n
      <4>2. ToolMessages(n) \in Seq(Sent)
        BY <4>1, ToolsAreSent
      <4>. QED
        BY <4>2 DEF n
    <3>. QED
      BY <1>0, <3>1, <3>2, <3>3, PiecesAre DEF Message
  <2>2. DOMAIN q = 1..Len(m) /\ q = [i \in 1..Len(m) |-> q[i]]
    BY <1>0 DEF Pieces
  <2>. HIDE DEF q
  <2>. QED
    BY <1>0, <2>1, <2>2
<1>2. DOMAIN History(m) = DOMAIN m
  BY DEF History
<1>3. OpenaiMessages(System, History(m)) = sys \o FlattenSeq(q)
  BY <1>2 DEF OpenaiMessages, Pieces
<1>. HIDE DEF q
<1>4. PICK f \in [0..Len(q) -> Seq(Sent)] : Parts(q, f) /\ FlattenSeq(q) = f[Len(q)]
  BY <1>1, FlattenParts
<1>. DEFINE g(n) == sys \o f[n]
<1>5. sys \in Seq(Sent) /\ Len(sys) = 1 /\ sys[1].role = "system" /\ sys[1].calls = <<>>
  BY DEF Sent, Plain
<1>. HIDE DEF sys
<1>6. \A n \in 0..Len(m) : f[n] \in Seq(Sent) /\ g(n) \in Seq(Sent) /\ Len(g(n)) \in Nat /\ g(n) # <<>>
  <2>. TAKE n \in 0..Len(m)
  <2>. DEFINE u == f[n]
  <2>1. u \in Seq(Sent)
    BY <1>1, <1>4
  <2>. HIDE DEF u
  <2>2. sys \o u \in Seq(Sent) /\ Len(sys \o u) = 1 + Len(u) /\ Len(u) \in Nat
    BY <1>5, <2>1, SentTogether, Zenon
  <2>3. sys \o u # <<>>
    BY <2>2
  <2>. QED
    BY <2>1, <2>2, <2>3 DEF u
<1>7. ASSUME NEW n \in 1..Len(m)
      PROVE  g(n) = g(n - 1) \o q[n]
  <2>1. n - 1 \in 0..Len(m) /\ f[n - 1] \in Seq(Sent) /\ q[n] \in Seq(Sent)
    BY <1>0, <1>1, <1>6
  <2>2. f[n] = f[n - 1] \o q[n]
    BY <1>1, <1>4 DEF Parts
  <2>3. (sys \o f[n - 1]) \o q[n] = sys \o (f[n - 1] \o q[n])
    <3>. DEFINE u == f[n - 1]  w == q[n]
    <3>1. u \in Seq(Sent) /\ w \in Seq(Sent)
      BY <2>1
    <3>. HIDE DEF u, w
    <3>2. (sys \o u) \o w = sys \o (u \o w)
      BY <1>5, <3>1, SentTogether, Zenon
    <3>. QED
      BY <3>2 DEF u, w
  <2>. QED
    BY <2>2, <2>3
<1>. DEFINE R(n) == /\ FromCalls(g(n))
                    /\ IF n > 0 /\ m[n] = "calls"
                         THEN Answered(g(n), Len(g(n))) /\ g(n)[Len(g(n))].calls = Ids(n)
                         ELSE Answered(g(n), 0)
<1>8. R(0)
  <2>1. g(0) = sys
    BY <1>4, <1>5, ConcatEmptySeq DEF Parts
  <2>2. FromCalls(sys) /\ Answered(sys, 0)
    BY <1>5 DEF FromCalls, Answered
  <2>. QED
    BY <2>1, <2>2
<1>9. ASSUME NEW n \in 1..Len(m), R(n - 1) PROVE R(n)
  <2>0. n \in Nat /\ n > 0 /\ n - 1 \in Nat /\ n - 1 \in 0..Len(m)
    BY <1>0
  <2>. DEFINE d == g(n - 1)  e == g(n)
  <2>1. d \in Seq(Sent) /\ d # <<>> /\ Len(d) \in Nat /\ FromCalls(d) /\ e = d \o q[n]
    BY <1>6, <1>7, <1>9, <2>0
  <2>2. n - 1 > 0 /\ m[n - 1] = "calls" => Answered(d, Len(d)) /\ d[Len(d)].calls = Ids(n - 1)
    BY <1>9
  <2>3. ~(n - 1 > 0 /\ m[n - 1] = "calls") => Answered(d, 0)
    BY <1>9
  <2>4. R(n) <=> /\ FromCalls(e)
                 /\ IF m[n] = "calls" THEN Answered(e, Len(e)) /\ e[Len(e)].calls = Ids(n)
                    ELSE Answered(e, 0)
    BY <2>0, Zenon
  <2>. HIDE DEF d, e, g, R
  <2>5. CASE m[n] = "results"
    <3>1. n - 1 > 0 /\ m[n - 1] = "calls"
      BY <1>0, <2>5 DEF Paired
    <3>2. q[n] = ToolMessages(n - 1)
      BY <2>5, PiecesAre DEF q
    <3>3. Answered(e, 0) /\ FromCalls(e)
      BY <2>0, <2>1, <2>2, <3>1, <3>2, ResultsFollow
    <3>. QED
      BY <2>4, <2>5, <3>3
  <2>6. CASE m[n] # "results"
    <3>1. Answered(d, 0)
      <4>1. ~(n - 1 > 0 /\ m[n - 1] = "calls")
        <5>. SUFFICES ASSUME n - 1 > 0, m[n - 1] = "calls" PROVE FALSE
          OBVIOUS
        <5>1. n - 1 \in 1..Len(m) /\ (n - 1) + 1 = n
          BY <1>0, <2>0
        <5>2. m[(n - 1) + 1] = "results"
          BY <5>1 DEF Paired
        <5>. QED
          BY <2>6, <5>1, <5>2
      <4>. QED
        BY <2>3, <4>1
    <3>2. PICK x \in Sent : /\ q[n] = <<x>> /\ x.role # "tool"
                            /\ x.calls = IF m[n] = "calls" THEN Ids(n) ELSE <<>>
      <4>1. CASE m[n] \in {"task", "summary"}
        <5>1. q[n] = <<Plain("user", <<Spoken>>, <<>>)>>
          BY <4>1, PiecesAre DEF q
        <5>. QED
          BY <4>1, <5>1 DEF Sent, Plain
      <4>2. CASE m[n] = "reply"
        <5>1. q[n] = <<Plain("assistant", <<Spoken>>, <<>>)>>
          BY <4>2, PiecesAre DEF q
        <5>. QED
          BY <4>2, <5>1 DEF Sent, Plain
      <4>3. CASE m[n] = "calls"
        <5>1. q[n] = <<Plain("assistant", <<Spoken>>, Ids(n))>>
          BY <4>3, PiecesAre DEF q
        <5>. QED
          BY <2>0, <4>3, <5>1 DEF Sent, Plain
      <4>. QED
        BY <1>0, <2>6, <4>1, <4>2, <4>3 DEF Message
    <3>3. FromCalls(e) /\ Answered(e, Len(d) + 1) /\ (x.calls = <<>> => Answered(e, 0))
      BY <2>1, <3>1, <3>2, SaysMore
    <3>4. Len(e) = Len(d) + 1 /\ e[Len(d) + 1] = x
      BY <2>1, <3>2
    <3>. QED
      BY <2>4, <3>2, <3>3, <3>4
  <2>. QED
    BY <2>5, <2>6
<1>. HIDE DEF R
<1>10. R(Len(m))
  <2>. DEFINE T == {n \in 0..Len(m) : ~R(n)}
  <2>. SUFFICES ASSUME T # {} PROVE FALSE
    BY <1>0
  <2>1. PICK n \in T : \A k \in T : n <= k
    <3>1. T \subseteq Nat
      BY <1>0
    <3>. HIDE DEF T
    <3>. QED
      BY <3>1, LeastOfNaturals
  <2>2. n \in 0..Len(m) /\ ~R(n) /\ n # 0
    BY <1>8
  <2>3. n \in 1..Len(m) /\ n - 1 \in 0..Len(m)
    BY <1>0, <2>2
  <2>4. n - 1 \in T => n <= n - 1
    BY <2>1
  <2>5. R(n - 1)
    BY <2>3, <2>4
  <2>. QED
    BY <1>9, <2>2, <2>3, <2>5
<1>11. ~(Len(m) > 0 /\ m[Len(m)] = "calls")
  BY <1>0 DEF Paired
<1>12. Answered(g(Len(m)), 0) /\ FromCalls(g(Len(m))) /\ g(Len(m)) \in Seq(Sent)
  BY <1>0, <1>6, <1>10, <1>11 DEF R
<1>13. OpenaiMessages(System, History(m)) = g(Len(m))
  BY <1>1, <1>3, <1>4
<1>. HIDE DEF g
<1>14. ASSUME NEW d, d \in Seq(Sent), Answered(d, 0), FromCalls(d) PROVE OpenaiAnswersCalls(d)
  <2>1. DOMAIN d = 1..Len(d) /\ \A i \in 1..Len(d) : i # 0
    BY <1>14
  <2>2. \A i \in 1..Len(d) : \A k \in DOMAIN d[i].calls :
          i + k \in 1..Len(d) /\ d[i + k] = ToolMessage(d[i].calls[k])
    BY <1>14, <2>1, Zenon DEF Answered
  <2>. QED
    BY <1>14, <2>1, <2>2, Zenon DEF OpenaiAnswersCalls, FromCalls
<1>. QED
  BY <1>12, <1>13, <1>14

LEMMA AnthropicPairs ==
  ASSUME NEW m \in Seq(Message), Paired(m, FALSE), \A i \in DOMAIN m : m[i] # "cut"
  PROVE  AnthropicAnswersCalls(AnthropicMessages(History(m)))
<1>. DEFINE h == AnthropicMessages(History(m))
            calls(i) == Values(h[i].blocks, "tool_use")
            answers(i) == Values(h[i].blocks, "tool_result")
<1>1. Len(m) \in Nat /\ DOMAIN m = 1..Len(m) /\ \A i \in 1..Len(m) : m[i] \in Message \ {"cut"}
  OBVIOUS
<1>2. DOMAIN h = 1..Len(m) /\ \A i \in 1..Len(m) : h[i].blocks = History(m)[i].content
  BY <1>1 DEF AnthropicMessages, History
<1>3. Len(h) = Len(m)
  <2>1. h \in [1..Len(m) -> {h[i] : i \in 1..Len(m)}]
    BY <1>1 DEF AnthropicMessages, History
  <2>. HIDE DEF h
  <2>. QED
    BY <1>1, <2>1
<1>4. ASSUME NEW i \in 1..Len(m)
      PROVE  /\ calls(i) = IF m[i] = "calls" THEN Ids(i) ELSE <<>>
             /\ answers(i) = IF m[i] = "results" THEN Ids(i - 1) ELSE <<>>
  <2>0. h[i].blocks = History(m)[i].content
    BY <1>2
  <2>. HIDE DEF h
  <2>1. CASE m[i] \in {"task", "summary"}
    <3>1. History(m)[i].content = <<Text(Spoken)>>
      BY <1>1, <2>1 DEF History, Said, ChatMessage
    <3>. QED
      BY <2>0, <2>1, <3>1, SpokenValues
  <2>2. CASE m[i] = "reply"
    <3>1. History(m)[i].content = <<Text(Spoken)>>
      BY <1>1, <2>2 DEF History, Said, ChatMessage
    <3>. QED
      BY <2>0, <2>2, <3>1, SpokenValues
  <2>3. CASE m[i] = "calls"
    <3>1. History(m)[i] = Calls(i)
      BY <1>1, <2>3 DEF History
    <3>. QED
      BY <2>0, <2>3, <3>1, CallValues
  <2>4. CASE m[i] = "results"
    <3>1. History(m)[i] = Results(i - 1)
      BY <1>1, <2>4 DEF History
    <3>. QED
      BY <2>0, <2>4, <3>1, ResultValues
  <2>. QED
    BY <1>1, <2>1, <2>2, <2>3, <2>4 DEF Message
<1>. HIDE DEF h, calls, answers
<1>5. ASSUME NEW i \in 1..Len(m)
      PROVE  /\ answers(i) = IF i = 1 THEN <<>> ELSE calls(i - 1)
             /\ i = Len(m) => calls(i) = <<>>
  <2>1. m[i] = "results" => i > 1 /\ m[i - 1] = "calls"
    BY DEF Paired
  <2>2. m[i] = "calls" => i < Len(m) /\ m[i + 1] = "results"
    BY DEF Paired
  <2>3. CASE i = 1
    BY <1>1, <1>4, <2>1, <2>2, <2>3
  <2>4. CASE i # 1
    <3>1. i - 1 \in 1..Len(m) /\ (i - 1) + 1 = i
      BY <1>1, <2>4
    <3>2. m[i - 1] = "calls" => m[i] = "results"
      <4>1. m[i - 1] = "calls" => m[(i - 1) + 1] = "results"
        BY <3>1 DEF Paired
      <4>. QED
        BY <3>1, <4>1
    <3>3. calls(i - 1) = IF m[i - 1] = "calls" THEN Ids(i - 1) ELSE <<>>
      BY <1>4, <3>1
    <3>4. m[i - 1] = "calls" <=> m[i] = "results"
      BY <2>1, <3>2
    <3>5. answers(i) = calls(i - 1)
      BY <1>4, <3>3, <3>4
    <3>6. i = Len(m) => calls(i) = <<>>
      BY <1>1, <1>4, <2>2
    <3>. QED
      BY <2>4, <3>5, <3>6
  <2>. QED
    BY <2>3, <2>4
<1>. QED
  BY <1>2, <1>3, <1>5 DEF AnthropicAnswersCalls, calls, answers, h

LEMMA SentPairs ==
  ASSUME NEW m \in Seq(Message), Paired(m, FALSE), \A i \in DOMAIN m : m[i] # "cut"
  PROVE  PairsCallsWithResults(System, History(m), Tools)
BY OpenaiPairs, AnthropicPairs
   DEF PairsCallsWithResults, AgentRequest, OpenaiBody, AnthropicBody

-----------------------------------------------------------------------------
(* The requests of the squad *)

Talking == {"user", "assistant"}
Speech == [role : {"user", "assistant"}, content : Content]

LEMMA ChatIsSpeech ==
  ASSUME NEW s \in Seq(WireMsg)
  PROVE  OfRoles(s, Talking) \in Seq(Speech)
<1>. DEFINE q == [i \in DOMAIN s |-> IF s[i].role \in Talking THEN <<s[i]>> ELSE <<>>]
<1>1. Len(s) \in Nat /\ DOMAIN s = 1..Len(s) /\ \A i \in 1..Len(s) : s[i] \in WireMsg
  OBVIOUS
<1>2. ASSUME NEW i \in 1..Len(s) PROVE q[i] \in Seq(Speech)
  <2>1. CASE s[i].role \in Talking
    <3>1. s[i] \in Speech
      BY <1>1, <2>1 DEF WireMsg, Speech, Talking
    <3>. QED
      BY <1>1, <2>1, <3>1
  <2>2. CASE s[i].role \notin Talking
    BY <1>1, <2>2
  <2>. QED
    BY <2>1, <2>2
<1>3. q = [i \in 1..Len(s) |-> q[i]]
  BY <1>1
<1>4. OfRoles(s, Talking) = FlattenSeq(q)
  BY DEF OfRoles
<1>. HIDE DEF q
<1>5. q \in Seq(Seq(Speech)) /\ Len(q) \in Nat
  BY <1>1, <1>2, <1>3
<1>6. PICK f \in [0..Len(q) -> Seq(Speech)] : FlattenSeq(q) = f[Len(q)]
  BY <1>5, FlattenParts
<1>. QED
  BY <1>4, <1>5, <1>6

\* Messages that all have one of the roles stay as they are, and a system's before them goes.
LEMMA RolesStay ==
  ASSUME NEW S, NEW e \in Seq(S), NEW roles, \A i \in 1..Len(e) : e[i].role \in roles
  PROVE  /\ OfRoles(e, roles) = e
         /\ \A x : x.role \notin roles => OfRoles(<<x>> \o e, roles) = e
<1>1. Len(e) \in Nat /\ DOMAIN e = 1..Len(e)
  OBVIOUS
<1>2. OfRoles(e, roles) = e
  <2>. DEFINE q == [i \in DOMAIN e |-> IF e[i].role \in roles THEN <<e[i]>> ELSE <<>>]
  <2>1. q = [i \in 1..Len(e) |-> <<e[i]>>]
    BY <1>1
  <2>2. OfRoles(e, roles) = FlattenSeq(q)
    BY DEF OfRoles
  <2>. QED
    BY <2>1, <2>2, FlattenOnes
<1>3. ASSUME NEW x, x.role \notin roles PROVE OfRoles(<<x>> \o e, roles) = e
  <2>. DEFINE g == <<x>> \o e
              q == [i \in DOMAIN g |-> IF g[i].role \in roles THEN <<g[i]>> ELSE <<>>]
  <2>1. /\ DOMAIN g = 1..(Len(e) + 1) /\ g[1] = x
        /\ \A i \in 1..(Len(e) + 1) : i # 1 => i - 1 \in 1..Len(e) /\ g[i] = e[i - 1]
    <3>1. <<x>> \in Seq({x} \cup S) /\ e \in Seq({x} \cup S)
      OBVIOUS
    <3>. QED
      BY <1>1, <3>1, ConcatProperties
  <2>2. q = [i \in DOMAIN g |-> IF g[i].role \in roles THEN <<g[i]>> ELSE <<>>]
    OBVIOUS
  <2>3. OfRoles(g, roles) = FlattenSeq(q)
    BY DEF OfRoles
  <2>. HIDE DEF g, q
  <2>4. q = [i \in 1..(Len(e) + 1) |-> IF i = 1 THEN <<>> ELSE <<e[i - 1]>>]
    BY <1>3, <2>1, <2>2
  <2>5. FlattenSeq(q) = e
    BY <2>4, FlattenRest
  <2>. QED
    BY <2>3, <2>5 DEF g
<1>. QED
  BY <1>2, <1>3

\* The messages of a chat without tools.
LEMMA SpeechFields ==
  ASSUME NEW chat \in Seq([role : Talking, content : {<<Text(t)>> : t \in Content}]),
         NEW i \in 1..Len(chat)
  PROVE  chat[i].role \in Talking /\ chat[i].content \in {<<Text(t)>> : t \in Content}
<1>. DEFINE C == {<<Text(t)>> : t \in Content}  T == [role : Talking, content : C]
<1>1. chat[i] \in T
  <2>1. chat \in Seq(T)
    OBVIOUS
  <2>. HIDE DEF T
  <2>. QED
    BY <2>1
<1>. HIDE DEF C
<1>. QED
  BY <1>1 DEF C

\* What openai is sent of a chat without tools: a message for each.
LEMMA OpenaiSpeech ==
  ASSUME NEW chat \in Seq([role : Talking, content : {<<Text(t)>> : t \in Content}]), NEW system
  PROVE  LET heard == OfRoles(OpenaiMessages(system, chat), {"user", "assistant", "tool"})
         IN  /\ Len(heard) = Len(chat) /\ DOMAIN heard = 1..Len(heard)
             /\ \A i \in 1..Len(chat) : heard[i].role = chat[i].role
<1>. DEFINE piece(i) == IF chat[i].role = "user" THEN OpenaiUser(chat[i].content)
                        ELSE OpenaiAssistant(chat[i].content)
            e == [i \in 1..Len(chat) |-> Plain(chat[i].role, Values(chat[i].content, "text"), <<>>)]
            q == [i \in DOMAIN chat |-> piece(i)]
            roles == {"user", "assistant", "tool"}
            S == {e[i] : i \in 1..Len(chat)}
<1>1. Len(chat) \in Nat /\ DOMAIN chat = 1..Len(chat)
  OBVIOUS
<1>2. ASSUME NEW i \in 1..Len(chat) PROVE piece(i) = <<e[i]>>
  <2>1. chat[i].role \in Talking /\ chat[i].content \in {<<Text(t)>> : t \in Content}
    BY SpeechFields
  <2>2. PICK t \in Content : chat[i].content = <<Text(t)>>
    BY <2>1
  <2>3. e[i] = Plain(chat[i].role, <<t>>, <<>>)
    BY <2>2, SpokenValues
  <2>4. CASE chat[i].role = "user"
    BY <2>2, <2>3, <2>4, TextOfUser
  <2>5. CASE chat[i].role = "assistant"
    <3>1. OpenaiAssistant(<<Text(t)>>) = <<Plain("assistant", <<t>>, <<>>)>>
      BY SpokenValues DEF OpenaiAssistant
    <3>. QED
      BY <2>2, <2>3, <2>5, <3>1
  <2>. QED
    BY <2>1, <2>4, <2>5 DEF Talking
<1>3. e = [i \in 1..Len(chat) |-> e[i]] /\ \A i \in 1..Len(chat) : e[i].role = chat[i].role
  BY DEF Plain
<1>4. OpenaiMessages(system, chat) = <<Plain("system", system, <<>>)>> \o FlattenSeq(q)
  BY DEF OpenaiMessages
<1>5. q = [i \in 1..Len(chat) |-> <<e[i]>>]
  BY <1>1, <1>2
<1>. HIDE DEF e, q, piece
<1>6. e \in Seq(S) /\ Len(e) = Len(chat)
  <2>1. e \in [1..Len(chat) -> S]
    BY <1>3
  <2>. HIDE DEF S
  <2>. QED
    BY <1>1, <2>1
<1>7. FlattenSeq(q) = e
  BY <1>5, <1>6, FlattenOnes
<1>8. \A i \in 1..Len(e) : e[i].role \in roles
  <2>1. \A i \in 1..Len(chat) : chat[i].role \in Talking
    BY SpeechFields
  <2>. QED
    BY <1>3, <1>6, <2>1 DEF Talking
<1>. HIDE DEF S
<1>9. OfRoles(<<Plain("system", system, <<>>)>> \o e, roles) = e
  <2>. DEFINE x == Plain("system", system, <<>>)
  <2>1. x.role \notin roles
    BY DEF Plain
  <2>. HIDE DEF x, roles
  <2>2. OfRoles(<<x>> \o e, roles) = e
    BY <1>6, <1>8, <2>1, RolesStay
  <2>. QED
    BY <2>2 DEF x
<1>. QED
  BY <1>3, <1>4, <1>6, <1>7, <1>9

\* What the provider hears of a list of messages has the roles of what was said in it.
LEMMA HeardAsSaid ==
  ASSUME NEW s \in Seq(WireMsg)
  PROVE  LET said  == OfRoles(s, {"user", "assistant"})
             heard == OfRoles(Body(s).messages, {"user", "assistant", "tool"})
         IN  /\ Len(heard) = Len(said) /\ DOMAIN heard = 1..Len(heard)
             /\ \A i \in 1..Len(said) : heard[i].role = said[i].role
<1>. DEFINE said == OfRoles(s, Talking)  chat == CoreRequest(s).messages
            roles == {"user", "assistant", "tool"}
            T == [role : Talking, content : {<<Text(t)>> : t \in Content}]
<1>1. said \in Seq(Speech)
  BY ChatIsSpeech
<1>2. chat = [i \in DOMAIN said |-> ChatMessage(RoleOf(said[i].role), <<Text(said[i].content)>>)]
  BY DEF CoreRequest, Talking
<1>. HIDE DEF said, chat
<1>3. Len(said) \in Nat /\ DOMAIN said = 1..Len(said) /\ \A i \in 1..Len(said) : said[i] \in Speech
  BY <1>1
<1>4. ASSUME NEW i \in 1..Len(said) PROVE chat[i] \in T /\ chat[i].role = said[i].role
  <2>1. chat[i] = [role |-> said[i].role, content |-> <<Text(said[i].content)>>]
    BY <1>2, <1>3 DEF Speech, RoleOf, ChatMessage
  <2>. QED
    BY <1>3, <2>1 DEF Speech, Talking
<1>5. chat \in Seq(T) /\ Len(chat) = Len(said)
  <2>1. chat \in [1..Len(said) -> T]
    BY <1>2, <1>3, <1>4
  <2>. HIDE DEF T
  <2>. QED
    BY <1>3, <2>1
<1>6. CASE chosen = "openai"
  <2>1. Body(s).messages = OpenaiMessages(CoreRequest(s).system, chat)
    BY <1>6 DEF Body, OpenaiBody, chat
  <2>2. LET heard == OfRoles(OpenaiMessages(CoreRequest(s).system, chat), roles)
        IN  /\ Len(heard) = Len(chat) /\ DOMAIN heard = 1..Len(heard)
            /\ \A i \in 1..Len(chat) : heard[i].role = chat[i].role
    BY <1>5, OpenaiSpeech, Zenon
  <2>. QED
    BY <1>4, <1>5, <2>1, <2>2 DEF said, Talking
<1>7. CASE chosen # "openai"
  <2>. DEFINE e == AnthropicMessages(chat)  U == {e[i] : i \in 1..Len(chat)}
  <2>1. Body(s).messages = e
    BY <1>7 DEF Body, AnthropicBody, chat
  <2>2. e = [i \in 1..Len(chat) |-> e[i]] /\ \A i \in 1..Len(chat) : e[i].role = chat[i].role
    BY <1>5 DEF AnthropicMessages
  <2>. HIDE DEF e
  <2>3. e \in Seq(U) /\ Len(e) = Len(chat)
    <3>1. e \in [1..Len(chat) -> U] /\ Len(chat) \in Nat
      BY <1>3, <1>5, <2>2
    <3>. HIDE DEF U
    <3>. QED
      BY <3>1
  <2>4. \A i \in 1..Len(e) : e[i].role \in roles
    <3>1. \A i \in 1..Len(chat) : chat[i].role \in Talking
      BY <1>5, SpeechFields
    <3>. QED
      BY <2>2, <2>3, <3>1 DEF Talking
  <2>. HIDE DEF U
  <2>5. OfRoles(e, roles) = e
    BY <2>3, <2>4, RolesStay
  <2>. QED
    BY <1>4, <1>5, <2>1, <2>2, <2>3, <2>5 DEF said, Talking
<1>. QED
  BY <1>6, <1>7

-----------------------------------------------------------------------------
(* What is sent, in every state *)

LEMMA RequestInvAlways == RequestSpec => []RequestInv
<1>1. RequestInit => RequestInv
  <2>. SUFFICES ASSUME RequestInit PROVE RequestInv
    OBVIOUS
  <2>1. wire \in Seq(WireMsg) \cup {Garbage}
    <3>. DEFINE W == WireMsg
    <3>1. wire \in BoundedSeq(W, MaxMessages) \cup {Garbage}
      BY DEF RequestInit
    <3>. HIDE DEF W
    <3>2. MaxMessages \in Nat
      BY RequestsAssumption
    <3>3. BoundedSeq(W, MaxMessages) \subseteq Seq(W)
      BY <3>2 DEF BoundedSeq, SeqOf
    <3>. QED
      BY <3>1, <3>3 DEF W
  <2>. QED
    <3>1. bodies = <<>> /\ returned \in BOOLEAN /\ chosen \in Provider
      BY DEF RequestInit
    <3>2. Len(bodies) <= 1 /\ DOMAIN bodies = {}
      BY <3>1
    <3>. QED
      BY <2>1, <3>1, <3>2 DEF RequestInv, RequestTypeOK
<1>2. RequestInv /\ [RequestNext]_requestVars => RequestInv'
  <2>. SUFFICES ASSUME RequestInv, [RequestNext]_requestVars PROVE RequestInv'
    OBVIOUS
  <2>1. CASE CoreGenerate
    <3>1. wire' = wire /\ chosen' = chosen /\ returned' = TRUE
          /\ bodies' = IF wire = Garbage THEN <<>> ELSE <<Body(wire)>>
      BY <2>1 DEF CoreGenerate
    <3>2. Body(wire)' = Body(wire) /\ Body(wire).tools = {}
      BY <3>1 DEF Body, OpenaiBody, AnthropicBody, CoreRequest
    <3>. QED
      BY <3>1, <3>2 DEF RequestInv, RequestTypeOK
  <2>2. CASE UNCHANGED requestVars
    <3>1. UNCHANGED <<wire, chosen, bodies, returned>>
      BY <2>2 DEF requestVars
    <3>2. Body(wire)' = Body(wire)
      BY <3>1 DEF Body
    <3>. QED
      BY <3>1, <3>2 DEF RequestInv, RequestTypeOK
  <2>. QED
    BY <2>1, <2>2 DEF RequestNext
<1>. QED
  BY <1>1, <1>2, PTL DEF RequestSpec

LEMMA TurnsAreKept == RequestInv => SquadKeepsTurns
<1>. SUFFICES ASSUME RequestInv, NEW i \in DOMAIN bodies
              PROVE  LET said  == OfRoles(wire, {"user", "assistant"})
                         heard == OfRoles(bodies[i].messages, {"user", "assistant", "tool"})
                     IN  Alternate(said) => Len(heard) = Len(said) /\ Alternate(heard)
  BY DEF SquadKeepsTurns
<1>. DEFINE said == OfRoles(wire, {"user", "assistant"})
            heard == OfRoles(bodies[i].messages, {"user", "assistant", "tool"})
<1>1. bodies # <<>>
  OBVIOUS
<1>2. wire \in Seq(WireMsg) /\ bodies = <<Body(wire)>>
  BY <1>1 DEF RequestInv
<1>3. bodies[i] = Body(wire)
  BY <1>2
<1>4. Len(heard) = Len(said) /\ \A k \in 1..Len(said) : heard[k].role = said[k].role
  BY <1>2, <1>3, HeardAsSaid
<1>5. DOMAIN said = 1..Len(said)
  <2>1. said \in Seq(Speech)
    BY <1>2, ChatIsSpeech DEF Talking
  <2>. HIDE DEF said
  <2>. QED
    BY <2>1
<1>6. DOMAIN heard = 1..Len(heard)
  <2>1. heard = OfRoles(Body(wire).messages, {"user", "assistant", "tool"})
    BY <1>3
  <2>. QED
    BY <1>2, <2>1, HeardAsSaid
<1>. HIDE DEF said, heard
<1>7. Alternate(said) => Len(heard) = Len(said) /\ Alternate(heard)
  BY <1>4, <1>5, <1>6 DEF Alternate
<1>. QED
  BY <1>7 DEF said, heard

\* run_once, the chat and core_generate: a history that is sent pairs its calls with their
\* results in the form of either provider, after any compaction, lost race or death, and a
\* request of the squad has the turns that it was given.
THEOREM TurnsAreAlwaysSentWhole == ConversationSpec => []TurnsAreSentWhole
<1>1. SessionInv => RequestsPairCalls
  <2>. SUFFICES ASSUME SessionInv, NEW c \in Client, pc[c] = "looping",
                       \A i \in DOMAIN messages[c] : messages[c][i] # "cut"
                PROVE  PairsCallsWithResults(System, History(messages[c]), Tools)
    BY DEF RequestsPairCalls
  <2>1. messages[c] \in Seq(Message) /\ Paired(messages[c], FALSE)
    <3>1. messages \in [Client -> Seq(Message)] /\ Paired(messages[c], pc[c] = "executing")
      BY DEF SessionInv, TypeOK, ClientInv
    <3>2. (pc[c] = "executing") = FALSE
      OBVIOUS
    <3>. QED
      BY <3>1, <3>2
  <2>. QED
    BY <2>1, SentPairs
<1>2. RequestInv => RequestTypeOK /\ SquadKeepsTurns
  BY TurnsAreKept DEF RequestInv
<1>. QED
  BY <1>1, <1>2, SessionInvAlways, RequestInvAlways, PTL DEF ConversationSpec, TurnsAreSentWhole

-----------------------------------------------------------------------------
(* forge squad *)

LEMMA CommandStarts == SquadInit => CommandInv
<1>. SUFFICES ASSUME SquadInit PROVE CommandInv
  OBVIOUS
<1>1. SquadTypeOK /\ AgentWorksAlone /\ SuccessMeansClosed /\ Len(unread) <= sent
  BY SquadCommandAssumption DEF SquadInit, SquadTypeOK, Level, AgentWorksAlone,
     SuccessMeansClosed, Fallback
<1>2. AskedRuns = {} /\ \A c \in Caller : tool[c] = "none"
  BY DEF SquadInit, AskedRuns, Ran
<1>3. IsFiniteSet(AskedRuns) /\ Cardinality(AskedRuns) = 0
  BY <1>2, FS_EmptySet
<1>4. RunsAreApproved
  BY <1>1, <1>3 DEF RunsAreApproved, SquadTypeOK
<1>. QED
  BY <1>1, <1>2, <1>3, <1>4 DEF CommandInv, SquadOrItsFallback

\* A call that nobody has asked about yet has not run.
LEMMA AskersHaveNotRun ==
  ASSUME CommandInv, NEW c \in Caller, handler[c] \in {"idle", "asking"}
  PROVE  c \notin AskedRuns
BY DEF CommandInv, AskedRuns, Ran

\* The steps of the command and of its process touch no call.
LEMMA CallsKept ==
  ASSUME CommandInv, UNCHANGED <<callVars, autoYes>>
  PROVE  /\ RunsAreApproved' /\ IsFiniteSet(AskedRuns)'
         /\ \A c \in Caller : handler'[c] \in {"idle", "asking"} => tool'[c] = "none"
<1>1. AskedRuns' = AskedRuns
  BY DEF AskedRuns, Ran, callVars
<1>. QED
  BY <1>1 DEF CommandInv, SquadOrItsFallback, RunsAreApproved, callVars

\* Steps of run_squad: the part of the invariant about the command's own state.
CommandKept ==
  /\ SquadTypeOK' /\ AgentWorksAlone' /\ SuccessMeansClosed' /\ (Len(unread) <= sent)'

\* What remains to show where the calls are left alone, and where the command is.
LEMMA KeepsCalls ==
  ASSUME CommandInv, UNCHANGED <<callVars, autoYes>>, CommandKept
  PROVE  CommandInv'
BY CallsKept DEF CommandInv, SquadOrItsFallback, CommandKept

\* Leaving the squad kills its process and closes its server.
LEMMA LeaveSquadKeeps ==
  ASSUME CommandInv, LeaveSquad("agent"), UNCHANGED <<autoYes, sent, callVars>>,
         waited' \in 0..MaxWait, session' \in {"none", "open", "failed"}
  PROVE  CommandInv'
<1>. USE SquadCommandAssumption
<1>1. level' = "agent" /\ unread' = <<>> /\ Len(unread') = 0
  BY DEF LeaveSquad
<1>2. proc' \in {"none", "dead"} /\ core' # "on" /\ core' \in {"off", "on", "aborted"}
  BY DEF LeaveSquad, Killed, CommandInv, SquadOrItsFallback, SquadTypeOK
<1>3. streamEnd' \in {"none", "open", "closed", "broken"}
  BY DEF LeaveSquad, CommandInv, SquadOrItsFallback, SquadTypeOK
<1>4. SquadTypeOK'
  BY <1>1, <1>2, <1>3 DEF CommandInv, SquadOrItsFallback, SquadTypeOK, Level, Fallback, callVars
<1>5. CommandKept
  BY <1>1, <1>2, <1>4 DEF CommandKept, AgentWorksAlone, SuccessMeansClosed, SquadTypeOK
<1>. QED
  BY <1>5, KeepsCalls

\* Each step of run_squad goes on, or leaves the squad for the single agent.
LEMMA CommandStepKeeps ==
  ASSUME CommandInv, CommandStep, ~AgentCalls PROVE CommandInv'
<1>. USE SquadCommandAssumption
<1>t. SquadTypeOK /\ AgentWorksAlone /\ SuccessMeansClosed /\ Len(unread) <= sent
  BY DEF CommandInv, SquadOrItsFallback
<1>1. CASE ServeCore
  <2>1. CommandKept
    BY <1>1, <1>t DEF ServeCore, CommandKept, SquadTypeOK, AgentWorksAlone, SuccessMeansClosed,
       Level, Fallback, callVars
  <2>. QED BY <1>1, <2>1, KeepsCalls DEF ServeCore
<1>2. CASE SpawnFails
  BY <1>2, <1>t, LeaveSquadKeeps DEF SpawnFails, SquadTypeOK, SuccessMeansClosed
<1>3. CASE SpawnSquad
  <2>1. CommandKept
    BY <1>3, <1>t DEF SpawnSquad, CommandKept, SquadTypeOK, AgentWorksAlone,
       SuccessMeansClosed, Level, Fallback, callVars
  <2>. QED BY <1>3, <2>1, KeepsCalls DEF SpawnSquad
<1>4. CASE WaitReady
  <2>1. CASE LeaveSquad("agent") /\ UNCHANGED waited
    BY <1>4, <2>1, <1>t, LeaveSquadKeeps DEF WaitReady, SquadTypeOK, SuccessMeansClosed
  <2>2. CASE /\ level' \in {"open", "ready"} /\ waited' \in 0..MaxWait
             /\ UNCHANGED <<proc, core, unread, streamEnd>>
    <3>1. CommandKept
      BY <1>4, <1>t, <2>2 DEF WaitReady, CommandKept, SquadTypeOK, AgentWorksAlone,
         SuccessMeansClosed, Level, Fallback, callVars
    <3>. QED BY <1>4, <3>1, KeepsCalls DEF WaitReady
  <2>. QED BY <1>4, <1>t, <2>1, <2>2 DEF WaitReady, SquadTypeOK
<1>5. CASE OpenSession
  <2>1. CASE LeaveSquad("agent") /\ session' \in {"none", "open"}
    BY <1>5, <2>1, <1>t, LeaveSquadKeeps DEF OpenSession, SquadTypeOK
  <2>2. CASE level' = "verify" /\ session' = "open" /\ UNCHANGED <<proc, core, unread, streamEnd>>
    <3>1. CommandKept
      BY <1>5, <1>t, <2>2 DEF OpenSession, CommandKept, SquadTypeOK, AgentWorksAlone,
         SuccessMeansClosed, Level, Fallback, callVars
    <3>. QED BY <1>5, <3>1, KeepsCalls DEF OpenSession
  <2>. QED BY <1>5, <2>1, <2>2 DEF OpenSession
<1>6. CASE GatherEvidence
  <2>1. CASE LeaveSquad("agent")
    BY <1>6, <2>1, <1>t, LeaveSquadKeeps DEF GatherEvidence, SquadTypeOK, SuccessMeansClosed
  <2>2. CASE level' = "execute" /\ UNCHANGED <<proc, core, unread, streamEnd>>
    <3>1. CommandKept
      BY <1>6, <1>t, <2>2 DEF GatherEvidence, CommandKept, SquadTypeOK, AgentWorksAlone,
         SuccessMeansClosed, Level, Fallback, callVars
    <3>. QED BY <1>6, <3>1, KeepsCalls DEF GatherEvidence
  <2>. QED BY <1>6, <2>1, <2>2 DEF GatherEvidence
<1>7. CASE ExecuteTask
  <2>1. CASE LeaveSquad("agent")
    BY <1>7, <2>1, <1>t, LeaveSquadKeeps DEF ExecuteTask, SquadTypeOK, SuccessMeansClosed
  <2>2. CASE level' = "drain" /\ streamEnd' = "open" /\ UNCHANGED <<proc, core, unread>>
    <3>1. CommandKept
      BY <1>7, <1>t, <2>2 DEF ExecuteTask, CommandKept, SquadTypeOK, AgentWorksAlone,
         SuccessMeansClosed, Level, Fallback, callVars
    <3>. QED BY <1>7, <3>1, KeepsCalls DEF ExecuteTask
  <2>. QED BY <1>7, <2>1, <2>2 DEF ExecuteTask
<1>8. CASE ReadEvent
  <2>1. CASE LeaveSquad("agent") /\ session' = "failed"
    BY <1>8, <2>1, <1>t, LeaveSquadKeeps DEF ReadEvent, SquadTypeOK
  <2>2. CASE unread' = Tail(unread) /\ UNCHANGED <<level, proc, core, streamEnd, session>>
    <3>1. unread' \in Seq({"event", "error"}) /\ Len(unread') <= Len(unread)
      BY <1>8, <1>t, <2>2 DEF ReadEvent, SquadTypeOK
    <3>2. CommandKept
      BY <1>8, <1>t, <2>2, <3>1 DEF ReadEvent, CommandKept, SquadTypeOK, AgentWorksAlone,
         SuccessMeansClosed, Level, Fallback, callVars
    <3>. QED BY <1>8, <3>2, KeepsCalls DEF ReadEvent
  <2>. QED BY <1>8, <2>1, <2>2 DEF ReadEvent
<1>9. CASE StreamEnds
  <2>1. CASE LeaveSquad("agent") /\ session' = "failed"
    BY <1>9, <2>1, <1>t, LeaveSquadKeeps DEF StreamEnds, SquadTypeOK
  <2>2. CASE streamEnd = "closed" /\ LeaveSquad("ended") /\ session' = "succeeded"
    <3>1. /\ level' = "ended" /\ unread' = <<>> /\ Len(unread') = 0 /\ streamEnd' = "closed"
          /\ proc' \in {"none", "dead"} /\ core' # "on" /\ core' \in {"off", "on", "aborted"}
      BY <2>2, <1>t DEF LeaveSquad, Killed, SquadTypeOK
    <3>2. CommandKept
      BY <1>9, <1>t, <2>2, <3>1 DEF StreamEnds, CommandKept, SquadTypeOK, AgentWorksAlone,
         SuccessMeansClosed, Level, Fallback, callVars
    <3>. QED BY <1>9, <3>2, KeepsCalls DEF StreamEnds
  <2>. QED BY <1>9, <2>1, <2>2 DEF StreamEnds
<1>10. CASE AgentEnds \/ SafeMode \/ Exit
  <2>1. CommandKept
    BY <1>10, <1>t DEF AgentEnds, SafeMode, Exit, squadVars, CommandKept, SquadTypeOK,
       AgentWorksAlone, SuccessMeansClosed, Level, Fallback, callVars
  <2>. QED BY <1>10, <2>1, KeepsCalls DEF AgentEnds, SafeMode, Exit
<1>. QED
  BY <1>1, <1>2, <1>3, <1>4, <1>5, <1>6, <1>7, <1>8, <1>9, <1>10 DEF CommandStep

\* The process boots, dies, sends or closes only while it is not dead.
LEMMA ProcessKeeps ==
  ASSUME CommandInv, Boot \/ Crash \/ CloseStream \/ \E kind \in {"event", "error"} : Yield(kind)
  PROVE  CommandInv'
<1>. USE SquadCommandAssumption
<1>t. SquadTypeOK /\ AgentWorksAlone /\ SuccessMeansClosed /\ Len(unread) <= sent
  BY DEF CommandInv, SquadOrItsFallback
<1>1. unread' \in Seq({"event", "error"}) /\ Len(unread') <= sent' /\ sent' \in 0..MaxStreamed
  <2>1. CASE Boot \/ Crash \/ CloseStream
    <3>1. (unread' = unread \/ (unread' = <<>> /\ Len(unread') = 0)) /\ sent' = sent
      BY <2>1 DEF Boot, Crash, CloseStream
    <3>2. Len(unread) \in Nat /\ sent \in 0..MaxStreamed
      BY <1>t DEF SquadTypeOK
    <3>3. CASE unread' = unread
      BY <1>t, <3>1, <3>2, <3>3 DEF SquadTypeOK
    <3>4. CASE unread' = <<>> /\ Len(unread') = 0
      BY <3>1, <3>2, <3>4
    <3>. QED BY <3>1, <3>3, <3>4
  <2>2. ASSUME NEW kind \in {"event", "error"}, Yield(kind)
        PROVE  /\ unread' \in Seq({"event", "error"}) /\ Len(unread') <= sent'
               /\ sent' \in 0..MaxStreamed
    BY <1>t, <2>2 DEF Yield, SquadTypeOK
  <2>. QED BY <2>1, <2>2
<1>2. UNCHANGED <<callVars, autoYes, level, waited, core, session>>
  BY DEF Boot, Crash, CloseStream, Yield, callVars
<1>3. proc \in {"booting", "up"} /\ proc' \in {"booting", "up", "dead"}
  BY DEF Boot, Crash, CloseStream, Yield
<1>4. streamEnd' = streamEnd \/ (streamEnd = "open" /\ streamEnd' \in {"closed", "broken"})
  BY DEF Boot, Crash, CloseStream, Yield
<1>5. SquadTypeOK'
  BY <1>t, <1>1, <1>2, <1>3, <1>4 DEF SquadTypeOK, callVars
<1>6. CommandKept
  BY <1>t, <1>1, <1>2, <1>3, <1>4, <1>5 DEF CommandKept, AgentWorksAlone, SuccessMeansClosed
<1>. QED
  BY <1>2, <1>6, KeepsCalls

\* A call that is judged: it may run under Ask only with --yes.
LEMMA JudgeKeeps ==
  ASSUME CommandInv, NEW c \in Caller, handler[c] = "idle", Judge(c),
         UNCHANGED <<level, autoYes, squadVars, yes>>
  PROVE  CommandInv'
<1>t. SquadTypeOK /\ RunsAreApproved /\ IsFiniteSet(AskedRuns) /\ Len(unread) <= sent
  BY DEF CommandInv, SquadOrItsFallback
<1>1. PICK p \in Policy :
        /\ policy' = [policy EXCEPT ![c] = p]
        /\ \/ p = "invalid" /\ Respond(c, "returned") /\ UNCHANGED <<reader, tool, logged>>
           \/ p = "deny" /\ Respond(c, "returned") /\ Log(c) /\ UNCHANGED <<reader, tool>>
           \/ /\ p = "allow" \/ (p = "ask" /\ autoYes)
              /\ StartTool(c) /\ UNCHANGED <<reader, logged>>
           \/ /\ p = "ask" /\ ~autoYes
              /\ Respond(c, "asking") /\ reader' = reader \cup {c} /\ UNCHANGED <<tool, logged>>
  BY DEF Judge
<1>2. SquadTypeOK'
  BY <1>t, <1>1 DEF SquadTypeOK, squadVars, Respond, Log, StartTool
<1>3. \A d \in Caller \ {c} : tool'[d] = tool[d] /\ policy'[d] = policy[d] /\ handler'[d] = handler[d]
  BY <1>t, <1>1 DEF SquadTypeOK, Respond, StartTool
<1>4. /\ tool[c] = "none"
      /\ \/ tool'[c] = "none"
         \/ (policy'[c] = "allow" \/ autoYes) /\ handler'[c] = "running"
  <2>1. tool[c] = "none" /\ policy'[c] = p
    BY <1>t, <1>1 DEF CommandInv, SquadTypeOK
  <2>2. CASE UNCHANGED tool
    BY <2>1, <2>2
  <2>3. CASE (p = "allow" \/ autoYes) /\ StartTool(c)
    BY <2>1, <2>3, <1>t DEF SquadTypeOK, Respond, StartTool
  <2>. QED
    BY <1>1, <2>2, <2>3
<1>5. c \notin AskedRuns /\ (AskedRuns' = AskedRuns \/ (autoYes /\ AskedRuns' = AskedRuns \cup {c}))
  BY <1>3, <1>4, <1>t DEF AskedRuns, Ran, SquadTypeOK
<1>6. IsFiniteSet(AskedRuns')
  BY <1>5, <1>t, FS_AddElement
<1>7. RunsAreApproved'
  BY <1>5, <1>t DEF RunsAreApproved
<1>8. \A d \in Caller : handler'[d] \in {"idle", "asking"} => tool'[d] = "none"
  BY <1>3, <1>4 DEF CommandInv
<1>9. AgentWorksAlone' /\ SuccessMeansClosed' /\ Len(unread') <= sent'
  BY DEF CommandInv, SquadOrItsFallback, AgentWorksAlone, SuccessMeansClosed, squadVars
<1>. QED
  BY <1>2, <1>6, <1>7, <1>8, <1>9 DEF CommandInv, SquadOrItsFallback

\* A line of the user: an agreement is counted, and starts at most one tool.
LEMMA TypeLineKeeps ==
  ASSUME CommandInv, NEW c \in Caller, NEW agrees \in BOOLEAN, TypeLine(c, agrees)
  PROVE  CommandInv'
<1>t. SquadTypeOK /\ RunsAreApproved /\ IsFiniteSet(AskedRuns) /\ Len(unread) <= sent
  BY DEF CommandInv, SquadOrItsFallback
<1>a. UNCHANGED <<level, autoYes, squadVars, policy>> /\ reader' = reader \ {c}
      /\ yes' = IF agrees THEN yes + 1 ELSE yes
  BY DEF TypeLine
<1>b. \/ /\ handler[c] = "asking" /\ agrees
         /\ StartTool(c) /\ UNCHANGED logged
      \/ /\ handler[c] = "asking" /\ ~agrees
         /\ Respond(c, "returned") /\ Log(c) /\ UNCHANGED tool
      \/ UNCHANGED <<handler, tool, logged>>
  BY DEF TypeLine
<1>1. SquadTypeOK'
  <2>1. yes' \in Nat
    BY <1>a, <1>t DEF SquadTypeOK
  <2>. QED
    BY <1>t, <1>a, <1>b, <2>1 DEF SquadTypeOK, squadVars, StartTool, Respond, Log
<1>2. \A d \in Caller \ {c} : tool'[d] = tool[d] /\ policy'[d] = policy[d] /\ handler'[d] = handler[d]
  BY <1>t, <1>a, <1>b DEF SquadTypeOK, Respond, StartTool
<1>3. \/ agrees /\ handler[c] = "asking" /\ handler'[c] = "running"
      \/ tool'[c] = tool[c] /\ (handler'[c] = "returned" \/ handler'[c] = handler[c])
  BY <1>t, <1>b DEF SquadTypeOK, Respond, StartTool
<1>4. AskedRuns' = AskedRuns \/ (agrees /\ c \notin AskedRuns /\ AskedRuns' = AskedRuns \cup {c})
  <2>1. CASE tool'[c] = tool[c]
    BY <2>1, <1>2, <1>a DEF AskedRuns, Ran
  <2>2. CASE agrees /\ handler[c] = "asking"
    BY <2>2, <1>2, <1>a, AskersHaveNotRun DEF AskedRuns, Ran
  <2>. QED BY <2>1, <2>2, <1>3
<1>5. IsFiniteSet(AskedRuns') /\ RunsAreApproved'
  <2>1. Cardinality(AskedRuns) \in Nat /\ yes \in Nat
    BY <1>t, FS_CardinalityType DEF SquadTypeOK
  <2>2. CASE AskedRuns' = AskedRuns
    BY <2>1, <2>2, <1>t, <1>a DEF RunsAreApproved
  <2>3. CASE agrees /\ c \notin AskedRuns /\ AskedRuns' = AskedRuns \cup {c}
    <3>1. IsFiniteSet(AskedRuns') /\ Cardinality(AskedRuns') = Cardinality(AskedRuns) + 1
      BY <2>3, <1>t, FS_AddElement
    <3>. QED BY <3>1, <2>1, <2>3, <1>t, <1>a DEF RunsAreApproved
  <2>. QED BY <1>4, <2>2, <2>3
<1>6. \A d \in Caller : handler'[d] \in {"idle", "asking"} => tool'[d] = "none"
  BY <1>2, <1>3 DEF CommandInv
<1>7. AgentWorksAlone' /\ SuccessMeansClosed' /\ Len(unread') <= sent'
  BY <1>a DEF CommandInv, SquadOrItsFallback, AgentWorksAlone, SuccessMeansClosed, squadVars
<1>. QED
  BY <1>1, <1>5, <1>6, <1>7 DEF CommandInv, SquadOrItsFallback

\* A tool that ends and a handler that is dropped start nothing.
LEMMA CallEndKeeps ==
  ASSUME CommandInv, NEW c \in Caller, ToolEnds(c) \/ DropHandler(c)
  PROVE  CommandInv'
<1>t. SquadTypeOK /\ RunsAreApproved /\ IsFiniteSet(AskedRuns) /\ Len(unread) <= sent
  BY DEF CommandInv, SquadOrItsFallback
<1>a. UNCHANGED <<level, autoYes, squadVars, policy, reader, yes>>
  BY DEF ToolEnds, DropHandler
<1>1. SquadTypeOK'
  BY <1>t DEF SquadTypeOK, squadVars, ToolEnds, DropHandler, Respond, Log
<1>2. \A d \in Caller :
        /\ tool'[d] # "none" <=> tool[d] # "none"
        /\ handler'[d] \in {"idle", "asking"} => handler[d] = handler'[d]
  BY <1>t DEF SquadTypeOK, ToolEnds, DropHandler, Respond
<1>3. AskedRuns' = AskedRuns
  BY <1>a, <1>2 DEF AskedRuns, Ran
<1>4. IsFiniteSet(AskedRuns') /\ RunsAreApproved'
  BY <1>t, <1>a, <1>3 DEF RunsAreApproved
<1>5. \A d \in Caller : handler'[d] \in {"idle", "asking"} => tool'[d] = "none"
  BY <1>2 DEF CommandInv
<1>6. AgentWorksAlone' /\ SuccessMeansClosed' /\ Len(unread') <= sent'
  BY <1>a DEF CommandInv, SquadOrItsFallback, AgentWorksAlone, SuccessMeansClosed, squadVars
<1>. QED
  BY <1>1, <1>4, <1>5, <1>6 DEF CommandInv, SquadOrItsFallback

LEMMA CommandInvKept ==
  ASSUME CommandInv, [SquadNext]_commandVars PROVE CommandInv'
<1>1. CASE UNCHANGED commandVars
  <2>1. UNCHANGED <<callVars, autoYes>> /\ UNCHANGED squadVars /\ UNCHANGED level
    BY <1>1 DEF commandVars, callVars, squadVars
  <2>2. CommandKept
    BY <2>1 DEF CommandInv, SquadOrItsFallback, CommandKept, SquadTypeOK, AgentWorksAlone,
       SuccessMeansClosed, squadVars, callVars
  <2>. QED
    BY <2>1, <2>2, KeepsCalls
<1>2. CASE CommandStep
  <2>1. CASE AgentCalls
    BY <2>1, JudgeKeeps DEF AgentCalls, Caller
  <2>. QED
    BY <1>2, <2>1, CommandStepKeeps
<1>3. CASE Boot \/ Crash \/ CloseStream \/ \E kind \in {"event", "error"} : Yield(kind)
  BY <1>3, ProcessKeeps
<1>4. ASSUME NEW c \in Call, SquadCalls(c) \/ DropHandler(c) PROVE CommandInv'
  BY <1>4, JudgeKeeps, CallEndKeeps DEF SquadCalls, Caller
<1>5. ASSUME NEW c \in Caller, CallStep(c) PROVE CommandInv'
  BY <1>5, TypeLineKeeps, CallEndKeeps DEF CallStep
<1>. QED
  BY <1>1, <1>2, <1>3, <1>4, <1>5 DEF SquadNext

\* However the squad's process fails, its callers give up or the user answers late: no tool
\* runs under Ask without a yes of its own, the single agent works beside no live squad,
\* and a run that is reported as a success has a stream that was closed (run_squad).
THEOREM FallbackIsAlwaysSafe == SquadSpec => []SquadOrItsFallback
<1>1. CommandInv => SquadOrItsFallback
  BY DEF CommandInv
<1>. QED
  BY <1>1, CommandStarts, CommandInvKept, PTL DEF SquadSpec
=============================================================================
