---------------------------- MODULE Calls_proofs ----------------------------
(***************************************************************************)
(* Proofs about what concurrent calls share and about a call inside.  The   *)
(* prompt cache and the rate limiter: no window holds more calls than the    *)
(* limit, no call is refused for a wait of a window, and what comes from the *)
(* cache answered the same request.  A service's sidecar: one process, and   *)
(* none left behind.  The gateway: its chain is followed, and whatever size  *)
(* chunks have, the turn is the one that the provider sent.                  *)
(***************************************************************************)
EXTENDS Generation, Gateway, Sidecars, SequenceTheorems, FiniteSetTheorems,
        WellFoundedInduction, TLAPS

-----------------------------------------------------------------------------
(* The limiter's queue *)

\* A set of numbers has a least one.
LEMMA LeastOfNaturals ==
  ASSUME NEW S, S \subseteq Nat, S # {}
  PROVE  \E n \in S : \A m \in S : n <= m
<1>. DEFINE R == OpToRel(<, Nat)
<1>1. \A m, n \in Nat : <<m, n>> \in R <=> m < n
  BY DEF OpToRel
<1>2. IsWellFoundedOn(R, Nat)
  BY NatLessThanWellFounded
<1>. HIDE DEF R
<1>3. PICK n \in S : \A m \in S : ~(<<m, n>> \in R)
  BY <1>2, WFMin
<1>4. \A m \in S : ~(m < n)
  BY <1>1, <1>3, Zenon
<1>. QED
  BY <1>4

\* poll pops the timestamps in front of the first that is in the window, and no others.
LEMMA PopsTheExpired ==
  ASSUME NEW ts \in Seq(0..Window), Window \in Nat
  PROVE  \E n \in 0..Len(ts) :
           /\ IsExpired(ts, n) /\ InWindow(ts) \in Seq(0..Window)
           /\ Len(InWindow(ts)) = Len(ts) - n
           /\ \A i \in 1..(Len(ts) - n) : InWindow(ts)[i] = ts[n + i]
<1>. DEFINE S == 0..Window
            len == Len(ts)
            ends == {n \in 0..len : n = len \/ ts[n + 1] < Window}
<1>a. len \in Nat /\ \A i \in 1..len : ts[i] \in S
  OBVIOUS
<1>1. len \in Nat /\ \A i \in 1..len : ts[i] \in S /\ ts[i] \in Nat
  BY <1>a
<1>. HIDE DEF len, S
<1>2. PICK n \in ends : \A m \in ends : n <= m
  <2>1. ends \subseteq Nat /\ len \in ends
    BY <1>1
  <2>. HIDE DEF ends
  <2>. QED
    BY <2>1, LeastOfNaturals
<1>3. ASSUME NEW i \in 1..n PROVE ts[i] >= Window
  <2>1. i - 1 \in 0..len /\ i \in 1..len /\ (i - 1) + 1 = i /\ ~(n <= i - 1)
    BY <1>1, <1>2
  <2>2. i - 1 \notin ends
    BY <1>2, <2>1
  <2>3. ~(ts[(i - 1) + 1] < Window)
    BY <2>1, <2>2
  <2>. QED
    BY <1>1, <2>1, <2>3
<1>4. IsExpired(ts, n) /\ n \in 0..len
  BY <1>2, <1>3 DEF IsExpired, len
<1>5. Expired(ts) \in 0..Len(ts) /\ IsExpired(ts, Expired(ts))
  BY <1>4 DEF Expired, len
<1>. DEFINE e == Expired(ts)
<1>6. e \in 0..len /\ IsExpired(ts, e) /\ InWindow(ts) = SubSeq(ts, e + 1, len)
  BY <1>5 DEF InWindow, len
<1>. HIDE DEF e
<1>7. /\ InWindow(ts) \in Seq(S) /\ Len(InWindow(ts)) = len - e
      /\ \A i \in 1..(len - e) : InWindow(ts)[i] = ts[e + i]
  <2>1. \A i \in (e + 1)..len : ts[i] \in S
    BY <1>1, <1>6
  <2>2. /\ InWindow(ts) \in Seq(S)
        /\ Len(InWindow(ts)) = IF e + 1 <= len THEN len - (e + 1) + 1 ELSE 0
        /\ \A i \in 1..(len - (e + 1) + 1) : InWindow(ts)[i] = ts[(e + 1) + i - 1]
    <3>1. e + 1 \in Int /\ len \in Int
      BY <1>1, <1>6
    <3>. QED
      BY <1>6, <2>1, <3>1, SubSeqProperties
  <2>3. /\ len - (e + 1) + 1 = len - e /\ \A i \in 1..(len - e) : (e + 1) + i - 1 = e + i
        /\ (IF e + 1 <= len THEN len - (e + 1) + 1 ELSE 0) = len - e
    BY <1>1, <1>6
  <2>4. \A i \in 1..(len - e) : InWindow(ts)[i] = ts[e + i]
    BY <2>2, <2>3
  <2>. QED
    BY <2>2, <2>3, <2>4
<1>. QED
  BY <1>6, <1>7 DEF len, S

-----------------------------------------------------------------------------
(* The steps *)

LEMMA InvInit ==
  ASSUME Init
  PROVE  GenerationInv
<1>1. Window \in Nat /\ MaxRequests \in Nat /\ MaxFaults \in Nat /\ None \notin Call
  BY GenerationAssumption
<1>2. /\ pc = [c \in Call |-> "new"] /\ request \in [Call -> Request]
      /\ wait = [c \in Call |-> 0] /\ result = [c \in Call |-> NoTurn("none")]
      /\ ages = <<>> /\ maxWait \in MaxWait
      /\ cache = [r \in Request |-> None] /\ faults = 0 /\ sent = <<>>
  BY DEF Init
<1>3. NoTurn("none") \in Result /\ NoTurn("none").kind = "none"
  BY DEF NoTurn, Result
<1>4. TypeOK
  <2>1. pc \in [Call -> Pc] /\ result \in [Call -> Result] /\ cache \in [Request -> Call \cup {None}]
    BY <1>2, <1>3 DEF Pc
  <2>2. wait \in [Call -> 0..Window] /\ faults \in 0..MaxFaults
    BY <1>1, <1>2
  <2>3. ages \in Seq(0..Window) /\ Len(ages) <= MaxRequests /\ sent \in Seq(0..Window)
    BY <1>1, <1>2
  <2>. QED
    BY <1>2, <2>1, <2>2, <2>3 DEF TypeOK
<1>5. NeverRefused
  BY <1>2, <1>3 DEF NeverRefused
<1>6. LimiterInv
  BY <1>2 DEF LimiterInv
<1>7. CacheInv
  BY <1>2, <1>3 DEF CacheInv
<1>. QED
  BY <1>4, <1>5, <1>6, <1>7 DEF GenerationInv

\* A poll keeps the limiter to its last starts: what it forgets has left the window, and
\* it lets a call through only where there is a slot.
LEMMA PollKeepsLimit ==
  ASSUME GenerationInv, NEW c \in Call, Poll(c)
  PROVE  /\ LimiterInv' /\ (ages \in Seq(0..Window))' /\ (sent \in Seq(0..Window))'
         /\ (Len(ages) <= MaxRequests)' /\ (wait \in [Call -> 0..Window])'
         /\ maxWait >= Window => ~(Full(InWindow(ages)) /\ TooLong(Window - Head(InWindow(ages))))
<1>. DEFINE ts == InWindow(ages)
            missing == Window - Head(ts)
<1>a. /\ Window \in Nat \ {0} /\ MaxRequests \in Nat \ {0} /\ MaxWait \subseteq Nat
      /\ ages \in Seq(0..Window) /\ sent \in Seq(0..Window) /\ Len(ages) <= MaxRequests
      /\ wait \in [Call -> 0..Window] /\ maxWait \in Nat
      /\ Len(ages) \in Nat /\ Len(sent) \in Nat
  BY GenerationAssumption DEF GenerationInv, TypeOK
<1>b. /\ Len(ages) <= Len(sent)
      /\ \A i \in 1..Len(ages) : ages[i] = sent[Len(sent) - Len(ages) + i]
      /\ \A i \in 1..(Len(sent) - Len(ages)) : sent[i] >= Window
  BY DEF GenerationInv, LimiterInv
<1>1. PICK n \in 0..Len(ages) :
        /\ IsExpired(ages, n) /\ ts \in Seq(0..Window) /\ Len(ts) = Len(ages) - n
        /\ \A i \in 1..(Len(ages) - n) : ts[i] = ages[n + i]
  BY <1>a, PopsTheExpired
<1>. HIDE DEF ts
<1>2. Len(ts) \in Nat /\ Len(ts) <= Len(ages)
  BY <1>a, <1>1
<1>3. /\ Len(ts) <= Len(sent)
      /\ \A i \in 1..Len(ts) : ts[i] = sent[Len(sent) - Len(ts) + i]
      /\ \A i \in 1..(Len(sent) - Len(ts)) : sent[i] >= Window
  <2>1. ASSUME NEW i \in 1..Len(ts) PROVE ts[i] = sent[Len(sent) - Len(ts) + i]
    <3>1. n + i \in 1..Len(ages) /\ Len(sent) - Len(ages) + (n + i) = Len(sent) - Len(ts) + i
      BY <1>a, <1>1
    <3>. QED
      BY <1>1, <1>b, <3>1
  <2>2. ASSUME NEW i \in 1..(Len(sent) - Len(ts)) PROVE sent[i] >= Window
    <3>1. CASE i \in 1..(Len(sent) - Len(ages))
      BY <1>b, <3>1
    <3>2. CASE i \notin 1..(Len(sent) - Len(ages))
      <4>. DEFINE j == i - (Len(sent) - Len(ages))
      <4>1. j \in 1..n /\ j \in 1..Len(ages) /\ Len(sent) - Len(ages) + j = i
        <5>. DEFINE l == Len(ages)
                    m == Len(sent)
        <5>1. l \in Nat /\ m \in Nat /\ l <= m /\ n \in 0..l /\ i \in 1..(m - (l - n))
              /\ i \notin 1..(m - l)
          BY <1>a, <1>b, <1>1, <3>2
        <5>. HIDE DEF l, m
        <5>2. i - (m - l) \in 1..n /\ i - (m - l) \in 1..l /\ m - l + (i - (m - l)) = i
          BY <5>1
        <5>. QED
          BY <5>2 DEF l, m
      <4>2. ages[j] >= Window /\ ages[j] = sent[i]
        BY <1>b, <1>1, <4>1 DEF IsExpired
      <4>. QED
        BY <4>2
    <3>. QED
      BY <3>1, <3>2
  <2>. QED
    BY <1>a, <1>b, <1>2, <2>1, <2>2
<1>4. ASSUME Full(ts) PROVE missing \in 1..Window
  <2>1. Len(ts) >= 1 /\ Head(ts) = ts[1] /\ 1 \in 1..Len(ts) /\ n < Len(ages)
    BY <1>a, <1>1, <1>2, <1>4 DEF Full
  <2>2. ts[1] = ages[n + 1] /\ ts[1] \in 0..Window
    <3>1. 1 \in 1..(Len(ages) - n)
      BY <1>a, <1>1, <2>1
    <3>2. ts[1] = ages[n + 1]
      BY <1>1, <3>1
    <3>3. ts \in Seq(0..Window) /\ 1 \in 1..Len(ts)
      BY <1>1, <2>1
    <3>4. ts[1] \in 0..Window
      BY <3>3, ElementOfSeq
    <3>. QED
      BY <3>2, <3>4
  <2>3. ages[n + 1] < Window
    BY <1>1, <2>1 DEF IsExpired
  <2>. QED
    BY <1>a, <2>1, <2>2, <2>3
<1>5. maxWait >= Window => ~(Full(ts) /\ TooLong(missing))
  BY <1>a, <1>4 DEF TooLong
<1>6. /\ \/ ~Full(ts) /\ ages' = Append(ts, 0) /\ sent' = Append(sent, 0) /\ wait' = wait
         \/ ages' = ts /\ sent' = sent /\ wait' = wait
         \/ Full(ts) /\ ages' = ts /\ sent' = sent /\ wait' = [wait EXCEPT ![c] = missing]
  BY DEF Poll, ts
<1>7. CASE ~Full(ts) /\ ages' = Append(ts, 0) /\ sent' = Append(sent, 0) /\ wait' = wait
  <2>1. 0 \in 0..Window
    BY <1>a
  <2>2. /\ ages' \in Seq(0..Window) /\ Len(ages') = Len(ts) + 1 /\ ages'[Len(ts) + 1] = 0
        /\ \A i \in 1..Len(ts) : ages'[i] = ts[i]
    BY <1>1, <1>7, <2>1
  <2>3. /\ sent' \in Seq(0..Window) /\ Len(sent') = Len(sent) + 1 /\ sent'[Len(sent) + 1] = 0
        /\ \A i \in 1..Len(sent) : sent'[i] = sent[i]
    BY <1>a, <1>7, <2>1
  <2>4. Len(ages') <= MaxRequests
    BY <1>a, <1>2, <1>7, <2>2 DEF Full
  <2>5. ASSUME NEW i \in 1..Len(ages') PROVE ages'[i] = sent'[Len(sent') - Len(ages') + i]
    <3>1. CASE i = Len(ts) + 1
      <4>1. Len(sent') - Len(ages') + i = Len(sent) + 1
        BY <1>a, <1>2, <2>2, <2>3, <3>1
      <4>. QED
        BY <2>2, <2>3, <3>1, <4>1
    <3>2. CASE i # Len(ts) + 1
      <4>1. /\ i \in 1..Len(ts) /\ Len(sent') - Len(ages') + i = Len(sent) - Len(ts) + i
            /\ Len(sent) - Len(ts) + i \in 1..Len(sent)
        <5>. DEFINE k == Len(ts)
                    m == Len(sent)
        <5>1. /\ k \in Nat /\ m \in Nat /\ k <= m /\ i \in 1..(k + 1) /\ i # k + 1
              /\ Len(ages') = k + 1 /\ Len(sent') = m + 1
          BY <1>a, <1>2, <1>3, <2>2, <2>3, <3>2
        <5>. HIDE DEF k, m
        <5>2. i \in 1..k /\ (m + 1) - (k + 1) + i = m - k + i /\ m - k + i \in 1..m
          BY <5>1
        <5>. QED
          BY <5>1, <5>2 DEF k, m
      <4>. QED
        BY <1>3, <2>2, <2>3, <4>1
    <3>. QED
      BY <3>1, <3>2
  <2>6. ASSUME NEW i \in 1..(Len(sent') - Len(ages')) PROVE sent'[i] >= Window
    <3>1. i \in 1..(Len(sent) - Len(ts)) /\ i \in 1..Len(sent)
      <4>. DEFINE k == Len(ts)
                  m == Len(sent)
      <4>1. k \in Nat /\ m \in Nat /\ i \in 1..((m + 1) - (k + 1))
        BY <1>a, <1>2, <2>2, <2>3
      <4>. HIDE DEF k, m
      <4>2. i \in 1..(m - k) /\ i \in 1..m
        BY <4>1
      <4>. QED
        BY <4>2 DEF k, m
    <3>. QED
      BY <1>3, <2>3, <3>1
  <2>7. Len(ages') <= Len(sent')
    BY <1>a, <1>2, <1>3, <2>2, <2>3
  <2>8. LimiterInv'
    BY <2>5, <2>6, <2>7 DEF LimiterInv
  <2>. QED
    BY <1>a, <1>5, <1>7, <2>2, <2>3, <2>4, <2>8 DEF ts
<1>8. ASSUME ages' = ts, sent' = sent, wait' \in [Call -> 0..Window]
      PROVE  /\ LimiterInv' /\ (ages \in Seq(0..Window))' /\ (sent \in Seq(0..Window))'
             /\ (Len(ages) <= MaxRequests)' /\ (wait \in [Call -> 0..Window])'
  <2>1. LimiterInv'
    BY <1>3, <1>8 DEF LimiterInv
  <2>. QED
    BY <1>a, <1>1, <1>2, <1>8, <2>1
<1>9. CASE ages' = ts /\ sent' = sent /\ wait' = wait
  BY <1>a, <1>5, <1>8, <1>9 DEF ts
<1>10. CASE Full(ts) /\ ages' = ts /\ sent' = sent /\ wait' = [wait EXCEPT ![c] = missing]
  <2>1. missing \in 0..Window
    BY <1>a, <1>4, <1>10
  <2>. HIDE DEF missing
  <2>2. wait' \in [Call -> 0..Window]
    BY <1>a, <1>10, <2>1
  <2>. QED
    BY <1>5, <1>8, <1>10, <2>2 DEF ts, missing
<1>. QED
  BY <1>6, <1>7, <1>9, <1>10

\* Time passes alike for the limiter and for what it is measured against.
LEMMA OlderIs ==
  ASSUME NEW ts \in Seq(0..Window), Window \in Nat
  PROVE  /\ Older(ts) \in Seq(0..Window) /\ Len(Older(ts)) = Len(ts)
         /\ \A i \in 1..Len(ts) : Older(ts)[i] = IF ts[i] < Window THEN ts[i] + 1 ELSE Window
<1>1. Len(ts) \in Nat /\ \A i \in 1..Len(ts) : ts[i] \in 0..Window
  OBVIOUS
<1>2. \A i \in 1..Len(ts) : (IF ts[i] < Window THEN ts[i] + 1 ELSE Window) \in 0..Window
  BY <1>1
<1>3. Older(ts) \in [1..Len(ts) -> 0..Window]
  BY <1>2 DEF Older
<1>. QED
  BY <1>1, <1>3 DEF Older

LEMMA TickKeepsAll ==
  ASSUME GenerationInv, Tick
  PROVE  GenerationInv'
<1>a. /\ Window \in Nat \ {0} /\ ages \in Seq(0..Window) /\ sent \in Seq(0..Window)
      /\ wait \in [Call -> 0..Window] /\ Len(ages) \in Nat /\ Len(sent) \in Nat
  BY GenerationAssumption DEF GenerationInv, TypeOK
<1>1. /\ ages' = Older(ages) /\ sent' = Older(sent)
      /\ wait' = [c \in Call |-> IF wait[c] > 0 THEN wait[c] - 1 ELSE 0]
      /\ UNCHANGED <<pc, request, result, maxWait, cache, faults>>
  BY DEF Tick
<1>2. /\ ages' \in Seq(0..Window) /\ Len(ages') = Len(ages)
      /\ \A i \in 1..Len(ages) : ages'[i] = IF ages[i] < Window THEN ages[i] + 1 ELSE Window
  BY <1>a, <1>1, OlderIs
<1>3. /\ sent' \in Seq(0..Window) /\ Len(sent') = Len(sent)
      /\ \A i \in 1..Len(sent) : sent'[i] = IF sent[i] < Window THEN sent[i] + 1 ELSE Window
  BY <1>a, <1>1, OlderIs
<1>4. wait' \in [Call -> 0..Window]
  BY <1>a, <1>1
<1>5. TypeOK'
  BY <1>1, <1>2, <1>3, <1>4 DEF GenerationInv, TypeOK
<1>6. LimiterInv'
  <2>1. /\ Len(ages) <= Len(sent)
        /\ \A i \in 1..Len(ages) : ages[i] = sent[Len(sent) - Len(ages) + i]
        /\ \A i \in 1..(Len(sent) - Len(ages)) : sent[i] >= Window
    BY DEF GenerationInv, LimiterInv
  <2>2. ASSUME NEW i \in 1..Len(ages) PROVE ages'[i] = sent'[Len(sent) - Len(ages) + i]
    <3>1. Len(sent) - Len(ages) + i \in 1..Len(sent)
      BY <1>a, <2>1
    <3>. QED
      BY <1>2, <1>3, <2>1, <3>1
  <2>3. ASSUME NEW i \in 1..(Len(sent) - Len(ages)) PROVE sent'[i] >= Window
    <3>1. i \in 1..Len(sent) /\ sent[i] >= Window
      BY <1>a, <2>1
    <3>2. sent[i] \in 0..Window
      BY <1>a, <3>1
    <3>. QED
      BY <1>a, <1>3, <3>1, <3>2
  <2>. QED
    BY <1>2, <1>3, <2>1, <2>2, <2>3 DEF LimiterInv
<1>7. NeverRefused' /\ CacheInv'
  BY <1>1 DEF GenerationInv, NeverRefused, CacheInv, Answered
<1>. QED
  BY <1>5, <1>6, <1>7 DEF GenerationInv

LEMMA Results ==
  /\ \A c \in Call, b \in BOOLEAN : /\ Turn(c, b) \in Result /\ Turn(c, b).kind = "turn"
                                    /\ Turn(c, b).by = c /\ Turn(c, b).cached = b
  /\ \A k \in {"none", "refused", "failed"} : NoTurn(k) \in Result /\ NoTurn(k).kind = k
BY DEF Turn, NoTurn, Result

\* A call that has no turn yet may get one: its own from a provider, or the turn of a call
\* that has answered the same request.
LEMMA CallGetsResult ==
  ASSUME GenerationInv, NEW c \in Call, pc[c] \notin {"store", "done"},
         NEW step \in Pc, NEW r \in Result,
         pc' = [pc EXCEPT ![c] = step], result' = [result EXCEPT ![c] = r],
         request' = request, cache' = cache,
         step \notin {"store", "done"} => r = NoTurn("none"),
         step = "store" => r = Turn(c, FALSE),
         r.kind = "turn" => \/ r = Turn(c, FALSE) /\ step = "store"
                            \/ \E by \in Call : /\ r = Turn(by, TRUE) /\ request[by] = request[c]
                                                /\ Answered(by)
  PROVE  /\ CacheInv' /\ (pc \in [Call -> Pc])' /\ (result \in [Call -> Result])'
<1>a. /\ pc \in [Call -> Pc] /\ result \in [Call -> Result] /\ cache \in [Request -> Call \cup {None}]
      /\ request \in [Call -> Request]
  BY DEF GenerationInv, TypeOK
<1>b. /\ \A d \in Call : pc[d] \notin {"store", "done"} => result[d] = NoTurn("none")
      /\ \A d \in Call : pc[d] = "store" => result[d] = Turn(d, FALSE)
      /\ \A q \in Request : cache[q] # None => request[cache[q]] = q /\ Answered(cache[q])
      /\ \A d \in Call : result[d].kind = "turn" =>
           request[result[d].by] = request[d] /\ Answered(result[d].by)
             /\ (result[d].cached <=> result[d].by # d)
  BY DEF GenerationInv, CacheInv
<1>1. /\ pc' \in [Call -> Pc] /\ result' \in [Call -> Result]
      /\ pc'[c] = step /\ result'[c] = r
      /\ \A d \in Call \ {c} : pc'[d] = pc[d] /\ result'[d] = result[d]
  BY <1>a
<1>2. \A d \in Call : Answered(d) => d # c /\ Answered(d)'
  BY <1>1 DEF Answered
<1>3. \A d \in Call : result[d].kind = "turn" => result[d].by \in Call
  <2>1. \A x \in Result : x.kind = "turn" => x.by \in Call
    BY DEF Result
  <2>. QED
    BY <1>a, <2>1
<1>4. ASSUME NEW d \in Call
      PROVE  /\ pc'[d] \notin {"store", "done"} => result'[d] = NoTurn("none")
             /\ pc'[d] = "store" => result'[d] = Turn(d, FALSE)
  BY <1>b, <1>1
<1>5. ASSUME NEW q \in Request, cache'[q] # None
      PROVE  request'[cache'[q]] = q /\ Answered(cache[q])'
  <2>1. cache[q] \in Call /\ request[cache[q]] = q /\ Answered(cache[q])
    BY <1>a, <1>b, <1>5
  <2>2. Answered(cache[q])'
    BY <1>1, <1>2, <2>1 DEF Answered
  <2>. QED
    BY <2>1, <2>2
<1>6. ASSUME NEW d \in Call, result'[d].kind = "turn"
      PROVE  /\ request'[result'[d].by] = request'[d] /\ Answered(result[d].by)'
             /\ (result'[d].cached <=> result'[d].by # d)
  <2>1. CASE d # c
    <3>1. result[d].by \in Call /\ Answered(result[d].by)
      BY <1>b, <1>1, <1>3, <1>6, <2>1
    <3>2. PICK by \in Call : by = result[d].by
      BY <3>1
    <3>3. Answered(by)'
      BY <1>2, <3>1, <3>2
    <3>4. /\ result'[d].by = by /\ request[by] = request[d]
          /\ (result'[d].cached <=> by # d)
      BY <1>b, <1>1, <1>6, <2>1, <3>2
    <3>. QED
      BY <3>3, <3>4 DEF Answered
  <2>2. CASE d = c /\ r = Turn(c, FALSE) /\ step = "store"
    BY <1>1, <2>2, Results DEF Answered
  <2>3. ASSUME d = c, NEW by \in Call, r = Turn(by, TRUE), request[by] = request[c], Answered(by)
        PROVE  /\ request'[result'[d].by] = request'[d] /\ Answered(result[d].by)'
               /\ (result'[d].cached <=> result'[d].by # d)
    <3>1. result'[d] = Turn(by, TRUE) /\ result'[d].by = by /\ result'[d].cached
      BY <1>1, <2>3, Results
    <3>2. by # c /\ Answered(by)'
      BY <1>2, <2>3
    <3>. QED
      BY <2>3, <3>1, <3>2 DEF Answered
  <2>. QED
    BY <1>1, <1>6, <2>1, <2>2, <2>3
<1>7. CacheInv'
  BY <1>4, <1>5, <1>6 DEF CacheInv
<1>. QED
  BY <1>1, <1>7

\* A turn that its provider gave replaces what is stored under its key.
LEMMA PutKeepsCache ==
  ASSUME GenerationInv, NEW c \in Call, Put(c)
  PROVE  CacheInv' /\ (cache \in [Request -> Call \cup {None}])' /\ (pc \in [Call -> Pc])'
<1>a. /\ pc \in [Call -> Pc] /\ result \in [Call -> Result] /\ cache \in [Request -> Call \cup {None}]
      /\ request \in [Call -> Request]
  BY DEF GenerationInv, TypeOK
<1>b. /\ \A d \in Call : pc[d] \notin {"store", "done"} => result[d] = NoTurn("none")
      /\ \A d \in Call : pc[d] = "store" => result[d] = Turn(d, FALSE)
      /\ \A q \in Request : cache[q] # None => request[cache[q]] = q /\ Answered(cache[q])
      /\ \A d \in Call : result[d].kind = "turn" =>
           request[result[d].by] = request[d] /\ Answered(result[d].by)
             /\ (result[d].cached <=> result[d].by # d)
  BY DEF GenerationInv, CacheInv
<1>1. /\ pc[c] = "store" /\ pc' = [pc EXCEPT ![c] = "done"]
      /\ cache' = [cache EXCEPT ![request[c]] = c] \/ cache' = cache
      /\ UNCHANGED <<request, result>>
  BY DEF Put, CacheKey, Goto
<1>2. /\ pc' \in [Call -> Pc] /\ pc'[c] = "done" /\ \A d \in Call \ {c} : pc'[d] = pc[d]
  BY <1>a, <1>1 DEF Pc
<1>3. \A d : Answered(d) /\ d \in Call => Answered(d)'
  BY <1>1, <1>2 DEF Answered
<1>4. Answered(c) /\ Answered(c)'
  BY <1>b, <1>1, <1>2 DEF Answered
<1>5. \A d \in Call : result[d].kind = "turn" => result[d].by \in Call
  <2>1. \A x \in Result : x.kind = "turn" => x.by \in Call
    BY DEF Result
  <2>. QED
    BY <1>a, <2>1
<1>6. cache' \in [Request -> Call \cup {None}]
  BY <1>a, <1>1
<1>7. ASSUME NEW q \in Request, cache'[q] # None
      PROVE  request'[cache'[q]] = q /\ Answered(cache[q])'
  <2>1. CASE cache'[q] = c /\ q = request[c]
    BY <1>1, <1>4, <2>1 DEF Answered
  <2>2. CASE cache'[q] = cache[q]
    <3>1. PICK d \in Call : d = cache[q]
      BY <1>a, <1>7, <2>2
    <3>2. request[d] = q /\ Answered(d)'
      BY <1>b, <1>3, <1>7, <2>2, <3>1
    <3>. QED
      BY <1>1, <2>2, <3>1, <3>2 DEF Answered
  <2>. QED
    BY <1>a, <1>1, <2>1, <2>2
<1>8. ASSUME NEW d \in Call, result'[d].kind = "turn"
      PROVE  /\ request'[result'[d].by] = request'[d] /\ Answered(result[d].by)'
             /\ (result'[d].cached <=> result'[d].by # d)
  <2>1. PICK by \in Call : by = result[d].by
    BY <1>1, <1>5, <1>8
  <2>2. Answered(by)' /\ request[by] = request[d] /\ (result[d].cached <=> by # d)
    BY <1>b, <1>1, <1>3, <1>8, <2>1
  <2>. QED
    BY <1>1, <2>1, <2>2 DEF Answered
<1>9. \A d \in Call : /\ pc'[d] \notin {"store", "done"} => result'[d] = NoTurn("none")
                      /\ pc'[d] = "store" => result'[d] = Turn(d, FALSE)
  BY <1>b, <1>1, <1>2
<1>. QED
  BY <1>2, <1>6, <1>7, <1>8, <1>9 DEF CacheInv

LEMMA InvNext ==
  ASSUME GenerationInv, [Next]_vars
  PROVE  GenerationInv'
<1>a. /\ pc \in [Call -> Pc] /\ result \in [Call -> Result] /\ cache \in [Request -> Call \cup {None}]
      /\ request \in [Call -> Request] /\ faults \in 0..MaxFaults /\ MaxFaults \in Nat
      /\ None \notin Call /\ wait \in [Call -> 0..Window]
      /\ ages \in Seq(0..Window) /\ Len(ages) <= MaxRequests /\ maxWait \in MaxWait
      /\ sent \in Seq(0..Window)
  BY GenerationAssumption DEF GenerationInv, TypeOK
<1>b. /\ \A d \in Call : maxWait >= Window => result[d].kind # "refused"
      /\ \A d \in Call : pc[d] \notin {"store", "done"} => result[d] = NoTurn("none")
      /\ \A q \in Request : cache[q] # None => request[cache[q]] = q /\ Answered(cache[q])
  BY DEF GenerationInv, NeverRefused, CacheInv
<1>c. {"new", "acquire", "sleep", "fetch", "store", "done"} = Pc
  BY DEF Pc
<1>e. \A k \in {"none", "refused", "failed"} :
        NoTurn(k) \in Result /\ NoTurn(k).kind = k /\ k # "turn"
  BY Results
<1>d. LimiterInv
  BY DEF GenerationInv
<1>1. ASSUME NEW c \in Call, Hit(c) PROVE GenerationInv'
  <2>. DEFINE row == cache[request[c]]
  <2>1. /\ pc[c] = "new" /\ row # None /\ pc' = [pc EXCEPT ![c] = "done"]
        /\ result' = [result EXCEPT ![c] = Turn(row, TRUE)]
        /\ UNCHANGED <<request, wait, ages, maxWait, cache, faults, sent>>
    BY <1>1 DEF Hit, CacheKey, Goto, Return
  <2>2. row \in Call /\ request[row] = request[c] /\ Answered(row)
    BY <1>a, <1>b, <2>1
  <2>. HIDE DEF row
  <2>3. Turn(row, TRUE) \in Result /\ Turn(row, TRUE).kind = "turn"
    BY <2>2, Results
  <2>4. CacheInv' /\ pc' \in [Call -> Pc] /\ result' \in [Call -> Result]
    BY <1>c, <2>1, <2>2, <2>3, CallGetsResult
  <2>5. NeverRefused'
    BY <1>a, <1>b, <2>1, <2>3 DEF NeverRefused
  <2>6. LimiterInv'
    BY <1>d, <2>1 DEF LimiterInv
  <2>. QED
    BY <1>a, <2>1, <2>4, <2>5, <2>6 DEF GenerationInv, TypeOK
<1>2. ASSUME NEW c \in Call, Miss(c) PROVE GenerationInv'
  <2>1. /\ pc[c] = "new" /\ pc' = [pc EXCEPT ![c] = "acquire"]
        /\ UNCHANGED <<request, wait, result, ages, maxWait, cache, sent>>
        /\ faults' \in 0..MaxFaults
    BY <1>a, <1>2 DEF Miss, Goto
  <2>2. result' = [result EXCEPT ![c] = NoTurn("none")]
    BY <1>a, <1>b, <2>1
  <2>3. CacheInv' /\ pc' \in [Call -> Pc] /\ result' \in [Call -> Result]
    BY <1>c, <1>e, <2>1, <2>2, CallGetsResult
  <2>4. NeverRefused'
    BY <1>b, <2>1 DEF NeverRefused
  <2>5. LimiterInv'
    BY <1>d, <2>1 DEF LimiterInv
  <2>. QED
    BY <1>a, <2>1, <2>3, <2>4, <2>5 DEF GenerationInv, TypeOK
<1>3. ASSUME NEW c \in Call, Poll(c) PROVE GenerationInv'
  <2>1. /\ LimiterInv' /\ (ages \in Seq(0..Window))' /\ (sent \in Seq(0..Window))'
        /\ (Len(ages) <= MaxRequests)' /\ (wait \in [Call -> 0..Window])'
        /\ maxWait >= Window => ~(Full(InWindow(ages)) /\ TooLong(Window - Head(InWindow(ages))))
    BY <1>3, PollKeepsLimit
  <2>2. /\ pc[c] \notin {"store", "done"} /\ UNCHANGED <<request, maxWait, cache, faults>>
        /\ \/ pc' = [pc EXCEPT ![c] = "fetch"] /\ result' = result
           \/ /\ Full(InWindow(ages)) /\ TooLong(Window - Head(InWindow(ages)))
              /\ pc' = [pc EXCEPT ![c] = "done"] /\ result' = [result EXCEPT ![c] = NoTurn("refused")]
           \/ pc' = [pc EXCEPT ![c] = "sleep"] /\ result' = result
    BY <1>3 DEF Poll, Goto, Return
  <2>3. result = [result EXCEPT ![c] = NoTurn("none")]
    BY <1>a, <1>b, <2>2
  <2>4. CASE pc' = [pc EXCEPT ![c] = "fetch"] /\ result' = result
    <3>1. CacheInv' /\ pc' \in [Call -> Pc] /\ result' \in [Call -> Result]
      BY <1>c, <1>e, <2>2, <2>3, <2>4, CallGetsResult
    <3>2. NeverRefused'
      BY <1>b, <2>2, <2>4 DEF NeverRefused
    <3>. QED
      BY <1>a, <2>1, <2>2, <3>1, <3>2 DEF GenerationInv, TypeOK
  <2>5. CASE pc' = [pc EXCEPT ![c] = "sleep"] /\ result' = result
    <3>1. CacheInv' /\ pc' \in [Call -> Pc] /\ result' \in [Call -> Result]
      BY <1>c, <1>e, <2>2, <2>3, <2>5, CallGetsResult
    <3>2. NeverRefused'
      BY <1>b, <2>2, <2>5 DEF NeverRefused
    <3>. QED
      BY <1>a, <2>1, <2>2, <3>1, <3>2 DEF GenerationInv, TypeOK
  <2>6. CASE /\ Full(InWindow(ages)) /\ TooLong(Window - Head(InWindow(ages)))
             /\ pc' = [pc EXCEPT ![c] = "done"] /\ result' = [result EXCEPT ![c] = NoTurn("refused")]
    <3>1. CacheInv' /\ pc' \in [Call -> Pc] /\ result' \in [Call -> Result]
      BY <1>c, <1>e, <2>2, <2>6, CallGetsResult
    <3>2. NeverRefused'
      BY <2>1, <2>2, <2>6 DEF NeverRefused
    <3>. QED
      BY <1>a, <2>1, <2>2, <3>1, <3>2 DEF GenerationInv, TypeOK
  <2>. QED
    BY <2>2, <2>4, <2>5, <2>6
<1>4. ASSUME NEW c \in Call, Fetch(c) PROVE GenerationInv'
  <2>1. /\ pc[c] = "fetch" /\ UNCHANGED <<request, wait, ages, maxWait, cache, faults, sent>>
        /\ \/ result' = [result EXCEPT ![c] = Turn(c, FALSE)] /\ pc' = [pc EXCEPT ![c] = "store"]
           \/ result' = [result EXCEPT ![c] = NoTurn("failed")] /\ pc' = [pc EXCEPT ![c] = "done"]
    BY <1>4 DEF Fetch, Goto, Return
  <2>2. CacheInv' /\ pc' \in [Call -> Pc] /\ result' \in [Call -> Result]
    <3>1. CASE result' = [result EXCEPT ![c] = Turn(c, FALSE)] /\ pc' = [pc EXCEPT ![c] = "store"]
      BY <1>c, <2>1, <3>1, CallGetsResult, Results
    <3>2. CASE result' = [result EXCEPT ![c] = NoTurn("failed")] /\ pc' = [pc EXCEPT ![c] = "done"]
      BY <1>c, <2>1, <3>2, CallGetsResult, Results
    <3>. QED
      BY <2>1, <3>1, <3>2
  <2>3. NeverRefused'
    <3>1. result'[c].kind # "refused"
      BY <1>a, <1>e, <2>1, Results
    <3>2. \A d \in Call \ {c} : result'[d] = result[d]
      BY <1>a, <2>1
    <3>. QED
      BY <1>b, <2>1, <3>1, <3>2 DEF NeverRefused
  <2>4. LimiterInv'
    BY <1>d, <2>1 DEF LimiterInv
  <2>. QED
    BY <1>a, <2>1, <2>2, <2>3, <2>4 DEF GenerationInv, TypeOK
<1>5. ASSUME NEW c \in Call, Put(c) PROVE GenerationInv'
  <2>1. CacheInv' /\ (cache \in [Request -> Call \cup {None}])' /\ (pc \in [Call -> Pc])'
    BY <1>5, PutKeepsCache
  <2>2. UNCHANGED <<request, wait, result, ages, maxWait, sent>> /\ faults' \in 0..MaxFaults
    BY <1>a, <1>5 DEF Put
  <2>3. NeverRefused' /\ LimiterInv'
    BY <1>b, <1>d, <2>2 DEF NeverRefused, LimiterInv
  <2>. QED
    BY <1>a, <2>1, <2>2, <2>3 DEF GenerationInv, TypeOK
<1>6. ASSUME UNCHANGED vars PROVE GenerationInv'
  BY <1>6 DEF vars, GenerationInv, TypeOK, NeverRefused, LimiterInv, CacheInv, Answered
<1>. QED
  BY <1>1, <1>2, <1>3, <1>4, <1>5, <1>6, TickKeepsAll DEF Next, Step

-----------------------------------------------------------------------------
\* The limits and the answers of CachedGenerator and RateLimiter, for any number of calls,
\* contents, slots and windows: no window holds more starts than allowed, a limiter that may
\* sleep for a window refuses nobody, and a call gets a turn that a provider gave to the
\* same request.
THEOREM LimitsAlwaysKept == Spec => []CallsKeepLimits
<1>1. Init => GenerationInv
  BY InvInit
<1>2. GenerationInv /\ [Next]_vars => GenerationInv'
  BY InvNext
<1>3. GenerationInv => CallsKeepLimits
  <2>. SUFFICES ASSUME GenerationInv PROVE CallsKeepLimits
    OBVIOUS
  <2>1. TypeOK /\ NeverRefused
    BY DEF GenerationInv
  <2>2. WindowHolds
    <3>1. /\ ages \in Seq(0..Window) /\ sent \in Seq(0..Window) /\ Len(ages) <= MaxRequests
          /\ \A i \in 1..(Len(sent) - Len(ages)) : sent[i] >= Window
      BY GenerationAssumption DEF GenerationInv, TypeOK, LimiterInv
    <3>2. ASSUME NEW i \in 1..Len(sent), i + MaxRequests <= Len(sent)
          PROVE  i \in 1..(Len(sent) - Len(ages))
      <4>. DEFINE k == Len(ages)
                  m == Len(sent)
      <4>1. k \in Nat /\ m \in Nat /\ MaxRequests \in Nat /\ k <= MaxRequests
        BY <3>1, GenerationAssumption
      <4>2. i \in 1..m /\ i + MaxRequests <= m
        BY <3>2
      <4>. HIDE DEF k, m
      <4>3. i \in 1..(m - k)
        BY <4>1, <4>2
      <4>. QED
        BY <4>3 DEF k, m
    <3>. QED
      BY <3>1, <3>2 DEF WindowHolds
  <2>3. AnswersOwnRequest
    BY DEF GenerationInv, CacheInv, AnswersOwnRequest, Answered
  <2>. QED
    BY <2>1, <2>2, <2>3 DEF CallsKeepLimits
<1>. QED
  BY <1>1, <1>2, <1>3, PTL DEF Spec

-----------------------------------------------------------------------------
(* Services of one process *)

\* The requests to s that have a process in hand.
Starters(s) == {r \in Handler : service[r] = s /\ mine[r] # 0}

\* Who starts a process for a service is the holder of its lock, so there is one at most.
LEMMA HolderIsOnlyStarter ==
  ASSUME SidecarTypeOK, StarterHoldsLock, StarterHasOne PROVE OneProcess
<1>. SUFFICES ASSUME NEW s \in Service
     PROVE  Cardinality(Starters(s)) <= (IF lock[s] = Nobody THEN 0 ELSE 1)
  BY DEF OneProcess, Starters
<1>1. \A r \in Starters(s) : lock[s] = r /\ r \in Handler
  BY SidecarsAssumption DEF Starters, StarterHoldsLock, StarterHasOne
<1>2. CASE lock[s] = Nobody
  <2>1. Starters(s) = {}
    BY <1>1, <1>2, SidecarsAssumption
  <2>. QED
    BY <1>2, <2>1, FS_EmptySet
<1>3. CASE lock[s] # Nobody
  <2>1. Starters(s) \in SUBSET {lock[s]}
    BY <1>1
  <2>2. IsFiniteSet({lock[s]}) /\ Cardinality({lock[s]}) = 1
    BY FS_Singleton
  <2>3. Cardinality(Starters(s)) <= 1
    BY <2>1, <2>2, FS_Subset
  <2>. QED
    BY <1>3, <2>3
<1>. QED
  BY <1>2, <1>3

LEMMA SidecarsStart == SidecarInit => SidecarInv
<1>. SUFFICES ASSUME SidecarInit PROVE SidecarInv
  OBVIOUS
<1>. USE SidecarsAssumption
<1>1. SidecarTypeOK
  BY DEF SidecarInit, SidecarTypeOK, Place, Answer, Pid
<1>2. /\ NoOrphans /\ ClientsAreCurrent
      /\ ServicesAreQueuedFor /\ StarterHoldsLock /\ StarterHasOne /\ PidsWereSpawned
  BY DEF SidecarInit, NoOrphans, ClientsAreCurrent, ServicesAreQueuedFor, StarterHoldsLock,
         StarterHasOne, PidsWereSpawned
<1>. QED
  BY <1>1, <1>2 DEF SidecarInv

\* A step of one request leaves the others as they are.
Alone(r) ==
  /\ service' = service /\ spawned' >= spawned
  /\ \A q \in Handler \ {r} : place'[q] = place[q] /\ mine'[q] = mine[q] /\ conn'[q] = conn[q]

\* The lock stays with those who hold it, unless it is the request's own.
LocksKept(r) ==
  /\ \A s \in Service : lock[s] \notin {r, Nobody} => lock'[s] = lock[s]
  /\ service[r] \in Service /\ place'[r] \in {"health", "spawn", "ready"} => lock'[service[r]] = r

LEMMA LocksAreKept ==
  ASSUME SidecarInv, NEW r \in Handler, Alone(r), LocksKept(r) PROVE StarterHoldsLock'
BY SidecarsAssumption DEF SidecarInv, Alone, LocksKept, StarterHoldsLock

LEMMA UnlockKeeps ==
  ASSUME SidecarInv, NEW r \in Handler, Unlock(r)
  PROVE  /\ lock' \in [Service -> Handler \cup {Nobody}]
         /\ \A s \in Service : lock[s] \notin {r, Nobody} => lock'[s] = lock[s]
BY DEF SidecarInv, SidecarTypeOK, Unlock

\* Steps that start no process: arriving, taking the lock, looking at the kept process.
LEMMA QueueKeeps ==
  ASSUME SidecarInv, NEW r \in Handler, TryStart(r) \/ Arrive(r) \/ Lock(r) \/ CheckHealth(r)
  PROVE  SidecarInv'
<1>. USE SidecarsAssumption
<1>t. SidecarTypeOK /\ ServicesAreQueuedFor
  BY DEF SidecarInv
<1>a. UNCHANGED <<service, kept, mine, waited, spawned, running, ready, answer>>
  BY DEF TryStart, Arrive, Lock, CheckHealth
<1>b. place[r] \in {"idle", "queue", "health"} /\ place' \in [Handler -> Place]
  BY <1>t DEF TryStart, Arrive, Lock, CheckHealth, Proceed, SidecarTypeOK, Place
<1>c. \/ conn' = conn /\ place'[r] # "call"
      \/ /\ conn' = [conn EXCEPT ![r] = kept[service[r]]]
         /\ service[r] \in Service /\ place'[r] = "call"
  BY <1>t DEF TryStart, Arrive, Lock, CheckHealth, Proceed, ServicesAreQueuedFor, SidecarTypeOK
<1>d. Alone(r)
  BY <1>t, <1>a, <1>c DEF Alone, TryStart, Arrive, Lock, CheckHealth, Proceed, SidecarTypeOK
<1>e. lock' \in [Service -> Handler \cup {Nobody}] /\ LocksKept(r)
  <2>1. CASE TryStart(r) \/ Arrive(r)
    BY <1>t, <2>1 DEF TryStart, Arrive, Proceed, LocksKept, SidecarTypeOK
  <2>2. CASE Lock(r)
    BY <1>t, <2>2 DEF Lock, Proceed, LocksKept, SidecarTypeOK, ServicesAreQueuedFor
  <2>3. CASE CheckHealth(r) /\ lock' = lock
    BY <1>t, <2>3 DEF CheckHealth, LocksKept, SidecarTypeOK, SidecarInv, StarterHoldsLock
  <2>4. CASE CheckHealth(r) /\ Unlock(r) /\ place'[r] = "call"
    BY <2>4, UnlockKeeps DEF LocksKept
  <2>5. CheckHealth(r) => lock' = lock \/ (Unlock(r) /\ place'[r] = "call")
    BY <1>t DEF CheckHealth, Proceed, SidecarTypeOK
  <2>. QED
    BY <2>1, <2>2, <2>3, <2>4, <2>5
<1>1. SidecarTypeOK'
  <2>1. conn' \in [Handler -> Pid \cup {0}]
    BY <1>t, <1>c DEF SidecarTypeOK
  <2>2. outages' \in 0..MaxOutages
    BY <1>t DEF TryStart, Arrive, Lock, CheckHealth, SidecarTypeOK
  <2>. QED
    BY <1>t, <1>a, <1>b, <1>e, <2>1, <2>2 DEF SidecarTypeOK
<1>2. NoOrphans'
  BY <1>a DEF SidecarInv, NoOrphans
<1>3. ClientsAreCurrent'
  BY <1>a, <1>c, <1>d, <1>t DEF SidecarInv, ClientsAreCurrent, Alone, SidecarTypeOK
<1>4. ServicesAreQueuedFor'
  BY <1>t, <1>d DEF ServicesAreQueuedFor, Alone, TryStart, Arrive, Lock, CheckHealth, Proceed,
     SidecarTypeOK
<1>5. StarterHoldsLock'
  BY <1>d, <1>e, LocksAreKept
<1>6. StarterHasOne'
  BY <1>a, <1>b, <1>d DEF SidecarInv, StarterHasOne, Alone
<1>7. PidsWereSpawned'
  BY <1>a, <1>c, <1>t DEF SidecarInv, PidsWereSpawned, SidecarTypeOK
<1>. QED
  BY <1>1, <1>2, <1>3, <1>4, <1>5, <1>6, <1>7 DEF SidecarInv

\* A new process has no number that anybody knows.
LEMMA SpawnKeeps ==
  ASSUME SidecarInv, NEW r \in Handler, Spawn(r) PROVE SidecarInv'
<1>. USE SidecarsAssumption
<1>t. SidecarTypeOK /\ mine[r] = 0 /\ place[r] = "spawn" /\ spawned \in Nat
  BY DEF SidecarInv, Spawn, StarterHasOne, SidecarTypeOK
<1>a. UNCHANGED <<service, kept, conn, waited, ready, outages>>
  BY DEF Spawn
<1>b. \/ /\ spawned < MaxSpawns /\ spawned' = spawned + 1 /\ running' = running \cup {spawned + 1}
         /\ mine' = [mine EXCEPT ![r] = spawned + 1] /\ place' = [place EXCEPT ![r] = "ready"]
         /\ UNCHANGED <<answer, lock>>
      \/ /\ place' = [place EXCEPT ![r] = "done"] /\ answer' = [answer EXCEPT ![r] = "unavailable"]
         /\ Unlock(r) /\ UNCHANGED <<mine, spawned, running>>
  BY DEF Spawn, Proceed, Finish
<1>c. spawned' \in 0..MaxSpawns /\ spawned' >= spawned /\ spawned + 1 > spawned
  BY <1>b, <1>t DEF SidecarTypeOK
<1>d. Alone(r)
  BY <1>t, <1>a, <1>b, <1>c DEF Alone, SidecarTypeOK
<1>e. lock' \in [Service -> Handler \cup {Nobody}] /\ LocksKept(r)
  <2>1. CASE lock' = lock
    BY <1>t, <2>1 DEF LocksKept, SidecarTypeOK, SidecarInv, StarterHoldsLock
  <2>2. CASE Unlock(r) /\ place'[r] = "done"
    BY <2>2, UnlockKeeps DEF LocksKept
  <2>. QED
    BY <1>b, <1>t, <2>1, <2>2 DEF SidecarTypeOK
<1>1. SidecarTypeOK'
  <2>1. place' \in [Handler -> Place] /\ answer' \in [Handler -> Answer]
    BY <1>b, <1>t DEF SidecarTypeOK, Place, Answer
  <2>2. mine' \in [Handler -> Pid \cup {0}]
    BY <1>b, <1>t DEF SidecarTypeOK, Pid
  <2>3. ready' \subseteq running' /\ running' \subseteq 1..spawned'
    <3>1. \A n \in 1..spawned : n \in 1..(spawned + 1)
      BY <1>t
    <3>2. spawned + 1 \in 1..(spawned + 1)
      BY <1>t
    <3>. QED
      BY <3>1, <3>2, <1>a, <1>b, <1>t DEF SidecarTypeOK
  <2>. QED
    BY <1>t, <1>a, <1>c, <1>e, <2>1, <2>2, <2>3 DEF SidecarTypeOK
<1>2. NoOrphans'
  <2>1. \A q \in Handler : mine[q] # 0 => mine'[q] = mine[q]
    BY <1>b, <1>t DEF SidecarTypeOK
  <2>2. running' = running \/ (running' = running \cup {spawned + 1} /\ mine'[r] = spawned + 1)
    BY <1>b, <1>t DEF SidecarTypeOK
  <2>3. \A p \in running : p # 0
    BY <1>t DEF SidecarTypeOK
  <2>. QED
    BY <2>1, <2>2, <2>3, <1>a DEF SidecarInv, NoOrphans
<1>3. ClientsAreCurrent'
  <2>1. ASSUME NEW q \in Handler, place'[q] = "call", conn'[q] \in running'
        PROVE  conn'[q] = mine'[q] \/ \E s \in Service : conn'[q] = kept'[s]
    <3>1. q # r /\ place[q] = "call" /\ conn'[q] = conn[q] /\ mine'[q] = mine[q]
      BY <2>1, <1>b, <1>d, <1>t DEF Alone, SidecarTypeOK
    <3>2. conn[q] <= spawned /\ conn[q] \in Nat
      BY <1>t DEF SidecarInv, PidsWereSpawned, SidecarTypeOK, Pid
    <3>3. conn[q] \in running
      BY <2>1, <3>1, <3>2, <1>b, <1>c, <1>t
    <3>. QED
      BY <3>1, <3>3, <1>a DEF SidecarInv, ClientsAreCurrent
  <2>. QED
    BY <2>1 DEF ClientsAreCurrent
<1>4. ServicesAreQueuedFor'
  BY <1>b, <1>d, <1>t DEF SidecarInv, ServicesAreQueuedFor, Alone, SidecarTypeOK
<1>5. StarterHoldsLock'
  BY <1>d, <1>e, LocksAreKept
<1>6. StarterHasOne'
  BY <1>b, <1>d, <1>t DEF SidecarInv, StarterHasOne, Alone, SidecarTypeOK
<1>7. PidsWereSpawned'
  <2>1. ASSUME NEW q \in Handler PROVE mine'[q] <= spawned' /\ conn'[q] <= spawned'
    BY <1>a, <1>b, <1>c, <1>t DEF SidecarInv, PidsWereSpawned, SidecarTypeOK, Pid
  <2>2. ASSUME NEW s \in Service PROVE kept'[s] <= spawned'
    BY <1>a, <1>c, <1>t DEF SidecarInv, PidsWereSpawned, SidecarTypeOK, Pid
  <2>. QED
    BY <2>1, <2>2 DEF PidsWereSpawned
<1>. QED
  BY <1>1, <1>2, <1>3, <1>4, <1>5, <1>6, <1>7 DEF SidecarInv

\* A request that ends drops the process it has in hand, and nothing else.
Ends(r) ==
  /\ place' = [place EXCEPT ![r] = "done"] /\ answer' \in [Handler -> Answer]
  /\ lock' = lock \/ Unlock(r)
  /\ mine' = [mine EXCEPT ![r] = 0] /\ running' = running \ {mine[r]} /\ ready' = ready \ {mine[r]}
  /\ UNCHANGED <<service, kept, conn, waited, spawned, outages>>

LEMMA EndKeeps ==
  ASSUME SidecarInv, NEW r \in Handler, Ends(r) PROVE SidecarInv'
<1>. USE SidecarsAssumption
<1>t. SidecarTypeOK
  BY DEF SidecarInv
<1>a. /\ Alone(r) /\ place'[r] = "done" /\ mine'[r] = 0
  BY <1>t DEF Alone, Ends, SidecarTypeOK
<1>b. lock' \in [Service -> Handler \cup {Nobody}] /\ LocksKept(r)
  BY <1>a, <1>t, UnlockKeeps DEF Ends, LocksKept, SidecarTypeOK
<1>1. SidecarTypeOK'
  <2>1. place' \in [Handler -> Place] /\ mine' \in [Handler -> Pid \cup {0}]
    BY <1>t DEF Ends, SidecarTypeOK, Place
  <2>2. ready' \subseteq running' /\ running' \subseteq 1..spawned'
    BY <1>t DEF Ends, SidecarTypeOK
  <2>. QED
    BY <1>t, <1>b, <2>1, <2>2 DEF Ends, SidecarTypeOK
<1>2. NoOrphans'
  BY <1>a DEF SidecarInv, NoOrphans, Ends, Alone
<1>3. ClientsAreCurrent'
  BY <1>a DEF SidecarInv, ClientsAreCurrent, Ends, Alone
<1>4. ServicesAreQueuedFor'
  BY <1>a DEF SidecarInv, ServicesAreQueuedFor, Alone
<1>5. StarterHoldsLock'
  BY <1>a, <1>b, LocksAreKept
<1>6. StarterHasOne'
  BY <1>a DEF SidecarInv, StarterHasOne, Alone
<1>7. PidsWereSpawned'
  BY <1>t DEF SidecarInv, PidsWereSpawned, Ends, SidecarTypeOK
<1>. QED
  BY <1>1, <1>2, <1>3, <1>4, <1>5, <1>6, <1>7 DEF SidecarInv

\* A process that answers is handed over: what it replaces is dropped, and who was talking
\* to that one talks to a dead one.
LEMMA HandOverKeeps ==
  ASSUME SidecarInv, NEW r \in Handler, place[r] = "ready", place' = [place EXCEPT ![r] = "call"],
         conn' = [conn EXCEPT ![r] = mine[r]], Keep(r), Unlock(r),
         UNCHANGED <<answer, waited, service, spawned, outages>>
  PROVE  SidecarInv'
<1>. USE SidecarsAssumption
<1>t. SidecarTypeOK
  BY DEF SidecarInv
<1>a. /\ place'[r] = "call" /\ conn'[r] = mine[r]
      /\ service[r] = Cli \/ (service[r] # Cli /\ service[r] \in Service)
  BY <1>t DEF SidecarTypeOK
<1>b. /\ service[r] = Cli => UNCHANGED <<kept, mine, running, ready>>
      /\ service[r] # Cli => /\ kept' = [kept EXCEPT ![service[r]] = mine[r]]
                             /\ mine' = [mine EXCEPT ![r] = 0]
                             /\ running' = running \ {kept[service[r]]}
                             /\ ready' = ready \ {kept[service[r]]}
  BY DEF Keep, DropSupervisor
<1>c. Alone(r)
  BY <1>t, <1>a, <1>b DEF Alone, SidecarTypeOK
<1>d. lock' \in [Service -> Handler \cup {Nobody}] /\ LocksKept(r)
  BY <1>a, UnlockKeeps DEF LocksKept
<1>e. /\ service[r] # Cli => kept'[service[r]] = mine[r] /\ mine'[r] = 0
      /\ \A s \in Service : s # service[r] => kept'[s] = kept[s]
  BY <1>t, <1>a, <1>b DEF SidecarTypeOK
<1>1. SidecarTypeOK'
  <2>1. place' \in [Handler -> Place] /\ mine' \in [Handler -> Pid \cup {0}]
    BY <1>t, <1>b DEF SidecarTypeOK, Place
  <2>2. kept' \in [Service -> Pid \cup {0}] /\ conn' \in [Handler -> Pid \cup {0}]
    BY <1>t, <1>b DEF SidecarTypeOK
  <2>3. ready' \subseteq running' /\ running' \subseteq 1..spawned'
    BY <1>t, <1>b DEF SidecarTypeOK
  <2>. QED
    BY <1>t, <1>d, <2>1, <2>2, <2>3 DEF SidecarTypeOK
<1>2. NoOrphans'
  <2>1. CASE service[r] = Cli
    BY <1>b, <2>1 DEF SidecarInv, NoOrphans
  <2>2. CASE service[r] # Cli
    <3>1. ASSUME NEW p \in running' PROVE (\E s \in Service : kept'[s] = p) \/ \E q \in Handler : mine'[q] = p
      <4>1. p \in running /\ p # kept[service[r]]
        BY <1>b, <2>2, <3>1
      <4>2. CASE \E s \in Service : kept[s] = p
        BY <4>1, <4>2, <1>e
      <4>3. CASE \E q \in Handler : mine[q] = p
        BY <4>3, <1>a, <1>c, <1>e, <2>2 DEF Alone
      <4>. QED
        BY <4>1, <4>2, <4>3 DEF SidecarInv, NoOrphans
    <3>. QED
      BY <3>1 DEF NoOrphans
  <2>. QED
    BY <2>1, <2>2
<1>3. ClientsAreCurrent'
  <2>1. ASSUME NEW q \in Handler, place'[q] = "call", conn'[q] \in running'
        PROVE  conn'[q] = mine'[q] \/ \E s \in Service : conn'[q] = kept'[s]
    <3>1. CASE q = r
      BY <3>1, <1>a, <1>b, <1>e
    <3>2. CASE q # r
      <4>1. place[q] = "call" /\ conn'[q] = conn[q] /\ mine'[q] = mine[q] /\ conn[q] \in running
        BY <2>1, <3>2, <1>a, <1>b, <1>c DEF Alone
      <4>2. CASE conn[q] = mine[q]
        BY <4>1, <4>2
      <4>3. ASSUME NEW s \in Service, conn[q] = kept[s] PROVE conn'[q] = kept'[s]
        BY <4>1, <4>3, <2>1, <1>a, <1>b, <1>e
      <4>. QED
        BY <4>1, <4>2, <4>3 DEF SidecarInv, ClientsAreCurrent
    <3>. QED
      BY <3>1, <3>2
  <2>. QED
    BY <2>1 DEF ClientsAreCurrent
<1>4. ServicesAreQueuedFor'
  BY <1>a, <1>c DEF SidecarInv, ServicesAreQueuedFor, Alone
<1>5. StarterHoldsLock'
  BY <1>c, <1>d, LocksAreKept
<1>6. StarterHasOne'
  BY <1>a, <1>c, <1>e DEF SidecarInv, StarterHasOne, Alone
<1>7. PidsWereSpawned'
  <2>1. ASSUME NEW q \in Handler PROVE mine'[q] <= spawned' /\ conn'[q] <= spawned'
    BY <1>b, <1>t DEF SidecarInv, PidsWereSpawned, SidecarTypeOK, Pid
  <2>2. ASSUME NEW s \in Service PROVE kept'[s] <= spawned'
    BY <1>b, <1>t DEF SidecarInv, PidsWereSpawned, SidecarTypeOK, Pid
  <2>. QED
    BY <2>1, <2>2 DEF PidsWereSpawned
<1>. QED
  BY <1>1, <1>2, <1>3, <1>4, <1>5, <1>6, <1>7 DEF SidecarInv

LEMMA WaitReadyKeeps ==
  ASSUME SidecarInv, NEW r \in Handler, WaitReady(r) PROVE SidecarInv'
<1>. USE SidecarsAssumption
<1>t. SidecarTypeOK
  BY DEF SidecarInv
<1>1. CASE /\ mine[r] \in ready /\ Proceed(r, "call") /\ conn' = [conn EXCEPT ![r] = mine[r]]
           /\ Keep(r) /\ UNCHANGED <<answer, waited>> /\ Unlock(r)
  BY <1>1, HandOverKeeps DEF WaitReady, Proceed
<1>2. CASE /\ Finish(r, "unavailable") /\ Unlock(r)
           /\ DropSupervisor(mine[r]) /\ mine' = [mine EXCEPT ![r] = 0]
           /\ UNCHANGED <<kept, conn, waited>>
  <2>1. Ends(r)
    BY <1>2, <1>t DEF WaitReady, Ends, Finish, Proceed, DropSupervisor, SidecarTypeOK, Answer
  <2>. QED
    BY <2>1, EndKeeps
<1>3. CASE /\ ~GivesUp(r) /\ waited' = [waited EXCEPT ![r] = @ + 1]
           /\ UNCHANGED <<place, answer, lock, kept, mine, conn, running, ready>>
  <2>1. waited' \in [Handler -> 0..MaxRounds]
    BY <1>3, <1>t DEF GivesUp, SidecarTypeOK
  <2>2. UNCHANGED <<place, service, answer, lock, kept, mine, conn, spawned, running, ready, outages>>
    BY <1>3 DEF WaitReady
  <2>. QED
    BY <2>1, <2>2 DEF SidecarInv, SidecarTypeOK, NoOrphans, ClientsAreCurrent,
       ServicesAreQueuedFor,
                      StarterHoldsLock, StarterHasOne, PidsWereSpawned
<1>. QED
  BY <1>1, <1>2, <1>3 DEF WaitReady

LEMMA EndsAreEnds ==
  ASSUME SidecarInv, NEW r \in Handler, CallSidecar(r) \/ Cancel(r) PROVE SidecarInv'
<1>t. SidecarTypeOK /\ 0 \notin running
  BY DEF SidecarInv, SidecarTypeOK
<1>1. ASSUME Cancel(r) PROVE Ends(r)
  BY <1>1, <1>t DEF Cancel, Ends, Finish, Proceed, DropSupervisor, SidecarTypeOK, Answer
<1>2. ASSUME CallSidecar(r) PROVE Ends(r)
  <2>1. /\ place' = [place EXCEPT ![r] = "done"] /\ answer' \in [Handler -> Answer]
        /\ lock' = lock /\ mine' = [mine EXCEPT ![r] = 0]
        /\ UNCHANGED <<service, kept, conn, waited, spawned, outages>>
    BY <1>2, <1>t DEF CallSidecar, Respond, Finish, Proceed, SidecarTypeOK, Answer
  <2>2. running' = running \ {mine[r]} /\ ready' = ready \ {mine[r]}
    <3>1. CASE mine[r] # 0
      BY <1>2, <3>1 DEF CallSidecar, DropSupervisor
    <3>2. CASE mine[r] = 0
      BY <1>2, <1>t, <3>2 DEF CallSidecar, SidecarTypeOK
    <3>. QED BY <3>1, <3>2
  <2>. QED
    BY <2>1, <2>2 DEF Ends
<1>. QED
  BY <1>1, <1>2, EndKeeps

LEMMA ProcessesKeep ==
  ASSUME SidecarInv, NEW p \in Pid, Boot(p) \/ Die(p) PROVE SidecarInv'
<1>. USE SidecarsAssumption
<1>1. /\ UNCHANGED <<place, service, answer, lock, kept, mine, conn, waited, spawned>>
      /\ running' \subseteq running /\ ready' \subseteq running' /\ outages' \in 0..MaxOutages
  <2>t. ready \subseteq running /\ outages \in 0..MaxOutages
    BY DEF SidecarInv, SidecarTypeOK
  <2>1. CASE Boot(p)
    BY <2>t, <2>1 DEF Boot
  <2>2. CASE Die(p)
    BY <2>t, <2>2 DEF Die, DropSupervisor
  <2>. QED
    BY <2>1, <2>2
<1>2. SidecarTypeOK'
  BY <1>1 DEF SidecarInv, SidecarTypeOK
<1>3. NoOrphans' /\ ClientsAreCurrent'
  BY <1>1 DEF SidecarInv, NoOrphans, ClientsAreCurrent
<1>4. ServicesAreQueuedFor' /\ StarterHoldsLock' /\ StarterHasOne' /\ PidsWereSpawned'
  BY <1>1 DEF SidecarInv, ServicesAreQueuedFor, StarterHoldsLock, StarterHasOne, PidsWereSpawned
<1>. QED
  BY <1>2, <1>3, <1>4 DEF SidecarInv

LEMMA SidecarInvKept ==
  ASSUME SidecarInv, [SidecarNext]_sidecarVars PROVE SidecarInv'
<1>1. ASSUME NEW r \in Handler, HandlerStep(r) \/ Cancel(r) PROVE SidecarInv'
  BY <1>1, QueueKeeps, SpawnKeeps, WaitReadyKeeps, EndsAreEnds DEF HandlerStep
<1>2. ASSUME NEW p \in Pid, Boot(p) \/ Die(p) PROVE SidecarInv'
  BY <1>2, ProcessesKeep
<1>3. CASE UNCHANGED sidecarVars
  BY <1>3 DEF sidecarVars, SidecarInv, SidecarTypeOK, NoOrphans, ClientsAreCurrent,
              ServicesAreQueuedFor, StarterHoldsLock, StarterHasOne, PidsWereSpawned
<1>. QED
  BY <1>1, <1>2, <1>3 DEF SidecarNext

\* However many ask a service, fail, time out or go away, and whenever its process dies:
\* one is started at a time, none is left behind, and who holds a client of a live process
\* holds one of the process that is kept (SidecarService::client, Supervisor::drop).
THEOREM ServicesStaySingle == SidecarSpec => []ServiceIsSingle
<1>1. SidecarInv => ServiceIsSingle
  BY HolderIsOnlyStarter DEF SidecarInv, ServiceIsSingle
<1>. QED
  BY <1>1, SidecarsStart, SidecarInvKept, PTL DEF SidecarSpec

-----------------------------------------------------------------------------
(* Numbers in order *)

\* What an increasing sequence holds has as many elements as it, and is sorted so.
LEMMA SortedIs ==
  ASSUME NEW S, S \subseteq Nat, NEW c \in Nat, NEW q \in [1..c -> S],
         \A i, j \in 1..c : i < j => q[i] < q[j], \A x \in S : \E i \in 1..c : q[i] = x
  PROVE  Cardinality(S) = c /\ Sorted(S) = q
<1>. DEFINE T(k) == {q[i] : i \in 1..k}
<1>1. ASSUME NEW k \in 0..c PROVE Cardinality(T(k)) = k
  <2>. DEFINE f == [i \in 1..k |-> q[i]]
  <2>1. f \in [1..k -> T(k)] /\ \A i, j \in 1..k : f[i] = f[j] => i = j
    <3>1. ASSUME NEW i \in 1..k, NEW j \in 1..k, q[i] = q[j] PROVE i = j
      <4>1. i \in 1..c /\ j \in 1..c
        OBVIOUS
      <4>3. q[i] \in Nat /\ q[j] \in Nat
        BY <4>1
      <4>2. ~(i < j) /\ ~(j < i)
        BY <3>1, <4>1, <4>3
      <4>. QED
        BY <4>1, <4>2
    <3>. QED
      BY <3>1
  <2>2. \A x \in T(k) : \E i \in 1..k : f[i] = x
    OBVIOUS
  <2>. HIDE DEF f
  <2>3. ExistsBijection(1..k, T(k))
    BY <2>1, <2>2 DEF ExistsBijection, Bijection, Injection, Surjection, IsInjective
  <2>. HIDE DEF T
  <2>. QED
    BY <2>3, FS_CountingElements
<1>2. T(c) = S
  OBVIOUS
<1>3. Cardinality(S) = c
  BY <1>1, <1>2
<1>4. ASSUME NEW k \in 1..c PROVE {j \in S : j <= q[k]} = T(k)
  <2>1. ASSUME NEW i \in 1..c PROVE q[i] <= q[k] <=> i <= k
    <3>1. q[i] \in Nat /\ q[k] \in Nat /\ (i < k => q[i] < q[k]) /\ (k < i => q[k] < q[i])
      OBVIOUS
    <3>. QED
      BY <3>1
  <2>2. ASSUME NEW j \in S, j <= q[k] PROVE j \in T(k)
    <3>1. PICK i \in 1..c : q[i] = j
      OBVIOUS
    <3>2. i \in 1..k
      BY <2>1, <2>2, <3>1
    <3>. QED
      BY <3>1, <3>2
  <2>3. ASSUME NEW i \in 1..k PROVE q[i] \in S /\ q[i] <= q[k]
    <3>1. i \in 1..c /\ i <= k
      OBVIOUS
    <3>. QED
      BY <2>1, <3>1
  <2>. QED
    BY <2>2, <2>3
<1>. DEFINE rank(x) == Cardinality({j \in S : j <= x})
<1>5. \A k \in 1..c : rank(q[k]) = k
  <2>. TAKE k \in 1..c
  <2>1. k \in 0..c
    OBVIOUS
  <2>. QED
    BY <1>1, <1>4, <2>1
<1>. HIDE DEF T, rank
<1>6. ASSUME NEW k \in 1..c PROVE (CHOOSE i \in S : rank(i) = k) = q[k]
  <2>1. \A i \in S : rank(i) = k => i = q[k]
    BY <1>5
  <2>2. q[k] \in S /\ rank(q[k]) = k
    BY <1>5
  <2>. QED
    BY <2>1, <2>2
<1>7. Sorted(S) = [k \in 1..c |-> CHOOSE i \in S : rank(i) = k]
  BY <1>3 DEF Sorted, rank
<1>. QED
  BY <1>3, <1>6, <1>7

\* Sorted has all the elements of a finite set, in order.
LEMMA SortedOf ==
  ASSUME NEW S, S \subseteq Nat, IsFiniteSet(S)
  PROVE  /\ Cardinality(S) \in Nat /\ Sorted(S) \in [1..Cardinality(S) -> S]
         /\ \A i, j \in 1..Cardinality(S) : i < j => Sorted(S)[i] < Sorted(S)[j]
         /\ \A x \in S : \E i \in 1..Cardinality(S) : Sorted(S)[i] = x
<1>. DEFINE n == Cardinality(S)
            upTo(x) == {j \in S : j <= x}
            rank == [x \in S |-> Cardinality(upTo(x))]
<1>1. n \in Nat
  BY FS_CardinalityType
<1>2. ASSUME NEW x \in S PROVE /\ IsFiniteSet(upTo(x)) /\ rank[x] \in 1..n
  <2>1. upTo(x) \in SUBSET S /\ x \in upTo(x)
    OBVIOUS
  <2>. HIDE DEF upTo
  <2>2. IsFiniteSet(upTo(x)) /\ Cardinality(upTo(x)) <= n
    BY <2>1, FS_Subset
  <2>3. Cardinality(upTo(x)) \in Nat /\ Cardinality(upTo(x)) # 0
    BY <2>1, <2>2, FS_CardinalityType, FS_EmptySet
  <2>. QED
    BY <1>1, <2>2, <2>3
<1>3. ASSUME NEW x \in S, NEW y \in S, x < y PROVE rank[x] < rank[y]
  <2>1. upTo(x) \in SUBSET upTo(y) /\ y \in upTo(y) /\ y \notin upTo(x)
    <3>1. x \in Nat /\ y \in Nat /\ \A j \in S : j \in Nat
      OBVIOUS
    <3>2. y \in S /\ ~(y <= x) /\ \A j \in S : j <= x => j <= y
      BY <1>3, <3>1
    <3>3. \A j \in upTo(x) : j \in upTo(y)
      BY <3>2
    <3>4. y \in upTo(y) /\ y \notin upTo(x)
      BY <3>1, <3>2
    <3>. QED
      BY <3>3, <3>4, Zenon
  <2>2. IsFiniteSet(upTo(y)) /\ rank[x] \in Nat /\ rank[y] \in Nat
    BY <1>1, <1>2
  <2>3. rank[x] = Cardinality(upTo(x)) /\ rank[y] = Cardinality(upTo(y))
    OBVIOUS
  <2>. HIDE DEF upTo, rank
  <2>4. Cardinality(upTo(x)) <= Cardinality(upTo(y)) /\ Cardinality(upTo(x)) # Cardinality(upTo(y))
    BY <2>1, <2>2, FS_Subset
  <2>. QED
    BY <2>2, <2>3, <2>4
<1>4. rank \in [S -> 1..n]
  BY <1>2
<1>. DEFINE of(k) == CHOOSE i \in S : Cardinality(upTo(i)) = k
<1>5. Sorted(S) = [k \in 1..n |-> of(k)]
  BY DEF Sorted
<1>. HIDE DEF of
<1>6. \A k \in 1..n : Sorted(S)[k] = of(k)
  BY <1>5
<1>. HIDE DEF rank
<1>7. \A x, y \in S : rank[x] = rank[y] => x = y
  <2>. TAKE x, y \in S
  <2>1. x \in Nat /\ y \in Nat /\ rank[x] \in Nat /\ rank[y] \in Nat
    BY <1>4
  <2>2. CASE x < y
    BY <1>3, <2>1, <2>2
  <2>3. CASE y < x
    BY <1>3, <2>1, <2>3
  <2>. QED
    BY <2>1, <2>2, <2>3
<1>8. \A k \in 1..n : \E x \in S : rank[x] = k
  <2>1. rank \in Injection(S, 1..n)
    BY <1>4, <1>7 DEF Injection, IsInjective
  <2>2. IsFiniteSet(1..n) /\ Cardinality(1..n) = n
    BY <1>1, FS_Interval
  <2>3. rank \in Surjection(S, 1..n)
    BY <2>1, <2>2, FS_Injection
  <2>. QED
    BY <2>3 DEF Surjection
<1>9. ASSUME NEW k \in 1..n PROVE Sorted(S)[k] \in S /\ rank[Sorted(S)[k]] = k
  <2>1. \E i \in S : Cardinality(upTo(i)) = k
    BY <1>8 DEF rank
  <2>2. of(k) \in S /\ Cardinality(upTo(of(k))) = k
    BY <2>1 DEF of
  <2>. QED
    BY <1>6, <2>2 DEF rank
<1>10. Sorted(S) \in [1..n -> S]
  <2>1. \A k \in 1..n : of(k) \in S
    BY <1>6, <1>9
  <2>. QED
    BY <1>5, <2>1
<1>. HIDE DEF n
<1>11. ASSUME NEW i \in 1..n, NEW j \in 1..n, i < j PROVE Sorted(S)[i] < Sorted(S)[j]
  <2>. DEFINE x == Sorted(S)[i]  y == Sorted(S)[j]
  <2>1. x \in S /\ y \in S /\ rank[x] = i /\ rank[y] = j /\ x \in Nat /\ y \in Nat
    BY <1>9
  <2>. HIDE DEF x, y
  <2>2. ~(y < x) /\ x # y
    BY <1>3, <1>11, <2>1
  <2>3. x < y
    BY <2>1, <2>2
  <2>. QED
    BY <2>3 DEF x, y
<1>12. ASSUME NEW x \in S PROVE \E i \in 1..n : Sorted(S)[i] = x
  <2>1. rank[x] \in 1..n
    BY <1>4
  <2>. QED
    BY <1>7, <1>9, <2>1
<1>. QED
  BY <1>1, <1>10, <1>11, <1>12 DEF n

-----------------------------------------------------------------------------
(* Sequences put together *)

Joined(q, n, f) == f = [i \in 1..n |-> IF i = 1 THEN q[i] ELSE f[i - 1] \o q[i]]

LEMMA PiecesJoin ==
  ASSUME NEW q, NEW n \in Nat
  PROVE  \E f : Joined(q, n, f)
<1>. DEFINE T == {m \in Nat : ~\E f : Joined(q, m, f)}
<1>. SUFFICES ASSUME T # {} PROVE FALSE
  OBVIOUS
<1>1. PICK m \in T : \A k \in T : m <= k
  <2>1. T \subseteq Nat
    OBVIOUS
  <2>. HIDE DEF T
  <2>. QED
    BY <2>1, LeastOfNaturals
<1>2. m \in Nat /\ ~\E f : Joined(q, m, f)
  OBVIOUS
<1>3. m # 0
  <2>1. Joined(q, 0, [i \in 1..0 |-> 0])
    BY DEF Joined
  <2>. QED
    BY <1>2, <2>1
<1>4. PICK f : Joined(q, m - 1, f)
  <2>1. m - 1 \in Nat
    BY <1>2, <1>3
  <2>2. m - 1 \in T => m <= m - 1
    BY <1>1
  <2>. QED
    BY <1>2, <2>1, <2>2
<1>. DEFINE g == [i \in 1..m |-> IF i = m THEN (IF i = 1 THEN q[i] ELSE f[i - 1] \o q[i]) ELSE f[i]]
<1>5. \A i \in 1..(m - 1) : f[i] = IF i = 1 THEN q[i] ELSE f[i - 1] \o q[i]
  BY <1>4 DEF Joined
<1>6. ASSUME NEW i \in 1..m PROVE g[i] = IF i = 1 THEN q[i] ELSE g[i - 1] \o q[i]
  <2>1. CASE i = 1
    BY <1>2, <1>5, <2>1
  <2>2. CASE i # 1
    <3>1. i - 1 \in 1..m /\ i - 1 # m
      BY <1>2, <2>2
    <3>2. g[i - 1] = f[i - 1]
      BY <3>1
    <3>3. g[i] = f[i - 1] \o q[i]
      <4>1. CASE i = m
        BY <2>2, <4>1
      <4>2. CASE i # m
        <5>1. i \in 1..(m - 1)
          BY <1>2, <4>2
        <5>2. f[i] = f[i - 1] \o q[i]
          BY <1>5, <2>2, <5>1
        <5>. QED
          BY <4>2, <5>2
      <4>. QED
        BY <4>1, <4>2
    <3>. QED
      BY <2>2, <3>2, <3>3
  <2>. QED
    BY <2>1, <2>2
<1>7. g = [i \in 1..m |-> g[i]]
  OBVIOUS
<1>. HIDE DEF g
<1>8. Joined(q, m, g)
  BY <1>6, <1>7 DEF Joined
<1>. QED
  BY <1>2, <1>8

\* FlattenSeq puts its pieces together one by one.
LEMMA FlattenSteps ==
  ASSUME NEW S, NEW q \in Seq(Seq(S)), q # <<>>
  PROVE  \E f \in [DOMAIN q -> Seq(S)] :
           /\ f[1] = q[1] /\ \A i \in 2..Len(q) : f[i] = f[i - 1] \o q[i]
           /\ FlattenSeq(q) = f[Len(q)]
<1>. DEFINE f == CHOOSE h : Joined(q, Len(q), h)
<1>1. Len(q) \in Nat /\ Len(q) # 0 /\ DOMAIN q = 1..Len(q)
  OBVIOUS
<1>2. Joined(q, Len(q), f)
  BY <1>1, PiecesJoin, Zenon
<1>3. FlattenSeq(q) = f[Len(q)]
  BY <1>1 DEF FlattenSeq, Joined
<1>. HIDE DEF f
<1>4. \A i \in 1..Len(q) : f[i] = IF i = 1 THEN q[i] ELSE f[i - 1] \o q[i]
  BY <1>2 DEF Joined
<1>5. \A i \in 1..Len(q) : f[i] \in Seq(S)
  <2>. DEFINE T == {i \in 1..Len(q) : f[i] \notin Seq(S)}
  <2>. SUFFICES ASSUME T # {} PROVE FALSE
    OBVIOUS
  <2>1. PICK i \in T : \A j \in T : i <= j
    <3>1. T \subseteq Nat
      BY <1>1
    <3>. HIDE DEF T
    <3>. QED
      BY <3>1, LeastOfNaturals
  <2>2. i \in 1..Len(q) /\ f[i] \notin Seq(S)
    OBVIOUS
  <2>3. i # 1
    BY <1>4, <2>2
  <2>4. f[i - 1] \in Seq(S)
    <3>1. i - 1 \in 1..Len(q)
      BY <2>2, <2>3
    <3>2. i - 1 \in T => i <= i - 1
      BY <2>1
    <3>. QED
      BY <2>2, <3>1, <3>2
  <2>5. f[i] = f[i - 1] \o q[i]
    BY <1>4, <2>2, <2>3
  <2>6. q[i] \in Seq(S)
    BY <1>1, <2>2
  <2>. QED
    BY <2>2, <2>4, <2>5, <2>6, ConcatProperties
<1>6. f \in [DOMAIN q -> Seq(S)]
  BY <1>1, <1>2, <1>5 DEF Joined
<1>7. f[1] = q[1] /\ \A i \in 2..Len(q) : f[i] = f[i - 1] \o q[i]
  <2>1. 1 \in 1..Len(q) /\ \A i \in 2..Len(q) : i \in 1..Len(q) /\ i # 1
    BY <1>1
  <2>. QED
    BY <1>4, <2>1, Zenon
<1>. QED
  BY <1>3, <1>6, <1>7

\* ... from nothing on.
Parts(q, f) == f[0] = <<>> /\ \A i \in 1..Len(q) : f[i] = f[i - 1] \o q[i]

LEMMA FlattenParts ==
  ASSUME NEW S, NEW q \in Seq(Seq(S))
  PROVE  \E f \in [0..Len(q) -> Seq(S)] : Parts(q, f) /\ FlattenSeq(q) = f[Len(q)]
<1>1. CASE q = <<>>
  <2>. DEFINE f == [i \in 0..0 |-> <<>>]
  <2>1. Len(q) = 0 /\ FlattenSeq(q) = <<>>
    BY <1>1 DEF FlattenSeq
  <2>2. f \in [0..Len(q) -> Seq(S)] /\ f[0] = <<>>
    BY <2>1
  <2>. HIDE DEF f
  <2>. QED
    BY <2>1, <2>2 DEF Parts
<1>2. CASE q # <<>>
  <2>1. Len(q) \in Nat \ {0} /\ DOMAIN q = 1..Len(q) /\ q[1] \in Seq(S)
    BY <1>2
  <2>2. PICK g \in [DOMAIN q -> Seq(S)] :
           /\ g[1] = q[1] /\ \A i \in 2..Len(q) : g[i] = g[i - 1] \o q[i]
           /\ FlattenSeq(q) = g[Len(q)]
    BY <1>2, FlattenSteps
  <2>. DEFINE f == [i \in 0..Len(q) |-> IF i = 0 THEN <<>> ELSE g[i]]
  <2>3. f \in [0..Len(q) -> Seq(S)] /\ f[Len(q)] = g[Len(q)]
    BY <2>1
  <2>4. ASSUME NEW i \in 1..Len(q) PROVE f[i] = f[i - 1] \o q[i]
    <3>1. CASE i = 1
      BY <2>1, <2>2, <3>1, ConcatEmptySeq
    <3>2. CASE i # 1
      <4>1. i \in 2..Len(q) /\ i - 1 \in 0..Len(q) /\ i - 1 # 0 /\ i # 0 /\ i \in 0..Len(q)
        BY <2>1, <3>2
      <4>2. f[i] = g[i] /\ f[i - 1] = g[i - 1]
        BY <4>1
      <4>. QED
        BY <2>2, <4>1, <4>2
    <3>. QED
      BY <3>1, <3>2
  <2>5. f[0] = <<>>
    BY <2>1
  <2>. HIDE DEF f
  <2>. QED
    BY <2>2, <2>3, <2>4, <2>5 DEF Parts
<1>. QED
  BY <1>1, <1>2

\* Whatever puts the pieces together, makes what FlattenSeq makes.
LEMMA FlattenIs ==
  ASSUME NEW S, NEW q \in Seq(Seq(S)), NEW h, Parts(q, h)
  PROVE  FlattenSeq(q) = h[Len(q)]
<1>1. PICK f \in [0..Len(q) -> Seq(S)] : Parts(q, f) /\ FlattenSeq(q) = f[Len(q)]
  BY FlattenParts
<1>2. Len(q) \in Nat
  OBVIOUS
<1>. DEFINE T == {i \in 0..Len(q) : f[i] # h[i]}
<1>. SUFFICES ASSUME T # {} PROVE FALSE
  BY <1>1, <1>2
<1>3. PICK i \in T : \A j \in T : i <= j
  <2>1. T \subseteq Nat
    BY <1>2
  <2>. HIDE DEF T
  <2>. QED
    BY <2>1, LeastOfNaturals
<1>4. i \in 0..Len(q) /\ f[i] # h[i] /\ i # 0
  BY <1>1 DEF Parts
<1>5. f[i - 1] = h[i - 1]
  <2>1. i - 1 \in 0..Len(q)
    BY <1>2, <1>4
  <2>2. i - 1 \in T => i <= i - 1
    BY <1>3
  <2>. QED
    BY <1>4, <2>1, <2>2
<1>6. i \in 1..Len(q)
  BY <1>2, <1>4
<1>. QED
  BY <1>1, <1>4, <1>5, <1>6 DEF Parts

-----------------------------------------------------------------------------
(* The bytes of a stream *)

Bytes == [event : Nat, part : {"all", "lead", "rest", "LF", "CR"}]

\* A function on 1..n is a sequence of n.
LEMMA IsSeq ==
  ASSUME NEW S, NEW n \in Nat, NEW q \in [1..n -> S]
  PROVE  q \in Seq(S) /\ Len(q) = n
OBVIOUS

\* The bytes of an event, with the line ends after it.
Frame(s, f, i) == Data(s, i) \o End(f)
Length(s, f, i) == (IF s[i].wide THEN 2 ELSE 1) + (IF f = "lf" THEN 2 ELSE 4)

LEMMA FrameIs ==
  ASSUME NEW s \in Seq(Event), NEW f \in {"lf", "crlf"}, NEW i \in 1..Len(s)
  PROVE  /\ Frame(s, f, i) \in Seq(Bytes) /\ Len(Frame(s, f, i)) = Length(s, f, i)
         /\ \A k \in 1..(Length(s, f, i) - (IF f = "lf" THEN 2 ELSE 4)) :
              /\ Frame(s, f, i)[k].event = i
              /\ Frame(s, f, i)[k].part \in IF s[i].wide THEN {"lead", "rest"} ELSE {"all"}
         /\ ~s[i].wide => \A k \in 1..Length(s, f, i) : Frame(s, f, i)[k].part \notin {"lead", "rest"}
         /\ f = "lf" => /\ Frame(s, f, i)[Length(s, f, i) - 1].part = "LF"
                        /\ Frame(s, f, i)[Length(s, f, i)].part = "LF"
         /\ f = "crlf" => \A k \in 2..Length(s, f, i) :
              ~(Frame(s, f, i)[k].part = "LF" /\ Frame(s, f, i)[k - 1].part = "LF")
<1>1. i \in Nat /\ s[i].wide \in BOOLEAN
  <2>1. i \in Nat /\ s[i] \in Event
    OBVIOUS
  <2>. QED
    BY <2>1 DEF Event
<1>. DEFINE d == Data(s, i)  e == End(f)  n == IF s[i].wide THEN 2 ELSE 1
            m == IF f = "lf" THEN 2 ELSE 4
<1>2. \A p \in {"all", "lead", "rest", "LF", "CR"} : Byte(i, p) \in Bytes /\ Byte(0, p) \in Bytes
  BY <1>1 DEF Byte, Bytes
<1>3. /\ d \in Seq(Bytes) /\ Len(d) = n
      /\ \A k \in 1..n : d[k].event = i /\ d[k].part \in IF s[i].wide THEN {"lead", "rest"} ELSE {"all"}
  <2>1. CASE s[i].wide
    <3>1. d = <<Byte(i, "lead"), Byte(i, "rest")>>
      BY <2>1 DEF Data
    <3>2. d \in Seq(Bytes) /\ Len(d) = 2 /\ d[1] = Byte(i, "lead") /\ d[2] = Byte(i, "rest")
      BY <1>2, <3>1
    <3>. QED
      BY <2>1, <3>2 DEF Byte
  <2>2. CASE ~s[i].wide
    <3>1. d = <<Byte(i, "all")>>
      BY <2>2 DEF Data
    <3>2. d \in Seq(Bytes) /\ Len(d) = 1 /\ d[1] = Byte(i, "all")
      BY <1>2, <3>1
    <3>. QED
      BY <2>2, <3>2 DEF Byte
  <2>. QED
    BY <1>1, <2>1, <2>2
<1>4. /\ e \in Seq(Bytes) /\ Len(e) = m /\ \A k \in 1..m : e[k].part \in {"LF", "CR"}
      /\ f = "lf" => e[1].part = "LF" /\ e[2].part = "LF"
      /\ f = "crlf" => e[1].part = "CR" /\ e[2].part = "LF" /\ e[3].part = "CR" /\ e[4].part = "LF"
  <2>1. CASE f = "lf"
    <3>1. BlankLine(f) = <<"LF", "LF">> /\ Len(BlankLine(f)) = 2
      BY <2>1 DEF BlankLine
    <3>2. e = [k \in 1..2 |-> Byte(0, BlankLine(f)[k])]
      BY <3>1 DEF End
    <3>3. \A k \in 1..2 : BlankLine(f)[k] = "LF"
      BY <3>1
    <3>4. e \in [1..2 -> Bytes] /\ \A k \in 1..2 : e[k] = Byte(0, "LF")
      BY <1>2, <3>2, <3>3
    <3>5. e \in Seq(Bytes) /\ Len(e) = 2
      BY <3>4, IsSeq, 2 \in Nat
    <3>6. e[1] = Byte(0, "LF") /\ e[2] = Byte(0, "LF") /\ \A k \in 1..2 : e[k] = Byte(0, "LF")
      BY <3>4
    <3>. HIDE DEF e
    <3>. QED
      BY <2>1, <3>5, <3>6 DEF Byte
  <2>2. CASE f = "crlf"
    <3>1. BlankLine(f) = <<"CR", "LF", "CR", "LF">> /\ Len(BlankLine(f)) = 4
      BY <2>2 DEF BlankLine
    <3>2. e = [k \in 1..4 |-> Byte(0, BlankLine(f)[k])]
      BY <3>1 DEF End
    <3>3. BlankLine(f)[1] = "CR" /\ BlankLine(f)[2] = "LF" /\ BlankLine(f)[3] = "CR" /\ BlankLine(f)[4] = "LF"
      BY <3>1
    <3>4. \A k \in 1..4 : BlankLine(f)[k] \in {"LF", "CR"}
      BY <3>3
    <3>5. e \in [1..4 -> Bytes] /\ \A k \in 1..4 : e[k] = Byte(0, BlankLine(f)[k])
      BY <1>2, <3>2, <3>4
    <3>6. e \in Seq(Bytes) /\ Len(e) = 4
      BY <3>5, IsSeq, 4 \in Nat
    <3>8. \A k \in 1..4 : e[k].part \in {"LF", "CR"}
      BY <3>4, <3>5 DEF Byte
    <3>7. e[1] = Byte(0, "CR") /\ e[2] = Byte(0, "LF") /\ e[3] = Byte(0, "CR") /\ e[4] = Byte(0, "LF")
      BY <3>3, <3>5
    <3>. HIDE DEF e
    <3>. QED
      BY <2>2, <3>6, <3>7, <3>8 DEF Byte
  <2>. QED
    BY <2>1, <2>2
<1>5. n \in 1..2 /\ m \in {2, 4} /\ Length(s, f, i) = n + m
  BY DEF Length
<1>6. Frame(s, f, i) = d \o e
  BY DEF Frame
<1>12. Length(s, f, i) - m = n /\ (f = "lf" => m = 2) /\ (f = "crlf" => m = 4)
  BY <1>5
<1>. HIDE DEF d, e, n, m
<1>7. /\ d \o e \in Seq(Bytes) /\ Len(d \o e) = n + m
      /\ \A k \in 1..n : (d \o e)[k] = d[k]
      /\ \A k \in 1..m : (d \o e)[n + k] = e[k]
  <2>1. \A k \in 1..m : n + k \in 1..(n + m) /\ n + k > n /\ (n + k) - n = k
    BY <1>5
  <2>2. Len(d \o e) = n + m /\ \A k \in 1..(n + m) : (d \o e)[k] = IF k <= n THEN d[k] ELSE e[k - n]
    <3>1. n \in Nat /\ m \in Nat
      BY <1>5
    <3>. QED
      <4>1. /\ Len(d \o e) = Len(d) + Len(e)
            /\ \A k \in 1..(Len(d) + Len(e)) :
                 (d \o e)[k] = IF k <= Len(d) THEN d[k] ELSE e[k - Len(d)]
        <5>1. d \in Seq(Bytes) /\ e \in Seq(Bytes)
          BY <1>3, <1>4
        <5>. QED
          BY <5>1, ConcatProperties
      <4>. QED
        BY <1>3, <1>4, <4>1, Zenon
  <2>3. \A k \in 1..m : (d \o e)[n + k] = e[k]
    BY <1>5, <2>1, <2>2
  <2>4. \A k \in 1..n : (d \o e)[k] = d[k]
    BY <1>5, <2>2
  <2>. QED
    BY <1>3, <1>4, <2>2, <2>3, <2>4, ConcatProperties
<1>8. \A k \in 1..n : /\ (d \o e)[k].event = i
                      /\ (d \o e)[k].part \in IF s[i].wide THEN {"lead", "rest"} ELSE {"all"}
  BY <1>3, <1>7
<1>9. ASSUME f = "lf"
      PROVE  (d \o e)[(n + m) - 1].part = "LF" /\ (d \o e)[n + m].part = "LF"
  <2>1. m = 2 /\ 1 \in 1..m /\ 2 \in 1..m /\ (n + m) - 1 = n + 1 /\ n + m = n + 2
    BY <1>5, <1>9, <1>12
  <2>. QED
    BY <1>4, <1>7, <1>9, <2>1
<1>10. ASSUME f = "crlf", NEW k \in 2..(n + m)
       PROVE  ~((d \o e)[k].part = "LF" /\ (d \o e)[k - 1].part = "LF")
  <2>1. m = 4
    BY <1>10, <1>12
  <2>2. CASE k <= n + 1
    <3>1. k - 1 \in 1..n
      BY <1>5, <2>2
    <3>. QED
      BY <1>8, <3>1
  <2>3. CASE k > n + 1
    <3>1. PICK l \in 2..4 : k = n + l /\ k - 1 = n + (l - 1)
      <4>1. k - n \in 2..4 /\ k = n + (k - n) /\ k - 1 = n + ((k - n) - 1)
        BY <1>5, <2>1, <2>3
      <4>. QED
        BY <4>1
    <3>2. (d \o e)[k] = e[l] /\ (d \o e)[k - 1] = e[l - 1]
      <4>1. l \in 1..m /\ l - 1 \in 1..m
        BY <2>1
      <4>2. (d \o e)[n + l] = e[l] /\ (d \o e)[n + (l - 1)] = e[l - 1]
        BY <1>7, <4>1, Zenon
      <4>. QED
        BY <3>1, <4>2, Zenon
    <3>3. l = 2 \/ l = 3 \/ l = 4
      BY <3>1
    <3>. QED
      BY SMTT(30), <1>4, <1>10, <3>2, <3>3
  <2>4. k <= n + 1 \/ k > n + 1
    <3>1. k \in Int /\ n \in Int
      BY <1>5
    <3>. QED
      BY <3>1
  <2>. QED
    BY <2>2, <2>3, <2>4
<1>13. ASSUME ~s[i].wide, NEW k \in 1..(n + m) PROVE (d \o e)[k].part \notin {"lead", "rest"}
  <2>1. CASE k <= n
    <3>1. k \in 1..n
      BY <1>5, <2>1
    <3>. QED
      BY <1>8, <1>13, <3>1
  <2>2. CASE ~(k <= n)
    <3>1. k - n \in 1..m /\ k = n + (k - n)
      BY <1>5, <2>2
    <3>2. (d \o e)[k] = e[k - n]
      BY <1>7, <3>1
    <3>. QED
      BY <1>4, <3>1, <3>2
  <2>. QED
    BY <2>1, <2>2
<1>. QED
  BY ZenonT(60), <1>5, <1>6, <1>7, <1>8, <1>9, <1>10, <1>12, <1>13 DEF m

\* Where the frame of each event ends in the bytes of a stream.
Laid(s, f, off) ==
  /\ off \in [0..Len(s) -> Nat] /\ off[0] = 0 /\ off[Len(s)] = Len(Wire(s, f))
  /\ Wire(s, f) \in Seq(Bytes)
  /\ \A i \in 1..Len(s) :
       /\ off[i] = off[i - 1] + Length(s, f, i)
       /\ \A k \in 1..Length(s, f, i) : Wire(s, f)[off[i - 1] + k] = Frame(s, f, i)[k]

\* The bytes of a stream are the frames of its events, one after the other.
LEMMA WireIsLaid ==
  ASSUME NEW s \in Seq(Event), NEW f \in {"lf", "crlf"}
  PROVE  \E off : Laid(s, f, off)
<1>. DEFINE q == [i \in 1..Len(s) |-> Frame(s, f, i)]
            n == Len(s)
<1>1. n \in Nat
  OBVIOUS
<1>2. \A i \in 1..n : /\ Frame(s, f, i) \in Seq(Bytes) /\ Len(Frame(s, f, i)) = Length(s, f, i)
                      /\ Length(s, f, i) \in Nat
  <2>. TAKE i \in 1..n
  <2>1. Length(s, f, i) \in Nat
    BY DEF Length
  <2>. QED
    BY <2>1, FrameIs
<1>3. q \in Seq(Seq(Bytes)) /\ Len(q) = n
  <2>1. q \in [1..n -> Seq(Bytes)]
    BY <1>2
  <2>. HIDE DEF q, n
  <2>. QED
    BY <1>1, <2>1, IsSeq
<1>4. Wire(s, f) = FlattenSeq(q)
  BY DEF Wire, Frame
<1>5. PICK h \in [0..Len(q) -> Seq(Bytes)] : Parts(q, h) /\ FlattenSeq(q) = h[Len(q)]
  BY <1>3, FlattenParts
<1>6. /\ h \in [0..n -> Seq(Bytes)] /\ h[0] = <<>> /\ Wire(s, f) = h[n]
      /\ \A i \in 1..n : h[i] = h[i - 1] \o Frame(s, f, i)
  <2>1. \A i \in 1..n : q[i] = Frame(s, f, i)
    OBVIOUS
  <2>. HIDE DEF q
  <2>. QED
    BY <1>3, <1>4, <1>5, <2>1 DEF Parts
<1>. HIDE DEF q, n
<1>7. ASSUME NEW i \in 1..n
      PROVE  /\ Len(h[i]) = Len(h[i - 1]) + Length(s, f, i)
             /\ \A x \in 1..Len(h[i - 1]) : h[i][x] = h[i - 1][x]
             /\ \A k \in 1..Length(s, f, i) : h[i][Len(h[i - 1]) + k] = Frame(s, f, i)[k]
  <2>. DEFINE a == h[i - 1]  b == Frame(s, f, i)
  <2>1. i - 1 \in 0..n
    BY <1>1
  <2>2. a \in Seq(Bytes) /\ b \in Seq(Bytes) /\ h[i] = a \o b /\ Len(b) = Length(s, f, i)
    BY <1>2, <1>6, <2>1
  <2>. HIDE DEF a, b
  <2>3. /\ Len(a \o b) = Len(a) + Len(b)
        /\ \A x \in 1..(Len(a) + Len(b)) : (a \o b)[x] = IF x <= Len(a) THEN a[x] ELSE b[x - Len(a)]
    BY <2>2, ConcatProperties
  <2>4. Len(a) \in Nat /\ Len(b) \in Nat
    BY <2>2
  <2>5. \A x \in 1..Len(a) : (a \o b)[x] = a[x]
    BY <2>3, <2>4
  <2>6. ASSUME NEW k \in 1..Len(b) PROVE (a \o b)[Len(a) + k] = b[k]
    <3>1. Len(a) + k \in 1..(Len(a) + Len(b)) /\ ~(Len(a) + k <= Len(a)) /\ (Len(a) + k) - Len(a) = k
      BY <2>4
    <3>. QED
      BY <2>3, <3>1
  <2>. QED
    BY <2>2, <2>3, <2>5, <2>6 DEF a, b
<1>. DEFINE Keeps(i, l) == Len(h[i]) <= Len(h[l]) /\ \A x \in 1..Len(h[i]) : h[l][x] = h[i][x]
<1>8. ASSUME NEW i \in 0..n PROVE Keeps(i, n)
  <2>. DEFINE T == {l \in i..n : ~Keeps(i, l)}
  <2>1. i \in Nat /\ \A l \in 0..n : Len(h[l]) \in Nat
    BY <1>6
  <2>. SUFFICES ASSUME ~Keeps(i, n) PROVE FALSE
    OBVIOUS
  <2>2. PICK l \in T : \A m \in T : l <= m
    <3>1. T \subseteq Nat /\ n \in T
      BY <1>1, <2>1
    <3>. HIDE DEF T
    <3>. QED
      BY <3>1, LeastOfNaturals
  <2>3. l \in i..n /\ ~Keeps(i, l)
    OBVIOUS
  <2>4. l # i
    BY <2>1, <2>3
  <2>5. l - 1 \in i..n /\ l \in 1..n /\ l - 1 \in 0..n /\ ~(l <= l - 1)
    BY <1>1, <2>1, <2>3, <2>4
  <2>6. Keeps(i, l - 1)
    BY <2>2, <2>5
  <2>. HIDE DEF T
  <2>7. /\ Len(h[l]) = Len(h[l - 1]) + Length(s, f, l) /\ Length(s, f, l) \in Nat
        /\ \A x \in 1..Len(h[l - 1]) : h[l][x] = h[l - 1][x]
    BY <1>2, <1>7, <2>5
  <2>8. Len(h[l]) \in Nat /\ Len(h[l - 1]) \in Nat /\ Len(h[i]) \in Nat
    BY <2>1, <2>5
  <2>9. Len(h[i]) <= Len(h[l])
    BY <2>6, <2>7, <2>8
  <2>10. ASSUME NEW x \in 1..Len(h[i]) PROVE h[l][x] = h[i][x]
    <3>1. x \in 1..Len(h[l - 1])
      BY <2>6, <2>8
    <3>. QED
      BY <2>6, <2>7, <3>1
  <2>. QED
    BY <2>3, <2>9, <2>10
<1>. DEFINE off == [i \in 0..n |-> Len(h[i])]
<1>9. off \in [0..n -> Nat] /\ off[0] = 0 /\ off[n] = Len(Wire(s, f)) /\ Wire(s, f) \in Seq(Bytes)
  <2>1. 0 \in 0..n /\ n \in 0..n /\ Len(h[0]) = 0
    BY <1>1, <1>6
  <2>. QED
    BY <1>6, <2>1
<1>10. ASSUME NEW i \in 1..n
       PROVE  /\ off[i] = off[i - 1] + Length(s, f, i)
              /\ \A k \in 1..Length(s, f, i) : Wire(s, f)[off[i - 1] + k] = Frame(s, f, i)[k]
  <2>1. i \in 0..n /\ i - 1 \in 0..n
    BY <1>1
  <2>2. off[i] = Len(h[i]) /\ off[i - 1] = Len(h[i - 1])
    BY <2>1
  <2>. HIDE DEF off
  <2>3. ASSUME NEW k \in 1..Length(s, f, i) PROVE h[n][Len(h[i - 1]) + k] = Frame(s, f, i)[k]
    <3>1. Len(h[i - 1]) + k \in 1..Len(h[i])
      <4>1. Len(h[i - 1]) \in Nat /\ Length(s, f, i) \in Nat
        BY <1>2, <1>6, <2>1
      <4>2. Len(h[i]) = Len(h[i - 1]) + Length(s, f, i)
        BY <1>7
      <4>. QED
        BY <4>1, <4>2
    <3>2. h[n][Len(h[i - 1]) + k] = h[i][Len(h[i - 1]) + k]
      BY <1>8, <2>1, <3>1
    <3>. QED
      BY <1>7, <3>2
  <2>. QED
    BY <1>6, <1>7, <2>2, <2>3
<1>. HIDE DEF off
<1>. QED
  BY SMTT(30), <1>9, <1>10 DEF Laid, n

\* The frames follow each other, and each byte is in one.
LEMMA FramesFollow ==
  ASSUME NEW s \in Seq(Event), NEW f \in {"lf", "crlf"}, NEW off, Laid(s, f, off)
  PROVE  /\ \A i \in 1..Len(s) : Length(s, f, i) \in 3..6 /\ off[i - 1] + 3 <= off[i]
         /\ \A i, j \in 0..Len(s) : i < j => off[i] < off[j]
         /\ \A x \in 1..Len(Wire(s, f)) : \E i \in 1..Len(s) : off[i - 1] < x /\ x <= off[i]
<1>. DEFINE n == Len(s)
<1>1. n \in Nat /\ off \in [0..n -> Nat] /\ off[0] = 0 /\ off[n] = Len(Wire(s, f))
      /\ \A i \in 1..n : off[i] = off[i - 1] + Length(s, f, i)
  BY DEF Laid
<1>. HIDE DEF n
<1>2. \A i \in 1..n : Length(s, f, i) \in 3..6
  BY DEF Length
<1>3. ASSUME NEW i \in 1..n PROVE off[i - 1] + 3 <= off[i]
  <2>1. i - 1 \in 0..n /\ i \in 0..n
    BY <1>1
  <2>2. off[i - 1] \in Nat /\ off[i] \in Nat /\ Length(s, f, i) \in 3..6
    BY <1>1, <1>2, <2>1
  <2>. QED
    BY SMTT(30), <1>1, <2>2
<1>4. ASSUME NEW i \in 0..n, NEW j \in 0..n, i < j PROVE off[i] < off[j]
  <2>. DEFINE T == {l \in (i + 1)..n : ~(off[i] < off[l])}
  <2>. SUFFICES ASSUME ~(off[i] < off[j]) PROVE FALSE
    OBVIOUS
  <2>1. PICK l \in T : \A m \in T : l <= m
    <3>1. T \subseteq Nat /\ j \in T
      BY <1>1, <1>4
    <3>. HIDE DEF T
    <3>. QED
      BY <3>1, LeastOfNaturals
  <2>2. l \in (i + 1)..n /\ ~(off[i] < off[l]) /\ l \in 1..n /\ l - 1 \in 0..n /\ l \in 0..n
    BY <1>1
  <2>3. off[i] \in Nat /\ off[l] \in Nat /\ off[l - 1] \in Nat
    BY <1>1, <2>2
  <2>4. off[l - 1] < off[l]
    BY <1>3, <2>2, <2>3
  <2>5. l - 1 # i
    BY <2>2, <2>4
  <2>6. l - 1 \in (i + 1)..n /\ ~(l <= l - 1)
    BY <1>1, <2>2, <2>5
  <2>7. off[i] < off[l - 1]
    BY <2>1, <2>6
  <2>. QED
    BY <2>2, <2>3, <2>4, <2>7
<1>5. ASSUME NEW x \in 1..Len(Wire(s, f))
      PROVE  \E i \in 1..n : off[i - 1] < x /\ x <= off[i]
  <2>. DEFINE T == {i \in 0..n : x <= off[i]}
  <2>1. PICK i \in T : \A m \in T : i <= m
    <3>1. T \subseteq Nat /\ n \in T
      BY <1>1
    <3>. HIDE DEF T
    <3>. QED
      BY <3>1, LeastOfNaturals
  <2>2. i \in 0..n /\ x <= off[i] /\ i # 0
    BY <1>1
  <2>3. i \in 1..n /\ i - 1 \in 0..n /\ ~(i <= i - 1)
    BY <1>1, <2>2
  <2>4. ~(x <= off[i - 1]) /\ off[i - 1] \in Nat /\ x \in Nat
    BY <1>1, <2>1, <2>3
  <2>5. off[i - 1] < x
    BY <2>4
  <2>. QED
    BY <2>2, <2>3, <2>5
<1>. QED
  BY <1>2, <1>3, <1>4, <1>5 DEF n

LEMMA LaidIs ==
  ASSUME NEW s \in Seq(Event), NEW f, NEW off, Laid(s, f, off)
  PROVE  /\ Len(Wire(s, f)) \in Nat /\ Len(s) \in Nat /\ Wire(s, f) \in Seq(Bytes)
         /\ \A i \in 0..Len(s) : off[i] \in Nat
         /\ \A i \in 1..Len(s) : i - 1 \in 0..Len(s) /\ i \in 0..Len(s)
<1>1. Wire(s, f) \in Seq(Bytes) /\ off \in [0..Len(s) -> Nat]
  BY DEF Laid
<1>. QED
  BY <1>1

\* Two line feeds in a row are where a frame ends, if lines end with one.
LEMMA BlankLines ==
  ASSUME NEW s \in Seq(Event), NEW f \in {"lf", "crlf"}, NEW off, Laid(s, f, off),
         NEW x \in 2..Len(Wire(s, f))
  PROVE  Wire(s, f)[x].part = "LF" /\ Wire(s, f)[x - 1].part = "LF"
           <=> f = "lf" /\ \E i \in 1..Len(s) : x = off[i]
<1>. DEFINE w == Wire(s, f)  n == Len(s)
            LF(y) == w[y].part = "LF"
<1>1. PICK i \in 1..n : off[i - 1] < x /\ x <= off[i]
  <2>1. x \in 1..Len(w)
    BY LaidIs
  <2>. QED
    BY <2>1, FramesFollow
<1>2. /\ i - 1 \in 0..n /\ i \in 0..n /\ off[i - 1] \in Nat /\ off[i] \in Nat /\ x \in Nat
      /\ off[i] = off[i - 1] + Length(s, f, i) /\ Length(s, f, i) \in 3..6
      /\ \A k \in 1..Length(s, f, i) : w[off[i - 1] + k] = Frame(s, f, i)[k]
  <2>1. i - 1 \in 0..n /\ i \in 0..n
    OBVIOUS
  <2>2. off[i - 1] \in Nat /\ off[i] \in Nat /\ x \in Nat
    BY <2>1, LaidIs
  <2>3. Length(s, f, i) \in 3..6
    BY FramesFollow
  <2>4. /\ off[i] = off[i - 1] + Length(s, f, i)
        /\ \A k \in 1..Length(s, f, i) : w[off[i - 1] + k] = Frame(s, f, i)[k]
    BY DEF Laid
  <2>. QED
    BY <2>1, <2>2, <2>3, <2>4
<1>. HIDE DEF LF, w
<1>4. Frame(s, f, i)[1].part # "LF"
  <2>1. 1 \in 1..(Length(s, f, i) - (IF f = "lf" THEN 2 ELSE 4))
    BY DEF Length
  <2>2. Frame(s, f, i)[1].part \in IF s[i].wide THEN {"lead", "rest"} ELSE {"all"}
    BY <2>1, FrameIs
  <2>. QED
    BY <2>2
<1>. DEFINE o == off[i - 1]  p == off[i]  l == Length(s, f, i)  k == x - o
<1>8. o \in Nat /\ p \in Nat /\ x \in Nat /\ l \in 3..6 /\ p = o + l /\ o < x /\ x <= p
  BY <1>1, <1>2
<1>. HIDE DEF o, p, l
<1>5. k \in 1..l /\ x = o + k /\ k \in Nat
  BY <1>8
<1>9. (x = p <=> k = l) /\ (k # 1 => k - 1 \in 1..l /\ x - 1 = o + (k - 1) /\ k \in 2..l)
      /\ (k # 1 /\ k # l => k - 1 \in 1..(l - 2))
  BY <1>8
<1>. HIDE DEF k
<1>3. \A y \in 1..l : LF(o + y) <=> Frame(s, f, i)[y].part = "LF"
  BY <1>2 DEF LF, w, o, l
<1>10. ASSUME NEW e \in 1..n PROVE e # i => off[e] <= o \/ p < off[e]
  <2>1. e \in 0..n /\ off[e] \in Nat
    BY LaidIs
  <2>2. e < i - 1 => off[e] < o
    BY <1>2, <2>1, FramesFollow DEF o
  <2>3. i < e => p < off[e]
    BY <1>2, <2>1, FramesFollow DEF p
  <2>4. e = i - 1 => off[e] = o
    BY DEF o
  <2>5. e = i \/ e = i - 1 \/ e < i - 1 \/ i < e
    BY <2>1
  <2>. QED
    BY <1>8, <2>1, <2>2, <2>3, <2>4, <2>5
<1>11. (\E e \in 1..n : x = off[e]) <=> x = p
  <2>1. \A e \in 1..n : x = off[e] => e = i
    BY <1>8, <1>10
  <2>. QED
    BY <2>1 DEF p
<1>12. x - 1 = o + (k - 1)
  BY <1>5, <1>8
<1>6. CASE k = 1
  <2>1. ~LF(x)
    BY <1>3, <1>4, <1>5, <1>6
  <2>2. x # p
    BY <1>6, <1>8, <1>9
  <2>. QED
    BY <1>11, <2>1, <2>2 DEF LF, w
<1>7. CASE k # 1
  <2>2. LF(x) <=> Frame(s, f, i)[k].part = "LF"
    BY <1>3, <1>5
  <2>3. LF(x - 1) <=> Frame(s, f, i)[k - 1].part = "LF"
    BY <1>3, <1>7, <1>9
  <2>4. CASE f = "crlf"
    <3>1. ~(Frame(s, f, i)[k].part = "LF" /\ Frame(s, f, i)[k - 1].part = "LF")
      BY SMTT(30), <1>7, <1>9, <2>4, FrameIs DEF l
    <3>. QED
      BY <2>2, <2>3, <2>4, <3>1 DEF LF, w
  <2>5. CASE f = "lf"
    <3>1. CASE k = l
      <4>1. Frame(s, f, i)[k].part = "LF" /\ Frame(s, f, i)[k - 1].part = "LF"
        BY <2>5, <3>1, FrameIs DEF l
      <4>. QED
        BY <1>9, <1>11, <2>2, <2>3, <2>5, <3>1, <4>1 DEF LF, w
    <3>2. CASE k # l
      <4>1. k - 1 \in 1..(Length(s, f, i) - (IF f = "lf" THEN 2 ELSE 4))
        BY <1>7, <1>9, <2>5, <3>2 DEF l
      <4>2. Frame(s, f, i)[k - 1].part \in IF s[i].wide THEN {"lead", "rest"} ELSE {"all"}
        BY <4>1, FrameIs
      <4>3. ~LF(x - 1)
        BY <2>3, <4>2
      <4>. QED
        BY <1>9, <1>11, <3>2, <4>3 DEF LF, w
    <3>. QED
      BY <3>1, <3>2
  <2>. QED
    BY <2>4, <2>5
<1>. QED
  BY <1>6, <1>7

-----------------------------------------------------------------------------
(* The parser *)

Chars == [event : Nat, part : {"all", "lead", "rest", "LF", "CR", "bad"}]

\* A byte and what is decoded of it.
Like(c, b) == c.event = b.event /\ (c.part = b.part \/ (c.part = "bad" /\ b.part \in {"lead", "rest"}))

LEMMA DecodeIs ==
  ASSUME NEW chunk \in Seq(Bytes)
  PROVE  /\ Decode(chunk) \in Seq(Chars) /\ Len(Decode(chunk)) = Len(chunk)
         /\ \A k \in 1..Len(chunk) : Like(Decode(chunk)[k], chunk[k])
<1>. DEFINE n == Len(chunk)
            split(i) == \/ chunk[i].part = "lead" /\ i = Len(chunk)
                        \/ chunk[i].part = "rest" /\ i = 1
            d(i) == IF split(i) THEN Byte(chunk[i].event, "bad") ELSE chunk[i]
<1>1. n \in Nat
  OBVIOUS
<1>2. ASSUME NEW i \in 1..n PROVE d(i) \in Chars /\ Like(d(i), chunk[i])
  <2>1. chunk[i] \in Bytes
    OBVIOUS
  <2>2. chunk[i] \in Chars /\ Byte(chunk[i].event, "bad") \in Chars
    BY <2>1 DEF Bytes, Chars, Byte
  <2>3. split(i) => chunk[i].part \in {"lead", "rest"}
    OBVIOUS
  <2>. HIDE DEF split
  <2>. QED
    BY <2>2, <2>3 DEF Like, Byte
<1>3. Decode(chunk) = [i \in 1..n |-> d(i)]
  BY DEF Decode
<1>. HIDE DEF d, n
<1>4. Decode(chunk) \in [1..n -> Chars]
  BY <1>2, <1>3
<1>5. Decode(chunk) \in Seq(Chars) /\ Len(Decode(chunk)) = n
  BY <1>1, <1>4, IsSeq
<1>6. \A i \in 1..n : Like(Decode(chunk)[i], chunk[i])
  BY <1>2, <1>3
<1>. QED
  BY <1>5, <1>6 DEF n

\* text is what was received, up to the nth byte, after the jth event.
Holds(s, f, off, j, text, n) ==
  /\ j \in 0..Len(s) /\ n \in 0..Len(Wire(s, f)) /\ off[j] <= n /\ (f = "crlf" => j = 0)
  /\ text \in Seq(Chars) /\ Len(text) = n - off[j]
  /\ \A k \in 1..Len(text) : Like(text[k], Wire(s, f)[off[j] + k])

LEMMA TextGrows ==
  ASSUME NEW s \in Seq(Event), NEW f \in {"lf", "crlf"}, NEW off, Laid(s, f, off),
         NEW j, NEW text, NEW n, Holds(s, f, off, j, text, n), NEW m \in (n + 1)..Len(Wire(s, f))
  PROVE  Holds(s, f, off, j, text \o Decode(SubSeq(Wire(s, f), n + 1, m)), m)
<1>. DEFINE w == Wire(s, f)  chunk == SubSeq(w, n + 1, m)  d == Decode(chunk)  l == Len(text)
<1>1. /\ w \in Seq(Bytes) /\ n \in 0..Len(w) /\ off[j] \in Nat /\ off[j] <= n
      /\ text \in Seq(Chars) /\ l = n - off[j] /\ l \in Nat /\ m \in Nat /\ n \in Nat /\ n + 1 <= m
      /\ m <= Len(w) /\ Len(w) \in Nat
  <2>1. /\ n \in 0..Len(w) /\ off[j] <= n /\ j \in 0..Len(s)
        /\ text \in Seq(Chars) /\ l = n - off[j]
    BY DEF Holds
  <2>2. w \in Seq(Bytes) /\ Len(w) \in Nat /\ off[j] \in Nat
    BY <2>1, LaidIs
  <2>3. l \in Nat
    BY <2>1
  <2>. HIDE DEF w
  <2>. QED
    <3>. DEFINE L == Len(w)
    <3>1. L \in Nat /\ n \in 0..L /\ m \in (n + 1)..L
      BY <2>1, <2>2 DEF w
    <3>. HIDE DEF L
    <3>2. n \in Nat /\ m \in Nat /\ n + 1 <= m /\ m <= L
      BY <3>1
    <3>. QED
      BY <2>1, <2>2, <2>3, <3>2 DEF L
<1>2. /\ chunk \in Seq(Bytes) /\ Len(chunk) = m - n
      /\ \A k \in 1..(m - n) : chunk[k] = w[n + k]
  <2>. HIDE DEF w
  <2>1. n + 1 \in 1..Len(w) /\ m \in n..Len(w) /\ n \in Nat
    BY <1>1 DEF w
  <2>2. chunk \in Seq(Bytes) /\ Len(chunk) = IF n + 1 <= m THEN m - (n + 1) + 1 ELSE 0
    BY <1>1, <2>1, SubSeqProperties
  <2>3. \A k \in 1..(m - (n + 1) + 1) : chunk[k] = w[(n + 1) + k - 1]
    BY <1>1, <2>1, SubSeqProperties
  <2>4. m - (n + 1) + 1 = m - n /\ \A k \in 1..(m - n) : (n + 1) + k - 1 = n + k
    BY <1>1, <2>1
  <2>. QED
    BY <1>1, <2>2, <2>3, <2>4
<1>. HIDE DEF chunk
<1>3. d \in Seq(Chars) /\ Len(d) = m - n /\ \A k \in 1..(m - n) : Like(d[k], w[n + k])
  BY <1>2, DecodeIs
<1>. HIDE DEF d, w
<1>4. /\ text \o d \in Seq(Chars) /\ Len(text \o d) = Len(text) + Len(d)
      /\ \A k \in 1..(Len(text) + Len(d)) :
           (text \o d)[k] = IF k <= Len(text) THEN text[k] ELSE d[k - Len(text)]
  BY <1>1, <1>3, ConcatProperties
<1>. DEFINE o == off[j]
<1>9. o \in Nat /\ o <= n /\ l \in Nat /\ l = n - o /\ Len(d) = m - n /\ n \in Nat /\ m \in Nat /\ n < m
  BY <1>1, <1>3
<1>. HIDE DEF o, l
<1>5. Len(text \o d) = m - off[j]
  BY <1>4, <1>9 DEF o, l
<1>6. ASSUME NEW k \in 1..(m - off[j]) PROVE Like((text \o d)[k], w[off[j] + k])
  <2>1. k \in 1..(Len(text) + Len(d)) /\ k \in Nat
    <3>1. k \in 1..(m - o)
      BY DEF o
    <3>. QED
      BY <1>9, <3>1 DEF l
  <2>2. CASE k <= l
    <3>1. k \in 1..Len(text) /\ (text \o d)[k] = text[k]
      BY <1>4, <1>9, <2>1, <2>2 DEF l
    <3>. QED
      BY <3>1 DEF Holds, w
  <2>3. CASE ~(k <= l)
    <3>1. k - l \in 1..(m - n) /\ n + (k - l) = off[j] + k
      <4>1. k \in 1..(m - o)
        BY DEF o
      <4>2. k - l \in 1..(m - n) /\ n + (k - l) = o + k
        BY <1>9, <2>3, <4>1
      <4>. QED
        BY <4>2 DEF o
    <3>2. (text \o d)[k] = d[k - l]
      BY <1>4, <2>1, <2>3 DEF l
    <3>3. Like(d[k - l], w[n + (k - l)])
      BY <1>3, <3>1
    <3>. QED
      BY <3>1, <3>2, <3>3
  <2>. QED
    BY <2>2, <2>3
<1>7. m \in 0..Len(Wire(s, f)) /\ off[j] <= m
  BY <1>1
<1>8. Holds(s, f, off, j, text \o d, m)
  BY <1>4, <1>5, <1>6, <1>7 DEF Holds, w
<1>. QED
  BY <1>8 DEF d, chunk, w

\* The events that some text completes are the next ones, up to the mth, and
\* what is left of it comes after them.
Parsed(s, f, off, j, text, n, m) ==
  /\ m \in j..Len(s)
  /\ Holds(s, f, off, m, Rest(text), n)
  /\ f = "lf" /\ n = Len(Wire(s, f)) => m = Len(s)
  /\ Len(Blocks(text)) = m - j
  /\ \A k \in 1..(m - j) :
       /\ Blocks(text)[k].at = j + k /\ Blocks(text)[k].intact \in BOOLEAN
       /\ ~s[j + k].wide => Blocks(text)[k].intact

LEMMA TextParses ==
  ASSUME NEW s \in Seq(Event), NEW f \in {"lf", "crlf"}, NEW off, Laid(s, f, off),
         NEW j, NEW text, NEW n, Holds(s, f, off, j, text, n)
  PROVE  \E m : Parsed(s, f, off, j, text, n, m)
<1>. DEFINE w == Wire(s, f)  N == Len(s)  L == Len(w)  o == off[j]  t == Len(text)
<1>1. /\ N \in Nat /\ L \in Nat /\ o \in Nat /\ j \in 0..N /\ n \in 0..L /\ o <= n /\ t = n - o
      /\ (f = "crlf" => j = 0) /\ text \in Seq(Chars)
      /\ \A k \in 1..t : Like(text[k], w[o + k])
  BY LaidIs DEF Holds
<1>2. /\ \A i \in 0..N : off[i] \in Nat
      /\ \A i \in 1..N : i \in 0..N /\ i - 1 \in 0..N /\ off[i - 1] + 3 <= off[i]
      /\ \A i, k \in 0..N : i < k => off[i] < off[k]
      /\ off[N] = L
  BY LaidIs, FramesFollow DEF Laid
<1>. HIDE DEF w, N, L, o, t
<1>3. PICK m \in j..N :
        /\ off[m] <= n /\ (f = "crlf" => m = j)
        /\ f = "lf" => \A i \in 0..N : off[i] <= n => i <= m
  <2>1. CASE f = "crlf"
    BY <1>1, <2>1 DEF o
  <2>2. CASE f = "lf"
    <3>. DEFINE T == {i \in j..N : \A k \in 0..N : off[k] <= n => k <= i}
    <3>1. PICK i \in T : \A k \in T : i <= k
      <4>1. T \subseteq Nat /\ N \in T
        BY <1>1
      <4>. HIDE DEF T
      <4>. QED
        BY <4>1, LeastOfNaturals
    <3>2. i \in j..N /\ \A k \in 0..N : off[k] <= n => k <= i
      OBVIOUS
    <3>3. off[i] <= n
      <4>1. CASE i = j
        BY <1>1, <4>1 DEF o
      <4>2. CASE i # j
        <5>1. i - 1 \in j..N /\ ~(i <= i - 1)
          BY <1>1, <3>2, <4>2
        <5>2. PICK k \in 0..N : off[k] <= n /\ ~(k <= i - 1)
          BY <3>1, <5>1
        <5>3. k <= i
          BY <3>2, <5>2
        <5>4. k = i
          BY <1>1, <3>2, <5>2, <5>3
        <5>. QED
          BY <5>2, <5>4
      <4>. QED
        BY <4>1, <4>2
    <3>. QED
      BY <2>2, <3>2, <3>3
  <2>. QED
    BY <2>1, <2>2
<1>. DEFINE c == m - j  q == [k \in 1..c |-> off[j + k] - o]
<1>4. m \in 0..N /\ c \in Nat /\ n \in Nat /\ j \in Nat /\ m = j + c /\ m \in Nat /\ t \in Nat
  BY <1>1, <1>3
<1>5. ASSUME NEW k \in 1..c
      PROVE  /\ j + k \in 1..N /\ off[j + k] \in Nat /\ o + 3 <= off[j + k] /\ off[j + k] <= n
             /\ f = "lf"
  <2>1. j + k \in 1..N /\ j + k \in 0..N /\ (j + k) - 1 \in 0..N /\ j + k <= m
    BY <1>1, <1>4
  <2>2. off[j + k] \in Nat /\ off[(j + k) - 1] \in Nat /\ off[m] \in Nat /\ off[(j + k) - 1] + 3 <= off[j + k]
    BY <1>2, <1>4, <2>1
  <2>3. o <= off[(j + k) - 1]
    <3>1. CASE k = 1
      <4>1. (j + k) - 1 = j
        BY <1>4, <3>1
      <4>. QED
        BY <1>1, <4>1 DEF o
    <3>2. CASE k # 1
      <4>1. j < (j + k) - 1
        BY <1>4, <3>2
      <4>2. off[j] < off[(j + k) - 1]
        BY <1>1, <1>2, <2>1, <4>1
      <4>. QED
        BY SMTT(30), <1>1, <2>2, <4>2 DEF o
    <3>. QED
      BY <3>1, <3>2
  <2>4. off[j + k] <= off[m]
    <3>1. j + k = m \/ j + k < m
      BY <1>4, <2>1
    <3>2. j + k < m => off[j + k] < off[m]
      BY <1>2, <1>4, <2>1
    <3>. QED
      BY <2>2, <3>1, <3>2
  <2>5. f = "lf"
    <3>1. m # j
      BY <1>4
    <3>. QED
      BY <1>3, <3>1
  <2>6. o + 3 <= off[j + k] /\ off[j + k] <= n
    <3>. DEFINE a == off[(j + k) - 1]  e == off[j + k]  g == off[m]
    <3>1. /\ a \in Nat /\ e \in Nat /\ g \in Nat /\ o \in Nat /\ n \in Nat
          /\ a + 3 <= e /\ o <= a /\ e <= g /\ g <= n
      BY <1>1, <1>3, <1>4, <2>2, <2>3, <2>4
    <3>. HIDE DEF a, e, g
    <3>2. o + 3 <= e /\ e <= n
      BY <3>1
    <3>. QED
      BY <3>2 DEF e
  <2>. QED
    BY <2>1, <2>2, <2>5, <2>6
<1>. HIDE DEF c
<1>17. ASSUME NEW k \in 1..c PROVE off[j + k] - o \in 3..t /\ o + (off[j + k] - o) = off[j + k]
  <2>. DEFINE e == off[j + k]
  <2>1. e \in Nat /\ o + 3 <= e /\ e <= n /\ t = n - o /\ n \in Nat /\ o \in Nat
    BY <1>1, <1>4, <1>5
  <2>. HIDE DEF e
  <2>2. e - o \in 3..t /\ o + (e - o) = e
    BY <2>1
  <2>. QED
    BY <2>2 DEF e
<1>6. BlockEnds(text) = {q[k] : k \in 1..c}
  <2>. DEFINE LF(x) == text[x].part = "LF" /\ text[x - 1].part = "LF"
  <2>1. ASSUME NEW x \in 2..t PROVE LF(x) <=> f = "lf" /\ \E i \in 1..N : o + x = off[i]
    <3>1. x \in 1..t /\ x - 1 \in 1..t /\ o + (x - 1) = (o + x) - 1 /\ o + x \in 2..L
      BY <1>1, <1>4
    <3>2. Like(text[x], w[o + x]) /\ Like(text[x - 1], w[(o + x) - 1])
      BY <1>1, <3>1
    <3>3. LF(x) <=> w[o + x].part = "LF" /\ w[(o + x) - 1].part = "LF"
      BY <3>2 DEF Like
    <3>. QED
      BY <3>1, <3>3, BlankLines DEF w, N, L
  <2>. HIDE DEF LF
  <2>2. ASSUME NEW x \in 2..t, LF(x) PROVE \E k \in 1..c : x = q[k]
    <3>1. f = "lf"
      BY <2>1, <2>2
    <3>2. PICK i \in 1..N : o + x = off[i]
      BY <2>1, <2>2
    <3>3. i \in 0..N /\ off[i] \in Nat /\ o < off[i] /\ off[i] <= n
      BY <1>1, <1>2, <1>4, <3>2
    <3>4. i <= m
      BY <1>3, <3>1, <3>3
    <3>5. j < i
      <4>1. i < j => off[i] < off[j]
        BY <1>1, <1>2, <3>3
      <4>2. i # j
        BY <1>1, <3>3 DEF o
      <4>. QED
        BY <1>1, <1>4, <3>3, <4>1, <4>2 DEF o
    <3>6. i - j \in 1..c /\ j + (i - j) = i
      BY <1>4, <3>3, <3>4, <3>5
    <3>7. x = off[i] - o
      BY <1>1, <3>2
    <3>8. q[i - j] = off[i] - o
      BY <3>6
    <3>. QED
      BY <3>6, <3>7, <3>8
  <2>3. ASSUME NEW k \in 1..c PROVE q[k] \in 2..t /\ LF(q[k])
    <3>1. q[k] = off[j + k] - o
      OBVIOUS
    <3>2. q[k] \in 2..t /\ o + q[k] = off[j + k]
      <4>1. q[k] \in 3..t /\ o + q[k] = off[j + k]
        BY <1>17, <3>1
      <4>. HIDE DEF q
      <4>. QED
        BY <1>4, <4>1
    <3>. HIDE DEF q
    <3>. QED
      BY <1>5, <2>1, <3>2
  <2>4. BlockEnds(text) = {x \in 2..t : LF(x)}
    BY DEF BlockEnds, LF, t
  <2>. HIDE DEF q
  <2>. QED
    BY <2>2, <2>3, <2>4
<1>7. \A k \in 1..c : q[k] = off[j + k] - o /\ q[k] \in Nat /\ q[k] \in 3..t
  <2>. TAKE k \in 1..c
  <2>1. q[k] = off[j + k] - o
    OBVIOUS
  <2>2. q[k] \in 3..t
    BY <1>17, <2>1
  <2>. HIDE DEF q
  <2>. QED
    BY <1>4, <2>1, <2>2
<1>8. \A i, k \in 1..c : i < k => q[i] < q[k]
  <2>. TAKE i, k \in 1..c
  <2>. HAVE i < k
  <2>1. j + i \in 0..N /\ j + k \in 0..N /\ j + i < j + k
    BY <1>1, <1>2, <1>4, <1>5
  <2>2. off[j + i] < off[j + k]
    BY <1>2, <2>1
  <2>3. q[i] = off[j + i] - o /\ q[k] = off[j + k] - o
    BY <1>7
  <2>. DEFINE a == off[j + i]  e == off[j + k]
  <2>4. a \in Nat /\ e \in Nat /\ o \in Nat /\ a < e
    BY <1>1, <1>5, <2>2
  <2>. HIDE DEF a, e, q
  <2>5. a - o < e - o
    BY <2>4
  <2>. QED
    BY <2>3, <2>5 DEF a, e
<1>9. Cardinality(BlockEnds(text)) = c /\ Sorted(BlockEnds(text)) = q
  <2>. DEFINE S == BlockEnds(text)
  <2>1. q \in [1..c -> S] /\ S \subseteq Nat /\ \A x \in S : \E i \in 1..c : q[i] = x
    <3>1. q = [k \in 1..c |-> q[k]]
      OBVIOUS
    <3>. HIDE DEF q
    <3>. QED
      BY <1>6, <1>7, <3>1
  <2>. HIDE DEF q, S
  <2>. QED
    BY <1>4, <1>8, <2>1, SortedIs DEF S
<1>. HIDE DEF q
<1>. DEFINE begin(k) == IF k = 1 THEN 1 ELSE q[k - 1] + 1
            b(k) == [at     |-> text[begin(k)].event,
                     intact |-> \A i \in begin(k)..q[k] : text[i].part # "bad"]
<1>10. Blocks(text) = [k \in 1..c |-> b(k)]
  BY <1>9 DEF Blocks
<1>11. ASSUME NEW k \in 1..c
       PROVE  b(k).at = j + k /\ b(k).intact \in BOOLEAN /\ (~s[j + k].wide => b(k).intact)
  <2>. DEFINE i == j + k  a == off[i - 1]  l == Length(s, f, i)
  <2>1. /\ i \in 1..N /\ i - 1 \in 0..N /\ a \in Nat /\ l \in 3..6 /\ off[i] = a + l /\ off[i] \in Nat
        /\ \A x \in 1..l : w[a + x] = Frame(s, f, i)[x]
    <3>1. i \in 1..N /\ i - 1 \in 0..N
      BY <1>2, <1>5
    <3>. HIDE DEF i
    <3>2. a \in Nat /\ l \in 3..6
      BY <1>2, <3>1, FramesFollow DEF N
    <3>3. off[i] = a + l /\ \A x \in 1..l : w[a + x] = Frame(s, f, i)[x]
      BY <3>1 DEF Laid, w, N
    <3>. QED
      BY SMTT(30), <3>1, <3>2, <3>3
  <2>2. o + begin(k) = a + 1 /\ begin(k) \in 1..t
    <3>1. CASE k = 1
      <4>1. i - 1 = j
        BY <1>4, <3>1
      <4>2. a = o
        BY <4>1 DEF o
      <4>3. 1 \in 1..t
        <5>1. q[k] \in 3..t
          BY <1>7
        <5>. QED
          BY <1>4, <5>1
      <4>. QED
        BY <1>1, <3>1, <4>2, <4>3
    <3>2. CASE k # 1
      <4>1. k - 1 \in 1..c /\ j + (k - 1) = i - 1 /\ k - 1 < k
        BY <1>4, <3>2
      <4>2. q[k - 1] = a - o /\ q[k - 1] \in 3..t /\ q[k - 1] < q[k] /\ q[k] \in 3..t
        BY <1>7, <1>8, <4>1
      <4>. QED
        <5>. DEFINE z == q[k - 1]
        <5>1. begin(k) = z + 1
          BY <3>2
        <5>2. z = a - o /\ z \in Nat /\ z < t /\ a \in Nat /\ o \in Nat /\ t \in Nat
          <6>1. q[k - 1] < t /\ q[k - 1] \in Nat
            BY <1>4, <4>2
          <6>. QED
            BY <1>1, <1>4, <2>1, <4>2, <6>1
        <5>. HIDE DEF z, a
        <5>3. o + (z + 1) = a + 1 /\ z + 1 \in 1..t
          BY <5>2
        <5>. QED
          BY <5>1, <5>3
    <3>. QED
      BY <3>1, <3>2
  <2>3. Like(text[begin(k)], w[a + 1])
    BY <1>1, <2>2
  <2>4. w[a + 1].event = i
    <3>1. 1 \in 1..(l - (IF f = "lf" THEN 2 ELSE 4)) /\ 1 \in 1..l
      BY <2>1 DEF Length
    <3>2. Frame(s, f, i)[1].event = i
      <4>1. i \in 1..Len(s)
        BY <2>1 DEF N
      <4>. HIDE DEF i
      <4>2. \A x \in 1..(Length(s, f, i) - (IF f = "lf" THEN 2 ELSE 4)) : Frame(s, f, i)[x].event = i
        BY <4>1, FrameIs
      <4>. QED
        BY <3>1, <4>2
    <3>. QED
      BY <2>1, <3>1, <3>2
  <2>5. b(k).at = i
    BY <2>3, <2>4 DEF Like
  <2>6. ASSUME ~s[i].wide, NEW x \in begin(k)..q[k] PROVE text[x].part # "bad"
    <3>1. q[k] = off[i] - o /\ q[k] \in 3..t
      BY <1>7
    <3>2. x \in 1..t /\ (o + x) - a \in 1..l /\ a + ((o + x) - a) = o + x
      <4>. DEFINE z == begin(k)  y == q[k]  e == off[i]
      <4>1. /\ z \in 1..t /\ y \in 3..t /\ x \in z..y /\ e = a + l /\ y = e - o /\ o + z = a + 1
            /\ e \in Nat /\ a \in Nat /\ o \in Nat /\ t \in Nat /\ l \in 3..6
        BY <1>1, <1>4, <2>1, <2>2, <3>1
      <4>. HIDE DEF z, y, e, a, l
      <4>. QED
        BY <4>1
    <3>3. Like(text[x], w[o + x])
      BY <1>1, <3>2
    <3>4. w[o + x] = Frame(s, f, i)[(o + x) - a]
      BY <2>1, <3>2
    <3>5. Frame(s, f, i)[(o + x) - a].part \notin {"lead", "rest"}
      <4>1. i \in 1..Len(s)
        BY <2>1 DEF N
      <4>. DEFINE z == (o + x) - a
      <4>2. z \in 1..Length(s, f, i)
        BY <3>2
      <4>. HIDE DEF z
      <4>3. Frame(s, f, i)[z].part \notin {"lead", "rest"}
        <5>1. ~s[i].wide
          BY <2>6
        <5>. HIDE DEF i
        <5>. QED
          BY <4>1, <4>2, <5>1, FrameIs
      <4>. QED
        BY <4>3 DEF z
    <3>6. Frame(s, f, i)[(o + x) - a].part # "bad"
      <4>1. Frame(s, f, i) \in Seq(Bytes) /\ Len(Frame(s, f, i)) = l
        BY <2>1, FrameIs DEF N
      <4>2. Frame(s, f, i)[(o + x) - a] \in Bytes
        BY <3>2, <4>1
      <4>. QED
        BY <4>2 DEF Bytes
    <3>. QED
      BY <3>3, <3>4, <3>5, <3>6 DEF Like
  <2>7. b(k).intact = \A x \in begin(k)..q[k] : text[x].part # "bad"
    OBVIOUS
  <2>. HIDE DEF begin, b
  <2>. QED
    BY <2>5, <2>6, <2>7
<1>. HIDE DEF b
<1>12. /\ Len(Blocks(text)) = c
       /\ \A k \in 1..c : /\ Blocks(text)[k].at = j + k /\ Blocks(text)[k].intact \in BOOLEAN
                          /\ ~s[j + k].wide => Blocks(text)[k].intact
  BY <1>4, <1>10, <1>11
<1>13. /\ Rest(text) \in Seq(Chars) /\ Len(Rest(text)) = n - off[m]
       /\ \A k \in 1..(n - off[m]) : Rest(text)[k] = text[(off[m] - o) + k]
  <2>1. CASE c = 0
    <3>1. m = j /\ BlockEnds(text) = {}
      BY <1>4, <1>6, <2>1
    <3>2. Rest(text) = text /\ off[m] = o
      BY <3>1 DEF Rest, o
    <3>3. \A k \in 1..t : (off[m] - o) + k = k
      BY <1>1, <1>4, <3>2
    <3>. QED
      BY <1>1, <3>2, <3>3 DEF t
  <2>2. CASE c # 0
    <3>. DEFINE e == CHOOSE i \in BlockEnds(text) : \A k \in BlockEnds(text) : k <= i
    <3>1. c \in 1..c /\ \A k \in 1..c : k = c \/ k < c
      BY <1>4, <2>2
    <3>2. q[c] \in BlockEnds(text) /\ \A k \in BlockEnds(text) : k <= q[c] /\ k \in Nat
      <4>1. \A k \in 1..c : q[k] <= q[c]
        BY <1>7, <1>8, <3>1
      <4>. QED
        BY <1>6, <1>7, <3>1, <4>1
    <3>3. e \in BlockEnds(text) /\ \A k \in BlockEnds(text) : k <= e
      BY <3>2
    <3>4. e = q[c]
      BY <3>2, <3>3
    <3>5. Rest(text) = SubSeq(text, 1 + e, t)
      <4>1. BlockEnds(text) # {}
        BY <3>2
      <4>. QED
        BY <4>1 DEF Rest, t
    <3>. HIDE DEF e
    <3>6. e = off[m] - o /\ e \in 3..t
      BY <1>4, <1>7, <3>1, <3>4
    <3>7. \A k \in (1 + e)..t : text[k] \in Chars
      <4>1. \A k \in 1..t : text[k] \in Chars
        BY <1>1 DEF t
      <4>. QED
        BY <1>4, <3>6, <4>1
    <3>8. /\ SubSeq(text, 1 + e, t) \in Seq(Chars)
          /\ Len(SubSeq(text, 1 + e, t)) = IF 1 + e <= t THEN t - (1 + e) + 1 ELSE 0
          /\ \A k \in 1..(t - (1 + e) + 1) : SubSeq(text, 1 + e, t)[k] = text[(1 + e) + k - 1]
      <4>1. 1 + e \in Int /\ t \in Int
        BY <1>4, <3>6
      <4>. QED
        BY <3>7, <4>1, SubSeqProperties
    <3>9. off[m] \in Nat
      BY <1>2, <1>4
    <3>. DEFINE g == off[m]
    <3>12. /\ g \in Nat /\ e = g - o /\ e \in 3..t /\ o \in Nat /\ t = n - o /\ n \in Nat
           /\ t \in Nat
      BY <1>1, <1>4, <3>6, <3>9
    <3>. HIDE DEF g
    <3>13. /\ t - (1 + e) + 1 = n - g /\ (1 + e <= t \/ n - g = 0)
           /\ \A k \in 1..(n - g) : (1 + e) + k - 1 = (g - o) + k
      BY <3>12
    <3>10. t - (1 + e) + 1 = n - off[m] /\ (1 + e <= t \/ n - off[m] = 0)
      BY <3>13 DEF g
    <3>11. \A k \in 1..(n - off[m]) : (1 + e) + k - 1 = (off[m] - o) + k
      BY <3>13 DEF g
    <3>. QED
      BY <3>5, <3>8, <3>10, <3>11, Zenon
  <2>. QED
    BY <2>1, <2>2
<1>14. ASSUME NEW k \in 1..(n - off[m]) PROVE Like(Rest(text)[k], w[off[m] + k])
  <2>1. off[m] \in Nat /\ o <= off[m]
    <3>1. m = j \/ j < m
      BY <1>3, <1>4
    <3>2. j < m => off[j] < off[m]
      BY <1>1, <1>2, <1>4
    <3>3. off[m] \in Nat
      BY <1>2, <1>4
    <3>. QED
      BY <1>1, <3>1, <3>2, <3>3 DEF o
  <2>2. (off[m] - o) + k \in 1..t /\ o + ((off[m] - o) + k) = off[m] + k
    BY SMTT(30), <1>1, <1>3, <1>4, <2>1
  <2>3. Like(text[(off[m] - o) + k], w[o + ((off[m] - o) + k)])
    BY <1>1, <2>2
  <2>. QED
    BY <1>13, <2>2, <2>3
<1>15. Holds(s, f, off, m, Rest(text), n)
  BY <1>1, <1>3, <1>4, <1>13, <1>14 DEF Holds, w, N, L
<1>16. f = "lf" /\ n = L => m = N
  <2>1. N \in 0..N
    BY <1>1
  <2>2. f = "lf" /\ n = L => N <= m
    BY <1>2, <1>3, <1>1, <2>1
  <2>. QED
    BY <1>1, <1>4, <2>2
<1>19. m \in j..N
  BY <1>4
<1>18. Parsed(s, f, off, j, text, n, m)
  BY <1>12, <1>15, <1>16, <1>19 DEF c, N, L, w, Parsed
<1>. QED
  BY <1>18

-----------------------------------------------------------------------------
(* The pieces of a turn *)

Where == Nat \X BOOLEAN
Positions == Seq(Where)

\* ps has a piece of each event of I, in order, intact if its bytes cannot be split.
PiecesOf(s, ps, I) ==
  /\ ps \in Positions
  /\ \A k \in 1..Len(ps) : ps[k][1] \in I /\ (~s[ps[k][1]].wide => ps[k][2])
  /\ \A i \in I : \E k \in 1..Len(ps) : ps[k][1] = i
  /\ \A k, l \in 1..Len(ps) : k < l => ps[k][1] < ps[l][1]

LEMMA NoPieces ==
  ASSUME NEW s PROVE PiecesOf(s, <<>>, {})
BY DEF PiecesOf, Positions, Where

LEMMA OnePieceMore ==
  ASSUME NEW s, NEW ps, NEW I, I \subseteq Nat, PiecesOf(s, ps, I),
         NEW i \in Nat, \A x \in I : x < i, NEW g \in BOOLEAN, ~s[i].wide => g
  PROVE  PiecesOf(s, Append(ps, <<i, g>>), I \cup {i})
<1>. DEFINE n == Len(ps)  e == <<i, g>>  qs == Append(ps, e)
<1>1. /\ ps \in Seq(Nat \X BOOLEAN) /\ n \in Nat /\ e \in Nat \X BOOLEAN /\ e[1] = i /\ e[2] = g
      /\ \A k \in 1..n : ps[k][1] \in I /\ (~s[ps[k][1]].wide => ps[k][2])
      /\ \A x \in I : \E k \in 1..n : ps[k][1] = x
      /\ \A k, l \in 1..n : k < l => ps[k][1] < ps[l][1]
  <2>1. ps \in Seq(Nat \X BOOLEAN)
    BY DEF PiecesOf, Positions, Where
  <2>2. n \in Nat
    BY <2>1
  <2>3. e \in Nat \X BOOLEAN /\ e[1] = i /\ e[2] = g
    OBVIOUS
  <2>. HIDE DEF e
  <2>. QED
    BY <2>1, <2>2, <2>3 DEF PiecesOf
<1>. HIDE DEF e
<1>2. /\ qs \in Seq(Nat \X BOOLEAN) /\ Len(qs) = n + 1
      /\ \A k \in 1..n : qs[k] = ps[k] /\ qs[n + 1] = e
  BY <1>1, AppendProperties
<1>3. qs[n + 1] = e
  BY <1>1, AppendProperties
<1>. HIDE DEF qs, n
<1>4. \A k \in 1..(n + 1) : k = n + 1 \/ k \in 1..n
  BY <1>1
<1>5. ASSUME NEW k \in 1..(n + 1) PROVE qs[k][1] \in I \cup {i} /\ (~s[qs[k][1]].wide => qs[k][2])
  BY <1>1, <1>2, <1>3, <1>4
<1>6. ASSUME NEW x \in I \cup {i} PROVE \E k \in 1..(n + 1) : qs[k][1] = x
  <2>1. CASE x = i
    <3>1. n + 1 \in 1..(n + 1)
      BY <1>1
    <3>. QED
      BY <1>1, <1>3, <2>1, <3>1
  <2>2. CASE x # i
    <3>1. PICK k \in 1..n : ps[k][1] = x
      BY <1>1, <2>2
    <3>2. k \in 1..(n + 1)
      BY <1>1
    <3>. QED
      BY <1>2, <3>1, <3>2
  <2>. QED
    BY <2>1, <2>2
<1>7. ASSUME NEW k \in 1..(n + 1), NEW l \in 1..(n + 1), k < l PROVE qs[k][1] < qs[l][1]
  <2>1. k \in 1..n
    BY <1>1, <1>7
  <2>2. CASE l = n + 1
    BY <1>1, <1>2, <1>3, <2>1, <2>2
  <2>3. CASE l # n + 1
    BY <1>1, <1>2, <1>4, <1>7, <2>1, <2>3
  <2>. QED
    BY <2>2, <2>3
<1>8. PiecesOf(s, qs, I \cup {i})
  BY <1>2, <1>5, <1>6, <1>7 DEF PiecesOf, Positions, Where
<1>. QED
  BY <1>8 DEF qs, e

\* Intact pieces of all its events are what the script says.
LEMMA AllPieces ==
  ASSUME NEW s, NEW ps, NEW I, I \subseteq Nat, PiecesOf(s, ps, I), \A i \in I : ~s[i].wide
  PROVE  ps = [k \in 1..Cardinality(I) |-> <<Sorted(I)[k], TRUE>>]
<1>. DEFINE n == Len(ps)  q == [k \in 1..n |-> ps[k][1]]
<1>1. /\ ps \in Seq(Nat \X BOOLEAN) /\ n \in Nat
      /\ \A k \in 1..n : ps[k][1] \in I /\ (~s[ps[k][1]].wide => ps[k][2])
      /\ \A x \in I : \E k \in 1..n : ps[k][1] = x
      /\ \A k, l \in 1..n : k < l => ps[k][1] < ps[l][1]
  BY DEF PiecesOf, Positions, Where
<1>2. ps = [k \in 1..n |-> ps[k]] /\ \A k \in 1..n : ps[k] \in Nat \X BOOLEAN
  BY <1>1
<1>. HIDE DEF n
<1>3. ASSUME NEW k \in 1..n PROVE ps[k] = <<ps[k][1], TRUE>>
  <2>1. ps[k] = <<ps[k][1], ps[k][2]>> /\ ps[k][2] \in BOOLEAN
    BY <1>2
  <2>2. ps[k][1] \in I
    BY <1>1
  <2>3. ~s[ps[k][1]].wide
    BY <2>2
  <2>4. ps[k][2] = TRUE
    BY <1>1, <2>1, <2>3
  <2>. QED
    BY <2>1, <2>4, Zenon
<1>7. n \in Nat
  BY <1>1
<1>4. /\ q \in [1..n -> I] /\ \A k \in 1..n : q[k] = ps[k][1]
      /\ \A x \in I : \E k \in 1..n : q[k] = x
      /\ \A k, l \in 1..n : k < l => q[k] < q[l]
  BY <1>1
<1>. HIDE DEF q
<1>5. Cardinality(I) = n /\ Sorted(I) = q
  <2>1. q \in [1..n -> I]
    BY <1>4
  <2>2. \A x \in I : \E k \in 1..n : q[k] = x
    BY <1>4
  <2>3. \A k, l \in 1..n : k < l => q[k] < q[l]
    BY <1>4
  <2>. QED
    BY <1>7, <2>1, <2>2, <2>3, SortedIs
<1>6. ps = [k \in 1..n |-> <<q[k], TRUE>>]
  BY ZenonT(60), <1>2, <1>3, <1>4
<1>. QED
  BY <1>5, <1>6

\* A piece that is put at the end of a sequence that is put together.
LEMMA AppendEnd ==
  ASSUME NEW a \in Positions, NEW b \in Positions, NEW x \in Where
  PROVE  Append(a \o b, x) = a \o Append(b, x)
<1>. DEFINE la == Len(a)  lb == Len(b)  c == Append(b, x)  d == a \o b
<1>1. a \in Seq(Where) /\ b \in Seq(Where) /\ la \in Nat /\ lb \in Nat
  BY DEF Positions
<1>2. c \in Seq(Where) /\ Len(c) = lb + 1 /\ c[lb + 1] = x /\ \A z \in 1..lb : c[z] = b[z]
  BY <1>1, AppendProperties
<1>3. d \in Seq(Where) /\ Len(d) = la + lb /\ \A z \in 1..(la + lb) : d[z] = IF z <= la THEN a[z] ELSE b[z - la]
  BY <1>1, ConcatProperties
<1>. HIDE DEF c, d
<1>4. /\ Append(d, x) \in Seq(Where) /\ Len(Append(d, x)) = (la + lb) + 1 /\ Append(d, x)[(la + lb) + 1] = x
      /\ \A z \in 1..(la + lb) : Append(d, x)[z] = d[z]
  BY <1>3, AppendProperties
<1>5. /\ a \o c \in Seq(Where) /\ Len(a \o c) = la + (lb + 1)
      /\ \A z \in 1..(la + (lb + 1)) : (a \o c)[z] = IF z <= la THEN a[z] ELSE c[z - la]
  <2>1. /\ a \o c \in Seq(Where) /\ Len(a \o c) = Len(a) + Len(c)
        /\ \A z \in 1..(Len(a) + Len(c)) : (a \o c)[z] = IF z <= Len(a) THEN a[z] ELSE c[z - Len(a)]
    BY <1>1, <1>2, ConcatProperties
  <2>. QED
    BY <1>2, <2>1
<1>. HIDE DEF la, lb
<1>6. ASSUME NEW z \in 1..((la + lb) + 1) PROVE Append(d, x)[z] = (a \o c)[z]
  <2>1. CASE z = (la + lb) + 1
    <3>1. z - la = lb + 1 /\ ~(z <= la) /\ z \in 1..(la + (lb + 1))
      BY <1>1, <2>1
    <3>. QED
      BY <1>2, <1>4, <1>5, <2>1, <3>1
  <2>2. CASE z # (la + lb) + 1
    <3>1. z \in 1..(la + lb) /\ z \in 1..(la + (lb + 1)) /\ (~(z <= la) => z - la \in 1..lb)
      BY <1>1, <2>2
    <3>. QED
      BY <1>2, <1>3, <1>4, <1>5, <3>1
  <2>. QED
    BY <2>1, <2>2
<1>7. Len(Append(d, x)) = Len(a \o c)
  BY <1>1, <1>4, <1>5
<1>8. Append(d, x) = a \o c
  BY <1>4, <1>5, <1>6, <1>7, SeqEqual
<1>. QED
  BY <1>8 DEF c, d

\* A last part that grows, and one of nothing more.
LEMMA FlattenLast ==
  ASSUME NEW q \in Seq(Positions), q # <<>>, NEW x \in Where,
         NEW r \in Seq(Positions), Len(r) = Len(q), r[Len(q)] = Append(q[Len(q)], x),
         \A k \in 1..(Len(q) - 1) : r[k] = q[k]
  PROVE  FlattenSeq(r) = Append(FlattenSeq(q), x)
<1>. DEFINE n == Len(q)
<1>1. n \in Nat /\ n # 0 /\ n \in 1..n /\ n - 1 \in 0..n /\ n \in 0..n
  OBVIOUS
<1>2. PICK f \in [0..n -> Positions] : Parts(q, f) /\ FlattenSeq(q) = f[n]
  BY FlattenParts DEF Positions
<1>3. q[n] \in Positions /\ f[n - 1] \in Positions /\ f[n] = f[n - 1] \o q[n] /\ f[n] \in Positions
  <2>1. q[n] \in Positions
    BY <1>1
  <2>2. f[n] = f[n - 1] \o q[n]
    BY <1>1, <1>2 DEF Parts
  <2>. HIDE DEF n
  <2>. QED
    BY <1>1, <1>2, <2>1, <2>2
<1>. DEFINE h == [k \in 0..n |-> IF k = n THEN Append(f[n], x) ELSE f[k]]
<1>7. f[0] = <<>>
  BY <1>2 DEF Parts
<1>4. h[0] = <<>> /\ h[n] = Append(f[n], x)
  <2>1. 0 \in 0..n /\ n \in 0..n
    BY <1>1
  <2>. HIDE DEF n
  <2>. QED
    BY <1>1, <1>7, <2>1
<1>5. ASSUME NEW k \in 1..n PROVE h[k] = h[k - 1] \o r[k]
  <2>1. k \in 0..n /\ k - 1 \in 0..n /\ k - 1 # n
    BY <1>1
  <2>2. h[k - 1] = f[k - 1]
    BY SMTT(30), <2>1
  <2>3. CASE k = n
    <3>1. Append(f[n - 1] \o q[n], x) = f[n - 1] \o Append(q[n], x)
      BY <1>3, AppendEnd
    <3>. QED
      BY <1>3, <1>4, <2>2, <2>3, <3>1
  <2>4. CASE k # n
    <3>1. k \in 1..(n - 1) /\ h[k] = f[k]
      BY <1>1, <2>1, <2>4
    <3>2. r[k] = q[k] /\ f[k] = f[k - 1] \o q[k]
      BY <1>2, <3>1 DEF Parts
    <3>. QED
      BY <2>2, <3>1, <3>2
  <2>. QED
    BY <2>3, <2>4
<1>. HIDE DEF h
<1>6. Parts(r, h)
  BY <1>4, <1>5 DEF Parts
<1>8. FlattenSeq(r) = h[n]
  BY <1>6, FlattenIs DEF Positions
<1>. QED
  BY <1>2, <1>4, <1>8

LEMMA FlattenMore ==
  ASSUME NEW S, NEW q \in Seq(Seq(S)), NEW r \in Seq(Seq(S)), Len(r) = Len(q) + 1,
         r[Len(q) + 1] = <<>>, \A k \in 1..Len(q) : r[k] = q[k]
  PROVE  FlattenSeq(r) = FlattenSeq(q)
<1>. DEFINE n == Len(q)
<1>1. n \in Nat
  OBVIOUS
<1>2. PICK f \in [0..n -> Seq(S)] : Parts(q, f) /\ FlattenSeq(q) = f[n]
  BY FlattenParts
<1>. DEFINE h == [k \in 0..(n + 1) |-> IF k = n + 1 THEN f[n] ELSE f[k]]
<1>4. h[0] = <<>> /\ h[n + 1] = f[n] /\ f[n] \in Seq(S)
  <2>1. 0 \in 0..(n + 1) /\ n + 1 \in 0..(n + 1) /\ 0 # n + 1 /\ n \in 0..n
    BY <1>1
  <2>2. f[0] = <<>>
    BY <1>2 DEF Parts
  <2>. HIDE DEF n
  <2>. QED
    BY <1>2, <2>1, <2>2
<1>5. ASSUME NEW k \in 1..(n + 1) PROVE h[k] = h[k - 1] \o r[k]
  <2>1. k \in 0..(n + 1) /\ k - 1 \in 0..(n + 1) /\ k - 1 # n + 1 /\ h[k - 1] = f[k - 1]
    BY SMTT(30), <1>1
  <2>2. CASE k = n + 1
    <3>1. k - 1 = n
      BY <1>1, <2>2
    <3>2. f[n] \o <<>> = f[n]
      BY <1>4, ConcatEmptySeq
    <3>. QED
      BY <1>4, <2>1, <2>2, <3>1, <3>2
  <2>3. CASE k # n + 1
    <3>1. k \in 1..n /\ h[k] = f[k]
      BY <1>1, <2>1, <2>3
    <3>2. r[k] = q[k] /\ f[k] = f[k - 1] \o q[k]
      BY <1>2, <3>1 DEF Parts
    <3>. QED
      BY <2>1, <3>1, <3>2
  <2>. QED
    BY <2>2, <2>3
<1>. HIDE DEF h
<1>6. Parts(r, h)
  BY <1>4, <1>5 DEF Parts
<1>. QED
  BY <1>2, <1>4, <1>6, FlattenIs

-----------------------------------------------------------------------------
(* Events are handled one by one *)

ReadOne(r, b) ==
  [agg   |-> Handle(r.agg, b),
   shown |-> IF script[b.at].type = "text" THEN Append(r.shown, Piece(b)) ELSE r.shown]

Reads(blocks, n, f) ==
  f = [k \in 0..n |-> IF k = 0 THEN [agg |-> agg, shown |-> shown] ELSE ReadOne(f[k - 1], blocks[k])]

LEMMA BlocksAreRead ==
  ASSUME NEW blocks, NEW n \in Nat
  PROVE  \E f : Reads(blocks, n, f)
<1>. DEFINE T == {m \in Nat : ~\E f : Reads(blocks, m, f)}
<1>. SUFFICES ASSUME T # {} PROVE FALSE
  OBVIOUS
<1>1. PICK m \in T : \A k \in T : m <= k
  <2>1. T \subseteq Nat
    OBVIOUS
  <2>. HIDE DEF T
  <2>. QED
    BY <2>1, LeastOfNaturals
<1>2. m \in Nat /\ ~\E f : Reads(blocks, m, f)
  OBVIOUS
<1>. DEFINE first == [agg |-> agg, shown |-> shown]
<1>3. m # 0
  <2>1. Reads(blocks, 0, [k \in 0..0 |-> first])
    BY DEF Reads
  <2>. QED
    BY <1>2, <2>1
<1>4. PICK f : Reads(blocks, m - 1, f)
  <2>1. m - 1 \in Nat
    BY <1>2, <1>3
  <2>2. m - 1 \in T => m <= m - 1
    BY <1>1
  <2>. QED
    BY <1>2, <2>1, <2>2
<1>5. \A k \in 0..(m - 1) : f[k] = IF k = 0 THEN first ELSE ReadOne(f[k - 1], blocks[k])
  BY <1>4 DEF Reads
<1>. HIDE DEF first
<1>. DEFINE g == [k \in 0..m |-> IF k = m THEN ReadOne(f[k - 1], blocks[k]) ELSE f[k]]
<1>6. ASSUME NEW k \in 0..m PROVE g[k] = IF k = 0 THEN first ELSE ReadOne(g[k - 1], blocks[k])
  <2>1. CASE k = 0
    <3>1. k # m /\ k \in 0..(m - 1)
      BY <1>2, <1>3, <2>1
    <3>. QED
      BY <1>5, <2>1, <3>1
  <2>2. CASE k # 0
    <3>1. k - 1 \in 0..m /\ k - 1 # m
      BY <1>2, <2>2
    <3>2. g[k - 1] = f[k - 1]
      BY <3>1
    <3>3. g[k] = ReadOne(f[k - 1], blocks[k])
      <4>1. CASE k = m
        BY <4>1
      <4>2. CASE k # m
        <5>1. k \in 0..(m - 1)
          BY <1>2, <4>2
        <5>. QED
          BY <1>5, <2>2, <4>2, <5>1
      <4>. QED
        BY <4>1, <4>2
    <3>. QED
      BY <2>2, <3>2, <3>3
  <2>. QED
    BY <2>1, <2>2
<1>7. g = [k \in 0..m |-> g[k]]
  OBVIOUS
<1>. HIDE DEF g
<1>8. Reads(blocks, m, g)
  BY <1>6, <1>7 DEF Reads, first
<1>. QED
  BY <1>2, <1>8

LEMMA ReadSteps ==
  ASSUME NEW blocks, Len(blocks) \in Nat
  PROVE  \E f : /\ f[0] = [agg |-> agg, shown |-> shown] /\ Read(blocks) = f[Len(blocks)]
                /\ \A k \in 1..Len(blocks) : f[k] = ReadOne(f[k - 1], blocks[k])
<1>. DEFINE n == Len(blocks)  f == CHOOSE h : Reads(blocks, n, h)
<1>1. Reads(blocks, n, f)
  BY BlocksAreRead, Zenon
<1>2. Read(blocks) = f[n]
  BY DEF Read, Reads, ReadOne
<1>. HIDE DEF f
<1>3. \A k \in 0..n : f[k] = IF k = 0 THEN [agg |-> agg, shown |-> shown] ELSE ReadOne(f[k - 1], blocks[k])
  BY <1>1 DEF Reads
<1>4. 0 \in 0..n /\ \A k \in 1..n : k \in 0..n /\ k # 0
  BY DEF n
<1>5. f[0] = [agg |-> agg, shown |-> shown] /\ \A k \in 1..n : f[k] = ReadOne(f[k - 1], blocks[k])
  BY <1>3, <1>4, Zenon
<1>. QED
  BY <1>2, <1>5

-----------------------------------------------------------------------------
(* Aggregators *)

Item == [kind : {"text", "tool"}, pieces : Positions, whole : BOOLEAN]
Aggregators == [blocks : Seq(Item), text : Positions, calls : Seq(Item), stop : STRING \cup {"none"}]

TextUpTo(s, j)    == {i \in 1..j : s[i].type = "text"}
CallUpTo(s, j, n) == {i \in 1..j : s[i].type = "args" /\ s[i].index = n}

StoppedFor(s, j, reason) ==
  \/ reason = "none" /\ \A i \in 1..j : s[i].type # "stop"
  \/ \E i \in 1..j : s[i].type = "stop" /\ reason = s[i].reason

\* The aggregator of OpenAI after the jth event.
OpenaiUpTo(s, j, a) ==
  /\ a \in Aggregators /\ StoppedFor(s, j, a.stop)
  /\ PiecesOf(s, a.text, TextUpTo(s, j))
  /\ \A k \in 1..Len(a.calls) :
       /\ a.calls[k].kind = "tool" /\ PiecesOf(s, a.calls[k].pieces, CallUpTo(s, j, k - 1))
       /\ a.calls[k].whole <=> \E i \in CallUpTo(s, j, k - 1) : s[i].last
  /\ \A i \in 1..j : s[i].type = "args" => s[i].index < Len(a.calls)
  /\ Len(a.calls) # 0 => \E i \in 1..j : s[i].type = "args" /\ s[i].index + 1 = Len(a.calls)

LEMMA EventIs ==
  ASSUME NEW s \in Seq(Event), NEW i \in 1..Len(s)
  PROVE  /\ s[i].type \in STRING /\ s[i].index \in Nat /\ s[i].last \in BOOLEAN
         /\ s[i].reason \in STRING /\ s[i].wide \in BOOLEAN
<1>1. s[i] \in Event
  OBVIOUS
<1>. QED
  BY <1>1 DEF Event

\* One event more.
LEMMA UpToNext ==
  ASSUME NEW s, NEW j \in Nat
  PROVE  /\ TextUpTo(s, j + 1) = IF s[j + 1].type = "text" THEN TextUpTo(s, j) \cup {j + 1}
                                                            ELSE TextUpTo(s, j)
         /\ \A n : CallUpTo(s, j + 1, n) =
              IF s[j + 1].type = "args" /\ s[j + 1].index = n THEN CallUpTo(s, j, n) \cup {j + 1}
                                                              ELSE CallUpTo(s, j, n)
<1>1. 1..(j + 1) = (1..j) \cup {j + 1}
  OBVIOUS
<1>. QED
  BY <1>1 DEF TextUpTo, CallUpTo

LEMMA StopNext ==
  ASSUME NEW p, NEW s \in Seq(Event), Streams(p, s), NEW j \in 0..(Len(s) - 1), NEW reason,
         StoppedFor(s, j, reason)
  PROVE  StoppedFor(s, j + 1, IF s[j + 1].type = "stop" THEN s[j + 1].reason ELSE reason)
<1>1. 1..(j + 1) = (1..j) \cup {j + 1}
  OBVIOUS
<1>. QED
  BY <1>1 DEF StoppedFor

\* The last piece of an input comes after the others.
LEMMA NothingAfterLast ==
  ASSUME NEW p, NEW s \in Seq(Event), Streams(p, s), NEW i \in 1..Len(s), NEW x \in 1..Len(s),
         s[i].type = "args", s[x].type = "args", SameInput(p, s, i, x), i < x
  PROVE  ~s[i].last
<1>. DEFINE args == {k \in 1..Len(s) : s[k].type = "args"}
<1>1. s[i].last <=> \A k \in args : SameInput(p, s, i, k) => k <= i
  BY DEF Streams
<1>2. x \in args /\ ~(x <= i)
  OBVIOUS
<1>. QED
  BY <1>1, <1>2

LEMMA ItemGrows ==
  ASSUME NEW b \in Item, NEW x, NEW w
  PROVE  [b EXCEPT !.pieces = Append(@, x), !.whole = w] =
           [kind |-> b.kind, pieces |-> Append(b.pieces, x), whole |-> w]
<1>. DEFINE y == Append(b.pieces, x)
<1>1. [b EXCEPT !.pieces = Append(@, x), !.whole = w] = [[b EXCEPT !.pieces = y] EXCEPT !.whole = w]
  OBVIOUS
<1>. HIDE DEF y
<1>2. [b EXCEPT !.pieces = y] = [kind |-> b.kind, pieces |-> y, whole |-> b.whole]
  BY DEF Item
<1>3. \A k, v : [[kind |-> k, pieces |-> y, whole |-> v] EXCEPT !.whole = w] = [kind |-> k, pieces |-> y, whole |-> w]
  OBVIOUS
<1>. QED
  BY <1>1, <1>2, <1>3 DEF y

LEMMA OpenaiStep ==
  ASSUME NEW p, p # "anthropic", NEW s \in Seq(Event), Streams(p, s), NEW j \in 0..(Len(s) - 1),
         NEW a, OpenaiUpTo(s, j, a), NEW g \in BOOLEAN, ~s[j + 1].wide => g
  PROVE  /\ OpenaiUpTo(s, j + 1, HandleOpenai(a, s[j + 1], <<j + 1, g>>))
         /\ HandleOpenai(a, s[j + 1], <<j + 1, g>>).text =
              IF s[j + 1].type = "text" THEN Append(a.text, <<j + 1, g>>) ELSE a.text
<1>. DEFINE x == j + 1  e == s[x]  piece == <<x, g>>  b == HandleOpenai(a, e, piece)
<1>1. /\ x \in 1..Len(s) /\ x \in Nat /\ j \in Nat /\ e.type \in STRING /\ e.index \in Nat
      /\ e.last \in BOOLEAN /\ e.reason \in STRING /\ \A i \in 1..j : i < x /\ i \in 1..Len(s)
      /\ \A i \in 1..x : i = x \/ i \in 1..j
  <2>1. x \in 1..Len(s) /\ x \in Nat /\ j \in Nat /\ \A i \in 1..j : i < x /\ i \in 1..Len(s)
    OBVIOUS
  <2>2. \A i \in 1..x : i = x \/ i \in 1..j
    OBVIOUS
  <2>. QED
    BY <2>1, <2>2, EventIs
<1>2. piece \in Where
  BY <1>1 DEF Where
<1>3. /\ a \in Aggregators /\ StoppedFor(s, j, a.stop) /\ PiecesOf(s, a.text, TextUpTo(s, j))
      /\ \A k \in 1..Len(a.calls) :
           /\ a.calls[k].kind = "tool" /\ PiecesOf(s, a.calls[k].pieces, CallUpTo(s, j, k - 1))
           /\ a.calls[k].whole <=> \E i \in CallUpTo(s, j, k - 1) : s[i].last
      /\ \A i \in 1..j : s[i].type = "args" => s[i].index < Len(a.calls)
      /\ Len(a.calls) # 0 => \E i \in 1..j : s[i].type = "args" /\ s[i].index + 1 = Len(a.calls)
  BY DEF OpenaiUpTo
<1>4. /\ a.blocks \in Seq(Item) /\ a.text \in Positions /\ a.calls \in Seq(Item) /\ a.stop \in STRING \cup {"none"}
  BY <1>3 DEF Aggregators
<1>5. StoppedFor(s, x, IF e.type = "stop" THEN e.reason ELSE a.stop)
  BY <1>3, StopNext
<1>6. PiecesOf(s, IF e.type = "text" THEN Append(a.text, piece) ELSE a.text, TextUpTo(s, x))
  <2>1. CASE e.type = "text"
    <3>1. TextUpTo(s, x) = TextUpTo(s, j) \cup {x}
      BY <1>1, <2>1, UpToNext
    <3>2. TextUpTo(s, j) \subseteq Nat /\ \A i \in TextUpTo(s, j) : i < x
      BY <1>1 DEF TextUpTo
    <3>. HIDE DEF x
    <3>3. PiecesOf(s, Append(a.text, <<x, g>>), TextUpTo(s, j) \cup {x})
      BY <1>1, <1>3, <3>2, OnePieceMore DEF x
    <3>. QED
      BY <2>1, <3>1, <3>3
  <2>2. CASE e.type # "text"
    BY <1>1, <1>3, <2>2, UpToNext
  <2>. QED
    BY <2>1, <2>2
<1>. DEFINE n == Len(a.calls)
<1>7. CASE e.type # "args"
  <2>1. b = [a EXCEPT !.text = IF e.type = "text" THEN Append(@, piece) ELSE @,
                      !.stop = IF e.type = "stop" THEN e.reason ELSE @]
    BY <1>3, <1>7 DEF HandleOpenai, Aggregators
  <2>2. /\ b \in Aggregators /\ b.calls = a.calls /\ b.stop = (IF e.type = "stop" THEN e.reason ELSE a.stop)
        /\ b.text = IF e.type = "text" THEN Append(a.text, piece) ELSE a.text
    <3>1. Append(a.text, piece) \in Positions
      BY <1>2, <1>4, AppendProperties DEF Positions
    <3>. HIDE DEF piece, e, b
    <3>. QED
      BY <1>1, <1>3, <2>1, <3>1 DEF Aggregators, e
  <2>3. \A k : CallUpTo(s, x, k) = CallUpTo(s, j, k)
    BY <1>1, <1>7, UpToNext
  <2>4. \A i \in 1..x : s[i].type = "args" => i \in 1..j
    BY <1>1, <1>7
  <2>5. \A i \in 1..j : i \in 1..x
    BY <1>1
  <2>. HIDE DEF b, e, piece, x
  <2>6. OpenaiUpTo(s, x, b)
    BY <1>3, <1>5, <1>6, <2>2, <2>3, <2>4, <2>5 DEF OpenaiUpTo, x, e, b, piece
  <2>. QED
    BY <2>2, <2>6 DEF x, e, b, piece
<1>8. CASE e.type = "args"
  <2>. DEFINE c == e.index + 1
              m == IF n > e.index THEN n ELSE c
              at1(k) == IF k <= n THEN a.calls[k] ELSE Block("tool")
              call(k) == IF k = c THEN [kind |-> at1(k).kind, pieces |-> Append(at1(k).pieces, piece), whole |-> e.last]
                                  ELSE at1(k)
  <2>1. n \in Nat /\ m \in Nat /\ c \in 1..m /\ n <= m /\ (m = n \/ m = c) /\ c \in Nat /\ e.index < m
    BY <1>1, <1>4
  <2>2. ASSUME NEW k \in 1..m
        PROVE  /\ at1(k) \in Item /\ at1(k).kind = "tool" /\ PiecesOf(s, at1(k).pieces, CallUpTo(s, j, k - 1))
               /\ at1(k).whole <=> \E i \in CallUpTo(s, j, k - 1) : s[i].last
    <3>1. CASE k <= n
      <4>1. k \in 1..n /\ a.calls[k] \in Item
        BY <1>4, <2>1, <3>1
      <4>. QED
        BY <1>3, <3>1, <4>1
    <3>2. CASE ~(k <= n)
      <4>1. at1(k) = [kind |-> "tool", pieces |-> <<>>, whole |-> FALSE]
        BY <3>2 DEF Block
      <4>2. <<>> \in Positions
        BY DEF Positions
      <4>3. CallUpTo(s, j, k - 1) = {}
        <5>1. ASSUME NEW i \in 1..j, s[i].type = "args", s[i].index = k - 1 PROVE FALSE
          <6>1. s[i].index < n
            BY <1>3, <5>1
          <6>2. k \in Nat
            BY <2>1
          <6>. QED
            BY <2>1, <3>2, <5>1, <6>1, <6>2
        <5>. QED
          BY <5>1 DEF CallUpTo
      <4>. HIDE DEF at1
      <4>4. at1(k) \in Item /\ at1(k).kind = "tool" /\ at1(k).pieces = <<>> /\ at1(k).whole = FALSE
        BY <4>1, <4>2 DEF Item
      <4>5. ~\E i \in CallUpTo(s, j, k - 1) : s[i].last
        BY <4>3
      <4>6. PiecesOf(s, at1(k).pieces, CallUpTo(s, j, k - 1))
        BY <4>3, <4>4, NoPieces
      <4>. QED
        BY <4>4, <4>5, <4>6
    <3>. QED
      BY <3>1, <3>2
  <2>. HIDE DEF at1
  <2>3. b = [a EXCEPT !.calls = [k \in 1..m |-> call(k)]]
    <3>1. [[k \in 1..m |-> at1(k)] EXCEPT ![c].pieces = Append(@, piece), ![c].whole = e.last] = [k \in 1..m |-> call(k)]
      <4>1. \A k \in 1..m : [at1(k) EXCEPT !.pieces = Append(@, piece), !.whole = e.last] =
               [kind |-> at1(k).kind, pieces |-> Append(at1(k).pieces, piece), whole |-> e.last]
        <5>. TAKE k \in 1..m
        <5>1. at1(k) \in Item
          BY <2>2
        <5>. HIDE DEF piece, e, m, c
        <5>. QED
          BY <5>1, ItemGrows
      <4>. HIDE DEF piece, e, m, c
      <4>. QED
        BY <2>1, <4>1
    <3>2. b = [a EXCEPT !.calls = [[k \in 1..m |-> at1(k)] EXCEPT ![c].pieces = Append(@, piece), ![c].whole = e.last]]
      BY <1>8 DEF HandleOpenai, at1
    <3>. QED
      BY <3>1, <3>2
  <2>. DEFINE calls == [k \in 1..m |-> call(k)]
  <2>4. ASSUME NEW k \in 1..m
        PROVE  /\ call(k) \in Item /\ call(k).kind = "tool" /\ PiecesOf(s, call(k).pieces, CallUpTo(s, x, k - 1))
               /\ call(k).whole <=> \E i \in CallUpTo(s, x, k - 1) : s[i].last
    <3>1. CASE k = c
      <4>. DEFINE I == CallUpTo(s, j, k - 1)
      <4>1. CallUpTo(s, x, k - 1) = I \cup {x}
        <5>1. e.index = k - 1
          BY <1>1, <3>1
        <5>. QED
          BY <1>1, <1>8, <5>1, UpToNext
      <4>2. I \subseteq Nat /\ \A i \in I : i < x
        BY <1>1 DEF CallUpTo
      <4>3. PiecesOf(s, Append(at1(k).pieces, piece), I \cup {x})
        <5>1. PiecesOf(s, at1(k).pieces, I)
          BY <2>2
        <5>2. ~s[x].wide => g
          OBVIOUS
        <5>. HIDE DEF I, x
        <5>. QED
          BY <1>1, <4>2, <5>1, <5>2, OnePieceMore
      <4>4. ASSUME NEW i \in I PROVE ~s[i].last
        <5>1. i \in 1..j /\ s[i].type = "args" /\ s[i].index = k - 1
          BY DEF CallUpTo
        <5>2. SameInput(p, s, i, x)
          BY <1>1, <3>1, <5>1 DEF SameInput
        <5>3. i \in 1..Len(s) /\ i < x
          BY <1>1, <5>1
        <5>. HIDE DEF x
        <5>. QED
          BY <1>1, <1>8, <5>1, <5>2, <5>3, NothingAfterLast
      <4>5. call(k) = [kind |-> at1(k).kind, pieces |-> Append(at1(k).pieces, piece), whole |-> e.last]
        BY <3>1
      <4>6. Append(at1(k).pieces, piece) \in Positions
        <5>1. at1(k).pieces \in Seq(Where)
          BY <2>2 DEF Item, Positions
        <5>. QED
          BY <1>2, <5>1, AppendProperties DEF Positions
      <4>. HIDE DEF call, I, x, piece
      <4>7. call(k).whole <=> \E i \in I \cup {x} : s[i].last
        BY <4>4, <4>5 DEF x
      <4>8. call(k) \in Item /\ call(k).kind = "tool" /\ call(k).pieces = Append(at1(k).pieces, piece)
        BY SMTT(30), <1>1, <2>2, <4>5, <4>6 DEF Item
      <4>. QED
        BY <4>1, <4>3, <4>7, <4>8
    <3>2. CASE k # c
      <4>1. CallUpTo(s, x, k - 1) = CallUpTo(s, j, k - 1)
        <5>1. e.index # k - 1
          BY <1>1, <2>1, <3>2
        <5>. QED
          BY <1>1, <5>1, UpToNext
      <4>2. call(k) = at1(k)
        BY <3>2
      <4>. QED
        BY <2>2, <4>1, <4>2
    <3>. QED
      BY <3>1, <3>2
  <2>. HIDE DEF call
  <2>5. calls \in Seq(Item) /\ Len(calls) = m /\ \A k \in 1..m : calls[k] = call(k)
    <3>1. calls \in [1..m -> Item]
      BY <2>4
    <3>. HIDE DEF m
    <3>. QED
      BY <2>1, <3>1, IsSeq
  <2>. HIDE DEF calls
  <2>6. /\ b \in Aggregators /\ b.calls = calls /\ b.text = a.text /\ b.stop = a.stop
    <3>1. b = [a EXCEPT !.calls = calls]
      BY <2>3 DEF calls
    <3>. HIDE DEF b
    <3>. QED
      BY <1>3, <2>5, <3>1 DEF Aggregators
  <2>7. \A i \in 1..x : s[i].type = "args" => s[i].index < m
    <3>. SUFFICES ASSUME NEW i \in 1..x, s[i].type = "args" PROVE s[i].index < m
      OBVIOUS
    <3>1. CASE i = x
      BY <2>1, <3>1
    <3>2. CASE i # x
      <4>1. i \in 1..j /\ i \in 1..Len(s)
        BY <1>1, <3>2
      <4>2. s[i].index < n /\ s[i].index \in Nat
        BY <1>3, <4>1, EventIs
      <4>. HIDE DEF n, m
      <4>. QED
        BY <2>1, <4>2
    <3>. QED
      BY <3>1, <3>2
  <2>8. \E i \in 1..x : s[i].type = "args" /\ s[i].index + 1 = m
    <3>1. CASE m = c
      <4>1. x \in 1..x
        BY <1>1
      <4>. QED
        BY <1>8, <3>1, <4>1
    <3>2. CASE m # c
      <4>1. m = n /\ n # 0
        BY <2>1, <3>2
      <4>2. PICK i \in 1..j : s[i].type = "args" /\ s[i].index + 1 = n
        BY <1>3, <4>1
      <4>3. i \in 1..x
        BY <1>1
      <4>. QED
        BY <4>1, <4>2, <4>3
    <3>. QED
      BY <3>1, <3>2
  <2>9. StoppedFor(s, x, b.stop) /\ PiecesOf(s, b.text, TextUpTo(s, x))
    BY <1>5, <1>6, <1>8, <2>6
  <2>. HIDE DEF b, e, piece, x, m
  <2>10. OpenaiUpTo(s, x, b)
    BY <2>4, <2>5, <2>6, <2>7, <2>8, <2>9 DEF OpenaiUpTo
  <2>11. e.type # "text" /\ b.text = a.text
    BY <1>8, <2>6 DEF e, x
  <2>. QED
    BY <2>10, <2>11 DEF x, e, b, piece
<1>. QED
  BY <1>7, <1>8

\* The events of a block, up to the jth.
InBlock(s, j, x) == {i \in 1..j : s[i].type \in {"text", "args"} /\ IsIn(s, x, i)}

\* The blocks of Anthropic's aggregator are those that were started.
StartedBy(s, j, q, n) ==
  /\ q \in [1..n -> Starts(s)] /\ \A k \in 1..n : q[k] <= j
  /\ \A k, l \in 1..n : k < l => q[k] < q[l]
  /\ \A x \in Starts(s) : x <= j => \E k \in 1..n : q[k] = x

BlockUpTo(s, j, x, b) ==
  /\ b.kind = IF s[x].type = "block_text" THEN "text" ELSE "tool"
  /\ PiecesOf(s, b.pieces, InBlock(s, j, x))
  /\ b.kind = "tool" => (b.whole <=> \E i \in InBlock(s, j, x) : s[i].last)

AnthropicUpTo(s, j, a) ==
  /\ a \in Aggregators /\ StoppedFor(s, j, a.stop)
  /\ \E q : /\ StartedBy(s, j, q, Len(a.blocks))
            /\ \A k \in 1..Len(a.blocks) : BlockUpTo(s, j, q[k], a.blocks[k])

\* One piece more of a block.
Grown(a, n, x, w) == [a EXCEPT !.blocks[n].pieces = Append(@, x), !.blocks[n].whole = w]

Grows(a, n, x, w, c) ==
  /\ c \in Item
  /\ c = [kind |-> a.blocks[n].kind, pieces |-> Append(a.blocks[n].pieces, x), whole |-> w]
  /\ Grown(a, n, x, w) = [a EXCEPT !.blocks = [a.blocks EXCEPT ![n] = c]]

LEMMA BlocksGrow ==
  ASSUME NEW a \in Aggregators, NEW n \in 1..Len(a.blocks), NEW x \in Where, NEW w \in BOOLEAN
  PROVE  \E c : Grows(a, n, x, w, c)
<1>. DEFINE b == a.blocks[n]
            c == [kind |-> b.kind, pieces |-> Append(b.pieces, x), whole |-> w]
            d == [kind |-> b.kind, pieces |-> Append(b.pieces, x), whole |-> b.whole]
<1>1. a.blocks \in Seq(Item) /\ b \in Item /\ n \in DOMAIN a.blocks
  <2>1. a.blocks \in Seq(Item)
    BY DEF Aggregators
  <2>. QED
    BY <2>1
<1>2. b.pieces \in Seq(Where) /\ b.kind \in {"text", "tool"} /\ b.whole \in BOOLEAN
  BY <1>1 DEF Item, Positions
<1>3. Append(b.pieces, x) \in Positions
  BY <1>2, AppendProperties DEF Positions
<1>4. c \in Item /\ d \in Item
  BY <1>2, <1>3 DEF Item
<1>5. [b EXCEPT !.pieces = Append(@, x)] = d
  <2>. DEFINE y == Append(b.pieces, x)
  <2>1. [b EXCEPT !.pieces = Append(@, x)] = [b EXCEPT !.pieces = y]
    OBVIOUS
  <2>. HIDE DEF y
  <2>2. [b EXCEPT !.pieces = y] = [kind |-> b.kind, pieces |-> y, whole |-> b.whole]
    <3>1. b \in Item
      BY <1>1
    <3>. HIDE DEF b
    <3>. QED
      BY <3>1 DEF Item
  <2>. QED
    BY <2>1, <2>2 DEF y
<1>6. [d EXCEPT !.whole = w] = c
  <2>1. \A k, y, v : [[kind |-> k, pieces |-> y, whole |-> v] EXCEPT !.whole = w] = [kind |-> k, pieces |-> y, whole |-> w]
    OBVIOUS
  <2>. QED
    BY <2>1, Zenon
<1>. HIDE DEF d, c
<1>. DEFINE m == [a EXCEPT !.blocks = [a.blocks EXCEPT ![n] = d]]
<1>7. [a EXCEPT !.blocks[n].pieces = Append(@, x)] = m
  BY <1>5
<1>8. [a EXCEPT !.blocks[n].pieces = Append(@, x), !.blocks[n].whole = w] = [m EXCEPT !.blocks[n].whole = w]
  BY <1>7
<1>9. m.blocks = [a.blocks EXCEPT ![n] = d] /\ m.blocks[n] = d
  BY <1>1 DEF Aggregators
<1>10. [m EXCEPT !.blocks[n].whole = w] = [m EXCEPT !.blocks = [m.blocks EXCEPT ![n] = c]]
  BY <1>6, <1>9
<1>11. [m.blocks EXCEPT ![n] = c] = [a.blocks EXCEPT ![n] = c]
  BY <1>9
<1>12. [m EXCEPT !.blocks = [m.blocks EXCEPT ![n] = c]] = [a EXCEPT !.blocks = [a.blocks EXCEPT ![n] = c]]
  <2>. DEFINE y == [a.blocks EXCEPT ![n] = c]  z == [a.blocks EXCEPT ![n] = d]
  <2>. HIDE DEF y, z
  <2>1. [[a EXCEPT !.blocks = z] EXCEPT !.blocks = y] = [a EXCEPT !.blocks = y]
    OBVIOUS
  <2>. QED
    BY <1>11, <2>1 DEF y, z
<1>. QED
  <2>1. Grows(a, n, x, w, c)
    BY <1>4, <1>8, <1>10, <1>12 DEF c, Grown, Grows
  <2>. QED
    BY <2>1

LEMMA InBlockNext ==
  ASSUME NEW s, NEW j \in Nat, NEW x
  PROVE  InBlock(s, j + 1, x) = IF s[j + 1].type \in {"text", "args"} /\ IsIn(s, x, j + 1)
                                THEN InBlock(s, j, x) \cup {j + 1} ELSE InBlock(s, j, x)
<1>1. 1..(j + 1) = (1..j) \cup {j + 1}
  OBVIOUS
<1>. QED
  BY <1>1 DEF InBlock

\* The deltas of a stream are of the block that was started last.
LEMMA DeltaIsOfLast ==
  ASSUME NEW s \in Seq(Event), Streams("anthropic", s), NEW j \in 0..(Len(s) - 1), NEW q, NEW n \in Nat,
         StartedBy(s, j, q, n), s[j + 1].type \in {"text", "args"}
  PROVE  /\ n # 0 /\ IsIn(s, q[n], j + 1) /\ \A k \in 1..n : IsIn(s, q[k], j + 1) => k = n
         /\ s[q[n]].type = "block_text" <=> s[j + 1].type = "text"
<1>1. j + 1 \in 1..Len(s) /\ j \in Nat
  OBVIOUS
<1>2. PICK x \in Starts(s) : IsIn(s, x, j + 1) /\ (s[x].type = "block_text" <=> s[j + 1].type = "text")
  BY <1>1 DEF Streams
<1>3. x \in Nat /\ x <= j /\ \A y \in Starts(s) : y \in Nat /\ (y < j + 1 => y <= x)
  <2>1. \A y \in Starts(s) : y \in Nat
    BY DEF Starts
  <2>2. x < j + 1 /\ \A y \in Starts(s) : y < j + 1 => y <= x
    BY <1>2 DEF IsIn
  <2>. QED
    BY <1>1, <2>1, <2>2
<1>4. /\ q \in [1..n -> Starts(s)] /\ \A k \in 1..n : q[k] <= j
      /\ \A k, l \in 1..n : k < l => q[k] < q[l]
      /\ \A y \in Starts(s) : y <= j => \E k \in 1..n : q[k] = y
  BY DEF StartedBy
<1>5. PICK k \in 1..n : q[k] = x
  BY <1>3, <1>4
<1>6. n # 0 /\ n \in 1..n /\ \A i \in 1..n : i = n \/ i < n
  BY <1>5
<1>7. \A i \in 1..n : q[i] \in Nat /\ q[i] <= x
  <2>. TAKE i \in 1..n
  <2>1. q[i] \in Starts(s) /\ q[i] <= j
    BY <1>4
  <2>2. q[i] \in Nat /\ q[i] < j + 1
    <3>. DEFINE z == q[i]
    <3>1. z \in Nat /\ z <= j
      BY <1>3, <2>1
    <3>. HIDE DEF z
    <3>2. z < j + 1
      BY <1>1, <3>1
    <3>. QED
      BY <3>1, <3>2 DEF z
  <2>. QED
    BY <1>3, <2>1, <2>2
<1>8. k = n
  <2>1. ~(q[k] < q[n])
    BY <1>5, <1>6, <1>7
  <2>. QED
    BY <1>4, <1>6, <2>1
<1>9. ASSUME NEW i \in 1..n, IsIn(s, q[i], j + 1) PROVE i = n
  <2>1. x < j + 1
    BY <1>1, <1>3
  <2>2. x <= q[i]
    BY <1>2, <1>9, <2>1 DEF IsIn
  <2>3. ~(q[i] < q[n])
    BY <1>3, <1>5, <1>7, <1>8, <2>2
  <2>. QED
    BY <1>4, <1>6, <2>3
<1>. QED
  BY <1>2, <1>5, <1>6, <1>8, <1>9

\* The text of blocks, and what one more piece makes of it.
Texts(bs)  == [k \in 1..Len(bs) |-> IF bs[k].kind = "text" THEN bs[k].pieces ELSE <<>>]
TextOf(bs) == FlattenSeq(Texts(bs))

LEMMA TextsAre ==
  ASSUME NEW bs \in Seq(Item)
  PROVE  /\ Texts(bs) \in Seq(Positions) /\ Len(Texts(bs)) = Len(bs)
         /\ \A k \in 1..Len(bs) : Texts(bs)[k] = IF bs[k].kind = "text" THEN bs[k].pieces ELSE <<>>
<1>1. \A k \in 1..Len(bs) : (IF bs[k].kind = "text" THEN bs[k].pieces ELSE <<>>) \in Positions
  <2>. TAKE k \in 1..Len(bs)
  <2>1. bs[k] \in Item /\ <<>> \in Positions
    BY DEF Positions
  <2>. QED
    BY <2>1 DEF Item
<1>2. Len(bs) \in Nat
  OBVIOUS
<1>3. Texts(bs) \in [1..Len(bs) -> Positions]
  BY <1>1 DEF Texts
<1>. QED
  BY <1>2, <1>3, IsSeq DEF Texts

LEMMA TextGrowsBy ==
  ASSUME NEW bs \in Seq(Item), bs # <<>>, NEW x \in Where, NEW cs \in Seq(Item), Len(cs) = Len(bs),
         bs[Len(bs)].kind = cs[Len(bs)].kind,
         cs[Len(bs)].pieces = Append(bs[Len(bs)].pieces, x),
         \A k \in 1..Len(bs) : k # Len(bs) => cs[k] = bs[k]
  PROVE  TextOf(cs) = IF bs[Len(bs)].kind = "text" THEN Append(TextOf(bs), x) ELSE TextOf(bs)
<1>. DEFINE n == Len(bs)  q == Texts(bs)  r == Texts(cs)
<1>1. n \in Nat /\ n # 0 /\ n \in 1..n /\ \A k \in 1..(n - 1) : k \in 1..n /\ k # n
  OBVIOUS
<1>2. /\ q \in Seq(Positions) /\ Len(q) = n /\ r \in Seq(Positions) /\ Len(r) = n
      /\ \A k \in 1..n : /\ q[k] = IF bs[k].kind = "text" THEN bs[k].pieces ELSE <<>>
                         /\ r[k] = IF cs[k].kind = "text" THEN cs[k].pieces ELSE <<>>
  BY TextsAre
<1>. HIDE DEF q, r, n
<1>3. \A k \in 1..n : k # n => r[k] = q[k]
  BY <1>2 DEF n
<1>4. CASE bs[n].kind = "text"
  <2>1. r[n] = Append(q[n], x)
    BY <1>1, <1>2, <1>4 DEF n
  <2>2. q # <<>> /\ \A k \in 1..(n - 1) : r[k] = q[k]
    BY <1>1, <1>2, <1>3
  <2>3. FlattenSeq(r) = Append(FlattenSeq(q), x)
    BY ZenonT(60), <1>2, <2>1, <2>2, FlattenLast
  <2>. QED
    BY <1>4, <2>3 DEF TextOf, q, r, n
<1>5. CASE bs[n].kind # "text"
  <2>1. r[n] = q[n]
    BY <1>1, <1>2, <1>5 DEF n
  <2>2. \A k \in 1..n : r[k] = q[k]
    BY <1>3, <2>1
  <2>3. r = q
    BY <1>2, <2>2, SeqEqual
  <2>. QED
    BY <1>5, <2>3 DEF TextOf, q, r, n
<1>. QED
  BY <1>4, <1>5

LEMMA TextOfNew ==
  ASSUME NEW bs \in Seq(Item), NEW c \in Item, c.pieces = <<>>
  PROVE  TextOf(Append(bs, c)) = TextOf(bs)
<1>. DEFINE n == Len(bs)  q == Texts(bs)  cs == Append(bs, c)  r == Texts(cs)
<1>1. n \in Nat /\ n + 1 \in 1..(n + 1) /\ \A k \in 1..n : k \in 1..(n + 1)
  OBVIOUS
<1>2. /\ cs \in Seq(Item) /\ Len(cs) = n + 1 /\ cs[n + 1] = c /\ \A k \in 1..n : cs[k] = bs[k]
  BY AppendProperties
<1>. HIDE DEF cs
<1>3. /\ q \in Seq(Positions) /\ Len(q) = n
      /\ \A k \in 1..n : q[k] = IF bs[k].kind = "text" THEN bs[k].pieces ELSE <<>>
  BY TextsAre
<1>4. /\ r \in Seq(Positions) /\ Len(r) = n + 1
      /\ \A k \in 1..(n + 1) : r[k] = IF cs[k].kind = "text" THEN cs[k].pieces ELSE <<>>
  BY <1>2, TextsAre
<1>. HIDE DEF q, r, n
<1>5. r[n + 1] = <<>> /\ \A k \in 1..n : r[k] = q[k]
  BY <1>1, <1>2, <1>3, <1>4
<1>6. FlattenSeq(r) = FlattenSeq(q)
  BY <1>3, <1>4, <1>5, FlattenMore DEF Positions
<1>. QED
  BY <1>6 DEF TextOf, q, r, cs

LEMMA AnthropicStep ==
  ASSUME NEW s \in Seq(Event), Streams("anthropic", s), NEW j \in 0..(Len(s) - 1),
         NEW a, AnthropicUpTo(s, j, a), NEW g \in BOOLEAN, ~s[j + 1].wide => g
  PROVE  /\ AnthropicUpTo(s, j + 1, HandleAnthropic(a, s[j + 1], <<j + 1, g>>))
         /\ TextOf(HandleAnthropic(a, s[j + 1], <<j + 1, g>>).blocks) =
              IF s[j + 1].type = "text" THEN Append(TextOf(a.blocks), <<j + 1, g>>) ELSE TextOf(a.blocks)
<1>. DEFINE x == j + 1  e == s[x]  piece == <<x, g>>  b == HandleAnthropic(a, e, piece)
<1>1. /\ x \in 1..Len(s) /\ x \in Nat /\ j \in Nat /\ e.type \in STRING /\ e.reason \in STRING
      /\ e.last \in BOOLEAN /\ \A i \in 1..j : i < x /\ i \in 1..Len(s)
      /\ x <= x /\ \A y \in Nat : y <= j => y <= x /\ y < x
  <2>1. x \in 1..Len(s) /\ x \in Nat /\ j \in Nat /\ \A i \in 1..j : i < x /\ i \in 1..Len(s)
    OBVIOUS
  <2>2. x <= x /\ \A y \in Nat : y <= j => y <= x /\ y < x
    OBVIOUS
  <2>. QED
    BY <2>1, <2>2, EventIs
<1>2. piece \in Where
  BY <1>1 DEF Where
<1>. DEFINE n == Len(a.blocks)
<1>3. PICK q : StartedBy(s, j, q, n) /\ \A k \in 1..n : BlockUpTo(s, j, q[k], a.blocks[k])
  BY DEF AnthropicUpTo
<1>4. /\ a \in Aggregators /\ a.blocks \in Seq(Item) /\ a.stop \in STRING \cup {"none"} /\ StoppedFor(s, j, a.stop)
      /\ n \in Nat
  BY DEF AnthropicUpTo, Aggregators
<1>5. StoppedFor(s, x, IF e.type = "stop" THEN e.reason ELSE a.stop)
  BY <1>4, StopNext
<1>6. /\ q \in [1..n -> Starts(s)] /\ \A k \in 1..n : q[k] <= j
      /\ \A k, l \in 1..n : k < l => q[k] < q[l]
      /\ \A y \in Starts(s) : y <= j => \E k \in 1..n : q[k] = y
  BY <1>3 DEF StartedBy
<1>7. \A y \in Starts(s) : y \in Nat /\ (y <= x => y = x \/ y <= j)
  <2>1. \A y \in Starts(s) : y \in Nat
    BY DEF Starts
  <2>. QED
    BY <1>1, <2>1
<1>8. x \in Starts(s) <=> e.type \in {"block_text", "block_tool"}
  BY <1>1 DEF Starts
<1>9. ASSUME x \notin Starts(s) PROVE StartedBy(s, x, q, n)
  <2>1. \A k \in 1..n : q[k] <= x
    <3>1. \A k \in 1..n : q[k] \in Nat /\ q[k] <= j
      BY <1>6, <1>7
    <3>. QED
      BY <1>1, <3>1
  <2>2. \A y \in Starts(s) : y <= x => y <= j
    BY <1>7, <1>9
  <2>. HIDE DEF x
  <2>. QED
    BY <1>6, <2>1, <2>2 DEF StartedBy
<1>10. CASE e.type \notin {"block_text", "block_tool", "text", "args"}
  <2>1. b = [a EXCEPT !.stop = IF e.type = "stop" THEN e.reason ELSE @]
    BY <1>4, <1>10 DEF HandleAnthropic, Aggregators
  <2>2. b \in Aggregators /\ b.blocks = a.blocks /\ b.stop = IF e.type = "stop" THEN e.reason ELSE a.stop
    <3>. HIDE DEF piece, e, b
    <3>. QED
      BY <1>1, <1>4, <2>1 DEF Aggregators, e
  <2>3. \A y : InBlock(s, x, y) = InBlock(s, j, y)
    BY <1>1, <1>10, InBlockNext
  <2>4. StartedBy(s, x, q, n)
    BY <1>8, <1>9, <1>10
  <2>5. \A k \in 1..n : BlockUpTo(s, x, q[k], a.blocks[k])
    BY <1>3, <2>3 DEF BlockUpTo
  <2>. HIDE DEF b, e, piece, x
  <2>6. AnthropicUpTo(s, x, b)
    BY <1>5, <2>2, <2>4, <2>5 DEF AnthropicUpTo
  <2>7. e.type # "text" /\ TextOf(b.blocks) = TextOf(a.blocks)
    BY <1>10, <2>2 DEF e, x
  <2>. QED
    BY <2>6, <2>7 DEF b, e, piece, x
<1>11. CASE e.type \in {"block_text", "block_tool"}
  <2>. DEFINE c == Block(IF e.type = "block_text" THEN "text" ELSE "tool")
              r == [k \in 1..(n + 1) |-> IF k = n + 1 THEN x ELSE q[k]]
  <2>1. b = [a EXCEPT !.blocks = Append(@, c)]
    BY <1>11 DEF HandleAnthropic
  <2>2. c \in Item /\ c.pieces = <<>> /\ c.whole = FALSE /\ c.kind = IF e.type = "block_text" THEN "text" ELSE "tool"
    <3>1. <<>> \in Positions
      BY DEF Positions
    <3>. QED
      BY <3>1 DEF Block, Item
  <2>. HIDE DEF c
  <2>3. /\ Append(a.blocks, c) \in Seq(Item) /\ Len(Append(a.blocks, c)) = n + 1
        /\ Append(a.blocks, c)[n + 1] = c /\ \A k \in 1..n : Append(a.blocks, c)[k] = a.blocks[k]
    BY <1>4, <2>2, AppendProperties
  <2>4. b \in Aggregators /\ b.blocks = Append(a.blocks, c) /\ b.stop = a.stop
    <3>. DEFINE y == Append(a.blocks, c)
    <3>1. b = [a EXCEPT !.blocks = y] /\ y \in Seq(Item)
      BY <2>1, <2>3
    <3>. HIDE DEF y, b
    <3>2. b \in Aggregators /\ b.blocks = y /\ b.stop = a.stop
      BY <1>4, <3>1 DEF Aggregators
    <3>. QED
      BY <3>2 DEF y
  <2>5. \A y : InBlock(s, x, y) = InBlock(s, j, y)
    BY <1>1, <1>11, InBlockNext
  <2>6. \A k \in 1..(n + 1) : k = n + 1 \/ (k \in 1..n /\ k # n + 1)
    BY <1>4
  <2>7. n + 1 \in 1..(n + 1) /\ \A k \in 1..n : k \in 1..(n + 1) /\ k # n + 1 /\ ~(n + 1 < k)
    BY <1>4
  <2>8. r \in [1..(n + 1) -> Starts(s)] /\ r[n + 1] = x /\ \A k \in 1..n : r[k] = q[k]
    <3>1. \A k \in 1..(n + 1) : (IF k = n + 1 THEN x ELSE q[k]) \in Starts(s)
      BY <1>6, <1>8, <1>11, <2>6
    <3>. QED
      BY <2>7, <3>1
  <2>. HIDE DEF r
  <2>9. StartedBy(s, x, r, n + 1)
    <3>1. ASSUME NEW k \in 1..(n + 1) PROVE r[k] <= x
      <4>1. CASE k = n + 1
        BY <1>1, <2>8, <4>1
      <4>2. CASE k \in 1..n
        BY <1>1, <1>6, <1>7, <2>8, <4>2
      <4>. QED
        BY <2>6, <4>1, <4>2
    <3>2. ASSUME NEW k \in 1..(n + 1), NEW l \in 1..(n + 1), k < l PROVE r[k] < r[l]
      <4>1. k \in 1..n
        BY <1>4, <2>6, <3>2
      <4>2. q[k] \in Nat /\ q[k] <= j
        BY <1>6, <1>7, <4>1
      <4>3. CASE l = n + 1
        BY <1>1, <2>8, <4>1, <4>2, <4>3
      <4>4. CASE l \in 1..n
        BY <1>6, <2>8, <3>2, <4>1, <4>4
      <4>. QED
        BY <2>6, <4>3, <4>4
    <3>3. ASSUME NEW y \in Starts(s), y <= x PROVE \E k \in 1..(n + 1) : r[k] = y
      <4>1. CASE y = x
        BY <2>7, <2>8, <4>1
      <4>2. CASE y # x
        <5>1. PICK k \in 1..n : q[k] = y
          BY <1>6, <1>7, <3>3, <4>2
        <5>. QED
          BY <2>7, <2>8, <5>1
      <4>. QED
        BY <4>1, <4>2
    <3>. HIDE DEF x
    <3>. QED
      BY <2>8, <3>1, <3>2, <3>3 DEF StartedBy
  <2>10. ASSUME NEW k \in 1..(n + 1) PROVE BlockUpTo(s, x, r[k], Append(a.blocks, c)[k])
    <3>1. CASE k = n + 1
      <4>1. InBlock(s, j, x) = {}
        <5>1. \A i \in 1..j : ~IsIn(s, x, i)
          BY <1>1 DEF IsIn
        <5>. QED
          BY <5>1 DEF InBlock
      <4>2. PiecesOf(s, c.pieces, InBlock(s, x, x))
        BY <2>2, <2>5, <4>1, NoPieces
      <4>3. ~\E i \in InBlock(s, x, x) : s[i].last
        BY <2>5, <4>1
      <4>4. r[k] = x /\ Append(a.blocks, c)[k] = c
        BY <2>3, <2>8, <3>1
      <4>5. BlockUpTo(s, x, x, c)
        BY <2>2, <4>2, <4>3 DEF BlockUpTo
      <4>. QED
        BY <4>4, <4>5
    <3>2. CASE k \in 1..n
      <4>1. BlockUpTo(s, j, q[k], a.blocks[k])
        BY <1>3, <3>2
      <4>2. BlockUpTo(s, x, q[k], a.blocks[k])
        BY <2>5, <4>1 DEF BlockUpTo
      <4>. QED
        BY <2>3, <2>8, <3>2, <4>2
    <3>. QED
      BY <2>6, <3>1, <3>2
  <2>11. StoppedFor(s, x, a.stop)
    BY <1>5, <1>11
  <2>. HIDE DEF b, e, piece, x
  <2>12. AnthropicUpTo(s, x, b)
    BY <2>3, <2>4, <2>9, <2>10, <2>11 DEF AnthropicUpTo
  <2>13. e.type # "text" /\ TextOf(b.blocks) = TextOf(a.blocks)
    BY <1>4, <1>11, <2>2, <2>4, TextOfNew DEF e, x
  <2>. QED
    BY <2>12, <2>13 DEF b, e, piece, x
<1>12. CASE e.type \in {"text", "args"}
  <2>. DEFINE kind == IF e.type = "text" THEN "text" ELSE "tool"
  <2>1. /\ n # 0 /\ IsIn(s, q[n], x) /\ \A k \in 1..n : IsIn(s, q[k], x) => k = n
        /\ s[q[n]].type = "block_text" <=> e.type = "text"
    BY <1>3, <1>4, <1>12, DeltaIsOfLast
  <2>2. n \in 1..n
    BY <1>4, <2>1
  <2>3. BlockUpTo(s, j, q[n], a.blocks[n]) /\ a.blocks[n] \in Item
    BY <1>3, <1>4, <2>2
  <2>4. a.blocks[n].kind = kind
    BY <1>12, <2>1, <2>3 DEF BlockUpTo
  <2>5. b = Grown(a, n, piece, e.last)
    <3>1. n > 0
      BY <1>4, <2>1
    <3>2. CASE e.type = "text"
      BY <2>4, <3>1, <3>2 DEF HandleAnthropic, Grown
    <3>3. CASE e.type = "args"
      BY <2>4, <3>1, <3>3 DEF HandleAnthropic, Grown
    <3>. QED
      BY <1>12, <3>2, <3>3
  <2>6. PICK c : Grows(a, n, piece, e.last, c)
    <3>. DEFINE w == e.last
    <3>1. a \in Aggregators /\ n \in 1..Len(a.blocks) /\ piece \in Where /\ w \in BOOLEAN
      BY <1>1, <1>2, <1>4, <2>2
    <3>. HIDE DEF piece, w, n
    <3>2. \E c : Grows(a, n, piece, w, c)
      BY <3>1, BlocksGrow
    <3>. QED
      BY <3>2 DEF w
  <2>15. /\ c \in Item
         /\ c = [kind |-> a.blocks[n].kind, pieces |-> Append(a.blocks[n].pieces, piece), whole |-> e.last]
         /\ b = [a EXCEPT !.blocks = [a.blocks EXCEPT ![n] = c]]
    BY <2>5, <2>6 DEF Grows
  <2>. DEFINE bs == [a.blocks EXCEPT ![n] = c]
  <2>7. bs \in Seq(Item) /\ Len(bs) = n /\ bs[n] = c /\ \A k \in 1..n : k # n => bs[k] = a.blocks[k]
    BY <1>4, <2>2, <2>15
  <2>8. b \in Aggregators /\ b.blocks = bs /\ b.stop = a.stop
    <3>1. b = [a EXCEPT !.blocks = bs]
      BY <2>15
    <3>. HIDE DEF bs, b
    <3>. QED
      BY <1>4, <2>7, <3>1 DEF Aggregators
  <2>9. StartedBy(s, x, q, n)
    BY <1>8, <1>9, <1>12
  <2>10. BlockUpTo(s, x, q[n], c)
    <3>. DEFINE I == InBlock(s, j, q[n])
    <3>1. InBlock(s, x, q[n]) = I \cup {x}
      BY <1>1, <1>12, <2>1, InBlockNext
    <3>2. I \subseteq Nat /\ \A i \in I : i < x
      BY <1>1 DEF InBlock
    <3>3. PiecesOf(s, Append(a.blocks[n].pieces, piece), I \cup {x})
      <4>1. PiecesOf(s, a.blocks[n].pieces, I)
        BY <2>3 DEF BlockUpTo
      <4>2. ~s[x].wide => g
        OBVIOUS
      <4>. HIDE DEF I, x
      <4>. QED
        BY <1>1, <3>2, <4>1, <4>2, OnePieceMore
    <3>4. ASSUME NEW i \in I, c.kind = "tool" PROVE ~s[i].last
      <4>1. i \in 1..j /\ s[i].type \in {"text", "args"} /\ IsIn(s, q[n], i) /\ i \in 1..Len(s) /\ i < x
        BY <1>1 DEF InBlock
      <4>2. q[n] \in Starts(s)
        BY <1>6, <2>2
      <4>3. SameInput("anthropic", s, i, x)
        BY <2>1, <4>1, <4>2 DEF SameInput
      <4>4. e.type = "args" /\ s[q[n]].type # "block_text"
        BY <1>12, <2>1, <2>4, <2>15, <3>4
      <4>5. s[i].type = "args"
        <5>1. PICK y \in Starts(s) : IsIn(s, y, i) /\ (s[y].type = "block_text" <=> s[i].type = "text")
          BY <4>1 DEF Streams
        <5>2. y <= q[n] /\ q[n] <= y
          BY <4>1, <4>2, <5>1 DEF IsIn
        <5>3. y \in Nat /\ q[n] \in Nat
          BY <1>7, <4>2
        <5>4. y = q[n]
          <6>. HIDE DEF n
          <6>. QED
            BY <5>2, <5>3
        <5>. QED
          BY <4>1, <4>4, <5>1, <5>4
      <4>. HIDE DEF x
      <4>. QED
        BY <1>1, <4>1, <4>3, <4>4, <4>5, NothingAfterLast DEF e
    <3>. HIDE DEF I, x, piece
    <3>5. c.kind = a.blocks[n].kind /\ c.pieces = Append(a.blocks[n].pieces, piece) /\ c.whole = e.last
      BY <2>15
    <3>6. c.kind = "tool" => (c.whole <=> \E i \in I \cup {x} : s[i].last)
      BY <3>4, <3>5
    <3>7. c.kind = IF s[q[n]].type = "block_text" THEN "text" ELSE "tool"
      BY <2>3, <3>5 DEF BlockUpTo
    <3>. QED
      BY <3>1, <3>3, <3>5, <3>6, <3>7 DEF BlockUpTo
  <2>11. ASSUME NEW k \in 1..n PROVE BlockUpTo(s, x, q[k], bs[k])
    <3>1. CASE k = n
      BY <2>7, <2>10, <3>1
    <3>2. CASE k # n
      <4>1. InBlock(s, x, q[k]) = InBlock(s, j, q[k])
        BY <1>1, <2>1, <3>2, InBlockNext
      <4>2. BlockUpTo(s, j, q[k], a.blocks[k])
        BY <1>3
      <4>3. BlockUpTo(s, x, q[k], a.blocks[k])
        BY <4>1, <4>2 DEF BlockUpTo
      <4>. QED
        BY <2>7, <3>2, <4>3
    <3>. QED
      BY <3>1, <3>2
  <2>12. StoppedFor(s, x, a.stop)
    BY <1>5, <1>12
  <2>. HIDE DEF b, e, piece, x, bs
  <2>13. AnthropicUpTo(s, x, b)
    BY <2>7, <2>8, <2>9, <2>11, <2>12 DEF AnthropicUpTo
  <2>14. TextOf(b.blocks) = IF e.type = "text" THEN Append(TextOf(a.blocks), piece) ELSE TextOf(a.blocks)
    <3>1. a.blocks # <<>> /\ piece \in Where
      BY <1>2, <1>4, <2>1 DEF piece, x
    <3>2. bs[n].kind = a.blocks[n].kind /\ bs[n].pieces = Append(a.blocks[n].pieces, piece)
      <4>1. c.kind = a.blocks[n].kind /\ c.pieces = Append(a.blocks[n].pieces, piece)
        <5>1. c = [kind |-> a.blocks[n].kind, pieces |-> Append(a.blocks[n].pieces, piece), whole |-> e.last]
          BY <2>15
        <5>. HIDE DEF n
        <5>. QED
          BY <5>1
      <4>. HIDE DEF n
      <4>. QED
        BY <2>7, <4>1
    <3>3. TextOf(bs) = IF a.blocks[n].kind = "text" THEN Append(TextOf(a.blocks), piece) ELSE TextOf(a.blocks)
      BY <1>4, <2>7, <3>1, <3>2, TextGrowsBy
    <3>4. a.blocks[n].kind = "text" <=> e.type = "text"
      BY <2>4 DEF e, x
    <3>. QED
      BY <2>8, <3>3, <3>4
  <2>. QED
    BY <2>13, <2>14 DEF b, e, piece, x
<1>. QED
  BY <1>10, <1>11, <1>12

-----------------------------------------------------------------------------
(* The turn that is made *)

UpTo(p, s, j, a) == IF p = "anthropic" THEN AnthropicUpTo(s, j, a) ELSE OpenaiUpTo(s, j, a)

\* The text that was shown of it.
TextShown(p, a) == IF p = "anthropic" THEN TextOf(a.blocks) ELSE a.text

\* One part with nothing after it.
LEMMA FlattenFirst ==
  ASSUME NEW q \in Seq(Positions), \A k \in 2..Len(q) : q[k] = <<>>
  PROVE  FlattenSeq(q) = IF Len(q) = 0 THEN <<>> ELSE q[1]
<1>. DEFINE n == Len(q)  h == [k \in 0..n |-> IF k = 0 THEN <<>> ELSE q[1]]
<1>1. n \in Nat /\ \A k \in 1..n : q[k] \in Positions
  OBVIOUS
<1>. HIDE DEF n
<1>2. h[0] = <<>> /\ h[n] = IF n = 0 THEN <<>> ELSE q[1]
  BY <1>1
<1>3. ASSUME NEW k \in 1..n PROVE h[k] = h[k - 1] \o q[k]
  <2>1. k - 1 \in 0..n /\ k \in 0..n /\ k # 0 /\ 1 \in 1..n
    BY <1>1
  <2>2. CASE k = 1
    <3>1. <<>> \o q[1] = q[1]
      BY <1>1, <2>1, ConcatEmptySeq DEF Positions
    <3>2. h[k] = q[1] /\ h[k - 1] = <<>>
      BY <2>1, <2>2
    <3>. QED
      BY <2>2, <3>1, <3>2
  <2>3. CASE k # 1
    <3>1. k \in 2..n /\ k - 1 # 0
      BY <1>1, <2>3
    <3>2. q[k] = <<>>
      BY <3>1 DEF n
    <3>3. q[1] \o <<>> = q[1]
      BY <1>1, <2>1, ConcatEmptySeq DEF Positions
    <3>. QED
      BY <2>1, <3>1, <3>2, <3>3
  <2>. QED
    BY <2>2, <2>3
<1>. HIDE DEF h
<1>4. Parts(q, h)
  BY <1>2, <1>3 DEF Parts, n
<1>5. FlattenSeq(q) = h[n]
  BY <1>4, FlattenIs DEF n, Positions
<1>. QED
  BY <1>2, <1>5 DEF n

\* The blocks of a turn before they are closed.
TextBlock(t) == IF t = <<>> THEN <<>> ELSE <<[Block("text") EXCEPT !.pieces = t]>>
Opened(p, a) == IF p = "anthropic" THEN a.blocks ELSE TextBlock(a.text) \o a.calls

LEMMA TextBlockIs ==
  ASSUME NEW t \in Positions
  PROVE  /\ TextBlock(t) \in Seq(Item) /\ Len(TextBlock(t)) = (IF t = <<>> THEN 0 ELSE 1)
         /\ t # <<>> => TextBlock(t)[1] = [kind |-> "text", pieces |-> t, whole |-> FALSE]
<1>1. [Block("text") EXCEPT !.pieces = t] = [kind |-> "text", pieces |-> t, whole |-> FALSE]
  <2>1. \A k, y, v : [[kind |-> k, pieces |-> y, whole |-> v] EXCEPT !.pieces = t] = [kind |-> k, pieces |-> t, whole |-> v]
    OBVIOUS
  <2>. QED
    BY <2>1, Zenon DEF Block
<1>2. [kind |-> "text", pieces |-> t, whole |-> FALSE] \in Item
  BY DEF Item
<1>. QED
  BY <1>1, <1>2 DEF TextBlock

LEMMA OpenedIs ==
  ASSUME NEW p, NEW s, NEW j, NEW a, UpTo(p, s, j, a)
  PROVE  /\ a \in Aggregators /\ Opened(p, a) \in Seq(Item) /\ Len(Opened(p, a)) \in Nat
         /\ TextOf(Opened(p, a)) = TextShown(p, a)
<1>1. a \in Aggregators /\ a.blocks \in Seq(Item) /\ a.text \in Positions /\ a.calls \in Seq(Item)
  <2>1. a \in Aggregators
    BY DEF UpTo, AnthropicUpTo, OpenaiUpTo
  <2>. QED
    BY <2>1 DEF Aggregators
<1>2. CASE p = "anthropic"
  BY <1>1, <1>2 DEF Opened, TextShown
<1>3. CASE p # "anthropic"
  <2>. DEFINE t == TextBlock(a.text)  l == Len(t)  n == Len(a.calls)  o == t \o a.calls  q == Texts(o)
  <2>1. /\ t \in Seq(Item) /\ l = (IF a.text = <<>> THEN 0 ELSE 1)
        /\ a.text # <<>> => t[1].kind = "text" /\ t[1].pieces = a.text
    <3>. DEFINE b == [kind |-> "text", pieces |-> a.text, whole |-> FALSE]
    <3>1. t \in Seq(Item) /\ l = (IF a.text = <<>> THEN 0 ELSE 1) /\ (a.text # <<>> => t[1] = b)
      BY <1>1, TextBlockIs
    <3>2. b.kind = "text" /\ b.pieces = a.text
      OBVIOUS
    <3>. HIDE DEF b, t, l
    <3>. QED
      BY <3>1, <3>2
  <2>2. \A k \in 1..n : a.calls[k].kind = "tool"
    BY <1>3 DEF UpTo, OpenaiUpTo
  <2>. HIDE DEF t
  <2>3. n \in Nat /\ l \in Nat
    BY <1>1, <2>1
  <2>4. /\ o \in Seq(Item) /\ Len(o) = l + n
        /\ \A k \in 1..(l + n) : o[k] = IF k <= l THEN t[k] ELSE a.calls[k - l]
    BY <1>1, <2>1, ConcatProperties
  <2>. HIDE DEF o, l, n
  <2>5. /\ q \in Seq(Positions) /\ Len(q) = l + n
        /\ \A k \in 1..(l + n) : q[k] = IF o[k].kind = "text" THEN o[k].pieces ELSE <<>>
    BY <2>4, TextsAre
  <2>. HIDE DEF q
  <2>6. ASSUME NEW k \in 1..(l + n), ~(k <= l) PROVE q[k] = <<>>
    <3>1. k - l \in 1..n
      BY <2>3, <2>6
    <3>2. o[k] = a.calls[k - l]
      BY <2>4, <2>6
    <3>3. o[k].kind = "tool"
      BY <2>2, <3>1, <3>2
    <3>. QED
      BY <2>5, <3>3
  <2>7. FlattenSeq(q) = IF Len(q) = 0 THEN <<>> ELSE q[1]
    <3>1. \A k \in 2..Len(q) : k \in 1..(l + n) /\ ~(k <= l)
      BY <2>1, <2>3, <2>5
    <3>. QED
      BY <2>5, <2>6, <3>1, FlattenFirst
  <2>8. FlattenSeq(q) = a.text
    <3>1. CASE a.text = <<>>
      <4>1. l = 0
        BY <2>1, <3>1
      <4>2. CASE n = 0
        BY <2>5, <2>7, <3>1, <4>1, <4>2
      <4>3. CASE n # 0
        <5>1. 1 \in 1..(l + n) /\ ~(1 <= l) /\ l + n # 0
          BY <2>3, <4>1, <4>3
        <5>2. q[1] = <<>>
          BY <2>6, <5>1
        <5>. QED
          BY <2>5, <2>7, <3>1, <5>1, <5>2
      <4>. QED
        BY <4>2, <4>3
    <3>2. CASE a.text # <<>>
      <4>1. 1 \in 1..(l + n) /\ 1 <= l /\ l + n # 0
        BY <2>1, <2>3, <3>2
      <4>2. o[1] = t[1]
        BY <2>4, <4>1
      <4>3. q[1] = a.text
        BY <2>1, <2>5, <3>2, <4>1, <4>2
      <4>. QED
        BY <2>5, <2>7, <4>1, <4>3
    <3>. QED
      BY <3>1, <3>2
  <2>9. Opened(p, a) = o
    BY <1>3 DEF Opened, o, t
  <2>10. Len(o) \in Nat
    BY <2>3, <2>4
  <2>. QED
    BY <1>1, <1>3, <2>4, <2>8, <2>9, <2>10 DEF TextOf, TextShown, q
<1>. QED
  BY <1>2, <1>3

LEMMA FinishIs ==
  ASSUME NEW p, NEW s, NEW j, NEW a, UpTo(p, s, j, a)
  PROVE  /\ FinishTurn(p, a).content = [k \in 1..Len(Opened(p, a)) |-> Closed(Opened(p, a)[k])]
         /\ Len(FinishTurn(p, a).content) = Len(Opened(p, a))
         /\ FinishTurn(p, a).stop = (IF a.stop = "none" THEN "end_turn" ELSE a.stop)
         /\ TextOf(FinishTurn(p, a).content) = TextShown(p, a)
<1>. DEFINE o == Opened(p, a)  c == [k \in 1..Len(o) |-> Closed(o[k])]
<1>1. FinishTurn(p, a) = [content |-> c, stop |-> IF a.stop = "none" THEN "end_turn" ELSE a.stop]
  BY DEF FinishTurn, Opened, TextBlock
<1>2. o \in Seq(Item) /\ Len(o) \in Nat /\ TextOf(o) = TextShown(p, a)
  BY OpenedIs
<1>. HIDE DEF o
<1>3. Len(c) = Len(o)
  BY <1>2
<1>4. \A k \in 1..Len(o) : (IF c[k].kind = "text" THEN c[k].pieces ELSE <<>>) =
                             IF o[k].kind = "text" THEN o[k].pieces ELSE <<>>
  BY DEF Closed
<1>5. \A k \in 1..Len(o) : c[k] = Closed(o[k])
  OBVIOUS
<1>. HIDE DEF c
<1>6. Texts(c) = Texts(o)
  BY <1>3, <1>4 DEF Texts
<1>. QED
  BY <1>1, <1>2, <1>3, <1>6 DEF TextOf, c, o

-----------------------------------------------------------------------------
(* The turn that was sent *)

Said(I)     == [k \in 1..Cardinality(I) |-> <<Sorted(I)[k], TRUE>>]
Indexes(s)  == {s[i].index : i \in {i \in 1..Len(s) : s[i].type = "args"}}
BlockSaid(s, x) == [kind   |-> IF s[x].type = "block_text" THEN "text" ELSE "tool",
                    pieces |-> Said(InBlock(s, Len(s), x))]
CallSaid(s, n)  == [kind |-> "tool", pieces |-> Said(CallUpTo(s, Len(s), n))]
TextSaid(s)     == IF TextUpTo(s, Len(s)) = {} THEN <<>>
                   ELSE <<[kind |-> "text", pieces |-> Said(TextUpTo(s, Len(s)))]>>
CallsSaid(s)    == [k \in 1..Cardinality(Indexes(s)) |-> CallSaid(s, Sorted(Indexes(s))[k])]

Stops(s)        == {i \in 1..Len(s) : s[i].type = "stop"}
StopSaid(s)     == IF Stops(s) = {} THEN "end_turn" ELSE s[CHOOSE i \in Stops(s) : TRUE].reason

LEMMA SaysIs ==
  ASSUME NEW p, NEW s
  PROVE  /\ p = "anthropic" =>
              Says(p, s).content = [k \in 1..Cardinality(Starts(s)) |-> BlockSaid(s, Sorted(Starts(s))[k])]
         /\ p # "anthropic" => Says(p, s).content = TextSaid(s) \o CallsSaid(s)
         /\ Says(p, s).stop = StopSaid(s)
<1>. DEFINE of(type) == {i \in 1..Len(s) : s[i].type = type}
<1>1. ASSUME NEW x PROVE {i \in of("text") \cup of("args") : IsIn(s, x, i)} = InBlock(s, Len(s), x)
  BY DEF InBlock
<1>2. ASSUME NEW n PROVE {i \in of("args") : s[i].index = n} = CallUpTo(s, Len(s), n)
  BY DEF CallUpTo
<1>3. of("text") = TextUpTo(s, Len(s))
  BY DEF TextUpTo
<1>4. {s[i].index : i \in of("args")} = Indexes(s)
  BY DEF Indexes
<1>. DEFINE st == Sorted(Starts(s))  ix == Sorted(Indexes(s))
<1>5. [k \in 1..Cardinality(Starts(s)) |->
         [kind |-> IF s[st[k]].type = "block_text" THEN "text" ELSE "tool",
          pieces |-> Said({i \in of("text") \cup of("args") : IsIn(s, st[k], i)})]] =
      [k \in 1..Cardinality(Starts(s)) |-> BlockSaid(s, st[k])]
  BY <1>1 DEF BlockSaid
<1>6. [k \in 1..Cardinality(Indexes(s)) |->
         [kind |-> "tool", pieces |-> Said({i \in of("args") : s[i].index = ix[k]})]] = CallsSaid(s)
  BY <1>2 DEF CallsSaid, CallSaid
<1>7. (IF of("text") = {} THEN <<>> ELSE <<[kind |-> "text", pieces |-> Said(of("text"))]>>) = TextSaid(s)
  BY <1>3 DEF TextSaid
<1>. DEFINE content == IF p = "anthropic"
              THEN [k \in 1..Cardinality(Starts(s)) |->
                      [kind |-> IF s[st[k]].type = "block_text" THEN "text" ELSE "tool",
                       pieces |-> Said({i \in of("text") \cup of("args") : IsIn(s, st[k], i)})]]
              ELSE (IF of("text") = {} THEN <<>> ELSE <<[kind |-> "text", pieces |-> Said(of("text"))]>>)
                   \o [k \in 1..Cardinality({s[i].index : i \in of("args")}) |->
                         [kind |-> "tool",
                          pieces |-> Said({i \in of("args") :
                                             s[i].index = Sorted({s[i2].index : i2 \in of("args")})[k]})]]
            reason == IF of("stop") = {} THEN "end_turn" ELSE s[CHOOSE i \in of("stop") : TRUE].reason
<1>8. Says(p, s) = [content |-> content, stop |-> reason]
  BY DEF Says, Said
<1>9. Says(p, s).content = content /\ Says(p, s).stop = reason
  <2>. HIDE DEF content, reason
  <2>. QED
    BY <1>8
<1>10. p = "anthropic" => content = [k \in 1..Cardinality(Starts(s)) |-> BlockSaid(s, st[k])]
  BY <1>5
<1>11. p # "anthropic" => content = TextSaid(s) \o CallsSaid(s)
  BY <1>4, <1>6, <1>7
<1>12. reason = StopSaid(s)
  BY DEF Stops, StopSaid
<1>. HIDE DEF content, reason
<1>. QED
  BY <1>9, <1>10, <1>11, <1>12

\* The last of some numbers up to a bound.
LEMMA GreatestUpTo ==
  ASSUME NEW n \in Nat, NEW I, I \subseteq 1..n, I # {}
  PROVE  \E i \in I : \A k \in I : k <= i
<1>. DEFINE T == {n - i : i \in I}
<1>1. T \subseteq Nat /\ T # {}
  <2>1. \A i \in I : n - i \in Nat
    OBVIOUS
  <2>2. PICK i \in I : TRUE
    OBVIOUS
  <2>3. n - i \in T
    OBVIOUS
  <2>. QED
    BY <2>1, <2>3
<1>2. PICK t \in T : \A m \in T : t <= m
  <2>. HIDE DEF T
  <2>. QED
    BY <1>1, LeastOfNaturals
<1>3. PICK i \in I : t = n - i
  OBVIOUS
<1>4. ASSUME NEW k \in I PROVE k <= i
  <2>1. n - i <= n - k
    BY <1>2, <1>3
  <2>2. k \in Nat /\ i \in Nat
    OBVIOUS
  <2>. QED
    BY <2>1, <2>2
<1>. QED
  BY <1>4

\* The events of one input, and no others: one of them is its last.
IsInput(p, s, I) ==
  /\ I \subseteq {i \in 1..Len(s) : s[i].type = "args"}
  /\ \A i \in I : \A k \in 1..Len(s) : s[k].type = "args" => (SameInput(p, s, i, k) <=> k \in I)

LEMMA InputHasLast ==
  ASSUME NEW p, NEW s \in Seq(Event), Streams(p, s), NEW I, IsInput(p, s, I), I # {}
  PROVE  \E i \in I : s[i].last
<1>1. PICK i \in I : \A k \in I : k <= i
  <2>1. I \subseteq 1..Len(s) /\ Len(s) \in Nat
    BY DEF IsInput
  <2>. QED
    BY <2>1, GreatestUpTo
<1>. DEFINE args == {k \in 1..Len(s) : s[k].type = "args"}
<1>2. i \in args /\ \A k \in args : SameInput(p, s, i, k) => k \in I
  BY DEF IsInput
<1>3. s[i].last <=> \A k \in args : SameInput(p, s, i, k) => k <= i
  BY <1>2 DEF Streams
<1>. QED
  BY <1>1, <1>2, <1>3

\* The events of an input up to its last are all of them.
LEMMA LastEndsInput ==
  ASSUME NEW p, NEW s \in Seq(Event), Streams(p, s), NEW I, IsInput(p, s, I),
         NEW j \in Nat, NEW i \in I, i <= j, s[i].last
  PROVE  \A k \in I : k <= j
<1>. DEFINE args == {k \in 1..Len(s) : s[k].type = "args"}
<1>1. i \in args /\ i \in Nat /\ \A k \in I : k \in args /\ k \in Nat /\ SameInput(p, s, i, k)
  BY DEF IsInput
<1>2. s[i].last <=> \A k \in args : SameInput(p, s, i, k) => k <= i
  BY <1>1 DEF Streams
<1>3. \A k \in I : k <= i
  BY <1>1, <1>2
<1>. QED
  BY <1>1, <1>3

\* The calls of tools of OpenAI, and the blocks of tools of Anthropic.
LEMMA CallIsInput ==
  ASSUME NEW p, p # "anthropic", NEW s, NEW n
  PROVE  IsInput(p, s, CallUpTo(s, Len(s), n))
BY DEF IsInput, CallUpTo, SameInput

LEMMA BlockIsInput ==
  ASSUME NEW s \in Seq(Event), Streams("anthropic", s), NEW x \in Starts(s), s[x].type # "block_text"
  PROVE  IsInput("anthropic", s, InBlock(s, Len(s), x))
<1>1. \A y \in Starts(s) : y \in Nat
  BY DEF Starts
<1>2. ASSUME NEW i \in 1..Len(s), NEW y \in Starts(s), NEW z \in Starts(s), IsIn(s, y, i), IsIn(s, z, i)
      PROVE  y = z
  <2>1. y <= z /\ z <= y
    BY <1>2 DEF IsIn
  <2>. QED
    BY <1>1, <2>1
<1>3. ASSUME NEW i \in InBlock(s, Len(s), x) PROVE i \in 1..Len(s) /\ s[i].type = "args" /\ IsIn(s, x, i)
  <2>1. i \in 1..Len(s) /\ s[i].type \in {"text", "args"} /\ IsIn(s, x, i)
    BY DEF InBlock
  <2>2. PICK y \in Starts(s) : IsIn(s, y, i) /\ (s[y].type = "block_text" <=> s[i].type = "text")
    BY <2>1 DEF Streams
  <2>. QED
    BY <1>2, <2>1, <2>2
<1>4. ASSUME NEW i \in InBlock(s, Len(s), x), NEW k \in 1..Len(s), s[k].type = "args"
      PROVE  SameInput("anthropic", s, i, k) <=> k \in InBlock(s, Len(s), x)
  <2>1. i \in 1..Len(s) /\ IsIn(s, x, i)
    BY <1>3
  <2>2. k \in InBlock(s, Len(s), x) <=> IsIn(s, x, k)
    BY <1>4 DEF InBlock
  <2>3. SameInput("anthropic", s, i, k) <=> \E y \in Starts(s) : IsIn(s, y, i) /\ IsIn(s, y, k)
    BY DEF SameInput
  <2>. QED
    BY <1>2, <2>1, <2>2, <2>3
<1>. QED
  BY <1>3, <1>4 DEF IsInput

\* A script no bytes of which can be split.
Plain(s) == \A i \in 1..Len(s) : ~s[i].wide

\* A tool that has its last piece has all of them.
LEMMA ClosedIs ==
  ASSUME NEW p, NEW s \in Seq(Event), Streams(p, s), Plain(s), NEW I, I \subseteq 1..Len(s),
         NEW b, PiecesOf(s, b.pieces, I),
         b.kind = "tool" => IsInput(p, s, I) /\ (b.whole <=> \E i \in I : s[i].last)
  PROVE  Closed(b) = [kind |-> b.kind, pieces |-> Said(I)]
<1>1. b.pieces = Said(I)
  <2>1. I \subseteq Nat /\ \A i \in I : ~s[i].wide
    BY DEF Plain
  <2>. QED
    BY <2>1, AllPieces DEF Said
<1>2. CASE b.kind = "tool" /\ ~b.whole
  <2>1. I = {}
    BY <1>2, InputHasLast
  <2>2. b.pieces = <<>>
    <3>1. b.pieces \in Seq(Where) /\ \A k \in 1..Len(b.pieces) : b.pieces[k][1] \in I
      BY DEF PiecesOf, Positions
    <3>2. Len(b.pieces) \in Nat /\ ~(1 \in 1..Len(b.pieces))
      BY <2>1, <3>1
    <3>3. Len(b.pieces) = 0
      BY <3>2
    <3>. QED
      BY <3>1, <3>3
  <2>. QED
    BY <1>1, <1>2, <2>2 DEF Closed
<1>3. CASE ~(b.kind = "tool" /\ ~b.whole)
  BY <1>1, <1>3 DEF Closed
<1>. QED
  BY <1>2, <1>3

LEMMA BlockIsSaid ==
  ASSUME NEW s \in Seq(Event), Streams("anthropic", s), Plain(s), NEW x \in Starts(s), NEW b,
         BlockUpTo(s, Len(s), x, b)
  PROVE  Closed(b) = BlockSaid(s, x)
<1>. DEFINE I == InBlock(s, Len(s), x)
<1>1. I \subseteq 1..Len(s) /\ PiecesOf(s, b.pieces, I)
  BY DEF InBlock, BlockUpTo
<1>2. b.kind = "tool" => IsInput("anthropic", s, I) /\ (b.whole <=> \E i \in I : s[i].last)
  BY BlockIsInput DEF BlockUpTo
<1>. HIDE DEF I
<1>3. Closed(b) = [kind |-> b.kind, pieces |-> Said(I)]
  BY <1>1, <1>2, ClosedIs
<1>4. b.kind = IF s[x].type = "block_text" THEN "text" ELSE "tool"
  BY DEF BlockUpTo
<1>. QED
  BY <1>3, <1>4 DEF BlockSaid, I

LEMMA CallIsSaid ==
  ASSUME NEW p, p # "anthropic", NEW s \in Seq(Event), Streams(p, s), Plain(s), NEW n, NEW b,
         b.kind = "tool", PiecesOf(s, b.pieces, CallUpTo(s, Len(s), n)),
         b.whole <=> \E i \in CallUpTo(s, Len(s), n) : s[i].last
  PROVE  Closed(b) = CallSaid(s, n)
<1>. DEFINE I == CallUpTo(s, Len(s), n)
<1>1. I \subseteq 1..Len(s) /\ IsInput(p, s, I)
  <2>1. I \subseteq 1..Len(s)
    BY DEF CallUpTo
  <2>2. IsInput(p, s, I)
    BY CallIsInput
  <2>. QED
    BY <2>1, <2>2
<1>. HIDE DEF I
<1>2. Closed(b) = [kind |-> b.kind, pieces |-> Said(I)]
  BY <1>1, ClosedIs DEF I
<1>. QED
  BY <1>2 DEF CallSaid, I

\* A tool whose input is not empty, whenever the stream ended, has all of it.
LEMMA PartOfBlock ==
  ASSUME NEW s \in Seq(Event), Streams("anthropic", s), NEW j \in 0..Len(s), NEW x \in Starts(s), NEW b,
         BlockUpTo(s, j, x, b), b.kind = "tool", b.whole
  PROVE  BlockUpTo(s, Len(s), x, b)
<1>1. PICK i \in InBlock(s, j, x) : s[i].last
  BY DEF BlockUpTo
<1>2. j \in Nat /\ Len(s) \in Nat /\ \A k \in 1..j : k \in 1..Len(s)
  OBVIOUS
<1>3. InBlock(s, j, x) = {k \in InBlock(s, Len(s), x) : k <= j}
  BY <1>2 DEF InBlock
<1>4. IsInput("anthropic", s, InBlock(s, Len(s), x))
  BY BlockIsInput DEF BlockUpTo
<1>5. i \in InBlock(s, Len(s), x) /\ i <= j
  BY <1>3
<1>6. \A k \in InBlock(s, Len(s), x) : k <= j
  BY <1>1, <1>2, <1>4, <1>5, LastEndsInput
<1>7. InBlock(s, j, x) = InBlock(s, Len(s), x)
  BY <1>3, <1>6
<1>. QED
  BY <1>7 DEF BlockUpTo

LEMMA PartOfCall ==
  ASSUME NEW p, p # "anthropic", NEW s \in Seq(Event), Streams(p, s), NEW j \in 0..Len(s), NEW n,
         NEW i \in CallUpTo(s, j, n), s[i].last
  PROVE  CallUpTo(s, j, n) = CallUpTo(s, Len(s), n)
<1>2. j \in Nat /\ Len(s) \in Nat /\ \A k \in 1..j : k \in 1..Len(s)
  OBVIOUS
<1>3. CallUpTo(s, j, n) = {k \in CallUpTo(s, Len(s), n) : k <= j}
  BY <1>2 DEF CallUpTo
<1>4. IsInput(p, s, CallUpTo(s, Len(s), n))
  BY CallIsInput
<1>5. i \in CallUpTo(s, Len(s), n) /\ i <= j
  BY <1>3
<1>6. \A k \in CallUpTo(s, Len(s), n) : k <= j
  BY <1>2, <1>4, <1>5, LastEndsInput
<1>. QED
  BY <1>3, <1>6

LEMMA StopIsSaid ==
  ASSUME NEW p, NEW s \in Seq(Event), Streams(p, s), NEW reason, StoppedFor(s, Len(s), reason)
  PROVE  Says(p, s).stop = IF reason = "none" THEN "end_turn" ELSE reason
<1>. DEFINE S == Stops(s)
<1>1. Says(p, s).stop = IF S = {} THEN "end_turn" ELSE s[CHOOSE i \in S : TRUE].reason
  BY SaysIs DEF StopSaid
<1>2. CASE S = {}
  <2>1. reason = "none"
    BY <1>2 DEF StoppedFor, Stops
  <2>. QED
    BY <1>1, <1>2, <2>1
<1>3. CASE S # {}
  <2>1. PICK i \in S : reason = s[i].reason
    BY <1>3 DEF StoppedFor, Stops
  <2>2. \A k \in S : k = i
    BY DEF Streams, Stops
  <2>3. (CHOOSE k \in S : TRUE) = i
    BY <2>2
  <2>4. s[i].reason # "none"
    BY DEF Streams, Stops
  <2>. QED
    BY <1>1, <1>3, <2>1, <2>3, <2>4
<1>. QED
  BY <1>2, <1>3

LEMMA TurnsAreRecords ==
  ASSUME NEW p, NEW s, NEW a
  PROVE  /\ FinishTurn(p, a) = [content |-> FinishTurn(p, a).content, stop |-> FinishTurn(p, a).stop]
         /\ Says(p, s) = [content |-> Says(p, s).content, stop |-> Says(p, s).stop]
BY DEF FinishTurn, Says

\* The indexes of the calls of OpenAI are the numbers below the length of the calls.
LEMMA IndexesAre ==
  ASSUME NEW p, p # "anthropic", NEW s \in Seq(Event), Streams(p, s), NEW a, OpenaiUpTo(s, Len(s), a)
  PROVE  Cardinality(Indexes(s)) = Len(a.calls) /\ \A k \in 1..Len(a.calls) : Sorted(Indexes(s))[k] = k - 1
<1>. DEFINE m == Len(a.calls)  S == Indexes(s)  q == [k \in 1..m |-> k - 1]
<1>1. m \in Nat
  <2>1. a.calls \in Seq(Item)
    BY DEF OpenaiUpTo, Aggregators
  <2>. QED
    BY <2>1
<1>2. /\ \A i \in 1..Len(s) : s[i].type = "args" => s[i].index < m /\ s[i].index \in Nat
      /\ m # 0 => \E i \in 1..Len(s) : s[i].type = "args" /\ s[i].index + 1 = m
  BY EventIs DEF OpenaiUpTo
<1>. HIDE DEF m
<1>3. ASSUME NEW n \in 0..(m - 1) PROVE n \in S
  <2>1. PICK i \in 1..Len(s) : s[i].type = "args" /\ s[i].index + 1 = m /\ s[i].index \in Nat
    BY <1>1, <1>2
  <2>2. n \in 0..s[i].index
    BY <1>1, <2>1
  <2>. DEFINE args == {k \in 1..Len(s) : s[k].type = "args"}
  <2>3. i \in args
    BY <2>1
  <2>4. \E k \in args : s[k].index = n
    BY <2>2, <2>3 DEF Streams
  <2>. QED
    BY <2>4 DEF Indexes
<1>4. \A n \in S : n \in 0..(m - 1) /\ n + 1 \in 1..m
  <2>1. \A i \in 1..Len(s) : s[i].type = "args" => s[i].index \in 0..(m - 1)
    BY <1>1, <1>2
  <2>2. \A n \in S : n \in 0..(m - 1)
    BY <2>1 DEF Indexes
  <2>. QED
    BY <1>1, <2>2
<1>. HIDE DEF S
<1>5. S \subseteq Nat /\ \A k \in 1..m : k - 1 \in 0..(m - 1)
  BY <1>1, <1>4
<1>6. q \in [1..m -> S]
  BY <1>3, <1>5
<1>7. \A i, k \in 1..m : i < k => q[i] < q[k]
  BY <1>1
<1>8. \A x \in S : \E i \in 1..m : q[i] = x
  <2>. TAKE x \in S
  <2>1. x + 1 \in 1..m /\ x \in Nat
    BY <1>4
  <2>2. q[x + 1] = x
    BY <2>1
  <2>. QED
    BY <2>1, <2>2
<1>9. \A k \in 1..m : q[k] = k - 1
  OBVIOUS
<1>. HIDE DEF q
<1>10. Cardinality(S) = m /\ Sorted(S) = q
  BY <1>1, <1>5, <1>6, <1>7, <1>8, SortedIs
<1>. QED
  BY <1>9, <1>10 DEF m, S

\* All the events make the turn that was sent.
LEMMA WholeTurn ==
  ASSUME NEW p, NEW s \in Seq(Event), Streams(p, s), Plain(s), NEW a, UpTo(p, s, Len(s), a)
  PROVE  FinishTurn(p, a) = Says(p, s)
<1>. DEFINE o == Opened(p, a)  c == FinishTurn(p, a).content
<1>1. /\ o \in Seq(Item) /\ Len(o) \in Nat /\ c = [k \in 1..Len(o) |-> Closed(o[k])]
      /\ FinishTurn(p, a).stop = IF a.stop = "none" THEN "end_turn" ELSE a.stop
  BY OpenedIs, FinishIs
<1>2. FinishTurn(p, a).stop = Says(p, s).stop
  <2>1. StoppedFor(s, Len(s), a.stop)
    BY DEF UpTo, AnthropicUpTo, OpenaiUpTo
  <2>. QED
    BY <1>1, <2>1, StopIsSaid
<1>3. ASSUME p = "anthropic" PROVE c = Says(p, s).content
  <2>. DEFINE n == Len(a.blocks)
  <2>1. PICK q : StartedBy(s, Len(s), q, n) /\ \A k \in 1..n : BlockUpTo(s, Len(s), q[k], a.blocks[k])
    BY <1>3 DEF UpTo, AnthropicUpTo
  <2>2. o = a.blocks /\ n \in Nat
    BY <1>1, <1>3 DEF Opened
  <2>3. /\ q \in [1..n -> Starts(s)] /\ \A k, l \in 1..n : k < l => q[k] < q[l]
        /\ \A x \in Starts(s) : \E k \in 1..n : q[k] = x
    <3>1. \A x \in Starts(s) : x <= Len(s)
      BY DEF Starts
    <3>. QED
      BY <2>1, <3>1 DEF StartedBy
  <2>4. Cardinality(Starts(s)) = n /\ Sorted(Starts(s)) = q
    <3>1. Starts(s) \subseteq Nat
      BY DEF Starts
    <3>. HIDE DEF n
    <3>. QED
      BY <2>2, <2>3, <3>1, SortedIs
  <2>5. Says(p, s).content = [k \in 1..n |-> BlockSaid(s, q[k])]
    BY <1>3, <2>4, SaysIs
  <2>6. \A k \in 1..n : Closed(a.blocks[k]) = BlockSaid(s, q[k])
    <3>. TAKE k \in 1..n
    <3>1. q[k] \in Starts(s) /\ BlockUpTo(s, Len(s), q[k], a.blocks[k])
      BY <2>1, <2>3
    <3>. QED
      BY <1>3, <3>1, BlockIsSaid
  <2>. QED
    BY <1>1, <2>2, <2>5, <2>6
<1>4. ASSUME p # "anthropic" PROVE c = Says(p, s).content
  <2>. DEFINE m == Len(a.calls)  t == TextBlock(a.text)  l == Len(t)  T == TextUpTo(s, Len(s))
              u == TextSaid(s)  v == CallsSaid(s)
  <2>1. /\ OpenaiUpTo(s, Len(s), a) /\ a.text \in Positions /\ a.calls \in Seq(Item)
        /\ PiecesOf(s, a.text, T)
    BY <1>4 DEF UpTo, OpenaiUpTo, Aggregators
  <2>2. m \in Nat /\ t \in Seq(Item) /\ l = (IF a.text = <<>> THEN 0 ELSE 1)
    <3>1. m \in Nat
      BY <2>1
    <3>2. t \in Seq(Item) /\ l = (IF a.text = <<>> THEN 0 ELSE 1)
      BY <2>1, TextBlockIs, Zenon
    <3>. QED
      BY <3>1, <3>2
  <2>3. a.text = Said(T)
    <3>1. T \subseteq Nat /\ \A i \in T : ~s[i].wide
      BY DEF TextUpTo, Plain
    <3>. QED
      BY <2>1, <3>1, AllPieces DEF Said
  <2>4. a.text = <<>> <=> T = {}
    <3>1. a.text \in Seq(Where) /\ (\A k \in 1..Len(a.text) : a.text[k][1] \in T)
          /\ \A i \in T : \E k \in 1..Len(a.text) : a.text[k][1] = i
      BY <2>1 DEF PiecesOf, Positions
    <3>2. ASSUME T = {} PROVE a.text = <<>>
      <4>1. Len(a.text) \in Nat /\ ~(1 \in 1..Len(a.text))
        BY <3>1, <3>2
      <4>2. Len(a.text) = 0
        BY <4>1
      <4>. QED
        BY <3>1, <4>2
    <3>3. ASSUME a.text = <<>> PROVE T = {}
      BY <3>1, <3>3
    <3>. QED
      BY <3>2, <3>3
  <2>5. Len(u) = l /\ (l = 1 => t[1].kind = "text" /\ u[1] = Closed(t[1])) /\ u \in Seq({u[i] : i \in 1..l})
    <3>1. CASE T = {}
      <4>1. u = <<>> /\ l = 0
        BY <2>2, <2>4, <3>1 DEF TextSaid
      <4>. QED
        BY <4>1
    <3>2. CASE T # {}
      <4>. DEFINE e == [kind |-> "text", pieces |-> Said(T)]  b == [kind |-> "text", pieces |-> a.text, whole |-> FALSE]
      <4>1. u = <<e>> /\ l = 1
        BY <2>2, <2>4, <3>2 DEF TextSaid
      <4>2. t[1] = b
        BY <2>1, <2>4, <3>2, TextBlockIs
      <4>3. Closed(b) = e /\ b.kind = "text"
        BY <2>3 DEF Closed
      <4>. HIDE DEF e, b, u, t
      <4>. QED
        BY <4>1, <4>2, <4>3
    <3>. QED
      BY <3>1, <3>2
  <2>. HIDE DEF t, u
  <2>6. Cardinality(Indexes(s)) = m /\ \A k \in 1..m : Sorted(Indexes(s))[k] = k - 1
    BY <1>4, <2>1, IndexesAre
  <2>7. v = [k \in 1..m |-> CallSaid(s, k - 1)]
    BY <2>6 DEF CallsSaid
  <2>8. ASSUME NEW k \in 1..m PROVE Closed(a.calls[k]) = CallSaid(s, k - 1)
    <3>1. /\ a.calls[k].kind = "tool" /\ PiecesOf(s, a.calls[k].pieces, CallUpTo(s, Len(s), k - 1))
          /\ a.calls[k].whole <=> \E i \in CallUpTo(s, Len(s), k - 1) : s[i].last
      BY <2>1 DEF OpenaiUpTo
    <3>. QED
      BY <1>4, <3>1, CallIsSaid
  <2>9. o = t \o a.calls
    BY <1>4 DEF Opened, t
  <2>. HIDE DEF m, l, o
  <2>10. /\ Len(o) = l + m /\ l \in Nat
         /\ \A k \in 1..(l + m) : o[k] = IF k <= l THEN t[k] ELSE a.calls[k - l]
    <3>1. l \in Nat
      BY <2>2
    <3>2. /\ Len(t \o a.calls) = Len(t) + Len(a.calls)
          /\ \A k \in 1..(Len(t) + Len(a.calls)) :
               (t \o a.calls)[k] = IF k <= Len(t) THEN t[k] ELSE a.calls[k - Len(t)]
      BY <2>1, <2>2, ConcatProperties
    <3>. QED
      BY <2>9, <3>1, <3>2, Zenon DEF m, l
  <2>11. v \in Seq({v[k] : k \in 1..m}) /\ Len(v) = m /\ \A k \in 1..m : v[k] = CallSaid(s, k - 1)
    <3>1. v \in [1..m -> {v[k] : k \in 1..m}] /\ \A k \in 1..m : v[k] = CallSaid(s, k - 1)
      BY <2>7
    <3>. HIDE DEF v
    <3>. QED
      BY <2>2, <3>1, IsSeq
  <2>. HIDE DEF v
  <2>. DEFINE w == u \o v
  <2>12. /\ Len(w) = l + m /\ w = [k \in 1..(l + m) |-> w[k]]
         /\ \A k \in 1..(l + m) : w[k] = IF k <= l THEN u[k] ELSE v[k - l]
    <3>. DEFINE R == {u[i] : i \in 1..l} \cup {v[k] : k \in 1..m}
    <3>1. u \in Seq(R) /\ v \in Seq(R)
      <4>1. \A i \in 1..l : u[i] \in R
        OBVIOUS
      <4>2. \A i \in 1..m : v[i] \in R
        OBVIOUS
      <4>. HIDE DEF R
      <4>. QED
        BY <2>2, <2>5, <2>10, <2>11, <4>1, <4>2
    <3>. HIDE DEF R
    <3>2. /\ w \in Seq(R) /\ Len(w) = l + m
          /\ \A k \in 1..(l + m) : w[k] = IF k <= l THEN u[k] ELSE v[k - l]
      BY <2>5, <2>11, <3>1, ConcatProperties
    <3>. HIDE DEF w
    <3>. QED
      BY <3>2
  <2>. HIDE DEF w
  <2>13. ASSUME NEW k \in 1..(l + m) PROVE w[k] = Closed(o[k])
    <3>1. CASE k <= l
      <4>1. k = 1 /\ l = 1
        BY <2>2, <2>10, <3>1
      <4>. QED
        BY <2>5, <2>10, <2>12, <3>1, <4>1
    <3>2. CASE ~(k <= l)
      <4>1. k - l \in 1..m
        BY <2>2, <2>10, <3>2
      <4>2. o[k] = a.calls[k - l] /\ w[k] = v[k - l]
        BY <2>10, <2>12, <3>2
      <4>3. v[k - l] = CallSaid(s, (k - l) - 1)
        BY <2>11, <4>1
      <4>. QED
        BY <2>8, <4>1, <4>2, <4>3
    <3>. QED
      BY <3>1, <3>2
  <2>14. Says(p, s).content = w
    BY <1>4, SaysIs DEF w, u, v
  <2>15. c = [k \in 1..(l + m) |-> Closed(o[k])]
    BY <1>1, <2>10
  <2>. HIDE DEF c
  <2>. QED
    BY <2>12, <2>13, <2>14, <2>15
<1>. HIDE DEF c
<1>5. c = Says(p, s).content
  BY <1>3, <1>4
<1>. QED
  BY <1>2, <1>5, TurnsAreRecords DEF c

\* The input of a tool in a turn that was cut is one that was sent.
LEMMA InputsAreSent ==
  ASSUME NEW p, NEW s \in Seq(Event), Streams(p, s), Plain(s), NEW j \in 0..Len(s), NEW a,
         UpTo(p, s, j, a), NEW k \in 1..Len(FinishTurn(p, a).content),
         FinishTurn(p, a).content[k].kind = "tool", FinishTurn(p, a).content[k].pieces # <<>>
  PROVE  \E i \in 1..Len(Says(p, s).content) : Says(p, s).content[i] = FinishTurn(p, a).content[k]
<1>. DEFINE o == Opened(p, a)  b == o[k]  said == Says(p, s).content
<1>1. /\ o \in Seq(Item) /\ Len(o) \in Nat /\ k \in 1..Len(o)
      /\ FinishTurn(p, a).content[k] = Closed(b)
  <2>. DEFINE c == FinishTurn(p, a).content
  <2>1. c = [x \in 1..Len(o) |-> Closed(o[x])] /\ Len(c) = Len(o) /\ k \in 1..Len(c)
    BY FinishIs
  <2>2. o \in Seq(Item) /\ Len(o) \in Nat
    BY OpenedIs
  <2>. HIDE DEF c, o
  <2>3. k \in 1..Len(o) /\ c[k] = Closed(o[k])
    BY <2>1
  <2>. QED
    BY <2>2, <2>3 DEF c
<1>2. b.kind = "tool" /\ b.whole
  BY <1>1 DEF Closed
<1>3. CASE p = "anthropic"
  <2>. DEFINE n == Len(a.blocks)
  <2>1. PICK q : StartedBy(s, j, q, n) /\ \A x \in 1..n : BlockUpTo(s, j, q[x], a.blocks[x])
    BY <1>3 DEF UpTo, AnthropicUpTo
  <2>2. o = a.blocks /\ k \in 1..n
    BY <1>1, <1>3 DEF Opened
  <2>3. q[k] \in Starts(s) /\ BlockUpTo(s, j, q[k], b)
    BY <2>1, <2>2 DEF StartedBy
  <2>. DEFINE x == q[k]
  <2>. HIDE DEF b, x
  <2>4. Closed(b) = BlockSaid(s, x)
    <3>1. BlockUpTo(s, Len(s), x, b)
      BY <1>2, <1>3, <2>3, PartOfBlock DEF x
    <3>. QED
      BY <1>3, <2>3, <3>1, BlockIsSaid DEF x
  <2>5. Starts(s) \subseteq Nat /\ IsFiniteSet(Starts(s))
    <3>1. Starts(s) \subseteq 1..Len(s) /\ Len(s) \in Nat
      BY DEF Starts
    <3>. DEFINE z == Len(s)
    <3>2. IsFiniteSet(1..z)
      <4>. HIDE DEF z
      <4>1. 1 \in Int /\ (z \in Nat => z \in Int)
        OBVIOUS
      <4>. QED
        BY <3>1, <4>1, FS_Interval DEF z
    <3>. QED
      BY <3>1, <3>2, FS_Subset
  <2>6. Cardinality(Starts(s)) \in Nat /\ \E i \in 1..Cardinality(Starts(s)) : Sorted(Starts(s))[i] = x
    BY <2>3, <2>5, SortedOf DEF x
  <2>7. said = [i \in 1..Cardinality(Starts(s)) |-> BlockSaid(s, Sorted(Starts(s))[i])]
    BY <1>3, SaysIs
  <2>8. Len(said) = Cardinality(Starts(s))
    BY <2>6, <2>7
  <2>9. \E i \in 1..Len(said) : said[i] = BlockSaid(s, x)
    BY <2>6, <2>7, <2>8
  <2>. QED
    BY <1>1, <2>4, <2>9
<1>4. CASE p # "anthropic"
  <2>. DEFINE m == Len(a.calls)  t == TextBlock(a.text)  l == Len(t)  u == TextSaid(s)  v == CallsSaid(s)
  <2>1. OpenaiUpTo(s, j, a) /\ a.text \in Positions /\ a.calls \in Seq(Item)
    BY <1>4 DEF UpTo, OpenaiUpTo, Aggregators
  <2>2. t \in Seq(Item) /\ l = (IF a.text = <<>> THEN 0 ELSE 1)
    BY <2>1, TextBlockIs, Zenon
  <2>3. l = 1 => t[1].kind = "text"
    <3>. DEFINE e == [kind |-> "text", pieces |-> a.text, whole |-> FALSE]
    <3>1. l = 1 => t[1] = e
      BY <2>1, <2>2, TextBlockIs
    <3>2. e.kind = "text"
      OBVIOUS
    <3>. HIDE DEF e, t
    <3>. QED
      BY <3>1, <3>2
  <2>4. m \in Nat /\ l \in Nat
    BY <2>1, <2>2
  <2>. HIDE DEF t
  <2>5. Len(o) = l + m /\ \A i \in 1..(l + m) : o[i] = IF i <= l THEN t[i] ELSE a.calls[i - l]
    <3>1. o = t \o a.calls
      BY <1>4 DEF Opened, t
    <3>. HIDE DEF o
    <3>. QED
      BY <2>1, <2>2, <3>1, ConcatProperties
  <2>. HIDE DEF l, m, o
  <2>6. ~(k <= l)
    <3>1. ASSUME k <= l PROVE FALSE
      <4>1. k = 1 /\ l = 1 /\ k \in 1..(l + m)
        BY <1>1, <2>2, <2>4, <2>5, <3>1
      <4>2. b.kind = "text"
        BY <2>3, <2>5, <3>1, <4>1
      <4>. QED
        BY <1>2, <4>2
    <3>. QED
      BY <3>1
  <2>7. k - l \in 1..m /\ b = a.calls[k - l]
    BY <1>1, <2>4, <2>5, <2>6
  <2>. DEFINE n == (k - l) - 1
  <2>8. /\ PiecesOf(s, b.pieces, CallUpTo(s, j, n))
        /\ b.whole <=> \E i \in CallUpTo(s, j, n) : s[i].last
    BY <2>1, <2>7 DEF OpenaiUpTo, m
  <2>9. PICK i \in CallUpTo(s, j, n) : s[i].last
    BY <1>2, <2>8
  <2>. HIDE DEF b, n
  <2>10. CallUpTo(s, j, n) = CallUpTo(s, Len(s), n)
    BY <1>4, <2>9, PartOfCall
  <2>11. Closed(b) = CallSaid(s, n)
    BY <1>2, <1>4, <2>8, <2>10, CallIsSaid
  <2>12. n \in Indexes(s)
    BY <2>9, <2>10 DEF CallUpTo, Indexes
  <2>13. Indexes(s) \subseteq Nat /\ IsFiniteSet(Indexes(s))
    <3>. DEFINE A == {x \in 1..Len(s) : s[x].type = "args"}  f == [x \in A |-> s[x].index]
    <3>1. Indexes(s) \subseteq Nat
      BY EventIs DEF Indexes
    <3>2. IsFiniteSet(A)
      <4>1. Len(s) \in Nat /\ A \subseteq 1..Len(s)
        OBVIOUS
      <4>. HIDE DEF A
      <4>2. IsFiniteSet(1..Len(s))
        BY <4>1, FS_Interval
      <4>. QED
        BY <4>1, <4>2, FS_Subset
    <3>3. Indexes(s) = {f[x] : x \in A}
      BY DEF Indexes
    <3>4. f \in Surjection(A, Indexes(s))
      BY <3>3 DEF Surjection
    <3>. HIDE DEF A, f
    <3>. QED
      BY <3>1, <3>2, <3>4, FS_Surjection
  <2>14. /\ Cardinality(Indexes(s)) \in Nat
         /\ \E x \in 1..Cardinality(Indexes(s)) : Sorted(Indexes(s))[x] = n
    BY <2>12, <2>13, SortedOf
  <2>. DEFINE c == Cardinality(Indexes(s))
  <2>15. PICK x \in 1..c : Sorted(Indexes(s))[x] = n
    BY <2>14
  <2>16. v = [i2 \in 1..c |-> CallSaid(s, Sorted(Indexes(s))[i2])]
    BY DEF CallsSaid
  <2>17. v[x] = CallSaid(s, n)
    BY <2>15, <2>16
  <2>18. \E R : u \in Seq(R) /\ v \in Seq(R) /\ Len(v) = c
    <3>. DEFINE R == {[kind |-> "text", pieces |-> Said(TextUpTo(s, Len(s)))]} \cup {v[y] : y \in 1..c}
    <3>1. u \in Seq(R)
      <4>. DEFINE e == [kind |-> "text", pieces |-> Said(TextUpTo(s, Len(s)))]
      <4>1. e \in R /\ (u = <<>> \/ u = <<e>>)
        BY DEF TextSaid
      <4>. HIDE DEF e, R, u
      <4>2. <<>> \in Seq(R) /\ <<e>> \in Seq(R)
        BY <4>1
      <4>. QED
        BY <4>1, <4>2, Zenon
    <3>2. v \in [1..c -> R]
      BY <2>16
    <3>. HIDE DEF R, v, c
    <3>3. v \in Seq(R) /\ Len(v) = c
      BY <2>14, <3>2, IsSeq DEF c
    <3>. QED
      BY <3>1, <3>3
  <2>. HIDE DEF u, v, c
  <2>19. PICK R : u \in Seq(R) /\ v \in Seq(R) /\ Len(v) = c
    BY <2>18
  <2>. DEFINE z == Len(u)
  <2>20. /\ z \in Nat /\ c \in Nat /\ Len(u \o v) = z + c
         /\ \A y \in 1..(z + c) : (u \o v)[y] = IF y <= z THEN u[y] ELSE v[y - z]
    <3>1. z \in Nat /\ c \in Nat
      BY <2>14, <2>19 DEF c
    <3>. QED
      BY <2>19, <3>1, ConcatProperties
  <2>. HIDE DEF z
  <2>21. z + x \in 1..(z + c) /\ ~(z + x <= z) /\ (z + x) - z = x
    BY <2>15, <2>20
  <2>22. (u \o v)[z + x] = CallSaid(s, n) /\ z + x \in 1..Len(u \o v)
    BY <2>17, <2>20, <2>21
  <2>23. said = u \o v
    BY <1>4, SaysIs DEF u, v
  <2>. HIDE DEF said
  <2>24. \E y \in 1..Len(said) : said[y] = CallSaid(s, n)
    BY <2>22, <2>23
  <2>. QED
    BY <1>1, <2>11, <2>24 DEF said
<1>. QED
  BY <1>3, <1>4

-----------------------------------------------------------------------------
(* What was read of a stream *)

\* The text t is what was shown from mark on.
ShownFrom(sh, from, t) ==
  /\ sh \in Positions /\ t \in Positions /\ from \in Nat /\ Len(sh) = from + Len(t)
  /\ \A k \in 1..Len(t) : sh[from + k] = t[k]

LEMMA OneMoreShown ==
  ASSUME NEW sh, NEW from, NEW t, ShownFrom(sh, from, t), NEW x \in Where
  PROVE  ShownFrom(Append(sh, x), from, Append(t, x))
<1>. DEFINE n == Len(t)  m == Len(sh)  u == Append(t, x)  v == Append(sh, x)
<1>1. /\ sh \in Seq(Where) /\ t \in Seq(Where) /\ from \in Nat /\ m = from + n /\ n \in Nat /\ m \in Nat
      /\ \A k \in 1..n : sh[from + k] = t[k]
  BY DEF ShownFrom, Positions
<1>2. u \in Seq(Where) /\ Len(u) = n + 1 /\ u[n + 1] = x /\ \A k \in 1..n : u[k] = t[k]
  BY <1>1, AppendProperties
<1>3. v \in Seq(Where) /\ Len(v) = m + 1 /\ v[m + 1] = x /\ \A k \in 1..m : v[k] = sh[k]
  BY <1>1, AppendProperties
<1>. HIDE DEF u, v, n, m
<1>4. ASSUME NEW k \in 1..(n + 1) PROVE v[from + k] = u[k]
  <2>1. CASE k = n + 1
    <3>1. from + k = m + 1
      BY <1>1, <2>1
    <3>. QED
      BY <1>2, <1>3, <2>1, <3>1
  <2>2. CASE k # n + 1
    <3>1. k \in 1..n /\ from + k \in 1..m
      BY <1>1, <2>2
    <3>. QED
      BY <1>1, <1>2, <1>3, <3>1
  <2>. QED
    BY <2>1, <2>2
<1>5. m + 1 = from + (n + 1)
  BY <1>1
<1>6. ShownFrom(v, from, u)
  BY <1>1, <1>2, <1>3, <1>4, <1>5 DEF ShownFrom, Positions
<1>. QED
  BY <1>6 DEF u, v

\* The aggregator and the text shown of it after the jth event.
Got(p, s, from, j, r) == UpTo(p, s, j, r.agg) /\ ShownFrom(r.shown, from, TextShown(p, r.agg))

LEMMA OneMoreRead ==
  ASSUME script \in Seq(Event), Streams(Current, script), NEW j \in 0..(Len(script) - 1), NEW r,
         Got(Current, script, mark, j, r), NEW b, b.at = j + 1, b.intact \in BOOLEAN,
         ~script[j + 1].wide => b.intact
  PROVE  Got(Current, script, mark, j + 1, ReadOne(r, b))
<1>. DEFINE p == Current  s == script  e == s[j + 1]  x == <<j + 1, b.intact>>  a == r.agg
            c == IF p = "anthropic" THEN HandleAnthropic(a, e, x) ELSE HandleOpenai(a, e, x)
<1>1. UpTo(p, s, j, a) /\ ShownFrom(r.shown, mark, TextShown(p, a)) /\ x \in Where
  BY DEF Got, Where
<1>2. /\ UpTo(p, s, j + 1, c)
      /\ TextShown(p, c) = IF e.type = "text" THEN Append(TextShown(p, a), x) ELSE TextShown(p, a)
  <2>. DEFINE g == b.intact
  <2>. HIDE DEF g
  <2>1. CASE p = "anthropic"
    <3>. DEFINE d == HandleAnthropic(a, s[j + 1], <<j + 1, g>>)
    <3>1. AnthropicUpTo(s, j, a) /\ g \in BOOLEAN /\ (~s[j + 1].wide => g) /\ Streams("anthropic", s)
      BY <1>1, <2>1 DEF UpTo, g
    <3>. HIDE DEF p
    <3>2. /\ AnthropicUpTo(s, j + 1, d)
          /\ TextOf(d.blocks) = IF s[j + 1].type = "text" THEN Append(TextOf(a.blocks), <<j + 1, g>>)
                                                          ELSE TextOf(a.blocks)
      BY <3>1, AnthropicStep
    <3>3. c = d
      BY <2>1 DEF g
    <3>. HIDE DEF d, c
    <3>. QED
      BY <2>1, <3>2, <3>3 DEF UpTo, TextShown, g
  <2>2. CASE p # "anthropic"
    <3>. DEFINE d == HandleOpenai(a, s[j + 1], <<j + 1, g>>)
    <3>1. OpenaiUpTo(s, j, a) /\ g \in BOOLEAN /\ (~s[j + 1].wide => g) /\ Streams(p, s)
      BY <1>1, <2>2 DEF UpTo, g
    <3>. HIDE DEF p
    <3>2. /\ OpenaiUpTo(s, j + 1, d)
          /\ d.text = IF s[j + 1].type = "text" THEN Append(a.text, <<j + 1, g>>) ELSE a.text
      BY <2>2, <3>1, OpenaiStep
    <3>3. c = d
      BY <2>2 DEF g
    <3>. HIDE DEF d, c
    <3>. QED
      BY <2>2, <3>2, <3>3 DEF UpTo, TextShown, g
  <2>. QED
    BY <2>1, <2>2
<1>. DEFINE sh == IF e.type = "text" THEN Append(r.shown, x) ELSE r.shown
<1>3. ReadOne(r, b) = [agg |-> c, shown |-> sh]
  BY DEF ReadOne, Handle, Piece
<1>. HIDE DEF c, x, p
<1>4. ShownFrom(sh, mark, TextShown(p, c))
  BY <1>1, <1>2, OneMoreShown
<1>. HIDE DEF sh
<1>5. ReadOne(r, b).agg = c /\ ReadOne(r, b).shown = sh
  BY <1>3
<1>. QED
  BY <1>2, <1>4, <1>5 DEF Got, p

\* All the events that some bytes complete.
LEMMA AllAreRead ==
  ASSUME script \in Seq(Event), Streams(Current, script), NEW j \in 0..Len(script),
         NEW m \in j..Len(script), Got(Current, script, mark, j, [agg |-> agg, shown |-> shown]), NEW blocks,
         Len(blocks) = m - j,
         \A k \in 1..(m - j) : /\ blocks[k].at = j + k /\ blocks[k].intact \in BOOLEAN
                               /\ ~script[j + k].wide => blocks[k].intact
  PROVE  Got(Current, script, mark, m, Read(blocks))
<1>. DEFINE n == m - j  N == Len(script)
<1>1. n \in Nat /\ N \in Nat /\ j \in Nat /\ m \in Nat /\ m <= N /\ j + n = m
  OBVIOUS
<1>2. PICK f : /\ f[0] = [agg |-> agg, shown |-> shown] /\ Read(blocks) = f[n]
               /\ \A k \in 1..n : f[k] = ReadOne(f[k - 1], blocks[k])
  <2>1. Len(blocks) = n
    OBVIOUS
  <2>. HIDE DEF n
  <2>2. Len(blocks) \in Nat
    BY <1>1, <2>1
  <2>3. \E f : /\ f[0] = [agg |-> agg, shown |-> shown] /\ Read(blocks) = f[Len(blocks)]
               /\ \A k \in 1..Len(blocks) : f[k] = ReadOne(f[k - 1], blocks[k])
    BY <2>2, ReadSteps
  <2>. QED
    BY <2>1, <2>3
<1>. DEFINE T == {k \in 0..n : ~Got(Current, script, mark, j + k, f[k])}
<1>. HIDE DEF n
<1>3. T = {}
  <2>. SUFFICES ASSUME T # {} PROVE FALSE
    OBVIOUS
  <2>1. PICK k \in T : \A l \in T : k <= l
    <3>1. T \subseteq Nat
      BY <1>1
    <3>. HIDE DEF T
    <3>. QED
      BY <3>1, LeastOfNaturals
  <2>2. k \in 0..n /\ ~Got(Current, script, mark, j + k, f[k])
    OBVIOUS
  <2>3. k # 0
    <3>1. j + 0 = j
      BY <1>1
    <3>. QED
      BY <1>2, <2>2, <3>1
  <2>4. k - 1 \in 0..n /\ k \in 1..n
    BY <1>1, <2>2, <2>3
  <2>5. Got(Current, script, mark, j + (k - 1), f[k - 1])
    <3>1. k - 1 \in T => k <= k - 1
      BY <2>1
    <3>2. ~(k <= k - 1)
      BY <2>4
    <3>. QED
      BY <2>4, <3>1, <3>2
  <2>. DEFINE i == j + (k - 1)
  <2>6. i \in 0..(N - 1) /\ i + 1 = j + k
    BY <1>1, <2>4
  <2>7. blocks[k].at = j + k /\ blocks[k].intact \in BOOLEAN /\ (~script[j + k].wide => blocks[k].intact)
    BY <2>4 DEF n
  <2>. HIDE DEF i, T
  <2>8. Got(Current, script, mark, i + 1, ReadOne(f[k - 1], blocks[k]))
    <3>1. Got(Current, script, mark, i, f[k - 1])
      BY <2>5 DEF i
    <3>2. blocks[k].at = i + 1 /\ (~script[i + 1].wide => blocks[k].intact)
      BY <2>6, <2>7
    <3>. QED
      BY <2>6, <2>7, <3>1, <3>2, OneMoreRead
  <2>. QED
    BY <1>2, <2>2, <2>4, <2>6, <2>8
<1>4. n \in 0..n
  BY <1>1
<1>. QED
  BY <1>1, <1>2, <1>3, <1>4 DEF n

-----------------------------------------------------------------------------
(* The call *)

InOrder(ps) ==
  \A k \in 1..Len(ps) : \A j \in 1..Len(ps) :
    k < j => \E a, b \in 1..3 : a < b /\ ps[k] = Chain[a] /\ ps[j] = Chain[b]

LEMMA ChainIs ==
  Len(Chain) = 3 /\ ToSet(Chain) = {"anthropic", "deepseek", "openai"} /\ \A i \in 1..3 : Chain[i] \in ToSet(Chain)
<1>1. Len(Chain) = 3 /\ Chain[1] = "anthropic" /\ Chain[2] = "deepseek" /\ Chain[3] = "openai"
  BY DEF Chain
<1>2. DOMAIN Chain = 1..3
  BY DEF Chain
<1>3. 1 \in 1..3 /\ 2 \in 1..3 /\ 3 \in 1..3 /\ \A i \in 1..3 : i = 1 \/ i = 2 \/ i = 3
  OBVIOUS
<1>4. ToSet(Chain) = {Chain[i] : i \in 1..3}
  BY <1>2 DEF ToSet
<1>5. \A x \in {"anthropic", "deepseek", "openai"} : \E i \in 1..3 : x = Chain[i]
  BY <1>1, <1>3
<1>6. \A i \in 1..3 : Chain[i] \in {"anthropic", "deepseek", "openai"}
  BY <1>1, <1>3
<1>. QED
  BY <1>1, <1>4, <1>5, <1>6

LEMMA AvailableIs ==
  ASSUME NEW keys \in SUBSET ToSet(Chain)
  PROVE  /\ Available(keys) \in Seq(ToSet(Chain)) /\ InOrder(Available(keys))
         /\ Available(keys) = <<>> <=> keys = {}
<1>. DEFINE R == {i \in 1..Len(Chain) : Chain[i] \in keys}  n == Cardinality(R)  q == Sorted(R)
            ps == Available(keys)
<1>1. R \subseteq 1..3 /\ R \subseteq Nat /\ IsFiniteSet(R) /\ \A i \in R : Chain[i] \in keys
  <2>1. R \subseteq 1..3 /\ \A i \in R : Chain[i] \in keys
    BY ChainIs
  <2>2. IsFiniteSet(1..3)
    <3>1. \A i, j \in Int : IsFiniteSet(i..j)
      BY FS_Interval
    <3>2. 1 \in Int /\ 3 \in Int
      OBVIOUS
    <3>. QED
      BY <3>1, <3>2
  <2>. HIDE DEF R
  <2>3. IsFiniteSet(R)
    BY <2>1, <2>2, FS_Subset
  <2>. QED
    BY <2>1, <2>3
<1>2. ps = [k \in 1..n |-> Chain[q[k]]]
  BY DEF Available
<1>3. \A x \in keys : \E i \in R : Chain[i] = x
  <2>1. ToSet(Chain) = {Chain[i] : i \in 1..Len(Chain)}
    BY DEF ToSet, Chain
  <2>. QED
    BY <2>1
<1>. HIDE DEF R
<1>4. n \in Nat /\ q \in [1..n -> R] /\ (\A i, j \in 1..n : i < j => q[i] < q[j])
      /\ \A x \in R : \E i \in 1..n : q[i] = x
  BY <1>1, SortedOf
<1>. HIDE DEF n, q, ps
<1>5. \A k \in 1..n : Chain[q[k]] \in ToSet(Chain)
  BY <1>1, <1>4
<1>6. ps \in Seq(ToSet(Chain)) /\ Len(ps) = n /\ \A k \in 1..n : ps[k] = Chain[q[k]]
  <2>1. ps \in [1..n -> ToSet(Chain)] /\ \A k \in 1..n : ps[k] = Chain[q[k]]
    BY <1>2, <1>5
  <2>. QED
    BY <1>4, <2>1, IsSeq
<1>7. ASSUME NEW k \in 1..n, NEW j \in 1..n, k < j
      PROVE  \E a, b \in 1..3 : a < b /\ ps[k] = Chain[a] /\ ps[j] = Chain[b]
  <2>1. q[k] \in 1..3 /\ q[j] \in 1..3 /\ q[k] < q[j]
    BY <1>1, <1>4, <1>7
  <2>. QED
    BY <1>6, <2>1
<1>8. ps = <<>> <=> keys = {}
  <2>1. ps = <<>> <=> n = 0
    BY <1>6
  <2>2. n = 0 <=> R = {}
    <3>1. n = 0 => R = {}
      BY <1>4
    <3>2. R = {} => n = 0
      BY FS_EmptySet DEF n
    <3>. QED
      BY <3>1, <3>2
  <2>3. R = {} <=> keys = {}
    BY <1>1, <1>3
  <2>. QED
    BY <2>1, <2>2, <2>3
<1>. QED
  BY <1>6, <1>7, <1>8 DEF InOrder, ps

\* The current stream up to what was received of it.
StreamIsRead(p) ==
  /\ script \in Scripts(p)
  /\ \E off, j :
       /\ Laid(script, framing, off) /\ Holds(script, framing, off, j, buffer, at)
       /\ framing = "lf" /\ at = Len(Wire(script, framing)) => j = Len(script)
       /\ Got(p, script, mark, j, [agg |-> agg, shown |-> shown])

StreamTypeOK ==
  /\ script \in {<<>>} \cup AnthropicScripts \cup OpenaiScripts /\ framing \in {"lf", "crlf"}
  /\ at \in 0..Len(Wire(script, framing)) /\ buffer \in Seq(Chars) /\ Len(buffer) <= at
  /\ shown \in Positions /\ mark \in Nat /\ mark <= Len(shown)

ChainInv ==
  /\ stage \in {"prepare", "request", "stream", "done"}
  /\ outcome.kind \in {"none", "NoProvider", "AllFailed", "Ok"}
  /\ stage = "done" <=> outcome.kind # "none"
  /\ providers \in Seq(ToSet(Chain)) /\ InOrder(providers)
  /\ failures \in Seq(ToSet(Chain)) /\ Len(failures) <= Len(providers)
  /\ \A k \in 1..Len(failures) : failures[k] = providers[k]
  /\ stage = "prepare" => failures = <<>>
  /\ stage \in {"request", "stream"} => Len(failures) < Len(providers)
  /\ outcome.kind = "Ok" => Len(failures) < Len(providers) /\ outcome.turn = FinishTurn(Current, agg)
  /\ outcome.kind = "AllFailed" => Len(failures) = Len(providers) /\ Len(providers) # 0
  /\ outcome.kind = "NoProvider" => Len(providers) = 0

StreamInv == stage = "stream" \/ outcome.kind = "Ok" => StreamIsRead(Current)

GatewayInv == StreamTypeOK /\ ChainInv /\ StreamInv

LEMMA ScriptIs ==
  ASSUME NEW p \in ToSet(Chain), NEW s \in Scripts(p)
  PROVE  s \in Seq(Event) /\ Streams(p, s) /\ s \in AnthropicScripts \cup OpenaiScripts
<1>1. s \in Seq(Event) /\ Streams(p, s)
  BY GatewayAssumption
<1>2. s \in AnthropicScripts \cup OpenaiScripts
  BY DEF Scripts
<1>. QED
  BY <1>1, <1>2

LEMMA FramingIs == \A f \in Framings : f \in {"lf", "crlf"}
BY GatewayAssumption

\* The wire has a length, also of no script.
LEMMA WireHasLength ==
  ASSUME NEW s \in Seq(Event), NEW f \in {"lf", "crlf"}
  PROVE  Len(Wire(s, f)) \in Nat
BY WireIsLaid, LaidIs

\* Nothing has been read yet.
LEMMA NothingGot ==
  ASSUME NEW p, NEW s, NEW r, r.agg = EmptyAgg, r.shown \in Positions
  PROVE  Got(p, s, Len(r.shown), 0, r)
<1>. DEFINE a == EmptyAgg
<1>1. /\ a \in Aggregators /\ a.blocks = <<>> /\ a.text = <<>> /\ a.calls = <<>> /\ a.stop = "none"
  <2>1. <<>> \in Seq(Item) /\ <<>> \in Positions
    BY DEF Positions
  <2>3. a.blocks = <<>> /\ a.text = <<>> /\ a.calls = <<>> /\ a.stop = "none"
    BY DEF EmptyAgg
  <2>4. \A x \in Seq(Item), y \in Positions, z \in STRING \cup {"none"} :
          [blocks |-> x, text |-> y, calls |-> x, stop |-> z] \in Aggregators
    BY DEF Aggregators
  <2>5. a \in Aggregators
    <3>1. "none" \in STRING \cup {"none"}
      OBVIOUS
    <3>. QED
      BY <2>1, <2>4, <3>1, Zenon DEF EmptyAgg
  <2>. QED
    BY <2>3, <2>5
<1>2. StoppedFor(s, 0, "none")
  BY DEF StoppedFor
<1>3. Len(<<>>) = 0 /\ \A k \in 1..0 : FALSE
  OBVIOUS
<1>4. OpenaiUpTo(s, 0, a)
  <2>1. TextUpTo(s, 0) = {}
    BY <1>3 DEF TextUpTo
  <2>. HIDE DEF a
  <2>. QED
    BY <1>1, <1>2, <1>3, <2>1, NoPieces DEF OpenaiUpTo
<1>5. AnthropicUpTo(s, 0, a)
  <2>. DEFINE q == [k \in 1..0 |-> 0]
  <2>1. StartedBy(s, 0, q, 0)
    <3>1. \A x \in Starts(s) : ~(x <= 0)
      BY DEF Starts
    <3>. QED
      BY <3>1 DEF StartedBy
  <2>. HIDE DEF a, q
  <2>. QED
    BY <1>1, <1>2, <1>3, <2>1 DEF AnthropicUpTo
<1>6. TextShown(p, a) = <<>>
  <2>1. TextOf(<<>>) = <<>>
    BY DEF TextOf, Texts, FlattenSeq
  <2>. HIDE DEF a
  <2>. QED
    BY <1>1, <2>1 DEF TextShown
<1>7. ShownFrom(r.shown, Len(r.shown), <<>>)
  <2>1. <<>> \in Positions /\ Len(r.shown) \in Nat
    BY DEF Positions
  <2>. QED
    BY <2>1 DEF ShownFrom
<1>. HIDE DEF a
<1>8. UpTo(p, s, 0, a)
  BY <1>4, <1>5 DEF UpTo
<1>. QED
  BY <1>6, <1>7, <1>8 DEF Got, a

LEMMA GatewayStarts == GatewayInit => GatewayInv
<1>. SUFFICES ASSUME GatewayInit PROVE GatewayInv
  OBVIOUS
<1>1. Len(Wire(script, framing)) \in Nat
  <2>1. <<>> \in Seq(Event) /\ "lf" \in {"lf", "crlf"}
    OBVIOUS
  <2>2. Len(Wire(<<>>, "lf")) \in Nat
    BY <2>1, WireHasLength
  <2>. QED
    BY <2>2 DEF GatewayInit
<1>2. <<>> \in Positions /\ <<>> \in Seq(Chars) /\ <<>> \in Seq(ToSet(Chain)) /\ Len(<<>>) = 0
  BY DEF Positions
<1>3. StreamTypeOK
  BY <1>1, <1>2 DEF StreamTypeOK, GatewayInit
<1>4. outcome.kind = "none"
  BY DEF GatewayInit
<1>5. ChainInv
  BY <1>2, <1>4 DEF ChainInv, GatewayInit, InOrder
<1>6. StreamInv
  BY <1>4 DEF StreamInv, GatewayInit
<1>. QED
  BY <1>3, <1>5, <1>6 DEF GatewayInv

LEMMA CurrentIs ==
  ASSUME ChainInv, Len(failures) < Len(providers)
  PROVE  Current \in ToSet(Chain)
<1>1. providers \in Seq(ToSet(Chain)) /\ Len(failures) \in Nat /\ Len(providers) \in Nat
  BY DEF ChainInv
<1>2. Len(failures) + 1 \in 1..Len(providers)
  BY <1>1
<1>. QED
  BY <1>1, <1>2 DEF Current

LEMMA ProviderFails ==
  ASSUME ChainInv, stage \in {"request", "stream"}, NextProvider, UNCHANGED providers
  PROVE  ChainInv' /\ StreamInv'
<1>. DEFINE n == Len(failures)  m == Len(providers)
<1>1. /\ failures \in Seq(ToSet(Chain)) /\ providers \in Seq(ToSet(Chain)) /\ n < m
      /\ outcome.kind = "none" /\ n \in Nat /\ m \in Nat /\ InOrder(providers)
      /\ \A k \in 1..n : failures[k] = providers[k]
  BY DEF ChainInv
<1>2. Current \in ToSet(Chain) /\ Current = providers[n + 1]
  BY <1>1, CurrentIs DEF Current
<1>3. /\ failures' \in Seq(ToSet(Chain)) /\ Len(failures') = n + 1 /\ failures'[n + 1] = providers[n + 1]
      /\ \A k \in 1..n : failures'[k] = failures[k]
  <2>1. failures' = Append(failures, Current)
    BY DEF NextProvider
  <2>. QED
    BY <1>1, <1>2, <2>1, AppendProperties
<1>4. /\ n + 1 <= m /\ (n + 1 # m => n + 1 < m) /\ \A k \in 1..(n + 1) : k = n + 1 \/ k \in 1..n
  BY <1>1
<1>5. \A k \in 1..(n + 1) : failures'[k] = providers[k]
  BY <1>1, <1>3, <1>4
<1>6. providers' = providers
  OBVIOUS
<1>. HIDE DEF n, m
<1>7. CASE n + 1 = m
  <2>1. stage' = "done" /\ outcome' = [kind |-> "AllFailed", turn |-> Nothing]
    BY <1>7 DEF NextProvider, EndCall, n, m
  <2>2. outcome'.kind = "AllFailed"
    BY <2>1
  <2>3. Len(failures') = Len(providers') /\ Len(providers') # 0
    BY <1>1, <1>3, <1>4, <1>6, <1>7 DEF m
  <2>4. ChainInv'
    BY <1>1, <1>3, <1>4, <1>5, <1>6, <2>1, <2>2, <2>3 DEF ChainInv, InOrder, m
  <2>. QED
    BY <2>1, <2>2, <2>4 DEF StreamInv
<1>8. CASE n + 1 # m
  <2>1. stage' = "request" /\ outcome' = outcome
    BY <1>8 DEF NextProvider, n, m
  <2>2. Len(failures') < Len(providers') /\ Len(failures') <= Len(providers')
    BY <1>1, <1>3, <1>4, <1>6, <1>8 DEF m
  <2>3. outcome'.kind = "none"
    BY <1>1, <2>1
  <2>4. ChainInv'
    BY <1>1, <1>3, <1>5, <1>6, <2>1, <2>2, <2>3 DEF ChainInv, InOrder
  <2>. QED
    BY <2>1, <2>3, <2>4 DEF StreamInv
<1>. QED
  BY <1>7, <1>8

LEMMA PrepareKeeps == GatewayInv /\ Prepare => GatewayInv'
<1>. SUFFICES ASSUME GatewayInv, Prepare PROVE GatewayInv'
  OBVIOUS
<1>1. PICK keys \in SUBSET ToSet(Chain) :
         /\ providers' = Available(keys)
         /\ IF keys = {} THEN EndCall("NoProvider", Nothing) ELSE stage' = "request" /\ UNCHANGED outcome
  BY DEF Prepare
<1>2. /\ stage = "prepare" /\ UNCHANGED <<failures, streamVars>> /\ StreamTypeOK /\ ChainInv
  BY DEF Prepare, GatewayInv
<1>3. outcome.kind = "none" /\ failures = <<>> /\ failures' = <<>> /\ Len(failures') = 0
      /\ <<>> \in Seq(ToSet(Chain))
  BY <1>2 DEF ChainInv
<1>4. /\ providers' \in Seq(ToSet(Chain)) /\ InOrder(providers)'
      /\ providers' = <<>> <=> keys = {}
  BY <1>1, AvailableIs DEF InOrder
<1>5. Len(providers') \in Nat /\ (Len(providers') = 0 <=> keys = {})
  BY <1>4
<1>6. StreamTypeOK'
  BY <1>2 DEF StreamTypeOK, streamVars
<1>7. CASE keys = {}
  <2>1. stage' = "done" /\ outcome' = [kind |-> "NoProvider", turn |-> Nothing]
    BY <1>1, <1>7 DEF EndCall
  <2>2. outcome'.kind = "NoProvider"
    BY <2>1
  <2>3. ChainInv'
    BY <1>3, <1>4, <1>5, <1>7, <2>1, <2>2 DEF ChainInv
  <2>. QED
    BY <1>6, <2>1, <2>2, <2>3 DEF GatewayInv, StreamInv
<1>8. CASE keys # {}
  <2>1. stage' = "request" /\ outcome' = outcome /\ outcome'.kind = "none"
    BY <1>1, <1>3, <1>8
  <2>2. 0 < Len(providers') /\ 0 <= Len(providers')
    BY <1>5, <1>8
  <2>3. ChainInv'
    BY <1>3, <1>4, <2>1, <2>2 DEF ChainInv
  <2>. QED
    BY <1>6, <2>1, <2>3 DEF GatewayInv, StreamInv
<1>. QED
  BY <1>7, <1>8

LEMMA BreakKeeps == GatewayInv /\ Break => GatewayInv'
<1>. SUFFICES ASSUME GatewayInv, Break PROVE GatewayInv'
  OBVIOUS
<1>1. ChainInv' /\ StreamInv'
  BY ProviderFails DEF Break, GatewayInv
<1>2. StreamTypeOK'
  BY DEF Break, GatewayInv, StreamTypeOK, streamVars
<1>. QED
  BY <1>1, <1>2 DEF GatewayInv

LEMMA CallProviderKeeps == GatewayInv /\ CallProvider => GatewayInv'
<1>. SUFFICES ASSUME GatewayInv, CallProvider PROVE GatewayInv'
  OBVIOUS
<1>1. StreamTypeOK /\ ChainInv /\ stage = "request" /\ UNCHANGED providers
  BY DEF GatewayInv, CallProvider
<1>2. CASE NextProvider /\ UNCHANGED streamVars
  <2>1. ChainInv' /\ StreamInv'
    BY <1>1, <1>2, ProviderFails
  <2>2. StreamTypeOK'
    BY <1>1, <1>2 DEF StreamTypeOK, streamVars
  <2>. QED
    BY <2>1, <2>2 DEF GatewayInv
<1>3. CASE /\ stage' = "stream" /\ script' \in Scripts(Current) /\ framing' \in Framings
           /\ at' = 0 /\ NewReader /\ mark' = Len(shown) /\ UNCHANGED <<failures, shown, outcome>>
  <2>1. /\ Len(failures) < Len(providers) /\ outcome.kind = "none" /\ Current \in ToSet(Chain)
    BY <1>1, CurrentIs DEF ChainInv
  <2>2. /\ script' \in Seq(Event) /\ script' \in AnthropicScripts \cup OpenaiScripts
        /\ framing' \in {"lf", "crlf"}
    BY <1>3, <2>1, ScriptIs, FramingIs
  <2>3. buffer' = <<>> /\ agg' = EmptyAgg /\ at' = 0 /\ mark' = Len(shown) /\ shown' = shown
    BY <1>3 DEF NewReader
  <2>4. Current' = Current
    BY <1>1, <1>3 DEF Current
  <2>5. shown \in Positions /\ Len(shown) \in Nat
    BY <1>1 DEF StreamTypeOK, Positions
  <2>. DEFINE s == script'  f == framing'  w == Wire(s, f)  n == Len(s)
  <2>6. PICK off : Laid(s, f, off)
    BY <2>2, WireIsLaid
  <2>. HIDE DEF s, f
  <2>7. /\ Len(w) \in Nat /\ n \in Nat /\ off[0] = 0 /\ off[n] = Len(w)
    BY <2>2, <2>6, LaidIs DEF Laid, s
  <2>8. Holds(s, f, off, 0, <<>>, 0)
    <3>1. <<>> \in Seq(Chars) /\ Len(<<>>) = 0 /\ 0 \in 0..n /\ 0 \in 0..Len(w)
      BY <2>7
    <3>. HIDE DEF w, n
    <3>. QED
      BY <2>7, <3>1 DEF Holds, w, n
  <2>9. f = "lf" /\ 0 = Len(w) => 0 = n
    <3>1. CASE n = 0
      BY <3>1
    <3>2. CASE n # 0
      <4>1. 0 \in 0..n /\ n \in 0..n /\ 0 < n
        BY <2>7, <3>2
      <4>2. off[0] < off[n]
        BY <2>2, <2>6, <4>1, FramesFollow DEF s, f
      <4>3. 0 < Len(w)
        BY <2>7, <4>2
      <4>. HIDE DEF w, n
      <4>. QED
        BY <4>3
    <3>. QED
      BY <3>1, <3>2
  <2>. DEFINE r == [agg |-> agg', shown |-> shown']
  <2>10. Got(Current, s, mark', 0, r)
    <3>1. r.agg = EmptyAgg /\ r.shown = shown
      BY <2>3
    <3>. HIDE DEF r
    <3>. QED
      BY <2>3, <2>5, <3>1, NothingGot
  <2>11. StreamIsRead(Current)'
    <3>. HIDE DEF r, w, n
    <3>1. /\ script' \in Scripts(Current)'
          /\ Laid(script', framing', off) /\ Holds(script', framing', off, 0, buffer', at')
          /\ framing' = "lf" /\ at' = Len(Wire(script', framing')) => 0 = Len(script')
          /\ Got(Current', script', mark', 0, r)
      BY <1>3, <2>3, <2>4, <2>6, <2>8, <2>9, <2>10 DEF s, f, w, n, Scripts
    <3>. QED
      BY <3>1 DEF StreamIsRead, r
  <2>12. StreamTypeOK'
    <3>1. <<>> \in Seq(Chars) /\ Len(<<>>) = 0 /\ 0 \in 0..Len(w) /\ Len(shown) <= Len(shown)
      BY <2>5, <2>7
    <3>. HIDE DEF w
    <3>. QED
      BY <2>2, <2>3, <2>5, <3>1 DEF StreamTypeOK, w, s, f
  <2>13. ChainInv'
    BY SMTT(30), <1>1, <1>3, <2>1 DEF ChainInv, InOrder
  <2>. QED
    BY <2>11, <2>12, <2>13 DEF GatewayInv, StreamInv
<1>. QED
  BY <1>2, <1>3 DEF CallProvider

LEMMA CloseKeeps == GatewayInv /\ Close => GatewayInv'
<1>. SUFFICES ASSUME GatewayInv, Close PROVE GatewayInv'
  OBVIOUS
<1>1. /\ StreamTypeOK /\ ChainInv /\ StreamIsRead(Current) /\ stage = "stream"
      /\ stage' = "done" /\ outcome' = [kind |-> "Ok", turn |-> FinishTurn(Current, agg)]
      /\ UNCHANGED <<providers, failures, streamVars>>
  BY DEF GatewayInv, StreamInv, Close, EndCall
<1>2. outcome'.kind = "Ok" /\ outcome'.turn = FinishTurn(Current, agg) /\ Current' = Current
  BY <1>1 DEF Current
<1>3. StreamTypeOK'
  BY <1>1 DEF StreamTypeOK, streamVars
<1>4. FinishTurn(Current, agg)' = FinishTurn(Current, agg)
  BY <1>1, <1>2 DEF streamVars, FinishTurn
<1>5. ChainInv'
  BY <1>1, <1>2, <1>4 DEF ChainInv, InOrder
<1>6. StreamIsRead(Current)'
  BY <1>1, <1>2 DEF StreamIsRead, streamVars, Scripts
<1>. QED
  BY <1>3, <1>5, <1>6 DEF GatewayInv, StreamInv

LEMMA ReceiveKeeps == GatewayInv /\ Receive => GatewayInv'
<1>. SUFFICES ASSUME GatewayInv, Receive PROVE GatewayInv'
  OBVIOUS
<1>. DEFINE s == script  f == framing  w == Wire(s, f)  p == Current
<1>1. /\ StreamTypeOK /\ ChainInv /\ StreamIsRead(p) /\ stage = "stream" /\ at < Len(w)
      /\ UNCHANGED <<stage, providers, failures, script, framing, mark, outcome>>
  BY DEF GatewayInv, StreamInv, Receive
<1>2. PICK n \in at + 1..Len(w) :
        LET text == buffer \o Decode(SubSeq(w, at + 1, n))
            read == Read(Blocks(text)) IN
        at' = n /\ buffer' = Rest(text) /\ agg' = read.agg /\ shown' = read.shown
  BY DEF Receive
<1>. DEFINE text == buffer \o Decode(SubSeq(w, at + 1, n))  read == Read(Blocks(text))
<1>3. at' = n /\ buffer' = Rest(text) /\ agg' = read.agg /\ shown' = read.shown
  BY <1>2
<1>. HIDE DEF text, read
<1>4. /\ Len(failures) < Len(providers) /\ p \in ToSet(Chain) /\ outcome.kind = "none"
      /\ s \in Seq(Event) /\ Streams(p, s) /\ f \in {"lf", "crlf"}
  <2>1. Len(failures) < Len(providers) /\ p \in ToSet(Chain) /\ outcome.kind = "none"
    BY <1>1, CurrentIs DEF ChainInv
  <2>2. s \in Scripts(p) /\ f \in {"lf", "crlf"}
    BY <1>1 DEF StreamIsRead, StreamTypeOK
  <2>. QED
    BY <2>1, <2>2, ScriptIs
<1>5. PICK off, j : /\ Laid(s, f, off) /\ Holds(s, f, off, j, buffer, at)
                    /\ Got(p, s, mark, j, [agg |-> agg, shown |-> shown])
  BY <1>1 DEF StreamIsRead
<1>6. Holds(s, f, off, j, text, n)
  BY <1>4, <1>5, TextGrows DEF text
<1>15. PICK m : Parsed(s, f, off, j, text, n, m)
  <2>1. s \in Seq(Event) /\ f \in {"lf", "crlf"} /\ Laid(s, f, off) /\ Holds(s, f, off, j, text, n)
    BY <1>4, <1>5, <1>6
  <2>. HIDE DEF s, f
  <2>. QED
    BY <2>1, TextParses
<1>7. /\ m \in j..Len(s) /\ Holds(s, f, off, m, Rest(text), n)
      /\ f = "lf" /\ n = Len(w) => m = Len(s)
      /\ Len(Blocks(text)) = m - j
      /\ \A k \in 1..(m - j) :
           /\ Blocks(text)[k].at = j + k /\ Blocks(text)[k].intact \in BOOLEAN
           /\ ~s[j + k].wide => Blocks(text)[k].intact
  BY <1>15 DEF Parsed
<1>8. j \in 0..Len(s)
  BY <1>5 DEF Holds
<1>9. Got(p, s, mark, m, read)
  <2>. DEFINE b == Blocks(text)
  <2>1. /\ Len(b) = m - j
        /\ \A k \in 1..(m - j) : /\ b[k].at = j + k /\ b[k].intact \in BOOLEAN
                                 /\ ~s[j + k].wide => b[k].intact
    BY <1>7
  <2>. HIDE DEF b
  <2>2. Got(p, s, mark, m, Read(b))
    BY <1>4, <1>5, <1>7, <1>8, <2>1, AllAreRead
  <2>. QED
    BY <2>2 DEF read, b
<1>. DEFINE r == [agg |-> agg', shown |-> shown']
<1>10. Got(p, s, mark, m, r)
  <2>1. r.agg = read.agg /\ r.shown = read.shown
    BY <1>3
  <2>. HIDE DEF r
  <2>. QED
    BY <1>9, <2>1 DEF Got
<1>11. Current' = p
  BY <1>1 DEF Current
<1>12. StreamIsRead(Current)'
  <2>. HIDE DEF r
  <2>1. /\ script' \in Scripts(Current)'
        /\ Laid(script', framing', off) /\ Holds(script', framing', off, m, buffer', at')
        /\ framing' = "lf" /\ at' = Len(Wire(script', framing')) => m = Len(script')
        /\ Got(Current', script', mark', m, r)
    <3>1. script \in Scripts(p) /\ script' = script /\ framing' = framing /\ mark' = mark
      BY <1>1 DEF StreamIsRead
    <3>. QED
      BY <1>3, <1>5, <1>7, <1>10, <1>11, <3>1 DEF Scripts
  <2>. QED
    BY <2>1 DEF StreamIsRead, r
<1>13. StreamTypeOK'
  <2>1. n \in 0..Len(w) /\ Rest(text) \in Seq(Chars) /\ Len(Rest(text)) = n - off[m] /\ m \in 0..Len(s)
    BY <1>7 DEF Holds
  <2>2. off[m] \in Nat
    BY <1>4, <1>5, <2>1, LaidIs
  <2>3. Len(Rest(text)) <= n
    BY <2>1, <2>2
  <2>4. shown' \in Positions /\ mark <= Len(shown') /\ mark \in Nat
    <3>1. ShownFrom(read.shown, mark, TextShown(p, read.agg))
      BY <1>9 DEF Got
    <3>. DEFINE t == TextShown(p, read.agg)
    <3>2. shown' \in Positions /\ t \in Positions /\ mark \in Nat /\ Len(shown') = mark + Len(t)
      BY <1>3, <3>1 DEF ShownFrom
    <3>. HIDE DEF t
    <3>3. Len(t) \in Nat
      BY <3>2 DEF Positions
    <3>. QED
      BY <3>2, <3>3
  <2>. QED
    BY <1>1, <1>3, <2>1, <2>3, <2>4 DEF StreamTypeOK
<1>14. ChainInv'
  BY <1>1, <1>4 DEF ChainInv, InOrder
<1>. QED
  BY <1>12, <1>13, <1>14 DEF GatewayInv, StreamInv

LEMMA GatewayKeeps == GatewayInv /\ [GatewayNext]_gatewayVars => GatewayInv'
<1>. SUFFICES ASSUME GatewayInv, [GatewayNext]_gatewayVars PROVE GatewayInv'
  OBVIOUS
<1>1. CASE Prepare
  BY <1>1, PrepareKeeps
<1>2. CASE CallProvider
  BY <1>2, CallProviderKeeps
<1>3. CASE Receive
  BY <1>3, ReceiveKeeps
<1>4. CASE Break
  BY <1>4, BreakKeeps
<1>5. CASE Close
  BY <1>5, CloseKeeps
<1>6. CASE UNCHANGED gatewayVars
  <2>1. /\ StreamTypeOK /\ ChainInv /\ StreamInv
        /\ UNCHANGED <<stage, providers, failures, outcome, streamVars>>
    BY <1>6 DEF gatewayVars, streamVars, GatewayInv
  <2>2. Current' = Current
    BY <2>1 DEF Current
  <2>3. StreamTypeOK'
    BY <2>1 DEF StreamTypeOK, streamVars
  <2>4. FinishTurn(Current, agg)' = FinishTurn(Current, agg)
    BY <2>1, <2>2 DEF streamVars, FinishTurn
  <2>5. ChainInv'
    BY <2>1, <2>2, <2>4 DEF ChainInv, InOrder
  <2>6. StreamIsRead(Current) => StreamIsRead(Current)'
    BY <2>1, <2>2 DEF StreamIsRead, streamVars, Scripts
  <2>. QED
    BY <2>1, <2>3, <2>5, <2>6 DEF GatewayInv, StreamInv
<1>. QED
  BY <1>1, <1>2, <1>3, <1>4, <1>5, <1>6 DEF GatewayNext

\* What the invariant says of any stream.
LEMMA InvShowsTurn == GatewayInv => GatewayTypeOK /\ ShownIsTurn /\ FirstThatAnswers
<1>. SUFFICES ASSUME GatewayInv PROVE GatewayTypeOK /\ ShownIsTurn /\ FirstThatAnswers
  OBVIOUS
<1>1. StreamTypeOK /\ ChainInv /\ StreamInv
  BY DEF GatewayInv
<1>. DEFINE n == Len(failures)  m == Len(providers)
<1>2. /\ failures \in Seq(ToSet(Chain)) /\ providers \in Seq(ToSet(Chain)) /\ n \in Nat /\ m \in Nat
      /\ n <= m /\ \A k \in 1..n : failures[k] = providers[k]
  BY <1>1 DEF ChainInv
<1>3. IsPrefix(failures, providers)
  <2>. DEFINE a == SubSeq(failures, 1, n)  b == SubSeq(providers, 1, n)
  <2>1. a = [k \in 1..n |-> failures[k]]
    BY <1>2
  <2>2. b = [k \in 1..n |-> providers[k]]
    BY <1>2
  <2>. QED
    BY <1>2, <2>1, <2>2 DEF IsPrefix
<1>4. GatewayTypeOK
  BY <1>1, <1>3 DEF GatewayTypeOK, StreamTypeOK, ChainInv, InOrder
<1>5. FirstThatAnswers
  <2>1. n = m => failures = providers
    BY <1>2, SeqEqual
  <2>2. m = 0 <=> providers = <<>>
    BY <1>2
  <2>. QED
    BY <1>1, <2>1, <2>2 DEF FirstThatAnswers, ChainInv
<1>6. ASSUME stage = "stream" \/ outcome.kind = "Ok"
      PROVE  SubSeq(shown, mark + 1, Len(shown)) = TextOf(FinishTurn(Current, agg).content)
  <2>. DEFINE t == TextShown(Current, agg)  sub == SubSeq(shown, mark + 1, Len(shown))
  <2>1. PICK j : Got(Current, script, mark, j, [agg |-> agg, shown |-> shown])
    BY <1>1, <1>6 DEF StreamInv, StreamIsRead
  <2>2. UpTo(Current, script, j, agg) /\ ShownFrom(shown, mark, t)
    BY <2>1 DEF Got
  <2>3. TextOf(FinishTurn(Current, agg).content) = t
    BY <2>2, FinishIs
  <2>. HIDE DEF t
  <2>4. /\ shown \in Seq(Where) /\ t \in Seq(Where) /\ mark \in Nat /\ Len(shown) = mark + Len(t)
        /\ \A k \in 1..Len(t) : shown[mark + k] = t[k]
    BY <2>2 DEF ShownFrom, Positions
  <2>. DEFINE l == Len(t)  z == Len(shown)
  <2>5. l \in Nat /\ z \in Nat /\ z = mark + l
    BY <2>4
  <2>6. \A k \in (mark + 1)..z : shown[k] \in Where
    BY <2>4, <2>5
  <2>7. /\ sub \in Seq(Where) /\ Len(sub) = (IF mark + 1 <= z THEN z - (mark + 1) + 1 ELSE 0)
        /\ \A k \in 1..(z - (mark + 1) + 1) : sub[k] = shown[(mark + 1) + k - 1]
    <3>1. mark + 1 \in Int /\ z \in Int
      BY <2>4, <2>5
    <3>. QED
      BY <2>6, <3>1, SubSeqProperties
  <2>. HIDE DEF l, z, sub
  <2>8. Len(sub) = l /\ \A k \in 1..l : sub[k] = t[k]
    <3>1. (IF mark + 1 <= z THEN z - (mark + 1) + 1 ELSE 0) = l /\ z - (mark + 1) + 1 = l
          /\ \A k \in 1..l : (mark + 1) + k - 1 = mark + k
      BY <2>4, <2>5
    <3>. QED
      BY <2>4, <2>7, <3>1 DEF l
  <2>9. sub = t
    BY <2>4, <2>7, <2>8, SeqEqual DEF l
  <2>. QED
    BY <2>3, <2>9 DEF sub
<1>7. ShownIsTurn
  BY <1>6 DEF ShownIsTurn, TextOf, Texts
<1>. QED
  BY <1>4, <1>5, <1>7

\* What it says of a stream that its chunks cannot split.
LEMMA InvMakesTurn ==
  GatewayInv /\ framing = "lf" /\ Plain(script) => WholeStreamIsTurn /\ InputsAreWholeOrEmpty
<1>. SUFFICES ASSUME GatewayInv, framing = "lf", Plain(script), outcome.kind = "Ok"
              PROVE  WholeStreamIsTurn /\ InputsAreWholeOrEmpty
  BY DEF WholeStreamIsTurn, InputsAreWholeOrEmpty
<1>1. PICK off, j : /\ Holds(script, framing, off, j, buffer, at)
                    /\ at = Len(Wire(script, framing)) => j = Len(script)
                    /\ Got(Current, script, mark, j, [agg |-> agg, shown |-> shown])
  BY DEF GatewayInv, StreamInv, StreamIsRead
<1>2. j \in 0..Len(script) /\ UpTo(Current, script, j, agg)
  BY <1>1 DEF Holds, Got
<1>3. /\ outcome.turn = FinishTurn(Current, agg) /\ script \in Seq(Event) /\ Streams(Current, script)
  <2>1. ChainInv /\ script \in Scripts(Current) /\ Len(failures) < Len(providers)
        /\ outcome.turn = FinishTurn(Current, agg)
    BY DEF GatewayInv, ChainInv, StreamInv, StreamIsRead
  <2>2. Current \in ToSet(Chain)
    BY <2>1, CurrentIs
  <2>. QED
    BY <2>1, <2>2, ScriptIs
<1>. DEFINE p == Current
<1>4. WholeStreamIsTurn
  <2>1. ASSUME at = Len(Wire(script, framing)) PROVE FinishTurn(p, agg) = Says(p, script)
    <3>1. UpTo(p, script, Len(script), agg)
      BY <1>1, <1>2, <2>1
    <3>. HIDE DEF p
    <3>. QED
      BY <1>3, <3>1, WholeTurn DEF p
  <2>. QED
    BY <1>3, <2>1 DEF WholeStreamIsTurn
<1>5. InputsAreWholeOrEmpty
  <2>. DEFINE c == FinishTurn(p, agg).content
  <2>1. ASSUME NEW k \in 1..Len(c), c[k].kind = "tool", c[k].pieces # <<>>
        PROVE  \E i \in 1..Len(Says(p, script).content) : Says(p, script).content[i] = c[k]
    <3>1. UpTo(p, script, j, agg) /\ Streams(p, script)
      BY <1>2, <1>3
    <3>. HIDE DEF p
    <3>. QED
      BY <1>2, <1>3, <2>1, <3>1, InputsAreSent
  <2>. QED
    BY <1>3, <2>1 DEF InputsAreWholeOrEmpty
<1>. QED
  BY <1>4, <1>5

\* The call goes down the chain in order and fails only when each provider has;
\* and what the caller was shown is the text of the turn so far, whatever its
\* bytes are and wherever chunks cut them (Gateway::generate, on_delta).
THEOREM ChainIsFollowed == GatewaySpec => [](GatewayTypeOK /\ ShownIsTurn /\ FirstThatAnswers)
<1>1. GatewaySpec => []GatewayInv
  BY GatewayStarts, GatewayKeeps, PTL DEF GatewaySpec
<1>. QED
  BY <1>1, InvShowsTurn, PTL

\* A stream whose lines end with a line feed and whose data has no character of
\* several bytes, is the turn that its provider sent: the whole of it when it is
\* read to its end, and no half of a tool's input when it is cut, however its
\* bytes were cut into chunks and whatever failed before it (SseParser,
\* TurnAggregator, Gateway::generate).
THEOREM TurnIsAlwaysOfProvider ==
  GatewaySpec => [](framing = "lf" /\ Plain(script) => TurnIsOfProvider)
<1>1. GatewaySpec => []GatewayInv
  BY GatewayStarts, GatewayKeeps, PTL DEF GatewaySpec
<1>2. GatewayInv => (framing = "lf" /\ Plain(script) => TurnIsOfProvider)
  BY InvShowsTurn, InvMakesTurn DEF TurnIsOfProvider
<1>. QED
  BY <1>1, <1>2, PTL

=============================================================================
