----------------------- MODULE StreamManagementProofs -----------------------
(***************************************************************************)
(* Proofs about StreamManagement for any modulus and any bounds: only what *)
(* the server handled is reported as acked, each stanza once and in order, *)
(* and the accounts of both sides balance.                                 *)
(*                                                                         *)
(* The counters of the protocol are remainders, so no count that is sent   *)
(* or stored says how many stanzas it stands for.  The invariant names the *)
(* numbers they stand for: c for lastHandledByServer, w for the acks that  *)
(* wait for a name and d for those on their way (Account).  They grow      *)
(* along the way of an ack, from the client's counter to the server's,     *)
(* and what the smallest of them covers has been handled.                  *)
(***************************************************************************)
EXTENDS StreamManagement, SequenceTheorems, WellFoundedInduction, TLAPS

-----------------------------------------------------------------------------
(* Numbers and sequences.                                                  *)

\* A set of numbers has a least element, and one that is bounded a greatest.
LEMMA LeastOf ==
  ASSUME NEW T, T \subseteq Nat, T # {}
  PROVE  \E m \in T : \A k \in T : m <= k
<1>1. IsWellFoundedOn({s \in Nat \X Nat : s[1] < s[2]}, Nat)
  BY NatLessThanWellFounded DEF OpToRel
<1>2. PICK m \in T : \A y \in T : <<y, m>> \notin {s \in Nat \X Nat : s[1] < s[2]}
  BY <1>1, WFMin
<1>3. ASSUME NEW k \in T PROVE m <= k
  <2>1. m \in Nat /\ k \in Nat /\ ~(<<k, m>>[1] < <<k, m>>[2])
    BY <1>2
  <2>2. QED
    BY <2>1
<1>4. QED
  BY <1>3

\* Max of the library is the greatest element.
LEMMA GreatestOf ==
  ASSUME NEW n \in Nat, NEW T, T \subseteq 0..n, T # {}
  PROVE  Max(T) \in T /\ \A k \in T : Max(T) >= k
<1> DEFINE U == {n - k : k \in T}
<1>1. \A k \in T : k \in 0..n /\ n - k \in Nat
  OBVIOUS
<1> HIDE DEF U
<1>1a. U \subseteq Nat /\ U # {}
  BY <1>1 DEF U
<1>2. PICK m \in U : \A k \in U : m <= k
  BY <1>1a, LeastOf
<1>3. PICK x \in T : m = n - x
  BY <1>2 DEF U
<1>4. \A k \in T : x >= k
  <2>1. \A k \in T : n - k \in U
    BY DEF U
  <2>2. QED
    BY <1>1, <1>2, <1>3, <2>1
<1>5. QED
  BY <1>4 DEF Max

\* Division with remainder, for a Modulus that is not given.
LEMMA Quotient ==
  \A c \in Nat : /\ (c % Modulus) \in 0..(Modulus - 1)
                 /\ \E q \in Nat : c = q * Modulus + (c % Modulus)
<1> SUFFICES ASSUME NEW c \in Nat
             PROVE  /\ (c % Modulus) \in 0..(Modulus - 1)
                    /\ \E q \in Nat : c = q * Modulus + (c % Modulus)
  OBVIOUS
<1>1. Modulus \in Nat /\ Modulus > 0
  BY ModulusType
<1>2. (c % Modulus) \in 0..(Modulus - 1)
  BY <1>1
<1>3. (c \div Modulus) \in Nat /\ c = (c \div Modulus) * Modulus + (c % Modulus)
  BY <1>1
<1>4. QED
  BY <1>2, <1>3

\* What h says is never more than what the server handled since the last h,
\* and is just that while its counter did not wrap around.
LEMMA DiffIsSafe ==
  ASSUME NEW b \in Nat, NEW c \in Nat, b <= c
  PROVE  /\ Diff(c % Modulus, b % Modulus) \in 0..(c - b)
         /\ c < Modulus => Diff(c % Modulus, b % Modulus) = c - b
<1> DEFINE h == c % Modulus
           l == b % Modulus
<1>1. Modulus \in Nat /\ Modulus > 0
  BY ModulusType
<1>2. h \in 0..(Modulus - 1) /\ l \in 0..(Modulus - 1)
  BY <1>1
<1>3. PICK q \in Nat : c = q * Modulus + h
  BY <1>1, Quotient
<1>4. PICK p \in Nat : b = p * Modulus + l
  BY <1>1, Quotient
<1>5. c - b = (q - p) * Modulus + h - l
  BY <1>1, <1>2, <1>3, <1>4
<1>6. CASE h >= l
  <2>1. q >= p
    <3>1. SUFFICES ASSUME q - p <= -1 PROVE FALSE
      OBVIOUS
    <3>2. (q - p) * Modulus <= (-1) * Modulus
      BY <1>1, <3>1
    <3>3. QED
      BY <1>1, <1>2, <1>5, <3>2
  <2>2. (q - p) * Modulus >= 0
    BY <1>1, <2>1
  <2>3. h - l <= c - b
    BY <1>1, <1>2, <1>5, <2>2
  <2>4. QED
    BY <1>1, <1>2, <1>6, <2>3 DEF Diff
<1>7. CASE h < l
  <2>1. q - p >= 1
    <3>1. SUFFICES ASSUME q - p <= 0 PROVE FALSE
      OBVIOUS
    <3>2. (q - p) * Modulus <= 0
      BY <1>1, <3>1
    <3>3. QED
      BY <1>1, <1>2, <1>5, <1>7, <3>2
  <2>2. (q - p) * Modulus >= Modulus
    BY <1>1, <2>1
  <2>3. Modulus + h - l <= c - b
    BY <1>1, <1>2, <1>5, <2>2
  <2>4. QED
    BY <1>1, <1>2, <1>7, <2>3 DEF Diff
<1>8. QED
  BY <1>2, <1>6, <1>7

\* No multiple of Modulus but zero is that close to zero.
LEMMA MultipleIsZero ==
  ASSUME NEW k \in Int, k * Modulus < Modulus, k * Modulus > 0 - Modulus
  PROVE  k = 0
<1>1. Modulus \in Nat /\ Modulus > 0
  BY ModulusType
<1>2. k >= 1 => k * Modulus >= Modulus
  BY <1>1
<1>3. k <= -1 => k * Modulus <= (-1) * Modulus
  BY <1>1
<1>4. QED
  BY <1>1, <1>2, <1>3

\* A remainder may be taken before a sum or after it.
LEMMA ModulusSum ==
  ASSUME NEW c \in Nat, NEW n \in Nat
  PROVE  ((c % Modulus) + n) % Modulus = (c + n) % Modulus
<1> DEFINE l == c % Modulus
<1>1. Modulus \in Nat /\ Modulus > 0
  BY ModulusType
<1>2. PICK q \in Nat : c = q * Modulus + l
  BY Quotient
<1>3. l \in Nat
  BY <1>1, Quotient
<1>4. PICK p \in Nat : l + n = p * Modulus + ((l + n) % Modulus)
  BY <1>3, Quotient
<1>5. PICK r \in Nat : c + n = r * Modulus + ((c + n) % Modulus)
  BY Quotient
<1> DEFINE x == (l + n) % Modulus
           y == (c + n) % Modulus
<1>6. x \in 0..(Modulus - 1) /\ y \in 0..(Modulus - 1)
  BY <1>3, Quotient
<1>7. (q + p - r) * Modulus = y - x
  BY <1>1, <1>2, <1>3, <1>4, <1>5, <1>6
<1>8. q + p - r = 0
  BY <1>1, <1>6, <1>7, MultipleIsZero
<1>9. QED
  BY <1>1, <1>6, <1>7, <1>8

\* The head and the tail of a sequence.
LEMMA NonEmpty ==
  ASSUME NEW S, NEW s \in Seq(S)
  PROVE  /\ Len(s) \in Nat /\ (s # <<>> <=> Len(s) > 0)
         /\ s # <<>> => /\ Head(s) = s[1] /\ s[1] \in S /\ Tail(s) \in Seq(S)
                        /\ Len(Tail(s)) = Len(s) - 1
                        /\ \A i \in 1..(Len(s) - 1) : Tail(s)[i] = s[i + 1]
BY EmptySeq, LenProperties, HeadTailProperties

\* What is dropped from a list, and what is left.
LEMMA DropFacts ==
  ASSUME NEW S, NEW u \in Seq(S), NEW n \in 0..Len(u)
  PROVE  /\ Drop(u, n) \in Seq(S) /\ Len(Drop(u, n)) = Len(u) - n
         /\ \A i \in 1..(Len(u) - n) : Drop(u, n)[i] = u[n + i]
         /\ SubSeq(u, 1, n) \in Seq(S) /\ Len(SubSeq(u, 1, n)) = n
         /\ \A i \in 1..n : SubSeq(u, 1, n)[i] = u[i]
BY DEF Drop

\* Two sequences are the same when their elements are.
LEMMA SameSeq ==
  ASSUME NEW S, NEW u \in Seq(S), NEW v \in Seq(S), Len(u) = Len(v),
         \A i \in 1..Len(u) : u[i] = v[i]
  PROVE  u = v
OBVIOUS

\* To drop twice is to drop the sum, and the parts dropped are the part dropped.
LEMMA DropAgain ==
  ASSUME NEW S, NEW u \in Seq(S), NEW n \in 0..Len(u), NEW m \in 0..(Len(u) - n)
  PROVE  /\ Drop(Drop(u, n), m) = Drop(u, n + m)
         /\ SubSeq(u, 1, n) \o SubSeq(Drop(u, n), 1, m) = SubSeq(u, 1, n + m)
<1> DEFINE v == Drop(u, n)
           x == SubSeq(u, 1, n) \o SubSeq(v, 1, m)
<1>1. /\ v \in Seq(S) /\ Len(v) = Len(u) - n /\ \A i \in 1..(Len(u) - n) : v[i] = u[n + i]
      /\ SubSeq(u, 1, n) \in Seq(S) /\ Len(SubSeq(u, 1, n)) = n
      /\ \A i \in 1..n : SubSeq(u, 1, n)[i] = u[i]
  BY DropFacts
<1>2. n + m \in 0..Len(u) /\ m \in 0..Len(v)
  BY <1>1
<1>3. /\ Drop(u, n + m) \in Seq(S) /\ Len(Drop(u, n + m)) = Len(u) - (n + m)
      /\ \A i \in 1..(Len(u) - (n + m)) : Drop(u, n + m)[i] = u[(n + m) + i]
      /\ SubSeq(u, 1, n + m) \in Seq(S) /\ Len(SubSeq(u, 1, n + m)) = n + m
      /\ \A i \in 1..(n + m) : SubSeq(u, 1, n + m)[i] = u[i]
  BY <1>2, DropFacts
<1> HIDE DEF v
<1>4. /\ Drop(v, m) \in Seq(S) /\ Len(Drop(v, m)) = Len(v) - m
      /\ \A i \in 1..(Len(v) - m) : Drop(v, m)[i] = v[m + i]
      /\ SubSeq(v, 1, m) \in Seq(S) /\ Len(SubSeq(v, 1, m)) = m
      /\ \A i \in 1..m : SubSeq(v, 1, m)[i] = v[i]
  BY <1>1, <1>2, DropFacts
<1>5. Drop(v, m) = Drop(u, n + m)
  <2>1. Len(Drop(v, m)) = Len(Drop(u, n + m))
    BY <1>1, <1>2, <1>3, <1>4
  <2>2. ASSUME NEW i \in 1..Len(Drop(v, m)) PROVE Drop(v, m)[i] = Drop(u, n + m)[i]
    <3>0. i \in 1..(Len(v) - m) /\ Len(v) = Len(u) - n /\ n \in Nat /\ m \in Nat /\ Len(u) \in Nat
      BY <1>1, <1>4
    <3>1. Drop(v, m)[i] = v[m + i] /\ m + i \in 1..(Len(u) - n) /\ i \in 1..(Len(u) - (n + m))
      BY <1>4, <3>0
    <3>2. v[m + i] = u[n + (m + i)] /\ n + (m + i) = (n + m) + i
      <4>1. v[m + i] = u[n + (m + i)]
        BY ONLY <1>1, <3>1
      <4>2. n + (m + i) = (n + m) + i
        BY ONLY <3>0
      <4>3. QED
        BY ONLY <4>1, <4>2
    <3>3. QED
      <4>1. Drop(u, n + m)[i] = u[(n + m) + i]
        BY ONLY <1>3, <3>1
      <4>2. QED
        BY ONLY <3>1, <3>2, <4>1
  <2>3. QED
    BY <1>3, <1>4, <2>1, <2>2, SameSeq
<1>6. x = SubSeq(u, 1, n + m)
  <2>1. x \in Seq(S) /\ Len(x) = n + m
    BY <1>1, <1>4
  <2>2. ASSUME NEW i \in 1..Len(x) PROVE x[i] = SubSeq(u, 1, n + m)[i]
    <3>1. CASE i <= n
      BY <1>1, <1>3, <1>4, <2>1, <3>1
    <3>2. CASE i > n
      <4>1. x[i] = SubSeq(v, 1, m)[i - n] /\ i - n \in 1..m
        BY <1>1, <1>4, <2>1, <3>2
      <4>2. x[i] = v[i - n] /\ i - n \in 1..(Len(u) - n)
        BY <1>1, <1>2, <1>4, <4>1
      <4>3. x[i] = u[n + (i - n)] /\ n + (i - n) = i
        BY <1>1, <4>2
      <4>4. QED
        BY <1>3, <2>1, <4>3
    <3>3. QED
      BY <2>1, <3>1, <3>2
  <2>3. QED
    BY <1>3, <2>1, <2>2, SameSeq
<1>7. QED
  BY <1>5, <1>6 DEF v

\* The loop ends at the first stanza whose name is awaited.
LEMMA NamedFacts ==
  ASSUME NEW u, NEW d \in Nat, NEW aw, NEW n, n = Named(u, d, aw)
  PROVE  /\ n \in Nat /\ n <= d /\ \A i \in 1..n : u[i] \notin aw
         /\ n < d => u[n + 1] \in aw
<1> DEFINE T == {k \in 0..d : \A i \in 1..k : u[i] \notin aw}
<1>1. T \subseteq 0..d /\ T # {}
  OBVIOUS
<1>2. Max(T) \in T /\ \A k \in T : Max(T) >= k
  BY <1>1, GreatestOf
<1>2a. n = Max(T)
  BY DEF Named
<1> HIDE DEF T
<1>3. n \in 0..d /\ \A i \in 1..n : u[i] \notin aw
  BY <1>2, <1>2a DEF T
<1>4. ASSUME n < d PROVE u[n + 1] \in aw
  <2>1. SUFFICES ASSUME u[n + 1] \notin aw PROVE FALSE
    OBVIOUS
  <2>2. n + 1 \in 0..d /\ \A i \in 1..(n + 1) : u[i] \notin aw
    BY <1>3, <1>4, <2>1
  <2>3. n + 1 \in T
    BY <2>2 DEF T
  <2>4. n >= n + 1
    BY <1>2, <1>2a, <2>3
  <2>5. QED
    BY <1>3, <2>4
<1>5. QED
  BY <1>3, <1>4

-----------------------------------------------------------------------------
(* The state of processReceivedAck.                                        *)

\* After n stanzas were taken off the list; c stanzas of the session are acked.
Stands(s, n, c) ==
  /\ n \in 0..Len(unackedByServer)
  /\ s.unacked = Drop(unackedByServer, n)
  /\ s.acked = SubSeq(unackedByServer, 1, n)
  /\ s.offset = Lower(lastRequestOffset, n)
  /\ s.taken \in Nat /\ s.complete \in BOOLEAN
  /\ c \in Nat /\ s.last = c % Modulus

\* What an ack for t stanzas makes of it.
Takes(s, n, c, t, awaiting, p, k, b) ==
  /\ Stands(p, k, b)
  /\ n <= k /\ c <= b /\ b <= t /\ k - n <= b - c
  /\ p.complete => p.taken = s.taken + 1
  /\ ~p.complete => /\ p.taken = s.taken /\ k < Len(unackedByServer)
                    /\ unackedByServer[k + 1] \in awaiting /\ b < t
  /\ \A i \in (n + 1)..k : unackedByServer[i] \notin awaiting
  /\ t < Modulus /\ t - c <= Len(unackedByServer) - n =>
       k - n = b - c /\ (p.complete => b = t)
  /\ b = c \/ k > n \/ n = Len(unackedByServer)

\* One ack takes no more off the list than the server handled since the last one, and
\* all of it while the counter did not wrap around and no name is awaited.
LEMMA ProcessOne ==
  ASSUME unackedByServer \in Seq(Nat), lastRequestOffset \in Nat,
         NEW s, NEW n, NEW c, Stands(s, n, c), NEW t \in Nat, c <= t, NEW awaiting,
         NEW p, p = ProcessAck(s, t % Modulus, awaiting)
  PROVE  \E k, b \in Nat : Takes(s, n, c, t, awaiting, p, k, b)
<1> DEFINE u == unackedByServer
           h == t % Modulus
<1>1. /\ n \in Nat /\ n <= Len(u) /\ Len(u) \in Nat /\ c \in Nat
      /\ s.unacked \in Seq(Nat) /\ Len(s.unacked) = Len(u) - n
      /\ \A i \in 1..(Len(u) - n) : s.unacked[i] = u[n + i]
  <2>1. n \in 0..Len(u) /\ s.unacked = Drop(u, n) /\ c \in Nat
    BY DEF Stands
  <2>2. QED
    BY <2>1, DropFacts
<1>2. PICK x : x = Diff(h, s.last)
  OBVIOUS
<1>3. x \in Nat /\ x <= t - c /\ (t < Modulus => x = t - c)
  <2>1. s.last = c % Modulus
    BY DEF Stands
  <2>2. x \in 0..(t - c) /\ (t < Modulus => x = t - c)
    BY <1>1, <1>2, <2>1, DiffIsSafe
  <2>3. QED
    BY <1>1, <2>2
<1>4. PICK diff : diff = AtMost(x, Len(u) - n)
  OBVIOUS
<1>5. /\ diff \in Nat /\ diff <= Len(u) - n /\ diff <= x
      /\ x <= Len(u) - n => diff = x
      /\ diff = 0 => x = 0 \/ n = Len(u)
  BY <1>1, <1>3, <1>4 DEF AtMost
<1>6. PICK m : m = Named(s.unacked, diff, awaiting)
  OBVIOUS
<1>7. /\ m \in Nat /\ m <= diff /\ \A i \in 1..m : s.unacked[i] \notin awaiting
      /\ m < diff => s.unacked[m + 1] \in awaiting
  BY <1>5, <1>6, NamedFacts
<1>8. /\ p.unacked = Drop(s.unacked, m) /\ p.offset = Lower(s.offset, m)
      /\ p.acked = s.acked \o SubSeq(s.unacked, 1, m)
      /\ p.taken = (IF m = diff THEN s.taken + 1 ELSE s.taken)
      /\ p.complete = (m = diff)
      /\ p.last = (IF x = 0 THEN s.last
                   ELSE IF m = diff THEN h ELSE (s.last + m) % Modulus)
  BY <1>1, <1>2, <1>4, <1>6 DEF ProcessAck
<1>9. PICK k : k = n + m
  OBVIOUS
<1>10. PICK b : b = IF x = 0 THEN c ELSE IF m = diff THEN t ELSE c + m
  OBVIOUS
<1>11. /\ k \in Nat /\ k <= Len(u) /\ n <= k /\ k - n = m
       /\ b \in Nat /\ c <= b /\ b <= t /\ m <= b - c
  BY ONLY <1>1, <1>3, <1>5, <1>7, <1>9, <1>10, t \in Nat, c <= t
<1>12. t < Modulus /\ t - c <= Len(u) - n => k - n = b - c /\ (m = diff => b = t)
  BY ONLY <1>1, <1>3, <1>5, <1>7, <1>9, <1>10, t \in Nat, c <= t
<1>12a. m # diff => b < t
  BY ONLY <1>1, <1>3, <1>5, <1>7, <1>10, t \in Nat, c <= t
<1>13. b = c \/ k > n \/ n = Len(u)
  BY ONLY <1>1, <1>3, <1>5, <1>7, <1>9, <1>10
<1>14. p.unacked = Drop(u, k) /\ p.acked = SubSeq(u, 1, k)
  <2>1. n \in 0..Len(u) /\ m \in 0..(Len(u) - n)
    BY <1>1, <1>5, <1>7
  <2>2. Drop(Drop(u, n), m) = Drop(u, n + m) /\ SubSeq(u, 1, n) \o SubSeq(Drop(u, n), 1, m) = SubSeq(u, 1, n + m)
    BY ONLY <2>1, DropAgain, unackedByServer \in Seq(Nat)
  <2>3. s.unacked = Drop(u, n) /\ s.acked = SubSeq(u, 1, n)
    BY DEF Stands
  <2>4. QED
    BY ONLY <1>8, <1>9, <2>2, <2>3
<1>15. p.offset = Lower(lastRequestOffset, k)
  <2>1. s.offset = Lower(lastRequestOffset, n)
    BY DEF Stands
  <2>2. p.offset = Lower(s.offset, m)
    BY <1>8
  <2>3. QED
    BY ONLY <1>1, <1>7, <1>9, <2>1, <2>2, lastRequestOffset \in Nat DEF Lower
<1>16. p.last = b % Modulus
  <2>1. ((c % Modulus) + m) % Modulus = (c + m) % Modulus
    BY <1>1, <1>7, ModulusSum
  <2>2. s.last = c % Modulus
    BY DEF Stands
  <2>3. QED
    BY <1>8, <1>10, <2>1, <2>2
<1>17. /\ p.taken \in Nat /\ p.complete \in BOOLEAN
       /\ p.complete => m = diff /\ p.taken = s.taken + 1
       /\ ~p.complete => m # diff /\ p.taken = s.taken
  <2>1. s.taken \in Nat
    BY DEF Stands
  <2>2. CASE m = diff
    <3>1. p.complete = TRUE /\ p.taken = s.taken + 1
      BY <1>8, <2>2
    <3>2. p.complete /\ p.complete \in BOOLEAN
      BY <3>1
    <3>3. QED
      BY <2>1, <2>2, <3>1, <3>2
  <2>3. CASE m # diff
    <3>1. p.complete = FALSE /\ p.taken = s.taken
      BY <1>8, <2>3
    <3>2. ~p.complete /\ p.complete \in BOOLEAN
      BY <3>1
    <3>3. QED
      BY <2>1, <2>3, <3>1, <3>2
  <2>4. QED
    BY <2>2, <2>3
<1>18. Stands(p, k, b)
  BY <1>1, <1>11, <1>14, <1>15, <1>16, <1>17 DEF Stands
<1>19. ASSUME ~p.complete
       PROVE  k < Len(u) /\ u[k + 1] \in awaiting
  <2>1. m < diff
    BY <1>5, <1>7, <1>17, <1>19
  <2>2. m + 1 \in 1..(Len(u) - n) /\ n + (m + 1) = k + 1
    BY <1>1, <1>5, <1>7, <1>9, <2>1
  <2>3. s.unacked[m + 1] = u[n + (m + 1)]
    BY <1>1, <2>2
  <2>4. u[k + 1] \in awaiting
    BY <1>7, <2>1, <2>2, <2>3
  <2>5. k < Len(u)
    BY <1>1, <1>5, <1>7, <1>9, <2>1
  <2>6. QED
    BY <2>4, <2>5
<1>20. ASSUME NEW i \in (n + 1)..k PROVE u[i] \notin awaiting
  <2>1. i - n \in 1..m /\ i - n \in 1..(Len(u) - n) /\ n + (i - n) = i
    BY <1>1, <1>5, <1>7, <1>9
  <2>2. QED
    BY <1>1, <1>7, <2>1
<1>21. Takes(s, n, c, t, awaiting, p, k, b)
  BY <1>11, <1>12, <1>12a, <1>13, <1>17, <1>18, <1>19, <1>20 DEF Takes
<1>22. QED
  BY <1>11, <1>21

\* How the acks that wait are processed, one after the other.
LEMMA AfterAcks ==
  ASSUME NEW acks \in Seq(Nat), NEW awaiting
  PROVE  \E f : /\ f[0] = AckState
                /\ \A i \in 1..Len(acks) :
                     f[i] = IF f[i - 1].complete THEN ProcessAck(f[i - 1], acks[i], awaiting)
                            ELSE f[i - 1]
                /\ ProcessAcks(acks, awaiting) = f[Len(acks)]
<1> DEFINE Next1(x, i) == IF x.complete THEN ProcessAck(x, acks[i], awaiting) ELSE x
           Upto(m, f) == f = [i \in 0..m |-> IF i = 0 THEN AckState
                                             ELSE IF f[i - 1].complete THEN ProcessAck(f[i - 1], acks[i], awaiting)
                                             ELSE f[i - 1]]
           T == {m \in Nat : ~ \E f : Upto(m, f)}
<1>1. T = {}
  <2>1. SUFFICES ASSUME T # {} PROVE FALSE
    OBVIOUS
  <2>2. PICK m \in T : \A k \in T : m <= k
    BY <2>1, LeastOf
  <2>3. CASE m = 0
    <3> DEFINE f == [i \in 0..0 |-> AckState]
    <3>1. Upto(0, f)
      OBVIOUS
    <3> HIDE DEF f, Upto
    <3>2. QED
      BY <2>2, <2>3, <3>1
  <2>4. CASE m > 0
    <3>1. m - 1 \in Nat /\ m - 1 \notin T /\ m \in Nat
      <4>1. m \in Nat
        BY <2>2
      <4> HIDE DEF T
      <4>2. QED
        BY <2>2, <2>4, <4>1
    <3>2. PICK g : Upto(m - 1, g)
      BY <3>1
    <3> DEFINE f == [i \in 0..m |-> IF i = m THEN Next1(g[m - 1], m) ELSE g[i]]
    <3>3. f[0] = AckState /\ \A i \in 1..(m - 1) : f[i] = Next1(f[i - 1], i)
      <4>1. \A i \in 0..(m - 1) : f[i] = g[i]
        BY ONLY <2>4, <3>1
      <4>2. g[0] = AckState /\ \A i \in 1..(m - 1) : g[i] = Next1(g[i - 1], i)
        BY <3>1, <3>2
      <4>3. 0 \in 0..(m - 1) /\ \A i \in 1..(m - 1) : i - 1 \in 0..(m - 1) /\ i \in 0..(m - 1)
        BY ONLY <2>4, <3>1
      <4> HIDE DEF f, Next1
      <4>4. QED
        BY ONLY <4>1, <4>2, <4>3
    <3>4. f[m] = Next1(f[m - 1], m)
      BY <2>4, <3>1
    <3>5. \A i \in 0..m : f[i] = IF i = 0 THEN AckState ELSE Next1(f[i - 1], i)
      <4>1. ASSUME NEW i \in 0..m PROVE f[i] = IF i = 0 THEN AckState ELSE Next1(f[i - 1], i)
        <5>1. i = 0 \/ i \in 1..(m - 1) \/ i = m
          BY <3>1
        <5> HIDE DEF f, Next1
        <5>2. QED
          BY <2>4, <3>3, <3>4, <5>1
      <4>2. QED
        BY <4>1
    <3>6. Upto(m, f)
      BY <3>5
    <3> HIDE DEF f, Upto
    <3>7. QED
      BY <2>2, <3>6
  <2>5. QED
    BY <2>2, <2>3, <2>4
<1>2. \E f : Upto(Len(acks), f)
  BY <1>1
<1> DEFINE f == CHOOSE f : Upto(Len(acks), f)
<1>3. Upto(Len(acks), f)
  <2> HIDE DEF Upto
  <2>1. QED
    BY <1>2
<1>4. ProcessAcks(acks, awaiting) = f[Len(acks)]
  BY DEF ProcessAcks
<1> HIDE DEF f
<1>5. /\ f[0] = AckState
      /\ \A i \in 1..Len(acks) : f[i] = Next1(f[i - 1], i)
  <2>1. \A i \in 0..Len(acks) : f[i] = IF i = 0 THEN AckState ELSE Next1(f[i - 1], i)
    BY <1>3
  <2> HIDE DEF Next1
  <2>2. QED
    BY <2>1
<1>6. QED
  BY <1>4, <1>5

\* What all the acks that wait, for w[1], w[2], ... stanzas, make of the list.
TakesAll(c, w, awaiting, p, k, b) ==
  /\ Stands(p, k, b)
  /\ c <= b /\ b <= w[Len(unprocessed)] /\ k <= b - c
  /\ p.taken <= Len(unprocessed)
  /\ p.taken < Len(unprocessed) =>
       /\ k < Len(unackedByServer) /\ unackedByServer[k + 1] \in awaiting
       /\ b < w[p.taken + 1]
  /\ \A j \in (p.taken + 1)..Len(unprocessed) : b <= w[j]
  /\ w[Len(unprocessed)] < Modulus /\ w[Len(unprocessed)] - c <= Len(unackedByServer) =>
       k = b - c /\ \A j \in 1..p.taken : w[j] <= b

\* The acks that waited take no more off the list than the last of them says.
LEMMA ProcessAll ==
  ASSUME unackedByServer \in Seq(Nat), lastRequestOffset \in Nat,
         unprocessed \in Seq(Nat), unprocessed # <<>>,
         NEW c \in Nat, lastHandledByServer = c % Modulus,
         NEW w,
         \A i \in 1..Len(unprocessed) : /\ w[i] \in Nat /\ c <= w[i]
                                         /\ unprocessed[i] = w[i] % Modulus,
         \A i, j \in 1..Len(unprocessed) : i < j => w[i] <= w[j],
         NEW awaiting
  PROVE  \E k, b \in Nat : TakesAll(c, w, awaiting, ProcessAcks(unprocessed, awaiting), k, b)
<1> DEFINE u == unackedByServer
<1>0. PICK n : n = Len(unprocessed)
  OBVIOUS
<1>1. /\ n \in Nat /\ n > 0 /\ Len(u) \in Nat
  BY <1>0, NonEmpty
<1>1a. \A i \in 1..n : w[i] \in Nat /\ c <= w[i]
  BY <1>0
<1>1b. \A i, j \in 1..n : i < j => w[i] <= w[j]
  BY <1>0
<1>1c. \A i \in 1..n : unprocessed[i] = w[i] % Modulus
  BY <1>0
<1>2. PICK f : /\ f[0] = AckState
               /\ \A i \in 1..n :
                     f[i] = IF f[i - 1].complete THEN ProcessAck(f[i - 1], unprocessed[i], awaiting)
                            ELSE f[i - 1]
               /\ ProcessAcks(unprocessed, awaiting) = f[n]
  BY <1>0, AfterAcks
<1> DEFINE Fits(i, k, b) ==
             /\ Stands(f[i], k, b)
             /\ c <= b /\ b <= w[n] /\ k <= b - c
             /\ f[i].taken <= i
             /\ f[i].complete => f[i].taken = i
             /\ ~f[i].complete => k < Len(u) /\ u[k + 1] \in awaiting /\ b < w[f[i].taken + 1]
             /\ \A j \in (f[i].taken + 1)..n : b <= w[j]
             /\ w[n] < Modulus /\ w[n] - c <= Len(u) =>
                  k = b - c /\ \A j \in 1..f[i].taken : w[j] <= b
           T == {i \in 0..n : ~ \E k, b \in Nat : Fits(i, k, b)}
<1>3. Fits(0, 0, c)
  <2>1. /\ f[0].unacked = u /\ f[0].acked = <<>> /\ f[0].offset = lastRequestOffset
        /\ f[0].last = lastHandledByServer /\ f[0].taken = 0 /\ f[0].complete = TRUE
    BY <1>2 DEF AckState
  <2>2. Drop(u, 0) = u /\ SubSeq(u, 1, 0) = <<>> /\ Lower(lastRequestOffset, 0) = lastRequestOffset
    BY DEF Drop, Lower
  <2>3. Stands(f[0], 0, c)
    <3>0. 0 \in 0..Len(u)
      BY ONLY <1>1
    <3>1. f[0].taken = 0 /\ f[0].complete = TRUE
      BY <2>1
    <3>1a. f[0].taken \in Nat
      BY ONLY <3>1
    <3>1b. f[0].complete \in BOOLEAN
      BY ONLY <3>1
    <3>2. QED
      BY <2>1, <2>2, <3>0, <3>1a, <3>1b DEF Stands
  <2>4. f[0].complete
    BY <2>1
  <2>5. c <= w[n]
    BY <1>1, <1>1a
  <2>6. \A j \in (f[0].taken + 1)..n : c <= w[j]
    BY <1>1a, <2>1
  <2>7. \A j \in 1..f[0].taken : w[j] <= c
    BY <2>1
  <2>8. f[0].taken = 0
    BY <2>1
  <2>9. QED
    BY <2>3, <2>4, <2>5, <2>6, <2>7, <2>8
<1>4. ASSUME NEW i \in 1..n, NEW k \in Nat, NEW b \in Nat, Fits(i - 1, k, b)
      PROVE  \E l, d \in Nat : Fits(i, l, d)
  <2>1. CASE ~f[i - 1].complete
    <3>1. f[i] = f[i - 1]
      BY <1>2, <2>1
    <3>2. f[i].taken <= i
      <4>1. f[i - 1].taken \in Nat /\ f[i - 1].taken <= i - 1
        BY <1>4 DEF Stands
      <4>2. QED
        BY ONLY <3>1, <4>1, i \in 1..n, <1>1
    <3>3. Fits(i, k, b)
      BY <1>4, <2>1, <3>1, <3>2
    <3> HIDE DEF Fits
    <3>4. QED
      BY <3>3
  <2>2. CASE f[i - 1].complete
    <3>1. f[i] = ProcessAck(f[i - 1], w[i] % Modulus, awaiting) /\ w[i] \in Nat
      BY <1>1a, <1>1c, <1>2, <2>2
    <3>2. f[i - 1].taken = i - 1 /\ i - 1 \in Nat /\ Stands(f[i - 1], k, b)
      <4>1. Stands(f[i - 1], k, b) /\ (f[i - 1].complete => f[i - 1].taken = i - 1)
        BY <1>4
      <4>2. QED
        BY <1>1, <2>2, <4>1
    <3>3. b <= w[i]
      BY <1>1, <1>4, <3>2
    <3>4. PICK l, d \in Nat : Takes(f[i - 1], k, b, w[i], awaiting, f[i], l, d)
      <4> HIDE DEF Fits
      <4>1. QED
        BY <3>1, <3>2, <3>3, ProcessOne
    <3>5. k <= b - c /\ c <= b
      BY <1>4
    <3>6. w[i] <= w[n] /\ w[n] \in Nat /\ w[i] \in Nat
      BY ONLY <1>1, <1>1a, <1>1b, i \in 1..n
    <3> DEFINE s == f[i - 1]
               p == f[i]
    <3>7. /\ Stands(p, l, d) /\ k <= l /\ b <= d /\ d <= w[i] /\ l - k <= d - b
          /\ p.complete => p.taken = s.taken + 1
          /\ ~p.complete => p.taken = s.taken /\ l < Len(u) /\ u[l + 1] \in awaiting
          /\ w[i] < Modulus /\ w[i] - b <= Len(u) - k =>
               l - k = d - b /\ (p.complete => d = w[i])
      BY <3>4 DEF Takes
    <3>8. p.taken <= i /\ (p.complete => p.taken = i) /\ (~p.complete => p.taken = i - 1)
      <4>1. p.taken \in Nat /\ (p.complete \/ ~p.complete)
        BY <3>7 DEF Stands
      <4>2. i \in Nat
        OBVIOUS
      <4>3. QED
        BY ONLY <3>2, <3>7, <4>1, <4>2
    <3>7a. l \in Nat /\ d \in Nat /\ b \in Nat /\ k \in Nat /\ c \in Nat /\ i \in 1..n
      OBVIOUS
    <3>8a. ~p.complete => d < w[p.taken + 1]
      <4>1. ~p.complete => p.taken + 1 = i
        BY ONLY <3>7a, <3>8, <1>1
      <4>2. ~p.complete => d < w[i]
        BY <3>4 DEF Takes
      <4>3. QED
        BY <4>1, <4>2
    <3>9. c <= d /\ d <= w[n] /\ l <= d - c
      <4>1. k <= l /\ b <= d /\ d <= w[i] /\ l - k <= d - b
        BY <3>7
      <4>2. QED
        BY ONLY <3>5, <3>6, <3>7a, <4>1
    <3>10. \A j \in (p.taken + 1)..n : d <= w[j]
      <4>1. SUFFICES ASSUME NEW j \in (p.taken + 1)..n PROVE d <= w[j]
        OBVIOUS
      <4>2. j \in 1..n /\ j >= i
        <5>1. p.taken >= i - 1 /\ p.taken \in Nat
          <6>1. p.taken \in Nat /\ (p.complete \/ ~p.complete)
            BY <3>7 DEF Stands
          <6>2. QED
            BY ONLY <1>1, <3>8, <6>1, i \in 1..n
        <5>2. QED
          BY ONLY <1>1, <5>1, <3>7a, j \in (p.taken + 1)..n
      <4>3. w[i] <= w[j] /\ w[j] \in Nat /\ w[i] \in Nat
        BY ONLY <1>1a, <1>1b, <4>2, i \in 1..n
      <4>4. QED
        BY ONLY <3>7, <3>7a, <4>2, <4>3
    <3>11. ASSUME w[n] < Modulus, w[n] - c <= Len(u)
           PROVE  l = d - c /\ \A j \in 1..p.taken : w[j] <= d
      <4>1. k = b - c /\ \A j \in 1..(i - 1) : w[j] <= b
        <5>1. f[i - 1].taken = i - 1
          BY <3>2
        <5>2. k = b - c /\ \A j \in 1..f[i - 1].taken : w[j] <= b
          BY <1>4, <3>11
        <5>3. QED
          BY ONLY <5>1, <5>2
      <4>2. w[i] < Modulus /\ w[i] - b <= Len(u) - k
        <5>1. w[n] < Modulus /\ w[n] - c <= Len(u)
          BY <3>11
        <5>2. Modulus \in Nat
          BY ModulusType
        <5>3. QED
          BY ONLY <1>1, <3>5, <3>6, <3>7a, <4>1, <5>1, <5>2
      <4>3. l - k = d - b /\ (p.complete => d = w[i])
        BY <3>7, <4>2
      <4>4. ASSUME NEW j \in 1..p.taken PROVE w[j] <= d
        <5>1. CASE j \in 1..(i - 1)
          <6>1. w[j] <= b /\ w[j] \in Nat
            BY <1>1, <1>1a, <4>1, <5>1, i \in 1..n
          <6>2. b <= d
            BY <3>7
          <6>3. QED
            BY ONLY <6>1, <6>2, <3>7a
        <5>2. CASE j = i
          <6>1. p.complete
            <7>1. p.taken # i - 1
              <8>1. p.taken \in Nat
                BY <3>7 DEF Stands
              <8>2. QED
                BY ONLY <3>7a, <5>2, <8>1, j \in 1..p.taken
            <7>2. QED
              BY <3>8, <7>1
          <6>2. QED
            BY <4>3, <5>2, <6>1
        <5>3. p.taken \in Nat /\ p.taken <= i
          BY <3>7, <3>8 DEF Stands
        <5>4. j \in 1..(i - 1) \/ j = i
          BY ONLY <3>7a, <5>3, j \in 1..p.taken
        <5>5. QED
          BY <5>1, <5>2, <5>4
      <4>5. QED
        BY <4>1, <4>3, <4>4
    <3>12. Fits(i, l, d)
      BY <3>7, <3>8, <3>8a, <3>9, <3>10, <3>11
    <3> HIDE DEF Fits
    <3>13. QED
      BY <3>12
  <2>3. QED
    BY <2>1, <2>2
<1> HIDE DEF Fits
<1>5. T = {}
  <2>1. SUFFICES ASSUME T # {} PROVE FALSE
    OBVIOUS
  <2> HIDE DEF T
  <2>1a. T \subseteq Nat
    BY DEF T
  <2>2. PICK m \in T : \A i \in T : m <= i
    BY <2>1, <2>1a, LeastOf
  <2> USE DEF T
  <2>3. m # 0
    BY <1>3, <2>2
  <2>4. m \in 1..n /\ m - 1 \in 0..n
    <3>1. m \in 0..n
      BY <2>2
    <3>2. QED
      BY ONLY <1>1, <2>3, <3>1
  <2>5. m - 1 \notin T
    <3>1. m \in Nat
      BY <2>2
    <3> HIDE DEF T
    <3>2. QED
      BY <2>2, <2>4, <3>1
  <2>6. \E k, b \in Nat : Fits(m - 1, k, b)
    BY <2>4, <2>5
  <2>7. \E k, b \in Nat : Fits(m, k, b)
    BY <1>4, <2>4, <2>6
  <2>8. QED
    BY <2>2, <2>7
<1>6. PICK k, b \in Nat : Fits(n, k, b)
  <2>0. n \in 0..n
    BY ONLY <1>1
  <2>1. n \in 0..n /\ n \notin T
    <3> HIDE DEF T
    <3>1. QED
      BY ONLY <1>5, <2>0
  <2>2. QED
    BY <2>1
<1>7. f[n].taken < n => ~f[n].complete
  <2>1. f[n].complete => f[n].taken = n
    BY <1>6 DEF Fits
  <2>2. QED
    BY ONLY <1>1, <2>1
<1>8. TakesAll(c, w, awaiting, f[n], k, b)
  BY <1>0, <1>6, <1>7 DEF Fits, TakesAll
<1>9. QED
  BY <1>2, <1>8

\* What is at the end of a longer sequence.
LEMMA AppendFacts ==
  ASSUME NEW S, NEW s \in Seq(S), NEW e \in S
  PROVE  /\ Append(s, e) \in Seq(S) /\ Len(Append(s, e)) = Len(s) + 1 /\ Append(s, e) # <<>>
         /\ Append(s, e)[Len(s) + 1] = e
         /\ \A i \in 1..Len(s) : Append(s, e)[i] = s[i]
BY AppendProperties, LenProperties

\* The loop over the names that were stored.
LEMMA IdentifiedLoop ==
  ASSUME NEW names \in Seq(Nat)
  PROVE  \E f : /\ f[0] = <<>>
                /\ \A i \in 1..Len(names) :
                     f[i] = IF names[i] = NoId THEN f[i - 1] ELSE Append(f[i - 1], names[i])
                /\ Identified(names) = f[Len(names)]
<1> DEFINE Upto(m, f) == f = [i \in 0..m |-> IF i = 0 THEN <<>>
                                             ELSE IF names[i] = NoId THEN f[i - 1]
                                             ELSE Append(f[i - 1], names[i])]
           Step(x, i) == IF names[i] = NoId THEN x ELSE Append(x, names[i])
           T == {m \in Nat : ~ \E f : Upto(m, f)}
<1>1. T = {}
  <2>1. SUFFICES ASSUME T # {} PROVE FALSE
    OBVIOUS
  <2>2. PICK m \in T : \A k \in T : m <= k
    BY <2>1, LeastOf
  <2>3. CASE m = 0
    <3> DEFINE f == [i \in 0..0 |-> <<>>]
    <3>1. Upto(0, f)
      OBVIOUS
    <3> HIDE DEF f, Upto
    <3>2. QED
      BY <2>2, <2>3, <3>1
  <2>4. CASE m > 0
    <3>1. m - 1 \in Nat /\ m - 1 \notin T /\ m \in Nat
      <4>1. m \in Nat
        BY <2>2
      <4> HIDE DEF T
      <4>2. QED
        BY <2>2, <2>4, <4>1
    <3>2. PICK g : Upto(m - 1, g)
      BY <3>1
    <3> DEFINE f == [i \in 0..m |-> IF i = m THEN Step(g[m - 1], m) ELSE g[i]]
    <3>2a. g[0] = <<>> /\ \A i \in 1..(m - 1) : g[i] = Step(g[i - 1], i)
      <4>1. \A i \in 0..(m - 1) : g[i] = IF i = 0 THEN <<>> ELSE Step(g[i - 1], i)
        BY <3>2
      <4>2. 0 \in 0..(m - 1) /\ \A i \in 1..(m - 1) : i \in 0..(m - 1) /\ i # 0
        BY ONLY <3>1
      <4> HIDE DEF Step
      <4>3. QED
        BY ONLY <4>1, <4>2
    <3>2b. \A i \in 0..(m - 1) : f[i] = g[i]
      BY <3>1
    <3>3. f[0] = <<>> /\ \A i \in 1..(m - 1) : f[i] = Step(f[i - 1], i)
      <4> HIDE DEF f, Step
      <4>1. 0 \in 0..(m - 1) /\ \A i \in 1..(m - 1) : i \in 0..(m - 1) /\ i - 1 \in 0..(m - 1)
        BY <3>1
      <4>2. QED
        BY <3>2a, <3>2b, <4>1
    <3>4. f[m] = Step(f[m - 1], m)
      BY <2>4, <3>1
    <3>5. \A i \in 0..m : f[i] = IF i = 0 THEN <<>> ELSE Step(f[i - 1], i)
      <4>1. ASSUME NEW i \in 0..m PROVE f[i] = IF i = 0 THEN <<>> ELSE Step(f[i - 1], i)
        <5>1. i = 0 \/ i \in 1..(m - 1) \/ i = m
          BY <3>1
        <5> HIDE DEF f, Step
        <5>2. QED
          BY <2>4, <3>3, <3>4, <5>1
      <4>2. QED
        BY <4>1
    <3>6. Upto(m, f)
      BY <3>5
    <3> HIDE DEF f, Upto
    <3>7. QED
      BY <2>2, <3>6
  <2>5. QED
    BY <2>2, <2>3, <2>4
<1>2. \E f : Upto(Len(names), f)
  BY <1>1
<1> DEFINE f == CHOOSE f : Upto(Len(names), f)
<1>3. Upto(Len(names), f)
  <2> HIDE DEF Upto
  <2>1. QED
    BY <1>2
<1>4. Identified(names) = f[Len(names)]
  BY DEF Identified
<1> HIDE DEF f
<1>5. f[0] = <<>> /\ \A i \in 1..Len(names) : f[i] = Step(f[i - 1], i)
  <2>1. \A i \in 0..Len(names) : f[i] = IF i = 0 THEN <<>> ELSE Step(f[i - 1], i)
    BY <1>3
  <2>2. Len(names) \in Nat
    OBVIOUS
  <2>3. 0 \in 0..Len(names) /\ \A i \in 1..Len(names) : i \in 0..Len(names) /\ i # 0
    BY ONLY <2>2
  <2> HIDE DEF Step
  <2>4. QED
    BY ONLY <2>1, <2>3
<1>6. QED
  BY <1>4, <1>5

\* The names stored for a run of stanzas come out in order.
LEMMA IdentifiedFacts ==
  ASSUME NEW names \in Seq(Nat), NEW b \in Nat,
         \A i \in 1..Len(names) : names[i] = NoId \/ names[i] = b + i
  PROVE  /\ Identified(names) \in Seq(Nat)
         /\ \A i \in 1..Len(Identified(names)) :
              Identified(names)[i] > b /\ Identified(names)[i] <= b + Len(names)
         /\ \A i, j \in 1..Len(Identified(names)) :
              i < j => Identified(names)[i] < Identified(names)[j]
<1>0. PICK n : n = Len(names)
  OBVIOUS
<1>1. n \in Nat
  BY <1>0
<1>2. PICK f : /\ f[0] = <<>>
               /\ \A i \in 1..n :
                    f[i] = IF names[i] = NoId THEN f[i - 1] ELSE Append(f[i - 1], names[i])
               /\ Identified(names) = f[n]
  BY <1>0, IdentifiedLoop
<1> DEFINE Fits(x, i) ==
             /\ x \in Seq(Nat)
             /\ \A k \in 1..Len(x) : x[k] > b /\ x[k] <= b + i
             /\ \A k, l \in 1..Len(x) : k < l => x[k] < x[l]
           T == {i \in 0..n : ~Fits(f[i], i)}
<1>3. Fits(f[0], 0)
  BY <1>2
<1>4. ASSUME NEW i \in 1..n, Fits(f[i - 1], i - 1) PROVE Fits(f[i], i)
  <2>1. PICK x : x = f[i - 1]
    OBVIOUS
  <2>2. /\ x \in Seq(Nat) /\ \A k \in 1..Len(x) : x[k] > b /\ x[k] <= b + (i - 1)
        /\ \A k, l \in 1..Len(x) : k < l => x[k] < x[l]
    BY <1>4, <2>1
  <2>3. CASE names[i] = NoId
    <3>1. f[i] = x
      BY <1>2, <2>1, <2>3
    <3>2. \A k \in 1..Len(x) : x[k] > b /\ x[k] <= b + i
      BY <1>1, <2>2
    <3>3. QED
      BY <2>2, <3>1, <3>2
  <2>4. CASE names[i] # NoId
    <3>0. names[i] = b + i /\ b + i \in Nat
      BY <1>0, <2>4
    <3>1. f[i] = Append(x, b + i) /\ b + i \in Nat
      BY <1>2, <2>1, <2>4, <3>0
    <3>2. PICK y : y = Append(x, b + i)
      OBVIOUS
    <3>3. /\ y \in Seq(Nat) /\ Len(y) = Len(x) + 1 /\ y[Len(x) + 1] = b + i
          /\ \A k \in 1..Len(x) : y[k] = x[k]
      BY <2>2, <3>1, <3>2, AppendFacts
    <3>4. ASSUME NEW k \in 1..Len(y) PROVE y[k] > b /\ y[k] <= b + i
      <4>1. k \in 1..Len(x) \/ k = Len(x) + 1
        BY <2>2, <3>3
      <4>2. CASE k \in 1..Len(x)
        <5>1. y[k] = x[k] /\ x[k] \in Nat /\ x[k] > b /\ x[k] <= b + (i - 1)
          <6>1. y[k] = x[k]
            BY ONLY <3>3, <4>2
          <6>2. x \in Seq(Nat) /\ k \in 1..Len(x)
            BY ONLY <2>2, <4>2
          <6>3. x[k] \in Nat
            BY ONLY <6>2
          <6>4. x[k] > b /\ x[k] <= b + (i - 1)
            BY ONLY <2>2, <6>2
          <6>5. QED
            BY ONLY <6>1, <6>3, <6>4
        <5>2. QED
          BY ONLY <1>1, <5>1, b \in Nat, i \in 1..n
      <4>3. CASE k = Len(x) + 1
        BY ONLY <1>1, <3>3, <4>3, b \in Nat, i \in 1..n
      <4>4. QED
        BY <4>1, <4>2, <4>3
    <3>5. ASSUME NEW k \in 1..Len(y), NEW l \in 1..Len(y), k < l PROVE y[k] < y[l]
      <4>1. k \in 1..Len(x) /\ (l \in 1..Len(x) \/ l = Len(x) + 1)
        <5>1. Len(x) \in Nat /\ Len(y) = Len(x) + 1
          BY <2>2, <3>3
        <5>2. QED
          BY ONLY <3>5, <5>1, k \in 1..Len(y), l \in 1..Len(y)
      <4>2. CASE l \in 1..Len(x)
        BY ONLY <2>2, <3>3, <3>5, <4>1, <4>2
      <4>3. CASE l = Len(x) + 1
        <5>1. y[k] = x[k] /\ x[k] <= b + (i - 1) /\ x[k] \in Nat
          <6>1. y[k] = x[k]
            BY ONLY <3>3, <4>1
          <6>2. x \in Seq(Nat) /\ k \in 1..Len(x)
            BY ONLY <2>2, <4>1
          <6>3. x[k] \in Nat
            BY ONLY <6>2
          <6>4. x[k] > b /\ x[k] <= b + (i - 1)
            BY ONLY <2>2, <6>2
          <6>5. QED
            BY ONLY <6>1, <6>3, <6>4
        <5>2. QED
          BY <1>1, <3>3, <4>3, <5>1
      <4>4. QED
        BY <4>1, <4>2, <4>3
    <3>6. QED
      BY <3>1, <3>2, <3>3, <3>4, <3>5
  <2>5. QED
    BY <2>3, <2>4
<1> HIDE DEF Fits
<1>5. T = {}
  <2>1. SUFFICES ASSUME T # {} PROVE FALSE
    OBVIOUS
  <2>1a. T \subseteq Nat /\ T \subseteq 0..n /\ \A i \in 0..n : i \in T <=> ~Fits(f[i], i)
    OBVIOUS
  <2> HIDE DEF T
  <2>2. PICK m \in T : \A i \in T : m <= i
    BY <2>1, <2>1a, LeastOf
  <2>3. m # 0
    BY <1>3, <2>1a, <2>2
  <2>4. m \in 1..n /\ m - 1 \in 0..n
    BY <1>1, <2>1a, <2>2, <2>3
  <2>5. m - 1 \notin T
    BY <2>2, <2>4
  <2>7. QED
    BY <1>4, <2>1a, <2>2, <2>4, <2>5
<1>6. Fits(f[n], n)
  <2>1. n \in 0..n
    BY <1>1
  <2>2. QED
    BY <1>5, <2>1
<1>7. QED
  BY <1>0, <1>2, <1>6 DEF Fits

-----------------------------------------------------------------------------
(* The invariant.                                                          *)

UpElement ==
  {<<"enable">>, <<"r">>} \cup ({"stanza"} \X Nat) \cup ({"a"} \X (0..(Modulus - 1)))
  \cup ({"resume"} \X Nat \X (0..(Modulus - 1)))
DownElement ==
  {<<"failed">>} \cup ({"resumed", "a"} \X (0..(Modulus - 1)))
  \cup ({"enabled", "stanza"} \X Nat)
Store == [id : Nat, byClient : 0..(Modulus - 1), byServer : 0..(Modulus - 1),
          pending : Seq(0..MaxSent)]
Server == [id : Nat, on : BOOLEAN, in : Nat, out : Nat, acked : Nat]

PhaseType == conn \in Connection /\ sm \in {"off", "enableQueued", "enableSent", "started"}
ListType ==
  /\ unackedByServer \in Seq(1..MaxSent) /\ lastRequestOffset \in 0..Len(unackedByServer)
  /\ prevUnacked \in Seq(0..MaxSent)
AckType ==
  /\ requestTimer \in BOOLEAN /\ lastHandledByServer \in 0..(Modulus - 1)
  /\ unprocessed \in Seq(0..(Modulus - 1))
StoreType == lastHandledByClient \in 0..(Modulus - 1) /\ store \in Store
WireType == up \in Seq(UpElement) /\ down \in Seq(DownElement)
ServerType == server \in Server /\ ids \in Nat
SentType == sent \in 0..MaxSent /\ tracked \in 0..sent /\ unanswered \subseteq 1..sent
HistoryType == got \in Seq(Nat) /\ reported \in Seq(Nat)
Types ==
  /\ PhaseType /\ ListType /\ AckType /\ StoreType /\ WireType /\ ServerType
  /\ SentType /\ HistoryType

\* The stanzas sent before this session, and the session the client can resume.
Before == sent - tracked
Match == store.id # NoId /\ server.id = store.id
Resumable == sm = "off" /\ Match

Kinds(s, K) == \A i \in 1..Len(s) : s[i][1] \in K
FirstThen(s, K) == \A i \in 2..Len(s) : s[i][1] \in K

\* What is on its way while the client resumes.
Resuming ==
  /\ store.id # NoId /\ unackedByServer = <<>> /\ unprocessed = <<>>
  /\ lastHandledByServer = store.byServer /\ lastHandledByClient = store.byClient
  /\ \/ up = <<<<"resume", store.id, store.byClient>>>> /\ down = <<>> /\ ~server.on
     \/ up = <<>> /\ down = <<<<"failed">>>> /\ ~server.on
     \/ /\ up = <<>> /\ Match /\ server.on
        /\ down # <<>> /\ down[1] = <<"resumed", server.in % Modulus>>
        /\ FirstThen(down, {"stanza"})

\* What is on its way while the client enables stream management.
Requesting ==
  /\ up # <<>> /\ up[1] = <<"enable">> /\ FirstThen(up, {"stanza", "r"})
  /\ down = <<>> /\ server = NoSession
Refused == down = <<<<"failed">>>> /\ Kinds(up, {"stanza", "r"}) /\ server = NoSession
Granted ==
  /\ server.on /\ server.id = ids /\ store.id # ids /\ server.acked = 0
  /\ down # <<>> /\ down[1][1] = "enabled" /\ down[1][2] \in {ids, NoId}
  /\ FirstThen(down, {"a", "stanza"})
  /\ Kinds(up, {"stanza", "r"})

Ordered ==
  /\ sm # "off" => conn = "online"
  /\ conn # "resuming" => prevUnacked = <<>>
  /\ sm \in {"off", "enableQueued"} => ~requestTimer
Sessions == store.id <= ids /\ server.id <= ids /\ (server.on => server.id # NoId)
Offline ==
  /\ conn \in {"down", "binding", "bound"} => up = <<>> /\ down = <<>> /\ ~server.on
  /\ conn = "bound" => server = NoSession
Unmanaged ==
  conn = "online" /\ sm = "off" =>
    server = NoSession /\ down = <<>> /\ Kinds(up, {"stanza", "r"})
Resumption == conn = "resuming" => Resuming
Enabling ==
  /\ sm = "enableQueued" =>
       /\ unackedByServer = <<>> /\ unprocessed = <<>>
       /\ up = <<>> /\ down = <<>> /\ server = NoSession
  /\ sm = "enableSent" =>
       /\ unprocessed = <<>> /\ Len(unackedByServer) = tracked
       /\ Requesting \/ Refused \/ Granted
Started ==
  sm = "started" =>
    /\ server.on /\ store.id \in {NoId, server.id}
    /\ Kinds(up, {"stanza", "r", "a"}) /\ Kinds(down, {"stanza", "a"})

Phases ==
  Ordered /\ Sessions /\ Offline /\ Unmanaged /\ Resumption /\ Enabling /\ Started

\* The stanzas in the list, and in the list of a connection before, are the
\* last ones sent; everything reported was sent before.
Open == Len(unackedByServer) + Len(prevUnacked)
Listed ==
  /\ \A i \in 1..Len(unackedByServer) :
       unackedByServer[i] = sent - Len(unackedByServer) + i
  /\ Len(unackedByServer) <= tracked
  /\ unprocessed # <<>> => unackedByServer # <<>> /\ unackedByServer[1] \in unanswered
  /\ \A i, j \in 1..Len(reported) : i < j => reported[i] < reported[j]
  /\ \A i \in 1..Len(reported) :
       /\ reported[i] <= sent - Len(unackedByServer)
       /\ Resumable => reported[i] <= sent - Open

\* What would be reported if the session were resumed.
Pending ==
  Resumable =>
    /\ conn \in {"down", "binding"} =>
         /\ Len(store.pending) = Len(unackedByServer)
         /\ \A i \in 1..Len(store.pending) :
              store.pending[i] = NoId \/ store.pending[i] = unackedByServer[i]
         /\ store.byServer = lastHandledByServer
    /\ Open <= tracked
    /\ \A i \in 1..Len(prevUnacked) :
         prevUnacked[i] = NoId \/ prevUnacked[i] = sent - Len(prevUnacked) + i

\* The stanzas in s are those numbered lo + 1 to hi, in order.
Stanzas(s, lo, hi) ==
  /\ \A i \in 1..Len(s) : s[i][1] = "stanza" => s[i][2] \in (lo + 1)..hi
  /\ \A n \in (lo + 1)..hi : \E i \in 1..Len(s) : s[i][1] = "stanza" /\ s[i][2] = n
  /\ \A i, j \in 1..Len(s) :
       i < j /\ s[i][1] = "stanza" /\ s[j][1] = "stanza" => s[i][2] < s[j][2]

\* The acks in s are for lo to hi stanzas, and never for fewer than an earlier one.
AcksGrow(s, lo, hi) ==
  /\ \A i \in 1..Len(s) : s[i][1] = "a" => s[i][2] \in lo..hi
  /\ \A i, j \in 1..Len(s) : i < j /\ s[i][1] = "a" /\ s[j][1] = "a" => s[i][2] <= s[j][2]

\* The session the server counts in, and the one it can say things about.
Counting == sm \in {"enableSent", "started"} /\ down # <<<<"failed">>>>
Live == sm = "started" \/ (sm = "enableSent" /\ server.on) \/ Resumable

\* The server has handled c stanzas of the session: those of them the client
\* still waits for.
Covered(c) == \A n \in (sent - Open + 1)..(Before + c) : n \in handled

Outgoing ==
  /\ Counting \/ Live => server.in <= tracked
  /\ Counting => Stanzas(up, Before + server.in, sent)
  /\ Live => Covered(server.in)

\* lastHandledByServer stands for c stanzas, the acks that wait for those in w,
\* the acks on their way for those in d.
Waiting(c, w) ==
  /\ \A i \in 1..Len(unprocessed) :
       /\ w[i] \in Nat /\ c <= w[i] /\ w[i] <= tracked /\ Covered(w[i])
       /\ unprocessed[i] = w[i] % Modulus
       /\ Live => w[i] <= server.in
  /\ \A i, j \in 1..Len(unprocessed) : i < j => w[i] <= w[j]
Arriving(c, w, d) ==
  /\ \A i \in 1..Len(down) : down[i][1] = "a" =>
       /\ d[i] \in Nat /\ c <= d[i] /\ d[i] <= server.in
       /\ down[i][2] = d[i] % Modulus
       /\ \A j \in 1..Len(unprocessed) : w[j] <= d[i]
  /\ \A i, j \in 1..Len(down) :
       i < j /\ down[i][1] = "a" /\ down[j][1] = "a" => d[i] <= d[j]
Acked(c) ==
  /\ sm = "started" \/ unprocessed # <<>> \/ Resumable =>
       /\ lastHandledByServer = c % Modulus
       /\ sm = "started" \/ Open > 0 => tracked - Open <= c
  /\ sm = "enableSent" => c = 0
  /\ Live => c <= server.in
  /\ sm = "started" /\ server.in < Modulus => c = tracked - Open
Account(c, w, d) == c \in Nat /\ Acked(c) /\ Waiting(c, w) /\ Arriving(c, w, d)
Accounted == \E c, w, d : Account(c, w, d)

-----------------------------------------------------------------------------
(* What is on its way, when something is sent or received.                 *)

\* The stanzas on their way when an element is sent.
LEMMA StanzasAppend ==
  ASSUME NEW S, NEW s \in Seq(S), NEW e \in S, NEW lo \in Nat, NEW hi \in Nat, Stanzas(s, lo, hi)
  PROVE  /\ e[1] # "stanza" => Stanzas(Append(s, e), lo, hi)
         /\ e[1] = "stanza" /\ e[2] = hi + 1 /\ lo <= hi => Stanzas(Append(s, e), lo, hi + 1)
<1>1. PICK x : x = Append(s, e)
  OBVIOUS
<1>2. PICK n : n = Len(s)
  OBVIOUS
<1>3. n \in Nat /\ Len(x) = n + 1 /\ x[n + 1] = e /\ \A i \in 1..n : x[i] = s[i]
  BY <1>1, <1>2, AppendFacts, NonEmpty
<1>4. /\ \A i \in 1..n : x[i][1] = "stanza" => x[i][2] \in (lo + 1)..hi
      /\ \A k \in (lo + 1)..hi : \E i \in 1..n : x[i][1] = "stanza" /\ x[i][2] = k
      /\ \A i, j \in 1..n :
           i < j /\ x[i][1] = "stanza" /\ x[j][1] = "stanza" => x[i][2] < x[j][2]
  <2>1. /\ \A i \in 1..n : s[i][1] = "stanza" => s[i][2] \in (lo + 1)..hi
        /\ \A k \in (lo + 1)..hi : \E i \in 1..n : s[i][1] = "stanza" /\ s[i][2] = k
        /\ \A i, j \in 1..n :
             i < j /\ s[i][1] = "stanza" /\ s[j][1] = "stanza" => s[i][2] < s[j][2]
    BY <1>2 DEF Stanzas
  <2>2. QED
    BY ONLY <1>3, <2>1
<1>5. \A i \in 1..(n + 1) : i \in 1..n \/ i = n + 1
  BY ONLY <1>3
<1>6. \A i \in 1..n : i \in 1..(n + 1) /\ i < n + 1
  BY ONLY <1>3
<1>7. ASSUME e[1] # "stanza" PROVE Stanzas(x, lo, hi)
  <2>1. \A i, j \in 1..(n + 1) :
          i < j /\ x[i][1] = "stanza" /\ x[j][1] = "stanza" => x[i][2] < x[j][2]
    BY ONLY <1>3, <1>4, <1>5, <1>7
  <2>2. \A i \in 1..(n + 1) : x[i][1] = "stanza" => x[i][2] \in (lo + 1)..hi
    BY ONLY <1>3, <1>4, <1>5, <1>7
  <2>3. \A k \in (lo + 1)..hi : \E i \in 1..(n + 1) : x[i][1] = "stanza" /\ x[i][2] = k
    BY ONLY <1>4, <1>6
  <2>4. QED
    BY <1>3, <2>1, <2>2, <2>3 DEF Stanzas
<1>8. ASSUME e[1] = "stanza", e[2] = hi + 1, lo <= hi PROVE Stanzas(x, lo, hi + 1)
  <2>1. ASSUME NEW i \in 1..(n + 1), NEW j \in 1..(n + 1),
               i < j, x[i][1] = "stanza", x[j][1] = "stanza"
        PROVE  x[i][2] < x[j][2]
    <3>1. i \in 1..n
      BY <1>3, <1>5, <2>1
    <3>2. CASE j \in 1..n
      BY <1>4, <2>1, <3>1, <3>2
    <3>3. CASE j = n + 1
      <4>1. x[i][2] \in (lo + 1)..hi
        BY <1>4, <2>1, <3>1
      <4>2. x[j][2] = hi + 1
        BY <1>3, <1>8, <3>3
      <4>3. QED
        BY ONLY <4>1, <4>2, lo \in Nat, hi \in Nat
    <3>4. QED
      BY <1>5, <3>2, <3>3
  <2>2. ASSUME NEW i \in 1..(n + 1), x[i][1] = "stanza" PROVE x[i][2] \in (lo + 1)..(hi + 1)
    <3>1. CASE i \in 1..n
      BY <1>4, <2>2, <3>1
    <3>2. CASE i = n + 1
      BY <1>3, <1>8, <3>2
    <3>3. QED
      BY <1>5, <3>1, <3>2
  <2>3. ASSUME NEW k \in (lo + 1)..(hi + 1)
        PROVE  \E i \in 1..(n + 1) : x[i][1] = "stanza" /\ x[i][2] = k
    <3>1. k \in (lo + 1)..hi \/ k = hi + 1
      OBVIOUS
    <3>2. n + 1 \in 1..(n + 1)
      BY <1>3
    <3>3. QED
      BY <1>3, <1>4, <1>6, <1>8, <3>1, <3>2
  <2>4. QED
    BY <1>3, <2>1, <2>2, <2>3 DEF Stanzas
<1>9. QED
  BY <1>1, <1>7, <1>8

\* The stanzas on their way when an element is received.
LEMMA StanzasTail ==
  ASSUME NEW S, NEW s \in Seq(S), s # <<>>, NEW lo \in Nat, NEW hi \in Nat, Stanzas(s, lo, hi)
  PROVE  /\ s[1][1] # "stanza" => Stanzas(Tail(s), lo, hi)
         /\ s[1][1] = "stanza" => /\ s[1][2] = lo + 1 /\ lo + 1 <= hi
                                  /\ Stanzas(Tail(s), lo + 1, hi)
<1>1. PICK x : x = Tail(s)
  OBVIOUS
<1>2. PICK n : n = Len(s) - 1
  OBVIOUS
<1>3. n \in Nat /\ Len(s) = n + 1 /\ Len(x) = n /\ \A i \in 1..n : x[i] = s[i + 1]
  BY <1>1, <1>2, NonEmpty
<1>4. /\ \A i \in 1..(n + 1) : s[i][1] = "stanza" => s[i][2] \in (lo + 1)..hi
      /\ \A k \in (lo + 1)..hi : \E i \in 1..(n + 1) : s[i][1] = "stanza" /\ s[i][2] = k
      /\ \A i, j \in 1..(n + 1) :
           i < j /\ s[i][1] = "stanza" /\ s[j][1] = "stanza" => s[i][2] < s[j][2]
  BY <1>3 DEF Stanzas
<1>5. /\ \A i \in 1..n : i + 1 \in 1..(n + 1) /\ 1 < i + 1
      /\ \A i, j \in 1..n : i < j => i + 1 < j + 1
      /\ 1 \in 1..(n + 1)
  BY ONLY <1>3
<1>6. \A i \in 1..(n + 1) : i = 1 \/ (i - 1 \in 1..n /\ i = (i - 1) + 1)
  BY ONLY <1>3
<1>7. \A i, j \in 1..n :
        i < j /\ x[i][1] = "stanza" /\ x[j][1] = "stanza" => x[i][2] < x[j][2]
  BY ONLY <1>3, <1>4, <1>5
<1>8. \A i \in 1..n : x[i][1] = "stanza" => x[i][2] \in (lo + 1)..hi
  BY ONLY <1>3, <1>4, <1>5
<1>9. ASSUME s[1][1] # "stanza" PROVE Stanzas(x, lo, hi)
  <2>1. ASSUME NEW k \in (lo + 1)..hi PROVE \E i \in 1..n : x[i][1] = "stanza" /\ x[i][2] = k
    <3>1. PICK i \in 1..(n + 1) : s[i][1] = "stanza" /\ s[i][2] = k
      BY <1>4
    <3>2. i - 1 \in 1..n /\ x[i - 1] = s[i]
      BY ONLY <1>3, <1>6, <1>9, <3>1
    <3>3. QED
      BY <3>1, <3>2
  <2>2. QED
    BY <1>3, <1>7, <1>8, <2>1 DEF Stanzas
<1>10. ASSUME s[1][1] = "stanza"
       PROVE  s[1][2] = lo + 1 /\ lo + 1 <= hi /\ Stanzas(x, lo + 1, hi)
  <2>1. s[1][2] \in (lo + 1)..hi
    BY <1>4, <1>5, <1>10
  <2>2. lo + 1 \in (lo + 1)..hi
    BY <2>1
  <2>3. PICK i \in 1..(n + 1) : s[i][1] = "stanza" /\ s[i][2] = lo + 1
    BY <1>4, <2>2
  <2>4. i = 1
    <3>1. SUFFICES ASSUME i # 1 PROVE FALSE
      OBVIOUS
    <3>2. 1 < i
      BY ONLY <1>3, <3>1, i \in 1..(n + 1)
    <3>3. s[1][2] < s[i][2]
      BY <1>4, <1>5, <1>10, <2>3, <3>2
    <3>4. QED
      BY <2>1, <2>3, <3>3
  <2>5. s[1][2] = lo + 1
    BY <2>3, <2>4
  <2>6. ASSUME NEW j \in 1..n, x[j][1] = "stanza" PROVE x[j][2] \in (lo + 2)..hi
    <3>1. x[j][2] \in (lo + 1)..hi
      BY <1>8, <2>6
    <3>2. s[1][2] < s[j + 1][2]
      BY <1>3, <1>4, <1>5, <1>10, <2>6
    <3>3. x[j][2] = s[j + 1][2]
      BY <1>3
    <3>4. QED
      BY <2>5, <3>1, <3>2, <3>3
  <2>7. ASSUME NEW k \in (lo + 2)..hi PROVE \E j \in 1..n : x[j][1] = "stanza" /\ x[j][2] = k
    <3>1. PICK j \in 1..(n + 1) : s[j][1] = "stanza" /\ s[j][2] = k
      BY <1>4
    <3>2. j # 1
      BY <2>5, <3>1
    <3>3. j - 1 \in 1..n /\ x[j - 1] = s[j]
      BY ONLY <1>3, <1>6, <3>2, j \in 1..(n + 1)
    <3>4. QED
      BY <3>1, <3>3
  <2>8. (lo + 1) + 1 = lo + 2
    OBVIOUS
  <2>9. Stanzas(x, lo + 1, hi)
    BY <1>3, <1>7, <2>6, <2>7, <2>8 DEF Stanzas
  <2>10. QED
    BY <2>2, <2>5, <2>9
<1>11. QED
  BY <1>1, <1>9, <1>10

\* Nothing is on its way when all was received.
LEMMA NoStanzas ==
  ASSUME NEW lo \in Nat
  PROVE  /\ Stanzas(<<>>, lo, lo)
         /\ \A hi \in Nat : hi >= lo /\ Stanzas(<<>>, lo, hi) => hi = lo
<1>1. Stanzas(<<>>, lo, lo)
  BY DEF Stanzas
<1>2. ASSUME NEW hi \in Nat, hi >= lo, Stanzas(<<>>, lo, hi) PROVE hi = lo
  <2>1. SUFFICES ASSUME hi # lo PROVE FALSE
    OBVIOUS
  <2>2. hi \in (lo + 1)..hi
    BY <1>2, <2>1
  <2>3. \E i \in 1..0 : TRUE
    BY <1>2, <2>2 DEF Stanzas
  <2>4. QED
    BY <2>3
<1>3. QED
  BY <1>1, <1>2

\* The acks on their way when an element is sent.
LEMMA AcksAppend ==
  ASSUME NEW S, NEW s \in Seq(S), NEW e \in S, NEW lo \in Nat, NEW hi \in Nat, AcksGrow(s, lo, hi),
         lo <= hi, e[1] = "a" => e[2] = hi
  PROVE  AcksGrow(Append(s, e), lo, hi)
<1>1. PICK x : x = Append(s, e)
  OBVIOUS
<1>2. PICK n : n = Len(s)
  OBVIOUS
<1>3. n \in Nat /\ Len(x) = n + 1 /\ x[n + 1] = e /\ \A i \in 1..n : x[i] = s[i]
  BY <1>1, <1>2, AppendFacts, NonEmpty
<1>4. /\ \A i \in 1..n : x[i][1] = "a" => x[i][2] \in lo..hi
      /\ \A i, j \in 1..n : i < j /\ x[i][1] = "a" /\ x[j][1] = "a" => x[i][2] <= x[j][2]
  BY <1>2, <1>3 DEF AcksGrow
<1>5. \A i \in 1..(n + 1) : i \in 1..n \/ i = n + 1
  BY ONLY <1>3
<1>6. ASSUME NEW i \in 1..(n + 1), x[i][1] = "a" PROVE x[i][2] \in lo..hi
  BY <1>3, <1>4, <1>5, <1>6
<1>7. ASSUME NEW i \in 1..(n + 1), NEW j \in 1..(n + 1), i < j, x[i][1] = "a", x[j][1] = "a"
      PROVE  x[i][2] <= x[j][2]
  <2>1. i \in 1..n
    BY ONLY <1>3, <1>5, <1>7, i \in 1..(n + 1), j \in 1..(n + 1)
  <2>2. CASE j \in 1..n
    BY <1>4, <1>7, <2>1, <2>2
  <2>3. CASE j = n + 1
    <3>1. x[j][2] = hi /\ x[i][2] \in lo..hi
      BY <1>3, <1>4, <1>7, <2>1, <2>3
    <3>2. QED
      BY <3>1
  <2>4. QED
    BY <1>5, <2>2, <2>3
<1>8. QED
  BY <1>1, <1>3, <1>6, <1>7 DEF AcksGrow

\* The acks on their way when an element is received.
LEMMA AcksTail ==
  ASSUME NEW S, NEW s \in Seq(S), s # <<>>, NEW lo \in Nat, NEW hi \in Nat, AcksGrow(s, lo, hi)
  PROVE  /\ AcksGrow(Tail(s), lo, hi)
         /\ s[1][1] = "a" => s[1][2] \in lo..hi /\ AcksGrow(Tail(s), s[1][2], hi)
<1>1. PICK x : x = Tail(s)
  OBVIOUS
<1>2. PICK n : n = Len(s) - 1
  OBVIOUS
<1>3. n \in Nat /\ Len(s) = n + 1 /\ Len(x) = n /\ \A i \in 1..n : x[i] = s[i + 1]
  BY <1>1, <1>2, NonEmpty
<1>4. /\ \A i \in 1..(n + 1) : s[i][1] = "a" => s[i][2] \in lo..hi
      /\ \A i, j \in 1..(n + 1) : i < j /\ s[i][1] = "a" /\ s[j][1] = "a" => s[i][2] <= s[j][2]
  BY <1>3 DEF AcksGrow
<1>5. /\ \A i \in 1..n : i + 1 \in 1..(n + 1) /\ 1 < i + 1
      /\ \A i, j \in 1..n : i < j => i + 1 < j + 1
      /\ 1 \in 1..(n + 1)
  BY ONLY <1>3
<1>6. /\ \A i \in 1..n : x[i][1] = "a" => x[i][2] \in lo..hi
      /\ \A i, j \in 1..n : i < j /\ x[i][1] = "a" /\ x[j][1] = "a" => x[i][2] <= x[j][2]
  BY ONLY <1>3, <1>4, <1>5
<1>7. ASSUME s[1][1] = "a" PROVE s[1][2] \in lo..hi /\ AcksGrow(x, s[1][2], hi)
  <2>1. s[1][2] \in lo..hi
    BY <1>4, <1>5, <1>7
  <2>2. ASSUME NEW i \in 1..n, x[i][1] = "a" PROVE x[i][2] \in (s[1][2])..hi
    <3>1. s[1][2] <= s[i + 1][2] /\ x[i][2] = s[i + 1][2] /\ x[i][2] \in lo..hi
      BY <1>3, <1>4, <1>5, <1>6, <1>7, <2>2
    <3>2. QED
      BY <2>1, <3>1
  <2>3. QED
    BY <1>3, <1>6, <2>1, <2>2 DEF AcksGrow
<1>8. AcksGrow(x, lo, hi)
  BY <1>3, <1>6 DEF AcksGrow
<1>9. QED
  BY <1>1, <1>7, <1>8

\* The kinds of elements on their way when one is sent or received.
LEMMA KindsFacts ==
  ASSUME NEW S, NEW s \in Seq(S), NEW K
  PROVE  /\ \A e \in S : Kinds(s, K) /\ e[1] \in K => Kinds(Append(s, e), K)
         /\ \A e \in S : FirstThen(s, K) /\ e[1] \in K => FirstThen(Append(s, e), K)
         /\ \A e \in S : s # <<>> => Append(s, e)[1] = s[1]
         /\ s # <<>> /\ Kinds(s, K) => Kinds(Tail(s), K)
         /\ s # <<>> /\ FirstThen(s, K) => Kinds(Tail(s), K)
         /\ s # <<>> /\ Kinds(s, K) => s[1][1] \in K
<1>1. PICK n : n = Len(s)
  OBVIOUS
<1>2. n \in Nat /\ (s # <<>> => n > 0)
  BY <1>1, NonEmpty
<1>3. ASSUME NEW e \in S
      PROVE  /\ Kinds(s, K) /\ e[1] \in K => Kinds(Append(s, e), K)
             /\ FirstThen(s, K) /\ e[1] \in K => FirstThen(Append(s, e), K)
             /\ s # <<>> => Append(s, e)[1] = s[1]
  <2>1. PICK x : x = Append(s, e)
    OBVIOUS
  <2>2. Len(x) = n + 1 /\ x[n + 1] = e /\ \A i \in 1..n : x[i] = s[i]
    BY <1>1, <2>1, AppendFacts
  <2>3. \A i \in 1..(n + 1) : i \in 1..n \/ i = n + 1
    BY ONLY <1>2
  <2>4. \A i \in 2..(n + 1) : i \in 1..(n + 1) /\ (i \in 1..n => i \in 2..n)
    BY ONLY <1>2
  <2>5. n > 0 => 1 \in 1..n
    BY ONLY <1>2
  <2>6. Kinds(s, K) /\ e[1] \in K => Kinds(x, K)
    BY ONLY <1>1, <2>2, <2>3 DEF Kinds
  <2>7. FirstThen(s, K) /\ e[1] \in K => FirstThen(x, K)
    BY ONLY <1>1, <2>2, <2>3, <2>4 DEF FirstThen
  <2>8. QED
    BY <1>2, <2>1, <2>2, <2>5, <2>6, <2>7
<1>4. ASSUME s # <<>>
      PROVE  /\ Kinds(s, K) => Kinds(Tail(s), K) /\ s[1][1] \in K
             /\ FirstThen(s, K) => Kinds(Tail(s), K)
  <2>1. PICK x : x = Tail(s)
    OBVIOUS
  <2>2. Len(x) = n - 1 /\ \A i \in 1..(n - 1) : x[i] = s[i + 1]
    BY <1>1, <1>4, <2>1, NonEmpty
  <2>3. 1 \in 1..n /\ \A i \in 1..(n - 1) : i + 1 \in 2..n /\ i + 1 \in 1..n
    BY ONLY <1>2, <1>4
  <2>4. Kinds(s, K) => Kinds(x, K) /\ s[1][1] \in K
    BY ONLY <1>1, <2>2, <2>3 DEF Kinds
  <2>5. FirstThen(s, K) => Kinds(x, K)
    BY ONLY <1>1, <2>2, <2>3 DEF FirstThen, Kinds
  <2>6. QED
    BY <2>1, <2>4, <2>5
<1>5. QED
  BY <1>3, <1>4

-----------------------------------------------------------------------------
(* Types.                                                                  *)

\* The elements that are sent, and what is in those that are received.
LEMMA UpFacts ==
  /\ <<"enable">> \in UpElement /\ <<"r">> \in UpElement
  /\ \A n \in Nat : <<"stanza", n>> \in UpElement
  /\ \A n \in 0..(Modulus - 1) : <<"a", n>> \in UpElement
  /\ \A i \in Nat, n \in 0..(Modulus - 1) : <<"resume", i, n>> \in UpElement
  /\ \A e \in UpElement : /\ e[1] \in {"enable", "r", "stanza", "a", "resume"}
                          /\ e[1] = "stanza" => e[2] \in Nat /\ e = <<"stanza", e[2]>>
                          /\ e[1] = "a" => e[2] \in 0..(Modulus - 1)
                          /\ e[1] = "resume" => e[3] \in 0..(Modulus - 1) /\ e[2] \in Nat
BY DEF UpElement

\* The same for the way back.
LEMMA DownFacts ==
  /\ <<"failed">> \in DownElement
  /\ \A n \in 0..(Modulus - 1) : <<"a", n>> \in DownElement /\ <<"resumed", n>> \in DownElement
  /\ \A n \in Nat : <<"enabled", n>> \in DownElement /\ <<"stanza", n>> \in DownElement
  /\ \A e \in DownElement : /\ e[1] \in {"failed", "resumed", "a", "enabled", "stanza"}
                            /\ e[1] \in {"enabled", "stanza"} => e[2] \in Nat
                            /\ e[1] \in {"a", "resumed"} => e[2] \in 0..(Modulus - 1)
BY DEF DownElement

\* What is in front, and what is behind it.
LEMMA UpReads ==
  ASSUME Types, up # <<>>
  PROVE  Head(up) = up[1] /\ up[1] \in UpElement /\ Tail(up) \in Seq(UpElement)
BY NonEmpty DEF Types, WireType

\* The same for the way back.
LEMMA DownReads ==
  ASSUME Types, down # <<>>
  PROVE  Head(down) = down[1] /\ down[1] \in DownElement /\ Tail(down) \in Seq(DownElement)
BY NonEmpty DEF Types, WireType

\* The names that are stored are those of the stanzas, where there are any.
LEMMA NamesFacts ==
  ASSUME NEW u \in Seq(1..MaxSent), NEW aw
  PROVE  /\ Names(u, aw) \in Seq(0..MaxSent) /\ Len(Names(u, aw)) = Len(u)
         /\ \A i \in 1..Len(u) : Names(u, aw)[i] = NoId \/ Names(u, aw)[i] = u[i]
<1>1. MaxSent \in Nat
  BY BoundsType
<1>2. DOMAIN u = 1..Len(u) /\ Len(u) \in Nat /\ \A i \in 1..Len(u) : u[i] \in 1..MaxSent
  BY LenProperties, ElementOfSeq
<1>3. PICK n : n = Len(u)
  OBVIOUS
<1>4. PICK f : f = [i \in 1..n |-> IF u[i] \in aw THEN NoId ELSE u[i]]
  OBVIOUS
<1>5. f = Names(u, aw)
  BY <1>2, <1>3, <1>4 DEF Names
<1>6. \A i \in 1..n : f[i] \in 0..MaxSent /\ (f[i] = NoId \/ f[i] = u[i])
  BY <1>1, <1>2, <1>3, <1>4 DEF NoId
<1>7. f \in Seq(0..MaxSent) /\ Len(f) = n
  BY <1>2, <1>3, <1>4, <1>6
<1>8. QED
  BY <1>3, <1>5, <1>6, <1>7

\* The bounds are numbers.
LEMMA Bounds == MaxSent \in Nat /\ MaxReceived \in Nat /\ MaxConnects \in Nat /\ Modulus \in Nat /\ Modulus > 1
BY BoundsType, ModulusType

\* A sequence of some is one of more.
LEMMA SeqOfMore ==
  ASSUME NEW S, NEW T, S \subseteq T, NEW s \in Seq(S)
  PROVE  s \in Seq(T)
<1>1. Len(s) \in Nat /\ \A i \in 1..Len(s) : s[i] \in T
  BY ElementOfSeq
<1>2. s = [i \in 1..Len(s) |-> s[i]]
  BY LenProperties
<1>3. QED
  BY <1>1, <1>2

\* Each stanza in the list is one that was sent.
LEMMA ListTypes ==
  ASSUME Types
  PROVE  /\ unackedByServer \in Seq(Nat) /\ Len(unackedByServer) \in Nat /\ lastRequestOffset \in Nat
         /\ prevUnacked \in Seq(Nat) /\ Len(prevUnacked) \in Nat
         /\ unprocessed \in Seq(Nat) /\ Len(unprocessed) \in Nat
         /\ Len(reported) \in Nat /\ Len(got) \in Nat
         /\ sent \in Nat /\ tracked \in Nat /\ sent - tracked \in Nat
         /\ up \in Seq(UpElement) /\ down \in Seq(DownElement)
         /\ server.in \in Nat /\ server.out \in Nat /\ server.acked \in Nat /\ server.id \in Nat
         /\ store.id \in Nat /\ store.pending \in Seq(Nat)
<1>1. /\ (1..MaxSent) \subseteq Nat /\ (0..MaxSent) \subseteq Nat /\ (0..(Modulus - 1)) \subseteq Nat
  BY Bounds
<1>2. unackedByServer \in Seq(Nat) /\ prevUnacked \in Seq(Nat) /\ unprocessed \in Seq(Nat)
  BY <1>1, SeqOfMore DEF Types, ListType, AckType
<1>3. store.id \in Nat /\ store.pending \in Seq(0..MaxSent)
  BY DEF Types, StoreType, Store
<1>4. store.pending \in Seq(Nat)
  BY <1>1, <1>3, SeqOfMore
<1>5. lastRequestOffset \in Nat
  BY <1>2 DEF Types, ListType
<1>6. sent \in Nat /\ tracked \in Nat /\ sent - tracked \in Nat
  BY Bounds DEF Types, SentType
<1>7. server.in \in Nat /\ server.out \in Nat /\ server.acked \in Nat /\ server.id \in Nat
  BY DEF Types, ServerType, Server
<1>8. Len(reported) \in Nat /\ Len(got) \in Nat
  BY NonEmpty DEF Types, HistoryType
<1>9. Len(unackedByServer) \in Nat /\ Len(prevUnacked) \in Nat /\ Len(unprocessed) \in Nat
  BY <1>2, NonEmpty
<1>10. up \in Seq(UpElement) /\ down \in Seq(DownElement)
  BY DEF Types, WireType
<1>11. QED
  BY <1>2, <1>3, <1>4, <1>5, <1>6, <1>7, <1>8, <1>9, <1>10

\* The counts of the server, and the next stanza of each side.
LEMMA CountTypes ==
  ASSUME Types
  PROVE  /\ server.in \in Nat /\ server.out \in Nat /\ server.out + 1 \in Nat
         /\ sent \in Nat /\ sent + 1 \in Nat
<1>1. PICK i, o : i = server.in /\ o = server.out
  OBVIOUS
<1>2. i \in Nat /\ o \in Nat /\ sent \in Nat
  BY <1>1, ListTypes
<1>3. o + 1 \in Nat /\ sent + 1 \in Nat
  BY ONLY <1>2
<1>4. QED
  BY ONLY <1>1, <1>2, <1>3

\* The server counts nothing in a step that leaves its count alone.
LEMMA InStays ==
  ASSUME Types, server'.in = server.in
  PROVE  server.in <= server'.in /\ server'.in \in Nat
<1>1. PICK i : i = server.in
  OBVIOUS
<1>2. i \in Nat
  BY <1>1, CountTypes
<1>3. i <= i
  BY ONLY <1>2
<1>4. QED
  BY ONLY <1>1, <1>2, <1>3, server'.in = server.in

\* The types of the invariant are those of the model, and more.
LEMMA TypesGiveTypeOK == Types => TypeOK
<1> SUFFICES ASSUME Types PROVE TypeOK
  OBVIOUS
<1>1. store.byClient \in 0..(Modulus - 1) /\ store.byServer \in 0..(Modulus - 1)
      /\ store.pending \in Seq(0..MaxSent)
  BY DEF Types, StoreType, Store
<1>2. QED
  BY <1>1 DEF Types, PhaseType, ListType, AckType, StoreType, SentType, TypeOK

\* The elements at hand are those of the wire.
LEMMA SentToServer ==
  ASSUME Types, NEW e \in UpElement, ToServer(e)
  PROVE  up' \in Seq(UpElement)
BY AppendFacts DEF ToServer, Types, WireType

\* The same for the way back.
LEMMA SentToClient ==
  ASSUME Types, NEW e \in DownElement, ToClient(e)
  PROVE  down' \in Seq(DownElement)
BY AppendFacts DEF ToClient, Types, WireType

\* What the server reads is in front.
LEMMA ServerRead ==
  ASSUME Types, NEW word, ServerReads(word)
  PROVE  /\ up # <<>> /\ Head(up) = up[1] /\ up[1] \in UpElement /\ up[1][1] = word
         /\ up' = Tail(up) /\ up' \in Seq(UpElement)
BY UpReads DEF ServerReads

\* The steps of the server keep the type of its session.
LEMMA ServerChanges ==
  ASSUME Types, NEW n \in Nat, NEW o \in BOOLEAN
  PROVE  /\ [server EXCEPT !.in = @ + 1] \in Server
         /\ [server EXCEPT !.out = @ + 1] \in Server
         /\ [server EXCEPT !.acked = n] \in Server
         /\ [server EXCEPT !.on = o] \in Server
         /\ [server EXCEPT !.on = o, !.acked = n] \in Server
         /\ [NoSession EXCEPT !.id = n, !.on = o] \in Server
         /\ NoSession \in Server
<1>1. server \in [id : Nat, on : BOOLEAN, in : Nat, out : Nat, acked : Nat]
  BY DEF Types, ServerType, Server
<1>2. server.in + 1 \in Nat /\ server.out + 1 \in Nat
  BY <1>1
<1>3. QED
  BY <1>1, <1>2 DEF Server, NoSession, NoId

\* The types hold in the beginning.
LEMMA InitTypes == Init => Types
<1> SUFFICES ASSUME Init PROVE Types
  OBVIOUS
<1>1. \A S : <<>> \in Seq(S) /\ Len(<<>>) = 0
  BY EmptySeq
<1>2. store \in Store /\ server \in Server
  BY <1>1, Bounds DEF Init, NoStore, NoSession, Store, Server, NoId
<1>3. ListType /\ AckType
  <2>1. 0 \in 0..(Modulus - 1) /\ 0 \in 0..0
    BY Bounds
  <2>2. QED
    BY <1>1, <2>1 DEF Init, ListType, AckType
<1>4. PhaseType /\ StoreType /\ ServerType
  BY <1>2, Bounds DEF Init, Connection, PhaseType, StoreType, ServerType
<1>5. WireType /\ HistoryType
  BY <1>1 DEF Init, WireType, HistoryType
<1>6. SentType
  BY Bounds DEF Init, SentType
<1>7. QED
  BY <1>3, <1>4, <1>5, <1>6 DEF Types

\* What the server sends again.
LEMMA AgainSeq ==
  ASSUME NEW out \in Nat, NEW acked \in Nat
  PROVE  /\ [i \in 1..(out - acked) |-> <<"stanza", acked + i>>] \in Seq(DownElement)
         /\ Len([i \in 1..(out - acked) |-> <<"stanza", acked + i>>])
              = IF out >= acked THEN out - acked ELSE 0
<1>1. PICK n : n = IF out >= acked THEN out - acked ELSE 0
  OBVIOUS
<1>2. n \in Nat /\ 1..(out - acked) = 1..n
  BY <1>1
<1>3. PICK f : f = [i \in 1..n |-> <<"stanza", acked + i>>]
  OBVIOUS
<1>4. ASSUME NEW i \in 1..n PROVE f[i] \in DownElement
  <2>1. acked + i \in Nat
    BY <1>2
  <2>2. f[i] = <<"stanza", acked + i>>
    BY <1>3
  <2>3. QED
    BY <2>1, <2>2, DownFacts
<1>5. f \in Seq(DownElement) /\ Len(f) = n
  <2>1. f \in [1..n -> DownElement]
    BY ONLY <1>3, <1>4
  <2>2. f \in Seq(DownElement)
    BY ONLY <1>2, <2>1, SeqDef
  <2>3. DOMAIN f = 1..n /\ DOMAIN f = 1..Len(f) /\ Len(f) \in Nat
    BY <1>3, <2>2, LenProperties
  <2>4. Len(f) = n
    BY ONLY <1>2, <2>3
  <2>5. QED
    BY <2>2, <2>4
<1>6. QED
  BY <1>1, <1>2, <1>3, <1>5

\* The types are kept when a connection is begun.
LEMMA ConnectTypes == Types /\ Connect => Types'
<1> SUFFICES ASSUME Types, Connect PROVE Types'
  OBVIOUS
<1>1. ListType' /\ AckType' /\ StoreType' /\ WireType' /\ ServerType' /\ SentType' /\ HistoryType'
  BY DEF Connect, outgoing, incoming, sentVars, wire, counters, history, Types, ListType, AckType, StoreType, WireType, ServerType, SentType, HistoryType
<1>2. PhaseType'
  BY DEF Connect, outgoing, incoming, sentVars, wire, counters, history, Connection, Types, PhaseType
<1>3. QED
  BY <1>1, <1>2 DEF Types

\* The types are kept when <resume/> is sent.
LEMMA SendResumeTypes == Types /\ SendResume => Types'
<1> SUFFICES ASSUME Types, SendResume PROVE Types'
  OBVIOUS
<1>1. ServerType' /\ SentType' /\ HistoryType'
  BY DEF SendResume, ForgetUnacked, outgoing, incoming, sentVars, wire, counters, history, Types, ServerType, SentType, HistoryType
<1>2. PhaseType'
  BY DEF SendResume, ForgetUnacked, outgoing, incoming, sentVars, wire, counters, history, Connection, Types, PhaseType
<1>3. ListType'
  <2>1. unackedByServer' = <<>> /\ lastRequestOffset' = 0
    BY DEF SendResume, ForgetUnacked
  <2>2. prevUnacked' \in Seq(0..MaxSent)
    BY DEF SendResume, Types, ListType, StoreType, Store
  <2>3. <<>> \in Seq(1..MaxSent) /\ Len(<<>>) = 0 /\ 0 \in 0..0
    BY EmptySeq
  <2>4. QED
    BY <2>1, <2>2, <2>3 DEF ListType
<1>4. AckType'
  <2>1. unprocessed' = <<>> /\ lastHandledByServer' = store.byServer /\ requestTimer' = requestTimer
    BY DEF SendResume, ForgetUnacked
  <2>2. <<>> \in Seq(0..(Modulus - 1)) /\ store.byServer \in 0..(Modulus - 1)
    BY EmptySeq DEF Types, StoreType, Store
  <2>3. QED
    BY <2>1, <2>2 DEF Types, AckType
<1>5. StoreType'
  BY Bounds, ListTypes, DownFacts, DownReads DEF SendResume, ForgetUnacked, outgoing, incoming, sentVars, wire, counters, history, Store, Types, StoreType
<1>6. WireType'
  <2>1. <<"resume", store.id, store.byClient>> \in UpElement
    BY UpFacts DEF Types, StoreType, Store
  <2>2. QED
    BY <2>1, SentToServer DEF SendResume, Types, WireType
<1>7. QED
  BY <1>1, <1>2, <1>3, <1>4, <1>5, <1>6 DEF Types

\* The types are kept when the stream binds anew.
LEMMA BindAnewTypes == Types /\ BindAnew => Types'
<1> SUFFICES ASSUME Types, BindAnew PROVE Types'
  OBVIOUS
<1>1. ListType' /\ AckType' /\ StoreType' /\ WireType' /\ SentType' /\ HistoryType'
  BY DEF BindAnew, outgoing, incoming, sentVars, wire, counters, history, Types, ListType, AckType, StoreType, WireType, SentType, HistoryType
<1>2. PhaseType'
  BY DEF BindAnew, outgoing, incoming, sentVars, wire, counters, history, Connection, Types, PhaseType
<1>3. ServerType'
  <2>1. server \in Server /\ ids \in Nat
    BY DEF Types, ServerType
  <2>2. QED
    BY <2>1 DEF BindAnew, counters, Server, ServerType, NoSession, NoId
<1>4. QED
  BY <1>1, <1>2, <1>3 DEF Types

\* The types are kept when the server resumes nothing.
LEMMA ReceiveResumeFailedTypes == Types /\ ReceiveResumeFailed => Types'
<1> SUFFICES ASSUME Types, ReceiveResumeFailed PROVE Types'
  OBVIOUS
<1>1. AckType' /\ StoreType' /\ SentType' /\ HistoryType'
  BY DEF ReceiveResumeFailed, outgoing, incoming, sentVars, wire, counters, history, Types, AckType, StoreType, SentType, HistoryType
<1>2. PhaseType'
  BY DEF ReceiveResumeFailed, outgoing, incoming, sentVars, wire, counters, history, Connection, Types, PhaseType
<1>3. ListType'
  BY Bounds, ListTypes, NonEmpty, AppendFacts DEF ReceiveResumeFailed, outgoing, incoming, sentVars, wire, counters, history, Types, ListType
<1>4. WireType'
  BY Bounds, ListTypes, UpFacts, UpReads, DownFacts, DownReads, AppendFacts DEF ReceiveResumeFailed, outgoing, incoming, sentVars, wire, counters, history, ToServer, ToClient, Types, WireType
<1>5. ServerType'
  <2>1. server \in Server /\ ids \in Nat
    BY DEF Types, ServerType
  <2>2. QED
    BY <2>1 DEF ReceiveResumeFailed, counters, Server, ServerType, NoSession, NoId
<1>6. QED
  BY <1>1, <1>2, <1>3, <1>4, <1>5 DEF Types

\* The types are kept when stream management is to be enabled.
LEMMA EnableStreamManagementTypes == Types /\ EnableStreamManagement => Types'
<1> SUFFICES ASSUME Types, EnableStreamManagement PROVE Types'
  OBVIOUS
<1>1. StoreType' /\ WireType' /\ ServerType' /\ SentType' /\ HistoryType'
  BY DEF EnableStreamManagement, ForgetUnacked, outgoing, incoming, sentVars, wire, counters, history, Types, StoreType, WireType, ServerType, SentType, HistoryType
<1>2. PhaseType'
  BY DEF EnableStreamManagement, ForgetUnacked, outgoing, incoming, sentVars, wire, counters, history, Connection, Types, PhaseType
<1>3. ListType'
  BY Bounds, ListTypes, NonEmpty, AppendFacts DEF EnableStreamManagement, ForgetUnacked, outgoing, incoming, sentVars, wire, counters, history, Types, ListType
<1>4. AckType'
  BY Bounds, ListTypes DEF EnableStreamManagement, ForgetUnacked, outgoing, incoming, sentVars, wire, counters, history, Types, AckType
<1>5. QED
  BY <1>1, <1>2, <1>3, <1>4 DEF Types

\* The types are kept when the server does not offer it.
LEMMA NotOfferedTypes == Types /\ NotOffered => Types'
<1> SUFFICES ASSUME Types, NotOffered PROVE Types'
  OBVIOUS
<1>1. ListType' /\ AckType' /\ StoreType' /\ WireType' /\ ServerType' /\ SentType' /\ HistoryType'
  BY DEF NotOffered, outgoing, incoming, sentVars, wire, counters, history, Types, ListType, AckType, StoreType, WireType, ServerType, SentType, HistoryType
<1>2. PhaseType'
  BY DEF NotOffered, outgoing, incoming, sentVars, wire, counters, history, Connection, Types, PhaseType
<1>3. QED
  BY <1>1, <1>2 DEF Types

\* The types are kept when <enable/> has been sent.
LEMMA DidSendEnableTypes == Types /\ DidSendEnable => Types'
<1> SUFFICES ASSUME Types, DidSendEnable PROVE Types'
  OBVIOUS
<1>1. ListType' /\ AckType' /\ StoreType' /\ ServerType' /\ HistoryType'
  BY DEF DidSendEnable, outgoing, incoming, sentVars, wire, counters, history, Types, ListType, AckType, StoreType, ServerType, HistoryType
<1>2. PhaseType'
  BY DEF DidSendEnable, outgoing, incoming, sentVars, wire, counters, history, Connection, Types, PhaseType
<1>3. WireType'
  BY Bounds, ListTypes, UpFacts, UpReads, DownFacts, DownReads, AppendFacts DEF DidSendEnable, outgoing, incoming, sentVars, wire, counters, history, ToServer, ToClient, Types, WireType
<1>4. SentType'
  BY Bounds, ListTypes DEF DidSendEnable, outgoing, incoming, sentVars, wire, counters, history, Types, SentType
<1>5. QED
  BY <1>1, <1>2, <1>3, <1>4 DEF Types

\* The types are kept when it is enabled.
LEMMA ReceiveEnabledTypes == Types /\ ReceiveEnabled => Types'
<1> SUFFICES ASSUME Types, ReceiveEnabled PROVE Types'
  OBVIOUS
<1>1. ListType' /\ ServerType' /\ SentType'
  BY DEF ReceiveEnabled, ZeroCounters, outgoing, incoming, sentVars, wire, counters, history, Types, ListType, ServerType, SentType
<1>2. PhaseType'
  BY DEF ReceiveEnabled, ZeroCounters, outgoing, incoming, sentVars, wire, counters, history, Connection, Types, PhaseType
<1>3. AckType'
  BY Bounds, ListTypes DEF ReceiveEnabled, ZeroCounters, outgoing, incoming, sentVars, wire, counters, history, Types, AckType
<1>4. StoreType'
  <2>1. Head(down)[2] \in Nat
    BY DownReads, DownFacts DEF ReceiveEnabled
  <2>2. [NoStore EXCEPT !.id = Head(down)[2]] \in Store
    <3>1. NoStore \in Store
      BY Bounds, EmptySeq DEF NoStore, Store, NoId
    <3>2. QED
      BY <2>1, <3>1 DEF Store
  <2>3. 0 \in 0..(Modulus - 1)
    BY Bounds
  <2>4. QED
    BY <2>2, <2>3 DEF ReceiveEnabled, ZeroCounters, StoreType
<1>5. WireType'
  BY Bounds, ListTypes, UpFacts, UpReads, DownFacts, DownReads, AppendFacts DEF ReceiveEnabled, ZeroCounters, outgoing, incoming, sentVars, wire, counters, history, ToServer, ToClient, Types, WireType
<1>6. HistoryType'
  BY Bounds, ListTypes, DownFacts, DownReads, AppendFacts DEF ReceiveEnabled, ZeroCounters, outgoing, incoming, sentVars, wire, counters, history, Types, HistoryType
<1>7. QED
  BY <1>1, <1>2, <1>3, <1>4, <1>5, <1>6 DEF Types

\* The types are kept when it is refused.
LEMMA ReceiveNotEnabledTypes == Types /\ ReceiveNotEnabled => Types'
<1> SUFFICES ASSUME Types, ReceiveNotEnabled PROVE Types'
  OBVIOUS
<1>1. ListType' /\ ServerType' /\ SentType' /\ HistoryType'
  BY DEF ReceiveNotEnabled, outgoing, incoming, sentVars, wire, counters, history, Types, ListType, ServerType, SentType, HistoryType
<1>2. PhaseType'
  BY DEF ReceiveNotEnabled, outgoing, incoming, sentVars, wire, counters, history, Connection, Types, PhaseType
<1>3. AckType'
  BY Bounds, ListTypes DEF ReceiveNotEnabled, outgoing, incoming, sentVars, wire, counters, history, Types, AckType
<1>4. StoreType'
  <2>1. NoStore \in Store
    BY Bounds, EmptySeq DEF NoStore, Store, NoId
  <2>2. QED
    BY <2>1 DEF ReceiveNotEnabled, incoming, Types, StoreType
<1>5. WireType'
  BY Bounds, ListTypes, UpFacts, UpReads, DownFacts, DownReads, AppendFacts DEF ReceiveNotEnabled, outgoing, incoming, sentVars, wire, counters, history, ToServer, ToClient, Types, WireType
<1>6. QED
  BY <1>1, <1>2, <1>3, <1>4, <1>5 DEF Types

\* The types are kept when a stanza is sent.
LEMMA SendStanzaTypes == Types /\ SendStanza => Types'
<1> SUFFICES ASSUME Types, SendStanza PROVE Types'
  OBVIOUS
<1>1. PhaseType' /\ StoreType' /\ ServerType' /\ HistoryType'
  BY DEF SendStanza, MustRequest, RequestAckNow, outgoing, incoming, sentVars, wire, counters, history, Types, PhaseType, StoreType, ServerType, HistoryType
<1>2. ListType'
  <2>1. sent + 1 \in 1..MaxSent /\ sent' = sent + 1
    BY Bounds DEF SendStanza, Types, SentType
  <2>2. /\ unackedByServer' = Append(unackedByServer, sent + 1)
        /\ unackedByServer' \in Seq(1..MaxSent) /\ Len(unackedByServer') = Len(unackedByServer) + 1
    BY <2>1, AppendFacts DEF SendStanza, Types, ListType
  <2>3. lastRequestOffset' \in {lastRequestOffset, Len(unackedByServer')}
    BY DEF SendStanza, RequestAckNow
  <2>4. lastRequestOffset \in 0..Len(unackedByServer) /\ Len(unackedByServer) \in Nat
    BY ListTypes DEF Types, ListType
  <2>5. lastRequestOffset' \in 0..(Len(unackedByServer) + 1)
    BY ONLY <2>2, <2>3, <2>4
  <2>6. QED
    BY <2>2, <2>5 DEF SendStanza, Types, ListType
<1>3. AckType'
  BY Bounds, ListTypes DEF SendStanza, MustRequest, RequestAckNow, outgoing, incoming, sentVars, wire, counters, history, Types, AckType
<1>4. WireType'
  <2>1. sent' \in Nat
    BY Bounds DEF SendStanza, Types, SentType
  <2>2. <<"stanza", sent'>> \in UpElement /\ <<"r">> \in UpElement
    BY <2>1, UpFacts
  <2>3. <<<<"stanza", sent'>>, <<"r">>>> \in Seq(UpElement)
    BY <2>2
  <2>4. up \o <<<<"stanza", sent'>>, <<"r">>>> \in Seq(UpElement)
    BY <2>3 DEF Types, WireType
  <2>5. up' \in Seq(UpElement)
    BY <2>2, <2>4, SentToServer DEF SendStanza
  <2>6. QED
    BY <2>5 DEF SendStanza, Types, WireType
<1>5. SentType'
  <2>1. sent \in 0..MaxSent /\ sent < MaxSent /\ tracked \in 0..sent /\ unanswered \subseteq 1..sent
    BY DEF SendStanza, Types, SentType
  <2>2. sent' = sent + 1 /\ tracked' = tracked + 1 /\ unanswered' = unanswered \cup {sent + 1}
    BY DEF SendStanza
  <2>3. QED
    BY <2>1, <2>2, Bounds DEF SentType
<1>6. QED
  BY <1>1, <1>2, <1>3, <1>4, <1>5 DEF Types

\* The types are kept when the timer requests an ack.
LEMMA RequestTimerFiresTypes == Types /\ RequestTimerFires => Types'
<1> SUFFICES ASSUME Types, RequestTimerFires PROVE Types'
  OBVIOUS
<1>1. PhaseType' /\ StoreType' /\ ServerType' /\ SentType' /\ HistoryType'
  BY DEF RequestTimerFires, RequestAckNow, outgoing, incoming, sentVars, wire, counters, history, Types, PhaseType, StoreType, ServerType, SentType, HistoryType
<1>2. ListType'
  BY Bounds, ListTypes, NonEmpty, AppendFacts DEF RequestTimerFires, RequestAckNow, outgoing, incoming, sentVars, wire, counters, history, Types, ListType
<1>3. AckType'
  BY Bounds, ListTypes DEF RequestTimerFires, RequestAckNow, outgoing, incoming, sentVars, wire, counters, history, Types, AckType
<1>4. WireType'
  BY UpFacts, SentToServer DEF RequestTimerFires, Types, WireType
<1>5. QED
  BY <1>1, <1>2, <1>3, <1>4 DEF Types

\* The types are kept when a stanza arrives.
LEMMA ReceiveStanzaTypes == Types /\ ReceiveStanza => Types'
<1> SUFFICES ASSUME Types, ReceiveStanza PROVE Types'
  OBVIOUS
<1>1. PhaseType' /\ ListType' /\ AckType' /\ ServerType' /\ SentType'
  BY DEF ReceiveStanza, outgoing, incoming, sentVars, wire, counters, history, Types, PhaseType, ListType, AckType, ServerType, SentType
<1>2. StoreType'
  <2>1. lastHandledByClient \in Nat /\ lastHandledByClient' = (lastHandledByClient + 1) % Modulus
    BY Bounds DEF ReceiveStanza, Types, StoreType
  <2>2. lastHandledByClient' \in 0..(Modulus - 1)
    BY <2>1, Quotient
  <2>3. store \in Store /\ store' = [store EXCEPT !.byClient = lastHandledByClient']
    BY DEF ReceiveStanza, Types, StoreType
  <2>4. QED
    BY <2>2, <2>3 DEF Store, StoreType
<1>3. WireType'
  BY Bounds, ListTypes, UpFacts, UpReads, DownFacts, DownReads, AppendFacts DEF ReceiveStanza, outgoing, incoming, sentVars, wire, counters, history, ToServer, ToClient, Types, WireType
<1>4. HistoryType'
  BY Bounds, ListTypes, DownFacts, DownReads, AppendFacts DEF ReceiveStanza, outgoing, incoming, sentVars, wire, counters, history, Types, HistoryType
<1>5. QED
  BY <1>1, <1>2, <1>3, <1>4 DEF Types

\* The types are kept when an ack is sent.
LEMMA SendAckTypes == Types /\ SendAck => Types'
<1> SUFFICES ASSUME Types, SendAck PROVE Types'
  OBVIOUS
<1>1. PhaseType' /\ ListType' /\ AckType' /\ StoreType' /\ ServerType' /\ SentType' /\ HistoryType'
  BY DEF SendAck, outgoing, incoming, sentVars, wire, counters, history, Types, PhaseType, ListType, AckType, StoreType, ServerType, SentType, HistoryType
<1>2. WireType'
  <2>1. <<"a", lastHandledByClient>> \in UpElement
    BY UpFacts DEF Types, StoreType
  <2>2. QED
    BY <2>1, SentToServer DEF SendAck, Types, WireType
<1>3. QED
  BY <1>1, <1>2 DEF Types

\* The types are kept when the server reads <enable/>.
LEMMA ServerEnablesTypes == Types /\ ServerEnables => Types'
<1> SUFFICES ASSUME Types, ServerEnables PROVE Types'
  OBVIOUS
<1>1. PhaseType' /\ ListType' /\ AckType' /\ StoreType' /\ SentType' /\ HistoryType'
  BY DEF ServerEnables, ServerReads, outgoing, incoming, sentVars, wire, counters, history, Types, PhaseType, ListType, AckType, StoreType, SentType, HistoryType
<1>2. WireType'
  <2>1. ids + 1 \in Nat /\ NoId \in Nat
    BY DEF Types, ServerType, NoId
  <2>2. /\ <<"failed">> \in DownElement
        /\ \A id \in {ids + 1, NoId} : <<"enabled", id>> \in DownElement
    BY <2>1, DownFacts
  <2>3. down' \in Seq(DownElement)
    BY <2>2, SentToClient DEF ServerEnables
  <2>4. QED
    BY <2>3, ServerRead DEF ServerEnables, WireType
<1>3. ServerType'
  <2>1. ids \in Nat /\ ids + 1 \in Nat
    BY DEF Types, ServerType
  <2>2. QED
    BY <2>1, ServerChanges DEF ServerEnables, Types, ServerType
<1>4. QED
  BY <1>1, <1>2, <1>3 DEF Types

\* The types are kept when the server reads <resume/>.
LEMMA ServerResumesTypes == Types /\ ServerResumes => Types'
<1> SUFFICES ASSUME Types, ServerResumes PROVE Types'
  OBVIOUS
<1>1. PhaseType' /\ ListType' /\ AckType' /\ StoreType' /\ SentType' /\ HistoryType'
  BY DEF ServerResumes, ServerReads, outgoing, incoming, sentVars, wire, counters, history, Types, PhaseType, ListType, AckType, StoreType, SentType, HistoryType
<1>2. WireType'
  <2>1. PICK h : h = Head(up)[3]
    OBVIOUS
  <2>2. h \in Nat /\ server.acked \in Nat /\ server.out \in Nat
    <3>1. Head(up) \in UpElement /\ Head(up)[1] = "resume"
      BY ServerRead DEF ServerResumes
    <3>2. h \in 0..(Modulus - 1)
      BY <2>1, <3>1, UpFacts
    <3>3. QED
      BY <3>2, ListTypes, Bounds
  <2>3. PICK acked : acked = server.acked + ((h - server.acked) % Modulus)
    OBVIOUS
  <2>4. acked \in Nat
    BY <2>2, <2>3, Bounds
  <2>5. <<<<"resumed", server.in % Modulus>>>> \in Seq(DownElement)
    <3>1. <<"resumed", server.in % Modulus>> \in DownElement
      BY ListTypes, Quotient, DownFacts
    <3>2. QED
      BY <3>1
  <2>6. [i \in 1..(server.out - acked) |-> <<"stanza", acked + i>>] \in Seq(DownElement)
    BY <2>2, <2>4, AgainSeq
  <2>7. down' \in Seq(DownElement)
    <3>1. CASE server.id = Head(up)[2]
      <4>1. down' = <<<<"resumed", server.in % Modulus>>>>
                    \o [i \in 1..(server.out - acked) |-> <<"stanza", acked + i>>]
        BY <2>1, <2>3, <3>1 DEF ServerResumes
      <4>2. QED
        BY <2>5, <2>6, <4>1
    <3>2. CASE server.id # Head(up)[2]
      BY <3>2, DownFacts, SentToClient DEF ServerResumes
    <3>3. QED
      BY <3>1, <3>2
  <2>8. QED
    BY <2>7, ServerRead DEF ServerResumes, WireType
<1>3. ServerType'
  <2>1. PICK h : h = Head(up)[3]
    OBVIOUS
  <2>2. h \in Nat /\ server.acked \in Nat
    <3>1. Head(up) \in UpElement /\ Head(up)[1] = "resume"
      BY ServerRead DEF ServerResumes
    <3>2. h \in 0..(Modulus - 1)
      BY <2>1, <3>1, UpFacts
    <3>3. QED
      BY <3>2, ListTypes, Bounds
  <2>3. PICK acked : acked = server.acked + ((h - server.acked) % Modulus)
    OBVIOUS
  <2>4. acked \in Nat
    BY <2>2, <2>3, Bounds
  <2>5. server' \in {server, [server EXCEPT !.on = TRUE, !.acked = acked]} /\ ids' = ids
    BY <2>1, <2>3 DEF ServerResumes, counters
  <2>6. QED
    BY <2>4, <2>5, ServerChanges DEF Types, ServerType
<1>4. QED
  BY <1>1, <1>2, <1>3 DEF Types

\* The types are kept when the server handles a stanza.
LEMMA ServerHandlesTypes == Types /\ ServerHandles => Types'
<1> SUFFICES ASSUME Types, ServerHandles PROVE Types'
  OBVIOUS
<1>1. PhaseType' /\ ListType' /\ AckType' /\ StoreType' /\ SentType' /\ HistoryType'
  BY DEF ServerHandles, ServerReads, outgoing, incoming, sentVars, wire, counters, history, Types, PhaseType, ListType, AckType, StoreType, SentType, HistoryType
<1>2. WireType'
  BY Bounds, ListTypes, UpFacts, UpReads, DownFacts, DownReads, AppendFacts DEF ServerHandles, ServerReads, outgoing, incoming, sentVars, wire, counters, history, ToServer, ToClient, Types, WireType
<1>3. ServerType'
  <2>1. server' \in {server, [server EXCEPT !.in = @ + 1]} /\ ids' = ids
    BY DEF ServerHandles, counters
  <2>2. QED
    BY <2>1, ServerChanges DEF Types, ServerType
<1>4. QED
  BY <1>1, <1>2, <1>3 DEF Types

\* The types are kept when the server answers a request.
LEMMA ServerAcksTypes == Types /\ ServerAcks => Types'
<1> SUFFICES ASSUME Types, ServerAcks PROVE Types'
  OBVIOUS
<1>1. PhaseType' /\ ListType' /\ AckType' /\ StoreType' /\ ServerType' /\ SentType' /\ HistoryType'
  BY DEF ServerAcks, ServerReads, outgoing, incoming, sentVars, wire, counters, history, Types, PhaseType, ListType, AckType, StoreType, ServerType, SentType, HistoryType
<1>2. WireType'
  <2>1. <<"a", server.in % Modulus>> \in DownElement
    BY ListTypes, Quotient, DownFacts
  <2>2. down' \in Seq(DownElement)
    BY <2>1, SentToClient DEF ServerAcks, Types, WireType
  <2>3. QED
    BY <2>2, ServerRead DEF ServerAcks, WireType
<1>3. QED
  BY <1>1, <1>2 DEF Types

\* The types are kept when the server is acked.
LEMMA ServerIsAckedTypes == Types /\ ServerIsAcked => Types'
<1> SUFFICES ASSUME Types, ServerIsAcked PROVE Types'
  OBVIOUS
<1>1. PhaseType' /\ ListType' /\ AckType' /\ StoreType' /\ SentType' /\ HistoryType'
  BY DEF ServerIsAcked, ServerReads, outgoing, incoming, sentVars, wire, counters, history, Types, PhaseType, ListType, AckType, StoreType, SentType, HistoryType
<1>2. WireType'
  BY Bounds, ListTypes, UpFacts, UpReads, DownFacts, DownReads, AppendFacts DEF ServerIsAcked, ServerReads, outgoing, incoming, sentVars, wire, counters, history, ToServer, ToClient, Types, WireType
<1>3. ServerType'
  <2>1. Head(up)[2] \in Nat /\ server.acked \in Nat
    <3>1. Head(up) \in UpElement /\ Head(up)[1] = "a"
      BY ServerRead DEF ServerIsAcked
    <3>2. Head(up)[2] \in 0..(Modulus - 1)
      BY <3>1, UpFacts
    <3>3. QED
      BY <3>2, ListTypes, Bounds
  <2>2. server.acked + ((Head(up)[2] - server.acked) % Modulus) \in Nat
    BY <2>1, Bounds
  <2>3. server' = [server EXCEPT !.acked = server.acked + ((Head(up)[2] - server.acked) % Modulus)]
        /\ ids' = ids
    BY DEF ServerIsAcked, counters
  <2>4. QED
    BY <2>2, <2>3, ServerChanges DEF Types, ServerType
<1>4. QED
  BY <1>1, <1>2, <1>3 DEF Types

\* The types are kept when the server sends a stanza.
LEMMA ServerSendsTypes == Types /\ ServerSends => Types'
<1> SUFFICES ASSUME Types, ServerSends PROVE Types'
  OBVIOUS
<1>1. PhaseType' /\ ListType' /\ AckType' /\ StoreType' /\ SentType' /\ HistoryType'
  BY DEF ServerSends, outgoing, incoming, sentVars, wire, counters, history, Types, PhaseType, ListType, AckType, StoreType, SentType, HistoryType
<1>2. WireType'
  <2>1. <<"stanza", server.out + 1>> \in DownElement
    <3>1. server.out + 1 \in Nat
      BY CountTypes
    <3>2. QED
      BY <3>1, DownFacts
  <2>2. QED
    BY <2>1, SentToClient DEF ServerSends, Types, WireType
<1>3. ServerType'
  <2>1. server \in Server /\ ids \in Nat
    BY DEF Types, ServerType
  <2>2. QED
    BY <2>1 DEF ServerSends, counters, Server, ServerType
<1>4. QED
  BY <1>1, <1>2, <1>3 DEF Types

\* The types are kept when the session expires.
LEMMA SessionExpiresTypes == Types /\ SessionExpires => Types'
<1> SUFFICES ASSUME Types, SessionExpires PROVE Types'
  OBVIOUS
<1>1. PhaseType' /\ ListType' /\ AckType' /\ StoreType' /\ WireType' /\ SentType' /\ HistoryType'
  BY DEF SessionExpires, outgoing, incoming, sentVars, wire, counters, history, Types, PhaseType, ListType, AckType, StoreType, WireType, SentType, HistoryType
<1>2. ServerType'
  <2>1. server \in Server /\ ids \in Nat
    BY DEF Types, ServerType
  <2>2. QED
    BY <2>1 DEF SessionExpires, counters, Server, ServerType, NoSession, NoId
<1>3. QED
  BY <1>1, <1>2 DEF Types

-----------------------------------------------------------------------------
(* An ack or a name arrives.                                               *)

\* processReceivedAck begins with the whole list.
LEMMA AckStarts ==
  ASSUME unackedByServer \in Seq(Nat), lastRequestOffset \in Nat,
         NEW c \in Nat, lastHandledByServer = c % Modulus
  PROVE  Stands(AckState, 0, c) /\ AckState.taken = 0 /\ AckState.last = lastHandledByServer
<1>1. PICK s : s = AckState
  OBVIOUS
<1>2. /\ s.unacked = unackedByServer /\ s.acked = <<>> /\ s.offset = lastRequestOffset
      /\ s.last = lastHandledByServer /\ s.taken = 0 /\ s.complete = TRUE
  BY <1>1 DEF AckState
<1>3. /\ Drop(unackedByServer, 0) = unackedByServer /\ SubSeq(unackedByServer, 1, 0) = <<>>
      /\ Lower(lastRequestOffset, 0) = lastRequestOffset
  BY DEF Drop, Lower
<1>4. 0 \in 0..Len(unackedByServer)
  BY NonEmpty
<1>5. s.taken \in Nat
  BY ONLY <1>2
<1>6. s.complete \in BOOLEAN
  BY ONLY <1>2
<1>7. Stands(s, 0, c)
  BY <1>2, <1>3, <1>4, <1>5, <1>6 DEF Stands
<1>8. QED
  BY <1>1, <1>2, <1>7

\* What the state of processReceivedAck says of its counter and its reports.
LEMMA StandsFacts ==
  ASSUME Types, NEW p, NEW k, NEW b, Stands(p, k, b)
  PROVE  p.last = b % Modulus /\ (p.acked = <<>> => k = 0)
<1>1. PICK u : u = unackedByServer
  OBVIOUS
<1>2. u \in Seq(Nat) /\ k \in 0..Len(u) /\ p.acked = SubSeq(u, 1, k)
  BY <1>1, ListTypes DEF Stands
<1>3. Len(SubSeq(u, 1, k)) = k
  BY <1>2, DropFacts
<1>4. p.acked = <<>> => k = 0
  BY ONLY <1>2, <1>3, EmptySeq
<1>5. QED
  BY <1>4 DEF Stands

\* What has become of the list once k stanzas are taken off.
LEMMA ListAfter ==
  ASSUME Types, NEW p, NEW k, NEW b, Stands(p, k, b), Took(p)
  PROVE  /\ k \in 0..Len(unackedByServer) /\ b \in Nat
         /\ unackedByServer' = Drop(unackedByServer, k)
         /\ reported' = reported \o SubSeq(unackedByServer, 1, k)
         /\ unackedByServer' \in Seq(1..MaxSent)
         /\ Len(unackedByServer') = Len(unackedByServer) - k
         /\ \A i \in 1..(Len(unackedByServer) - k) : unackedByServer'[i] = unackedByServer[k + i]
         /\ lastRequestOffset' = Lower(lastRequestOffset, k)
         /\ lastRequestOffset' \in 0..Len(unackedByServer')
         /\ lastHandledByServer' = b % Modulus /\ lastHandledByServer' \in 0..(Modulus - 1)
         /\ reported' \in Seq(Nat) /\ Len(reported') = Len(reported) + k
         /\ \A i \in 1..Len(reported) : reported'[i] = reported[i]
         /\ \A i \in 1..k : reported'[Len(reported) + i] = unackedByServer[i]
<1>1. PICK u : u = unackedByServer
  OBVIOUS
<1>2. PICK r : r = reported
  OBVIOUS
<1>3. u \in Seq(1..MaxSent) /\ u \in Seq(Nat) /\ r \in Seq(Nat) /\ Len(u) \in Nat /\ Len(r) \in Nat
  BY <1>1, <1>2, ListTypes DEF Types, ListType, HistoryType
<1>4. k \in 0..Len(u) /\ b \in Nat
  BY <1>1 DEF Stands
<1>5. /\ unackedByServer' = Drop(u, k) /\ reported' = r \o SubSeq(u, 1, k)
      /\ lastRequestOffset' = Lower(lastRequestOffset, k) /\ lastHandledByServer' = b % Modulus
  BY <1>1, <1>2 DEF Took, Stands
<1>6. /\ Drop(u, k) \in Seq(1..MaxSent) /\ Len(Drop(u, k)) = Len(u) - k
      /\ \A i \in 1..(Len(u) - k) : Drop(u, k)[i] = u[k + i]
  BY <1>3, <1>4, DropFacts
<1>7. /\ SubSeq(u, 1, k) \in Seq(Nat) /\ Len(SubSeq(u, 1, k)) = k
      /\ \A i \in 1..k : SubSeq(u, 1, k)[i] = u[i]
  BY <1>3, <1>4, DropFacts
<1>8. PICK x : x = r \o SubSeq(u, 1, k)
  OBVIOUS
<1>9. PICK a : a = SubSeq(u, 1, k)
  OBVIOUS
<1>10. /\ x \in Seq(Nat) /\ Len(x) = Len(r) + k /\ \A i \in 1..Len(r) : x[i] = r[i]
       /\ \A i \in 1..k : x[Len(r) + i] = u[i]
  <2>1. /\ x \in Seq(Nat) /\ Len(x) = Len(r) + Len(a)
        /\ \A i \in 1..(Len(r) + Len(a)) : x[i] = IF i <= Len(r) THEN r[i] ELSE a[i - Len(r)]
    BY <1>3, <1>7, <1>8, <1>9, ConcatProperties
  <2>2. Len(a) = k /\ \A i \in 1..k : a[i] = u[i]
    BY <1>7, <1>9
  <2>3. \A i \in 1..Len(r) : i \in 1..(Len(r) + k) /\ i <= Len(r)
    BY ONLY <1>3, <1>4
  <2>4. \A i \in 1..k : /\ Len(r) + i \in 1..(Len(r) + k) /\ ~(Len(r) + i <= Len(r))
                        /\ (Len(r) + i) - Len(r) = i
    BY ONLY <1>3, <1>4
  <2>5. QED
    BY ONLY <2>1, <2>2, <2>3, <2>4
<1>11. Lower(lastRequestOffset, k) \in 0..(Len(u) - k)
  <2>1. lastRequestOffset \in 0..Len(u)
    BY <1>1 DEF Types, ListType
  <2>2. QED
    BY ONLY <1>3, <1>4, <2>1 DEF Lower
<1>12. (b % Modulus) \in 0..(Modulus - 1)
  BY <1>4, Quotient
<1>13. QED
  BY <1>1, <1>2, <1>4, <1>5, <1>6, <1>8, <1>10, <1>11, <1>12

\* What ReceiveAck makes of an ack for the d[1] stanzas.
AckTaken(c, w, d, p, k, b) ==
  /\ Account(c, w, d) /\ d[1] \in Nat /\ c <= d[1] /\ d[1] <= server.in
  /\ k \in Nat /\ b \in Nat
  /\ p.last = b % Modulus /\ (p.acked = <<>> => k = 0)
  /\ Takes(AckState, 0, c, d[1], unanswered, p, k, b) /\ Stands(p, k, b) /\ Took(p)
  /\ QueueAck(d[1] % Modulus, p.complete)
  /\ IF p.acked = <<>> /\ p.last = lastHandledByServer
     THEN UNCHANGED store
     ELSE Save(p.unacked, p.last, unanswered)

\* An ack takes off the list what it stands for.
LEMMA AckReceived ==
  ASSUME Types, Phases, Accounted, ReceiveAck
  PROVE  /\ sm = "started" /\ lastHandledByServer \in 0..(Modulus - 1)
         /\ \E c, w, d, p, k, b : AckTaken(c, w, d, p, k, b)
<1>1. down # <<>> /\ Head(down) = down[1] /\ down[1] \in DownElement /\ down[1][1] = "a" /\ sm # "off"
  BY DownReads DEF ReceiveAck
<1>2. sm = "started"
  <2>1. sm # "enableQueued"
    BY <1>1 DEF Phases, Enabling
  <2>2. sm # "enableSent"
    <3>1. SUFFICES ASSUME sm = "enableSent" PROVE FALSE
      OBVIOUS
    <3>2. Requesting \/ Refused \/ Granted
      BY <3>1 DEF Phases, Enabling
    <3>3. ~Requesting
      BY <1>1 DEF Requesting
    <3>4. ~Refused
      BY <1>1 DEF Refused
    <3>5. ~Granted
      BY <1>1 DEF Granted
    <3>6. QED
      BY <3>2, <3>3, <3>4, <3>5
  <2>3. QED
    BY <1>1, <2>1, <2>2 DEF Types, PhaseType
<1>3. PICK c, w, d : Account(c, w, d)
  BY DEF Accounted
<1>4. 1 \in 1..Len(down)
  BY <1>1, ListTypes, NonEmpty
<1>5. c \in Nat /\ lastHandledByServer = c % Modulus
  BY <1>2, <1>3 DEF Account, Acked
<1>6. d[1] \in Nat /\ c <= d[1] /\ d[1] <= server.in /\ down[1][2] = d[1] % Modulus
  BY <1>1, <1>3, <1>4 DEF Account, Arriving
<1>7. PICK p : p = ProcessAck(AckState, down[1][2], unanswered)
  OBVIOUS
<1>8. /\ Took(p) /\ QueueAck(d[1] % Modulus, p.complete)
      /\ IF p.acked = <<>> /\ p.last = lastHandledByServer
         THEN UNCHANGED store
         ELSE Save(p.unacked, p.last, unanswered)
  BY <1>1, <1>6, <1>7 DEF ReceiveAck
<1>9. PICK k, b \in Nat : Takes(AckState, 0, c, d[1], unanswered, p, k, b)
  BY <1>5, <1>6, <1>7, ListTypes, AckStarts, ProcessOne
<1>10. Stands(p, k, b)
  BY <1>9 DEF Takes
<1>11. p.last = b % Modulus /\ (p.acked = <<>> => k = 0)
  BY <1>10, StandsFacts
<1>12. AckTaken(c, w, d, p, k, b)
  BY <1>3, <1>6, <1>8, <1>9, <1>10, <1>11 DEF AckTaken
<1>13. QED
  BY <1>2, <1>12 DEF Types, AckType

\* What StanzaIdAnswered makes of the acks that wait.
NameTaken(n, c, w, d, p, k, b) ==
  /\ Account(c, w, d) /\ k \in Nat /\ b \in Nat
  /\ Stands(p, k, b) /\ Took(p) /\ p.taken \in 0..Len(unprocessed)
  /\ p.last = b % Modulus /\ (p.acked = <<>> => k = 0)
  /\ unprocessed # <<>> => TakesAll(c, w, unanswered \ {n}, p, k, b)
  /\ unprocessed = <<>> => p.taken = 0 /\ k = 0 /\ lastHandledByServer' = lastHandledByServer
  /\ unprocessed' = Drop(unprocessed, p.taken)
  /\ IF p.taken > 0 /\ p.acked = <<>> /\ p.last = lastHandledByServer
     THEN UNCHANGED store
     ELSE Save(p.unacked, p.last, unanswered')

\* A name lets the acks that waited take off the list what they stand for.
LEMMA NameAnswered ==
  ASSUME Types, Accounted, NEW n \in unanswered, StanzaIdAnswered(n)
  PROVE  \E c, w, d, p, k, b : NameTaken(n, c, w, d, p, k, b)
<1>1. PICK c, w, d : Account(c, w, d)
  BY DEF Accounted
<1>2. PICK p : p = ProcessAcks(unprocessed, unanswered \ {n})
  OBVIOUS
<1>3. /\ Took(p) /\ unprocessed' = Drop(unprocessed, p.taken)
      /\ IF p.taken > 0 /\ p.acked = <<>> /\ p.last = lastHandledByServer
         THEN UNCHANGED store
         ELSE Save(p.unacked, p.last, unanswered')
  BY <1>2 DEF StanzaIdAnswered
<1>4. CASE unprocessed # <<>>
  <2>1. /\ c \in Nat /\ lastHandledByServer = c % Modulus
        /\ \A i \in 1..Len(unprocessed) : /\ w[i] \in Nat /\ c <= w[i]
                                          /\ unprocessed[i] = w[i] % Modulus
        /\ \A i, j \in 1..Len(unprocessed) : i < j => w[i] <= w[j]
    BY <1>1, <1>4 DEF Account, Acked, Waiting
  <2>2. PICK k, b \in Nat : TakesAll(c, w, unanswered \ {n}, p, k, b)
    BY <1>2, <1>4, <2>1, ListTypes, ProcessAll
  <2>3. Stands(p, k, b) /\ p.taken <= Len(unprocessed)
    BY <2>2 DEF TakesAll
  <2>4. p.taken \in 0..Len(unprocessed)
    <3>1. p.taken \in Nat
      BY <2>3 DEF Stands
    <3>2. Len(unprocessed) \in Nat
      BY ListTypes
    <3>3. QED
      BY ONLY <2>3, <3>1, <3>2
  <2>5. p.last = b % Modulus /\ (p.acked = <<>> => k = 0)
    BY <2>3, StandsFacts
  <2>6. NameTaken(n, c, w, d, p, k, b)
    BY <1>1, <1>3, <1>4, <2>2, <2>3, <2>4, <2>5 DEF NameTaken
  <2>7. QED
    BY <2>6
<1>5. CASE unprocessed = <<>>
  <2>1. PICK b : b = lastHandledByServer
    OBVIOUS
  <2>2. b \in 0..(Modulus - 1) /\ b \in Nat
    BY <2>1, Bounds DEF Types, AckType
  <2>3. lastHandledByServer = b % Modulus
    <3>1. b % Modulus = b
      BY <2>2, Bounds
    <3>2. QED
      BY <2>1, <3>1
  <2>4. p = AckState
    <3>1. PICK f : f[0] = AckState /\ ProcessAcks(unprocessed, unanswered \ {n}) = f[Len(unprocessed)]
      BY ListTypes, AfterAcks
    <3>2. Len(unprocessed) = 0
      BY <1>5, EmptySeq
    <3>3. QED
      BY <1>2, <3>1, <3>2
  <2>5. Stands(p, 0, b) /\ p.taken = 0 /\ p.last = lastHandledByServer
    BY <2>2, <2>3, <2>4, ListTypes, AckStarts
  <2>6. p.taken \in 0..Len(unprocessed)
    BY <2>5, ListTypes
  <2>7. lastHandledByServer' = lastHandledByServer
    BY <1>3, <2>5 DEF Took
  <2>8. NameTaken(n, c, w, d, p, 0, b)
    BY <1>1, <1>3, <1>5, <2>2, <2>3, <2>5, <2>6, <2>7 DEF NameTaken
  <2>9. QED
    BY <2>8
<1>6. QED
  BY <1>4, <1>5

\* What <resumed/> does when the list had o stanzas and the server takes n off.
ResumedTaken(o, n, x) ==
  /\ o = Len(prevUnacked) /\ o \in Nat /\ n \in Nat /\ n <= o /\ o <= tracked
  /\ reported' = reported \o x /\ x \in Seq(Nat)
  /\ \A i \in 1..Len(x) : x[i] > sent - o /\ x[i] <= sent - o + n
  /\ \A i, j \in 1..Len(x) : i < j => x[i] < x[j]

\* What <resumed/> takes off the stored list is what the server handled of it.
LEMMA Resumed ==
  ASSUME Types, Phases, Listed, Pending, Outgoing, Accounted, ReceiveResumed
  PROVE  /\ conn = "resuming" /\ sm = "off" /\ Resumable /\ Live /\ Resuming /\ server.on
         /\ up = <<>> /\ unackedByServer = <<>> /\ unprocessed = <<>>
         /\ down # <<>> /\ down' = Tail(down) /\ Head(down) = down[1]
         /\ down[1] = <<"resumed", server.in % Modulus>> /\ down[1][2] = server.in % Modulus
         /\ FirstThen(down, {"stanza"})
         /\ server.in <= tracked /\ lastHandledByServer' = server.in % Modulus
         /\ \E c \in Nat : /\ lastHandledByServer = c % Modulus /\ c <= server.in
                           /\ tracked - Len(prevUnacked) <= c \/ Len(prevUnacked) = 0
                           /\ \E n, x : /\ ResumedTaken(Len(prevUnacked), n, x)
                                        /\ n <= server.in - c
<1>1. conn = "resuming" /\ down # <<>> /\ Head(down) = down[1] /\ down[1][1] = "resumed"
  BY DownReads DEF ReceiveResumed
<1>2. sm = "off" /\ Resuming
  BY <1>1 DEF Phases, Ordered, Resumption
<1>3. /\ up = <<>> /\ Match /\ server.on /\ down[1] = <<"resumed", server.in % Modulus>>
      /\ FirstThen(down, {"stanza"}) /\ unackedByServer = <<>> /\ unprocessed = <<>>
  <2>1. down # <<<<"failed">>>>
    BY <1>1
  <2>2. QED
    BY <1>1, <1>2, <2>1 DEF Resuming
<1>4. Resumable /\ Live
  BY <1>2, <1>3 DEF Resumable, Live
<1>5. server.in <= tracked /\ down[1][2] = server.in % Modulus
  BY <1>3, <1>4 DEF Outgoing
<1>6. PICK c, w, d : Account(c, w, d)
  BY DEF Accounted
<1>7. PICK o : o = Len(prevUnacked)
  OBVIOUS
<1>8. Open = o /\ o \in Nat
  BY <1>3, <1>7, ListTypes, EmptySeq DEF Open
<1>9. /\ c \in Nat /\ lastHandledByServer = c % Modulus /\ c <= server.in
      /\ o > 0 => tracked - o <= c
  BY <1>4, <1>6, <1>8 DEF Account, Acked
<1>10. PICK n : n = AtMost(Diff(server.in % Modulus, c % Modulus), o)
  OBVIOUS
<1>11. n \in Nat /\ n <= o /\ n <= server.in - c
  <2>0. PICK m : m = server.in - c
    OBVIOUS
  <2>1. Diff(server.in % Modulus, c % Modulus) \in 0..m /\ m \in Nat
    <3>1. PICK v : v = server.in
      OBVIOUS
    <3>2. v \in Nat /\ c \in Nat /\ c <= v
      BY <1>9, <3>1, ListTypes
    <3>3. m = v - c /\ m \in Nat
      BY ONLY <2>0, <3>1, <3>2
    <3>4. Diff(v % Modulus, c % Modulus) \in 0..(v - c)
      BY <3>2, DiffIsSafe
    <3>5. QED
      BY ONLY <3>1, <3>3, <3>4
  <2>2. PICK x : x = Diff(server.in % Modulus, c % Modulus)
    OBVIOUS
  <2>3. n \in Nat /\ n <= o /\ n <= m
    BY ONLY <1>8, <1>10, <2>1, <2>2 DEF AtMost
  <2>4. QED
    BY <2>0, <2>3
<1>12. PICK a : a = SubSeq(prevUnacked, 1, n)
  OBVIOUS
<1>13. o <= tracked /\ \A i \in 1..o : prevUnacked[i] = NoId \/ prevUnacked[i] = (sent - o) + i
  BY <1>4, <1>7, <1>8 DEF Pending
<1>14. a \in Seq(Nat) /\ Len(a) = n /\ \A i \in 1..n : a[i] = NoId \/ a[i] = (sent - o) + i
  <2>1. n \in 0..Len(prevUnacked) /\ \A i \in 1..n : i \in 1..o
    BY ONLY <1>7, <1>8, <1>11
  <2>2. /\ SubSeq(prevUnacked, 1, n) \in Seq(Nat) /\ Len(SubSeq(prevUnacked, 1, n)) = n
        /\ \A i \in 1..n : SubSeq(prevUnacked, 1, n)[i] = prevUnacked[i]
    BY <2>1, ListTypes, DropFacts
  <2>3. QED
    BY ONLY <1>12, <1>13, <2>1, <2>2
<1>15. PICK x : x = Identified(a)
  OBVIOUS
<1>16. sent - o \in Nat
  <2>1. sent \in Nat /\ tracked \in Nat /\ sent - tracked \in Nat
    BY ListTypes
  <2>2. o \in Nat /\ o <= tracked
    BY <1>8, <1>13
  <2>3. QED
    BY ONLY <2>1, <2>2
<1>17. ResumedTaken(o, n, x)
  <2>1. /\ x \in Seq(Nat) /\ \A i \in 1..Len(x) : x[i] > sent - o /\ x[i] <= (sent - o) + n
        /\ \A i, j \in 1..Len(x) : i < j => x[i] < x[j]
    <3>1. PICK m : m = sent - o
      OBVIOUS
    <3>2. m \in Nat /\ \A i \in 1..Len(a) : a[i] = NoId \/ a[i] = m + i
      BY <1>14, <1>16, <3>1
    <3>3. QED
      BY <1>14, <1>15, <3>1, <3>2, IdentifiedFacts
  <2>2. reported' = reported \o x
    BY <1>1, <1>5, <1>7, <1>9, <1>10, <1>12, <1>15 DEF ReceiveResumed
  <2>3. QED
    BY <1>7, <1>8, <1>11, <1>13, <2>1, <2>2 DEF ResumedTaken
<1>18. lastHandledByServer' = server.in % Modulus /\ down' = Tail(down)
  BY <1>1, <1>5 DEF ReceiveResumed
<1>19. tracked - o <= c \/ o = 0
  BY <1>8, <1>9
<1>20. QED
  BY <1>1, <1>2, <1>3, <1>4, <1>5, <1>7, <1>9, <1>11, <1>17, <1>18, <1>19

\* The types are kept when the session is resumed.
LEMMA ReceiveResumedTypes ==
  ASSUME Types, Phases, Listed, Pending, Outgoing, Accounted, ReceiveResumed
  PROVE  Types'
<1>1. ServerType'
  BY DEF ReceiveResumed, counters, Types, ServerType
<1>2. PICK h : h = server.in % Modulus
  OBVIOUS
<1>3. h \in 0..(Modulus - 1) /\ Head(down)[2] = h /\ lastHandledByServer' = h
  <2>1. /\ Head(down) = down[1] /\ down[1][2] = server.in % Modulus
        /\ lastHandledByServer' = server.in % Modulus
    BY Resumed
  <2>2. h \in 0..(Modulus - 1)
    BY <1>2, ListTypes, Quotient
  <2>3. QED
    BY <1>2, <2>1, <2>2
<1>4. ListType' /\ AckType'
  <2>1. <<>> \in Seq(0..MaxSent)
    BY EmptySeq
  <2>2. QED
    BY <1>3, <2>1 DEF ReceiveResumed, Types, ListType, AckType
<1>5. PhaseType'
  BY DEF ReceiveResumed, Connection, PhaseType
<1>6. StoreType'
  <2>1. store \in Store /\ <<>> \in Seq(0..MaxSent)
    BY EmptySeq DEF Types, StoreType
  <2>2. store' = [store EXCEPT !.byServer = h, !.pending = <<>>]
        /\ lastHandledByClient' = lastHandledByClient
    BY <1>3 DEF ReceiveResumed, incoming
  <2>3. store' \in Store
    BY <1>3, <2>1, <2>2 DEF Store
  <2>4. QED
    BY <2>2, <2>3 DEF Types, StoreType
<1>7. WireType'
  BY DownReads DEF ReceiveResumed, Types, WireType
<1>8. SentType'
  <2>1. server.in <= tracked
    BY Resumed
  <2>2. tracked' = server.in /\ sent' = sent /\ unanswered' = unanswered
    BY DEF ReceiveResumed
  <2>3. server.in \in 0..sent
    <3>1. server.in \in Nat /\ sent \in Nat /\ tracked \in Nat /\ sent - tracked \in Nat
      BY ListTypes
    <3>2. QED
      BY ONLY <2>1, <3>1
  <2>4. QED
    BY <2>2, <2>3 DEF Types, SentType
<1>9. HistoryType'
  <2>1. PICK n, x : ResumedTaken(Len(prevUnacked), n, x)
    BY Resumed
  <2>2. reported' = reported \o x /\ x \in Seq(Nat)
    BY <2>1 DEF ResumedTaken
  <2>3. QED
    BY <2>2, ConcatProperties DEF ReceiveResumed, Types, HistoryType
<1>10. QED
  BY <1>1, <1>4, <1>5, <1>6, <1>7, <1>8, <1>9 DEF Types

\* What is stored is the list with the names it has.
LEMMA SaveType ==
  ASSUME Types, NEW u \in Seq(1..MaxSent), NEW last \in 0..(Modulus - 1), NEW awaiting,
         Save(u, last, awaiting)
  PROVE  /\ store' \in Store /\ store'.id = store.id /\ store'.byServer = last
         /\ Len(store'.pending) = Len(u)
         /\ \A i \in 1..Len(u) : store'.pending[i] = NoId \/ store'.pending[i] = u[i]
         /\ sm # "started" => store'.byClient = lastHandledByClient
<1>1. PICK m : m = Names(u, awaiting)
  OBVIOUS
<1>2. m \in Seq(0..MaxSent) /\ Len(m) = Len(u) /\ \A i \in 1..Len(u) : m[i] = NoId \/ m[i] = u[i]
  BY <1>1, NamesFacts
<1>3. PICK k : k = IF sm = "started" THEN store.byClient ELSE lastHandledByClient
  OBVIOUS
<1>4. store \in Store /\ k \in 0..(Modulus - 1)
  BY <1>3 DEF Types, StoreType, Store
<1>5. store' = [store EXCEPT !.byServer = last, !.pending = m, !.byClient = k]
  BY <1>1, <1>3 DEF Save
<1>6. store' \in Store /\ store'.id = store.id /\ store'.byServer = last /\ store'.pending = m
      /\ store'.byClient = k
  BY <1>2, <1>4, <1>5 DEF Store
<1>7. QED
  BY <1>2, <1>3, <1>6

\* The types are kept when an ack arrives.
LEMMA ReceiveAckTypes ==
  ASSUME Types, Phases, Accounted, ReceiveAck
  PROVE  Types'
<1>1. PICK c, w, d, p, k, b : AckTaken(c, w, d, p, k, b)
  BY AckReceived
<1>2. Stands(p, k, b) /\ Took(p) /\ d[1] \in Nat /\ QueueAck(d[1] % Modulus, p.complete)
  BY <1>1 DEF AckTaken
<1>3. /\ unackedByServer' \in Seq(1..MaxSent) /\ lastRequestOffset' \in 0..Len(unackedByServer')
      /\ lastHandledByServer' \in 0..(Modulus - 1) /\ reported' \in Seq(Nat)
      /\ p.unacked = unackedByServer' /\ p.last = lastHandledByServer'
  BY <1>2, ListAfter DEF Took
<1>4. PhaseType' /\ ServerType' /\ SentType'
  BY DEF ReceiveAck, sentVars, counters, Types, PhaseType, ServerType, SentType
<1>5. ListType'
  BY <1>3 DEF ReceiveAck, Types, ListType
<1>6. AckType'
  <2>1. (d[1] % Modulus) \in 0..(Modulus - 1)
    BY <1>2, Quotient
  <2>2. unprocessed' \in Seq(0..(Modulus - 1))
    BY <1>2, <2>1, AppendFacts DEF QueueAck, Types, AckType
  <2>3. QED
    BY <1>3, <2>2 DEF ReceiveAck, Types, AckType
<1>7. StoreType'
  <2>1. UNCHANGED store \/ Save(p.unacked, p.last, unanswered)
    BY <1>1 DEF AckTaken
  <2>2. store' \in Store
    BY <1>3, <2>1, SaveType DEF Types, StoreType
  <2>3. QED
    BY <2>2 DEF ReceiveAck, incoming, Types, StoreType
<1>8. WireType'
  BY DownReads DEF ReceiveAck, Types, WireType
<1>9. HistoryType'
  BY <1>3 DEF ReceiveAck, Types, HistoryType
<1>10. QED
  BY <1>4, <1>5, <1>6, <1>7, <1>8, <1>9 DEF Types

\* The types are kept when a stanza gets its name.
LEMMA StanzaIdAnsweredTypes ==
  ASSUME Types, Accounted, NEW n \in unanswered, StanzaIdAnswered(n)
  PROVE  Types'
<1>1. PICK c, w, d, p, k, b : NameTaken(n, c, w, d, p, k, b)
  BY NameAnswered
<1>2. Stands(p, k, b) /\ Took(p) /\ p.taken \in 0..Len(unprocessed) /\ unprocessed' = Drop(unprocessed, p.taken)
  BY <1>1 DEF NameTaken
<1>3. /\ unackedByServer' \in Seq(1..MaxSent) /\ lastRequestOffset' \in 0..Len(unackedByServer')
      /\ lastHandledByServer' \in 0..(Modulus - 1) /\ reported' \in Seq(Nat)
      /\ p.unacked = unackedByServer' /\ p.last = lastHandledByServer'
  BY <1>2, ListAfter DEF Took
<1>4. PhaseType' /\ ServerType' /\ WireType'
  BY DEF StanzaIdAnswered, wire, counters, Types, PhaseType, ServerType, WireType
<1>5. ListType'
  BY <1>3 DEF StanzaIdAnswered, Types, ListType
<1>6. AckType'
  <2>1. unprocessed' \in Seq(0..(Modulus - 1))
    BY <1>2, DropFacts DEF Types, AckType
  <2>2. QED
    BY <1>3, <2>1 DEF StanzaIdAnswered, Types, AckType
<1>7. StoreType'
  <2>1. UNCHANGED store \/ Save(p.unacked, p.last, unanswered')
    BY <1>1 DEF NameTaken
  <2>2. PICK aw : aw = unanswered'
    OBVIOUS
  <2>3. store' \in Store
    <3>1. CASE UNCHANGED store
      BY <3>1 DEF Types, StoreType
    <3>2. CASE Save(p.unacked, p.last, aw)
      BY <1>3, <3>2, SaveType
    <3>3. QED
      BY <2>1, <2>2, <3>1, <3>2
  <2>4. QED
    BY <2>3 DEF StanzaIdAnswered, incoming, Types, StoreType
<1>8. SentType'
  BY DEF StanzaIdAnswered, Types, SentType
<1>9. HistoryType'
  BY <1>3 DEF StanzaIdAnswered, Types, HistoryType
<1>10. QED
  BY <1>4, <1>5, <1>6, <1>7, <1>8, <1>9 DEF Types

\* The types are kept when the stream disconnects.
LEMMA DisconnectTypes ==
  ASSUME Types, NEW clean \in BOOLEAN, Disconnect(clean)
  PROVE  Types'
<1>1. PhaseType' /\ SentType' /\ HistoryType'
  BY DEF Disconnect, Connection, sentVars, history, Types, PhaseType, SentType, HistoryType
<1>2. ListType' /\ AckType'
  <2>1. <<>> \in Seq(0..MaxSent)
    BY EmptySeq
  <2>2. QED
    BY <2>1 DEF Disconnect, Types, ListType, AckType
<1>3. WireType'
  BY EmptySeq DEF Disconnect, WireType
<1>4. ServerType'
  <2>1. server' \in {NoSession, [server EXCEPT !.on = FALSE]} /\ ids' = ids
    BY DEF Disconnect, counters
  <2>2. QED
    BY <2>1, ServerChanges DEF Types, ServerType
<1>5. StoreType'
  <2>1. NoStore \in Store
    BY Bounds, EmptySeq DEF NoStore, Store, NoId
  <2>2. PICK m : m = Names(unackedByServer, unanswered)
    OBVIOUS
  <2>3. m \in Seq(0..MaxSent)
    BY <2>2, NamesFacts DEF Types, ListType
  <2>4. [store EXCEPT !.byClient = lastHandledByClient, !.byServer = lastHandledByServer, !.pending = m] \in Store
    BY <2>3 DEF Types, StoreType, AckType, Store
  <2>5. QED
    BY <2>1, <2>2, <2>4 DEF Disconnect, incoming, Types, StoreType
<1>6. QED
  BY <1>1, <1>2, <1>3, <1>4, <1>5 DEF Types

-----------------------------------------------------------------------------
(* Where the client is when the server reads.                              *)

\* Sequences of no element and of one.
LEMMA ShortKinds ==
  ASSUME NEW K, NEW e
  PROVE  /\ Kinds(<<>>, K) /\ FirstThen(<<e>>, K) /\ (e[1] \in K => Kinds(<<e>>, K))
         /\ Append(<<>>, e) = <<e>> /\ <<e>> # <<>> /\ Len(<<e>>) = 1 /\ Tail(<<e>>) = <<>>
         /\ Head(<<e>>) = e /\ <<e>>[1] = e
<1>1. Len(<<>>) = 0 /\ Len(<<e>>) = 1 /\ <<e>>[1] = e
  OBVIOUS
<1>2. Kinds(<<>>, K)
  BY <1>1 DEF Kinds
<1>3. FirstThen(<<e>>, K)
  BY <1>1 DEF FirstThen
<1>4. e[1] \in K => Kinds(<<e>>, K)
  BY <1>1 DEF Kinds
<1>5. QED
  BY <1>1, <1>2, <1>3, <1>4

\* The server reads <enable/> only when the client has asked.
LEMMA ReadsEnable ==
  ASSUME Types, Phases, ServerReads("enable")
  PROVE  /\ conn = "online" /\ sm = "enableSent" /\ Requesting
         /\ down = <<>> /\ server = NoSession /\ up # <<>> /\ Head(up) = up[1]
         /\ up' = Tail(up) /\ Kinds(up', {"stanza", "r"})
<1>1. /\ up # <<>> /\ Head(up) = up[1] /\ up[1][1] = "enable" /\ up' = Tail(up)
      /\ up \in Seq(UpElement)
  BY ServerRead DEF Types, WireType
<1>2. \A K : "enable" \notin K => ~Kinds(up, K)
  BY <1>1, KindsFacts
<1>3. conn \in {"resuming", "online"}
  BY <1>1 DEF Phases, Offline, Types, PhaseType, Connection
<1>4. conn # "resuming"
  BY <1>1 DEF Phases, Resumption, Resuming
<1>5. sm # "off"
  BY <1>2, <1>3, <1>4 DEF Phases, Unmanaged
<1>6. sm # "started"
  BY <1>2 DEF Phases, Started
<1>7. sm # "enableQueued"
  BY <1>1 DEF Phases, Enabling
<1>8. sm = "enableSent"
  BY <1>5, <1>6, <1>7 DEF Types, PhaseType
<1>9. ~Refused /\ ~Granted
  BY <1>2 DEF Refused, Granted
<1>10. Requesting
  BY <1>8, <1>9 DEF Phases, Enabling
<1>11. Kinds(Tail(up), {"stanza", "r"})
  BY <1>1, <1>10, KindsFacts DEF Requesting
<1>12. QED
  BY <1>1, <1>3, <1>4, <1>8, <1>10, <1>11 DEF Requesting

\* The server reads <resume/> only when the client waits for the answer.
LEMMA ReadsResume ==
  ASSUME Types, Phases, ServerReads("resume")
  PROVE  /\ conn = "resuming" /\ sm = "off" /\ Resuming
         /\ up = <<<<"resume", store.id, store.byClient>>>> /\ Head(up) = up[1]
         /\ Head(up) = <<"resume", store.id, store.byClient>>
         /\ up' = <<>> /\ down = <<>> /\ ~server.on /\ store.id # NoId
<1>1. /\ up # <<>> /\ Head(up) = up[1] /\ up[1][1] = "resume" /\ up' = Tail(up)
      /\ up \in Seq(UpElement)
  BY ServerRead DEF Types, WireType
<1>2. \A K : "resume" \notin K => ~Kinds(up, K)
  BY <1>1, KindsFacts
<1>3. conn \in {"resuming", "online"}
  BY <1>1 DEF Phases, Offline, Types, PhaseType, Connection
<1>4. conn # "online"
  <2>1. SUFFICES ASSUME conn = "online" PROVE FALSE
    OBVIOUS
  <2>2. sm # "off"
    BY <1>2, <2>1 DEF Phases, Unmanaged
  <2>3. sm # "started"
    BY <1>2 DEF Phases, Started
  <2>4. sm # "enableQueued"
    BY <1>1 DEF Phases, Enabling
  <2>5. ~Refused /\ ~Granted /\ ~Requesting
    BY <1>1, <1>2 DEF Refused, Granted, Requesting
  <2>6. sm # "enableSent"
    BY <2>5 DEF Phases, Enabling
  <2>7. QED
    BY <2>2, <2>3, <2>4, <2>6 DEF Types, PhaseType
<1>5. conn = "resuming" /\ sm = "off" /\ Resuming
  BY <1>3, <1>4 DEF Phases, Ordered, Resumption
<1>6. /\ up = <<<<"resume", store.id, store.byClient>>>> /\ down = <<>> /\ ~server.on
      /\ store.id # NoId
  BY <1>1, <1>5 DEF Resuming
<1>7. Tail(up) = <<>> /\ Head(up) = <<"resume", store.id, store.byClient>>
  BY <1>6, ShortKinds
<1>8. QED
  BY <1>1, <1>5, <1>6, <1>7

\* Where the client is when the server reads anything else.
LEMMA ReadsOther ==
  ASSUME Types, Phases, NEW word \in {"stanza", "r", "a"}, ServerReads(word)
  PROVE  /\ conn = "online" /\ sm \in {"off", "enableSent", "started"}
         /\ up # <<>> /\ Head(up) = up[1] /\ up[1][1] = word /\ up' = Tail(up)
         /\ sm = "off" => /\ server = NoSession /\ down = <<>> /\ word # "a"
                          /\ Kinds(up', {"stanza", "r"})
         /\ sm = "enableSent" => /\ Refused \/ Granted
                                 /\ word # "a" /\ Kinds(up', {"stanza", "r"})
         /\ sm = "started" => Kinds(up', {"stanza", "r", "a"})
<1>1. /\ up # <<>> /\ Head(up) = up[1] /\ up[1][1] = word /\ up' = Tail(up)
      /\ up \in Seq(UpElement)
  BY ServerRead DEF Types, WireType
<1>2. /\ Kinds(up, {"stanza", "r"}) => Kinds(up', {"stanza", "r"}) /\ word # "a"
      /\ Kinds(up, {"stanza", "r", "a"}) => Kinds(up', {"stanza", "r", "a"})
  BY <1>1, KindsFacts
<1>3. conn \in {"resuming", "online"}
  BY <1>1 DEF Phases, Offline, Types, PhaseType, Connection
<1>4. conn # "resuming"
  BY <1>1 DEF Phases, Resumption, Resuming
<1>5. sm # "enableQueued"
  BY <1>1 DEF Phases, Enabling
<1>6. sm = "enableSent" => (Refused \/ Granted) /\ Kinds(up, {"stanza", "r"})
  <2>1. ~Requesting
    BY <1>1 DEF Requesting
  <2>2. sm = "enableSent" => Refused \/ Granted
    BY <2>1 DEF Phases, Enabling
  <2>3. QED
    BY <2>2 DEF Refused, Granted
<1>7. sm = "off" => server = NoSession /\ down = <<>> /\ Kinds(up, {"stanza", "r"})
  BY <1>3, <1>4 DEF Phases, Unmanaged
<1>8. sm = "started" => Kinds(up, {"stanza", "r", "a"})
  BY DEF Phases, Started
<1>9. conn = "online" /\ sm \in {"off", "enableSent", "started"}
  BY <1>3, <1>4, <1>5 DEF Types, PhaseType
<1>10. QED
  BY <1>1, <1>2, <1>6, <1>7, <1>8, <1>9

-----------------------------------------------------------------------------
(* What the steps do to what is on its way.                                *)

\* What is sent keeps the kinds on the way to the server.
LEMMA UpGrows ==
  ASSUME NEW s \in Seq(UpElement), NEW e \in UpElement, NEW x, x = Append(s, e)
  PROVE  /\ x \in Seq(UpElement) /\ x # <<>>
         /\ s # <<>> => x[1] = s[1]
         /\ e[1] \in {"stanza", "r", "a"} /\ Kinds(s, {"stanza", "r", "a"}) =>
              Kinds(x, {"stanza", "r", "a"})
         /\ e[1] \in {"stanza", "r"} =>
              /\ Kinds(s, {"stanza", "r"}) => Kinds(x, {"stanza", "r"})
              /\ FirstThen(s, {"stanza", "r"}) => FirstThen(x, {"stanza", "r"})
<1>1. x \in Seq(UpElement) /\ x # <<>>
  BY AppendFacts
<1>2. s # <<>> => x[1] = s[1]
  BY KindsFacts
<1>3. e[1] \in {"stanza", "r", "a"} /\ Kinds(s, {"stanza", "r", "a"}) =>
        Kinds(x, {"stanza", "r", "a"})
  BY KindsFacts
<1>4. e[1] \in {"stanza", "r"} =>
        /\ Kinds(s, {"stanza", "r"}) => Kinds(x, {"stanza", "r"})
        /\ FirstThen(s, {"stanza", "r"}) => FirstThen(x, {"stanza", "r"})
  BY KindsFacts
<1>5. QED
  BY <1>1, <1>2, <1>3, <1>4

\* What is sent keeps the kinds on the way back.
LEMMA DownGrows ==
  ASSUME NEW s \in Seq(DownElement), NEW e \in DownElement, NEW x, x = Append(s, e)
  PROVE  /\ x \in Seq(DownElement) /\ x # <<>>
         /\ s # <<>> => x[1] = s[1]
         /\ e[1] \in {"stanza", "a"} =>
              /\ Kinds(s, {"stanza", "a"}) => Kinds(x, {"stanza", "a"})
              /\ FirstThen(s, {"stanza", "a"}) => FirstThen(x, {"stanza", "a"})
         /\ e[1] = "stanza" /\ FirstThen(s, {"stanza"}) => FirstThen(x, {"stanza"})
<1>1. x \in Seq(DownElement) /\ x # <<>>
  BY AppendFacts
<1>2. s # <<>> => x[1] = s[1]
  BY KindsFacts
<1>3. e[1] \in {"stanza", "a"} =>
        /\ Kinds(s, {"stanza", "a"}) => Kinds(x, {"stanza", "a"})
        /\ FirstThen(s, {"stanza", "a"}) => FirstThen(x, {"stanza", "a"})
  BY KindsFacts
<1>4. e[1] = "stanza" /\ FirstThen(s, {"stanza"}) => FirstThen(x, {"stanza"})
  BY KindsFacts
<1>5. QED
  BY <1>1, <1>2, <1>3, <1>4

\* The stanza goes first, and then the request if there is one.
LEMMA StanzaSent ==
  ASSUME Types, SendStanza
  PROVE  /\ sent + 1 \in Nat /\ <<"stanza", sent + 1>> \in UpElement /\ <<"r">> \in UpElement
         /\ sent' = sent + 1 /\ tracked' = tracked + 1 /\ sm \in {"enableSent", "started"}
         /\ unackedByServer' = Append(unackedByServer, sent + 1)
         /\ unackedByServer' \in Seq(Nat) /\ Len(unackedByServer') = Len(unackedByServer) + 1
         /\ unackedByServer'[Len(unackedByServer) + 1] = sent + 1
         /\ \A i \in 1..Len(unackedByServer) : unackedByServer'[i] = unackedByServer[i]
         /\ \E x : /\ x = Append(up, <<"stanza", sent + 1>>)
                   /\ \/ /\ up' = Append(x, <<"r">>)
                         /\ lastRequestOffset' = Len(unackedByServer) + 1
                      \/ /\ up' = x /\ requestTimer' = TRUE
                         /\ lastRequestOffset' = lastRequestOffset
<1>1. sent + 1 \in Nat /\ sent' = sent + 1 /\ tracked' = tracked + 1 /\ sm \in {"enableSent", "started"}
  <2>1. sent + 1 \in Nat
    BY CountTypes
  <2>2. QED
    BY <2>1 DEF SendStanza
<1>2. /\ unackedByServer' = Append(unackedByServer, sent + 1) /\ unackedByServer' \in Seq(Nat)
      /\ Len(unackedByServer') = Len(unackedByServer) + 1
      /\ unackedByServer'[Len(unackedByServer) + 1] = sent + 1
      /\ \A i \in 1..Len(unackedByServer) : unackedByServer'[i] = unackedByServer[i]
  BY <1>1, ListTypes, AppendFacts DEF SendStanza
<1>3. <<"stanza", sent + 1>> \in UpElement /\ <<"r">> \in UpElement
  BY <1>1, UpFacts
<1>4. PICK e : e = <<"stanza", sent + 1>>
  OBVIOUS
<1>5. PICK r : r = <<"r">>
  OBVIOUS
<1>6. PICK x : x = Append(up, e)
  OBVIOUS
<1>7. e \in UpElement /\ r \in UpElement /\ up \in Seq(UpElement)
  BY <1>3, <1>4, <1>5, ListTypes
<1>8. up \o <<e, r>> = Append(x, r)
  BY <1>6, <1>7
<1>9. \/ up' = Append(x, r) /\ lastRequestOffset' = Len(unackedByServer) + 1
      \/ up' = x /\ requestTimer' = TRUE /\ lastRequestOffset' = lastRequestOffset
  BY <1>1, <1>2, <1>4, <1>5, <1>6, <1>8 DEF SendStanza, RequestAckNow, ToServer
<1>10. QED
  BY <1>1, <1>2, <1>3, <1>4, <1>5, <1>6, <1>9

\* What the client reads is gone.
LEMMA ClientRead ==
  ASSUME Types, down # <<>>
  PROVE  /\ down \in Seq(DownElement) /\ Head(down) = down[1] /\ down[1] \in DownElement
         /\ Tail(down) \in Seq(DownElement)
         /\ Kinds(down, {"stanza", "a"}) => Kinds(Tail(down), {"stanza", "a"})
         /\ FirstThen(down, {"stanza", "a"}) => Kinds(Tail(down), {"stanza", "a"})
         /\ FirstThen(down, {"stanza"}) => Kinds(Tail(down), {"stanza"})
<1>1. /\ down \in Seq(DownElement) /\ Head(down) = down[1] /\ down[1] \in DownElement
      /\ Tail(down) \in Seq(DownElement)
  BY DownReads, ListTypes
<1>2. /\ Kinds(down, {"stanza", "a"}) => Kinds(Tail(down), {"stanza", "a"})
      /\ FirstThen(down, {"stanza", "a"}) => Kinds(Tail(down), {"stanza", "a"})
      /\ FirstThen(down, {"stanza"}) => Kinds(Tail(down), {"stanza"})
  BY <1>1, KindsFacts
<1>3. QED
  BY <1>1, <1>2

\* What an ack or a name makes of the storage.
Saved ==
  /\ store'.byServer = lastHandledByServer'
  /\ Len(store'.pending) = Len(unackedByServer')
  /\ \A i \in 1..Len(unackedByServer') :
       store'.pending[i] = NoId \/ store'.pending[i] = unackedByServer'[i]
  /\ sm # "started" => store'.byClient = lastHandledByClient

\* What is stored when an ack took something off.
LEMMA AckSaved ==
  ASSUME Types, NEW c, NEW w, NEW d, NEW p, NEW k, NEW b, AckTaken(c, w, d, p, k, b)
  PROVE  /\ store'.id = store.id
         /\ \/ store' = store /\ k = 0 /\ lastHandledByServer' = lastHandledByServer
            \/ Saved
<1>1. Stands(p, k, b) /\ Took(p) /\ (p.acked = <<>> => k = 0)
  BY DEF AckTaken
<1>2. /\ unackedByServer' \in Seq(1..MaxSent) /\ lastHandledByServer' \in 0..(Modulus - 1)
      /\ p.unacked = unackedByServer' /\ p.last = lastHandledByServer'
  BY <1>1, ListAfter DEF Took
<1>3. CASE p.acked = <<>> /\ p.last = lastHandledByServer
  BY <1>1, <1>2, <1>3 DEF AckTaken
<1>4. CASE ~(p.acked = <<>> /\ p.last = lastHandledByServer)
  <2>1. Save(unackedByServer', lastHandledByServer', unanswered)
    BY <1>2, <1>4 DEF AckTaken
  <2>2. PICK u : u = unackedByServer'
    OBVIOUS
  <2>3. PICK l : l = lastHandledByServer'
    OBVIOUS
  <2>4. /\ store'.id = store.id /\ store'.byServer = l
        /\ Len(store'.pending) = Len(u)
        /\ \A i \in 1..Len(u) : store'.pending[i] = NoId \/ store'.pending[i] = u[i]
        /\ sm # "started" => store'.byClient = lastHandledByClient
    BY <1>2, <2>1, <2>2, <2>3, SaveType
  <2>5. QED
    BY <2>2, <2>3, <2>4 DEF Saved
<1>5. QED
  BY <1>3, <1>4

\* What is stored when a name arrived.
LEMMA NameSaved ==
  ASSUME Types, NEW n, NEW c, NEW w, NEW d, NEW p, NEW k, NEW b, NameTaken(n, c, w, d, p, k, b)
  PROVE  /\ store'.id = store.id
         /\ \/ store' = store /\ k = 0 /\ lastHandledByServer' = lastHandledByServer
            \/ Saved
<1>1. Stands(p, k, b) /\ Took(p) /\ (p.acked = <<>> => k = 0)
  BY DEF NameTaken
<1>2. /\ unackedByServer' \in Seq(1..MaxSent) /\ lastHandledByServer' \in 0..(Modulus - 1)
      /\ p.unacked = unackedByServer' /\ p.last = lastHandledByServer'
  BY <1>1, ListAfter DEF Took
<1>3. CASE p.taken > 0 /\ p.acked = <<>> /\ p.last = lastHandledByServer
  BY <1>1, <1>2, <1>3 DEF NameTaken
<1>4. CASE ~(p.taken > 0 /\ p.acked = <<>> /\ p.last = lastHandledByServer)
  <2>1. PICK u : u = unackedByServer'
    OBVIOUS
  <2>2. PICK l : l = lastHandledByServer'
    OBVIOUS
  <2>3. PICK aw : aw = unanswered'
    OBVIOUS
  <2>4. Save(u, l, aw)
    BY <1>2, <1>4, <2>1, <2>2, <2>3 DEF NameTaken
  <2>5. /\ store'.id = store.id /\ store'.byServer = l
        /\ Len(store'.pending) = Len(u)
        /\ \A i \in 1..Len(u) : store'.pending[i] = NoId \/ store'.pending[i] = u[i]
        /\ sm # "started" => store'.byClient = lastHandledByClient
    BY <1>2, <2>1, <2>2, <2>4, SaveType
  <2>6. QED
    BY <2>1, <2>2, <2>5 DEF Saved
<1>5. QED
  BY <1>3, <1>4

\* Without acks that wait a name changes nothing but what is stored.
LEMMA NameAlone ==
  ASSUME Types, NEW n, NEW c, NEW w, NEW d, NEW p, NEW k, NEW b, NameTaken(n, c, w, d, p, k, b),
         unprocessed = <<>>
  PROVE  /\ unackedByServer' = unackedByServer /\ unprocessed' = <<>>
         /\ lastRequestOffset' = lastRequestOffset /\ lastHandledByServer' = lastHandledByServer
         /\ reported' = reported /\ p.taken = 0 /\ k = 0
<1>1. Stands(p, k, b) /\ Took(p) /\ k = 0 /\ p.taken = 0 /\ lastHandledByServer' = lastHandledByServer
      /\ unprocessed' = Drop(unprocessed, 0)
  BY DEF NameTaken
<1>2. /\ unackedByServer' = Drop(unackedByServer, 0) /\ lastRequestOffset' = Lower(lastRequestOffset, 0)
      /\ reported' = reported \o SubSeq(unackedByServer, 1, 0)
  BY <1>1, ListAfter
<1>3. /\ Drop(unackedByServer, 0) = unackedByServer /\ SubSeq(unackedByServer, 1, 0) = <<>>
      /\ Lower(lastRequestOffset, 0) = lastRequestOffset /\ Drop(<<>>, 0) = <<>>
  <2>1. unackedByServer \in Seq(Nat) /\ lastRequestOffset \in Nat
    BY ListTypes
  <2>2. Drop(unackedByServer, 0) = unackedByServer /\ Drop(<<>>, 0) = <<>>
    BY ONLY <2>1 DEF Drop
  <2>3. SubSeq(unackedByServer, 1, 0) = <<>>
    BY ONLY <2>1
  <2>4. Lower(lastRequestOffset, 0) = lastRequestOffset
    BY ONLY <2>1 DEF Lower
  <2>5. QED
    BY <2>2, <2>3, <2>4
<1>4. reported \o <<>> = reported
  BY ConcatEmptySeq DEF Types, HistoryType
<1>5. QED
  BY <1>1, <1>2, <1>3, <1>4

-----------------------------------------------------------------------------
(* The phases.                                                             *)

\* What the server sends after <resume/>.
Again(acked, e, x) ==
  /\ acked \in Nat /\ acked = server.acked + ((store.byClient - server.acked) % Modulus)
  /\ e = <<"resumed", server.in % Modulus>> /\ e[1] = "resumed" /\ e[2] = server.in % Modulus
  /\ x \in Seq(DownElement) /\ Len(x) = (IF server.out >= acked THEN server.out - acked ELSE 0)
  /\ \A i \in 1..Len(x) : x[i] = <<"stanza", acked + i>>
  /\ down' = <<e>> \o x /\ Len(down') = Len(x) + 1 /\ down'[1] = e /\ down' # <<>>
  /\ \A i \in 2..(Len(x) + 1) : down'[i] = x[i - 1]
  /\ FirstThen(down', {"stanza"})
  /\ server'.acked = acked /\ server'.on /\ server'.id = server.id /\ server'.in = server.in
  /\ server'.out = server.out

\* After <resume/> the server sends what the client does not say it has.
LEMMA SentAgain ==
  ASSUME Types, Phases, ServerResumes, server.id = store.id
  PROVE  \E acked, e, x : Again(acked, e, x)
<1>1. Head(up) = <<"resume", store.id, store.byClient>>
  BY ReadsResume DEF ServerResumes
<1>2. Head(up)[2] = store.id /\ Head(up)[3] = store.byClient
  BY <1>1
<1>3. PICK acked : acked = server.acked + ((store.byClient - server.acked) % Modulus)
  OBVIOUS
<1>4. acked \in Nat
  <2>1. store.byClient \in Nat /\ server.acked \in Nat
    BY Bounds, ListTypes DEF Types, StoreType, Store
  <2>2. QED
    BY <1>3, <2>1, Bounds
<1>5. PICK e : e = <<"resumed", server.in % Modulus>>
  OBVIOUS
<1>6. e \in DownElement
  BY <1>5, ListTypes, Quotient, DownFacts
<1>7. PICK out : out = server.out
  OBVIOUS
<1>8. PICK x : x = [i \in 1..(out - acked) |-> <<"stanza", acked + i>>]
  OBVIOUS
<1>9. x \in Seq(DownElement) /\ Len(x) = (IF out >= acked THEN out - acked ELSE 0) /\ out \in Nat
  BY <1>4, <1>7, <1>8, ListTypes, AgainSeq
<1>10. \A i \in 1..Len(x) : x[i] = <<"stanza", acked + i>>
  <2>1. \A i \in 1..Len(x) : i \in 1..(out - acked)
    BY ONLY <1>4, <1>9
  <2>2. QED
    BY <1>8, <2>1
<1>11. PICK y : y = <<e>> \o x
  OBVIOUS
<1>12. /\ Len(y) = Len(x) + 1 /\ y[1] = e /\ y # <<>> /\ y \in Seq(DownElement)
       /\ \A i \in 2..(Len(x) + 1) : y[i] = x[i - 1]
  <2>1. <<e>> \in Seq(DownElement) /\ Len(<<e>>) = 1 /\ <<e>>[1] = e
    BY <1>6
  <2>2. PICK z : z = <<e>>
    OBVIOUS
  <2>3. z \in Seq(DownElement) /\ Len(z) = 1 /\ z[1] = e
    BY <2>1, <2>2
  <2>4. /\ y \in Seq(DownElement) /\ Len(y) = 1 + Len(x)
        /\ \A i \in 1..(1 + Len(x)) : y[i] = IF i <= 1 THEN z[i] ELSE x[i - 1]
    BY <1>9, <1>11, <2>2, <2>3, ConcatProperties
  <2>5. Len(x) \in Nat
    BY <1>9, NonEmpty
  <2>6. 1 \in 1..(1 + Len(x)) /\ \A i \in 2..(Len(x) + 1) : i \in 1..(1 + Len(x)) /\ ~(i <= 1)
    BY ONLY <2>5
  <2>7. Len(y) # 0
    BY ONLY <2>4, <2>5
  <2>8. y # <<>>
    BY <2>4, <2>7, EmptySeq
  <2>9. QED
    BY <2>3, <2>4, <2>5, <2>6, <2>8
<1>13. FirstThen(y, {"stanza"})
  <2>1. Len(x) \in Nat
    BY <1>9, NonEmpty
  <2>2. ASSUME NEW i \in 2..(Len(x) + 1) PROVE y[i][1] = "stanza"
    <3>1. i - 1 \in 1..Len(x)
      BY <2>1
    <3>2. y[i] = <<"stanza", acked + (i - 1)>>
      BY <1>10, <1>12, <3>1
    <3>3. QED
      BY <3>2
  <2>3. QED
    BY <1>12, <2>2 DEF FirstThen
<1>14. server' = [server EXCEPT !.on = TRUE, !.acked = acked] /\ down' = y
  BY <1>2, <1>3, <1>5, <1>7, <1>8, <1>11 DEF ServerResumes
<1>15. /\ server'.acked = acked /\ server'.on /\ server'.id = server.id /\ server'.in = server.in
       /\ server'.out = server.out
  BY <1>14 DEF Types, ServerType, Server
<1>16. e[1] = "resumed" /\ e[2] = server.in % Modulus
  BY <1>5
<1>17. Again(acked, e, x)
  BY <1>3, <1>4, <1>5, <1>7, <1>9, <1>10, <1>11, <1>12, <1>13, <1>14, <1>15, <1>16 DEF Again
<1>18. QED
  BY <1>17

\* The phases are kept when a connection is begun.
LEMMA ConnectPhases ==
  ASSUME Types, Types', Phases, Connect
  PROVE  Phases'
<1> USE DEF Connect
<1>1. Ordered'
  BY DEF outgoing, incoming, sentVars, wire, counters, history, Types, PhaseType, Phases, Ordered
<1>2. Sessions'
  BY DEF outgoing, incoming, sentVars, wire, counters, history, Types, PhaseType, Phases, Sessions, NoStore, NoSession, NoId, ServerType, StoreType, Store, Server, Offline, Resumption, Resuming, Enabling, Started, Unmanaged, Match, Granted, Requesting, ToClient
<1>3. Offline'
  BY DEF outgoing, incoming, sentVars, wire, counters, history, Types, PhaseType, Phases, Offline, Ordered, Sessions, NoSession
<1>4. Unmanaged'
  BY DEF outgoing, incoming, sentVars, wire, counters, history, Types, PhaseType, Phases, Unmanaged, Ordered, Offline, Enabling, Refused
<1>5. Resumption'
  BY DEF outgoing, incoming, sentVars, wire, counters, history, Types, PhaseType, Phases, Resumption, Ordered, Offline, Unmanaged, Enabling, Started, Resuming, Match, ToServer, ToClient
<1>6. Enabling'
  BY DEF outgoing, incoming, sentVars, wire, counters, history, Types, PhaseType, Phases, Enabling, Ordered, Offline, Unmanaged, Resumption, Resuming, Requesting, Refused, Granted, NoSession, ToServer, ToClient, Sessions, ServerType, Server
<1>7. Started'
  BY DEF outgoing, incoming, sentVars, wire, counters, history, Types, PhaseType, Phases, Started, Ordered, Offline, Unmanaged, Resumption, Resuming, Requesting, Granted, Refused, Match, ToServer, ToClient, NoStore
<1>8. QED
  BY <1>1, <1>2, <1>3, <1>4, <1>5, <1>6, <1>7 DEF Phases

\* The phases are kept when <resume/> is sent.
LEMMA SendResumePhases ==
  ASSUME Types, Types', Phases, SendResume
  PROVE  Phases'
<1> USE DEF SendResume, ForgetUnacked
<1>1. Ordered'
  BY DEF outgoing, incoming, sentVars, wire, counters, history, Types, PhaseType, Phases, Ordered
<1>2. Sessions'
  BY DEF outgoing, incoming, sentVars, wire, counters, history, Types, PhaseType, Phases, Sessions, NoStore, NoSession, NoId, ServerType, StoreType, Store, Server, Offline, Resumption, Resuming, Enabling, Started, Unmanaged, Match, Granted, Requesting, ToClient
<1>3. Offline'
  BY DEF outgoing, incoming, sentVars, wire, counters, history, Types, PhaseType, Phases, Offline, Ordered, Sessions, NoSession
<1>4. Unmanaged'
  BY DEF outgoing, incoming, sentVars, wire, counters, history, Types, PhaseType, Phases, Unmanaged, Ordered, Offline, Enabling, Refused
<1>5. Resumption'
  BY DEF outgoing, incoming, sentVars, wire, counters, history, Types, PhaseType, Phases, Resumption, Ordered, Offline, Unmanaged, Enabling, Started, Resuming, Match, ToServer, ToClient
<1>6. Enabling'
  BY DEF outgoing, incoming, sentVars, wire, counters, history, Types, PhaseType, Phases, Enabling, Ordered, Offline, Unmanaged, Resumption, Resuming, Requesting, Refused, Granted, NoSession, ToServer, ToClient, Sessions, ServerType, Server
<1>7. Started'
  BY DEF outgoing, incoming, sentVars, wire, counters, history, Types, PhaseType, Phases, Started, Ordered, Offline, Unmanaged, Resumption, Resuming, Requesting, Granted, Refused, Match, ToServer, ToClient, NoStore
<1>8. QED
  BY <1>1, <1>2, <1>3, <1>4, <1>5, <1>6, <1>7 DEF Phases

\* The phases are kept when the stream binds anew.
LEMMA BindAnewPhases ==
  ASSUME Types, Types', Phases, BindAnew
  PROVE  Phases'
<1> USE DEF BindAnew
<1>1. Ordered'
  BY DEF outgoing, incoming, sentVars, wire, counters, history, Types, PhaseType, Phases, Ordered
<1>2. Sessions'
  BY DEF outgoing, incoming, sentVars, wire, counters, history, Types, PhaseType, Phases, Sessions, NoStore, NoSession, NoId, ServerType, StoreType, Store, Server, Offline, Resumption, Resuming, Enabling, Started, Unmanaged, Match, Granted, Requesting, ToClient
<1>3. Offline'
  BY DEF outgoing, incoming, sentVars, wire, counters, history, Types, PhaseType, Phases, Offline, Ordered, Sessions, NoSession
<1>4. Unmanaged'
  BY DEF outgoing, incoming, sentVars, wire, counters, history, Types, PhaseType, Phases, Unmanaged, Ordered, Offline, Enabling, Refused
<1>5. Resumption'
  BY DEF outgoing, incoming, sentVars, wire, counters, history, Types, PhaseType, Phases, Resumption, Ordered, Offline, Unmanaged, Enabling, Started, Resuming, Match, ToServer, ToClient
<1>6. Enabling'
  BY DEF outgoing, incoming, sentVars, wire, counters, history, Types, PhaseType, Phases, Enabling, Ordered, Offline, Unmanaged, Resumption, Resuming, Requesting, Refused, Granted, NoSession, ToServer, ToClient, Sessions, ServerType, Server
<1>7. Started'
  BY DEF outgoing, incoming, sentVars, wire, counters, history, Types, PhaseType, Phases, Started, Ordered, Offline, Unmanaged, Resumption, Resuming, Requesting, Granted, Refused, Match, ToServer, ToClient, NoStore
<1>8. QED
  BY <1>1, <1>2, <1>3, <1>4, <1>5, <1>6, <1>7 DEF Phases

\* The phases are kept when the server resumes nothing.
LEMMA ReceiveResumeFailedPhases ==
  ASSUME Types, Types', Phases, ReceiveResumeFailed
  PROVE  Phases'
<1> USE DEF ReceiveResumeFailed
<1>1. Ordered'
  BY DEF outgoing, incoming, sentVars, wire, counters, history, Types, PhaseType, Phases, Ordered
<1>2. Sessions'
  BY DEF outgoing, incoming, sentVars, wire, counters, history, Types, PhaseType, Phases, Sessions, NoStore, NoSession, NoId, ServerType, StoreType, Store, Server, Offline, Resumption, Resuming, Enabling, Started, Unmanaged, Match, Granted, Requesting, ToClient
<1>3. Offline'
  <2>1. /\ conn = "resuming" /\ Resuming /\ down # <<>> /\ Head(down) = <<"failed">>
        /\ down' = Tail(down) /\ Head(down) = down[1]
    BY ClientRead DEF Phases, Resumption
  <2>2. up = <<>> /\ down = <<<<"failed">>>>
    BY <2>1 DEF Resuming
  <2>3. down' = <<>>
    BY <2>1, <2>2, ShortKinds
  <2>4. QED
    BY <2>2, <2>3 DEF Offline, NoSession
<1>4. Unmanaged'
  BY DEF outgoing, incoming, sentVars, wire, counters, history, Types, PhaseType, Phases, Unmanaged, Ordered, Offline, Enabling, Refused
<1>5. Resumption'
  BY DEF outgoing, incoming, sentVars, wire, counters, history, Types, PhaseType, Phases, Resumption, Ordered, Offline, Unmanaged, Enabling, Started, Resuming, Match, ToServer, ToClient
<1>6. Enabling'
  BY DEF outgoing, incoming, sentVars, wire, counters, history, Types, PhaseType, Phases, Enabling, Ordered, Offline, Unmanaged, Resumption, Resuming, Requesting, Refused, Granted, NoSession, ToServer, ToClient, Sessions, ServerType, Server
<1>7. Started'
  BY DEF outgoing, incoming, sentVars, wire, counters, history, Types, PhaseType, Phases, Started, Ordered, Offline, Unmanaged, Resumption, Resuming, Requesting, Granted, Refused, Match, ToServer, ToClient, NoStore
<1>8. QED
  BY <1>1, <1>2, <1>3, <1>4, <1>5, <1>6, <1>7 DEF Phases

\* The phases are kept when the session is resumed.
LEMMA ReceiveResumedPhases ==
  ASSUME Types, Types', Phases, ReceiveResumed
  PROVE  Phases'
<1> USE DEF ReceiveResumed
<1>1. Ordered'
  BY DEF outgoing, incoming, sentVars, wire, counters, history, Types, PhaseType, Phases, Ordered
<1>2. Sessions'
  BY DEF outgoing, incoming, sentVars, wire, counters, history, Types, PhaseType, Phases, Sessions, NoStore, NoSession, NoId, ServerType, StoreType, Store, Server, Offline, Resumption, Resuming, Enabling, Started, Unmanaged, Match, Granted, Requesting, ToClient
<1>3. Offline'
  BY DEF outgoing, incoming, sentVars, wire, counters, history, Types, PhaseType, Phases, Offline, Ordered, Sessions, NoSession
<1>4. Unmanaged'
  BY DEF outgoing, incoming, sentVars, wire, counters, history, Types, PhaseType, Phases, Unmanaged, Ordered, Offline, Enabling, Refused
<1>5. Resumption'
  BY DEF outgoing, incoming, sentVars, wire, counters, history, Types, PhaseType, Phases, Resumption, Ordered, Offline, Unmanaged, Enabling, Started, Resuming, Match, ToServer, ToClient
<1>6. Enabling'
  BY DEF outgoing, incoming, sentVars, wire, counters, history, Types, PhaseType, Phases, Enabling, Ordered, Offline, Unmanaged, Resumption, Resuming, Requesting, Refused, Granted, NoSession, ToServer, ToClient, Sessions, ServerType, Server
<1>7. Started'
  <2>1. /\ conn = "resuming" /\ Resuming /\ down # <<>> /\ Head(down)[1] = "resumed"
        /\ down' = Tail(down)
    BY DEF Phases, Resumption
  <2>2. /\ up = <<>> /\ Match /\ server.on /\ FirstThen(down, {"stanza"})
    BY <2>1, ClientRead DEF Resuming
  <2>3. Kinds(down', {"stanza", "a"})
    BY <2>1, <2>2, ClientRead DEF Kinds
  <2>4. store'.id = store.id
    BY DEF Types, StoreType, Store
  <2>5. QED
    BY <2>2, <2>3, <2>4, ShortKinds DEF Started, Match
<1>8. QED
  BY <1>1, <1>2, <1>3, <1>4, <1>5, <1>6, <1>7 DEF Phases

\* The phases are kept when stream management is to be enabled.
LEMMA EnableStreamManagementPhases ==
  ASSUME Types, Types', Phases, EnableStreamManagement
  PROVE  Phases'
<1> USE DEF EnableStreamManagement, ForgetUnacked
<1>1. Ordered'
  BY DEF outgoing, incoming, sentVars, wire, counters, history, Types, PhaseType, Phases, Ordered
<1>2. Sessions'
  BY DEF outgoing, incoming, sentVars, wire, counters, history, Types, PhaseType, Phases, Sessions, NoStore, NoSession, NoId, ServerType, StoreType, Store, Server, Offline, Resumption, Resuming, Enabling, Started, Unmanaged, Match, Granted, Requesting, ToClient
<1>3. Offline'
  BY DEF outgoing, incoming, sentVars, wire, counters, history, Types, PhaseType, Phases, Offline, Ordered, Sessions, NoSession
<1>4. Unmanaged'
  BY DEF outgoing, incoming, sentVars, wire, counters, history, Types, PhaseType, Phases, Unmanaged, Ordered, Offline, Enabling, Refused
<1>5. Resumption'
  BY DEF outgoing, incoming, sentVars, wire, counters, history, Types, PhaseType, Phases, Resumption, Ordered, Offline, Unmanaged, Enabling, Started, Resuming, Match, ToServer, ToClient
<1>6. Enabling'
  BY DEF outgoing, incoming, sentVars, wire, counters, history, Types, PhaseType, Phases, Enabling, Ordered, Offline, Unmanaged, Resumption, Resuming, Requesting, Refused, Granted, NoSession, ToServer, ToClient, Sessions, ServerType, Server
<1>7. Started'
  BY DEF outgoing, incoming, sentVars, wire, counters, history, Types, PhaseType, Phases, Started, Ordered, Offline, Unmanaged, Resumption, Resuming, Requesting, Granted, Refused, Match, ToServer, ToClient, NoStore
<1>8. QED
  BY <1>1, <1>2, <1>3, <1>4, <1>5, <1>6, <1>7 DEF Phases

\* The phases are kept when the server does not offer it.
LEMMA NotOfferedPhases ==
  ASSUME Types, Types', Phases, NotOffered
  PROVE  Phases'
<1> USE DEF NotOffered
<1>1. Ordered'
  BY DEF outgoing, incoming, sentVars, wire, counters, history, Types, PhaseType, Phases, Ordered
<1>2. Sessions'
  BY DEF outgoing, incoming, sentVars, wire, counters, history, Types, PhaseType, Phases, Sessions, NoStore, NoSession, NoId, ServerType, StoreType, Store, Server, Offline, Resumption, Resuming, Enabling, Started, Unmanaged, Match, Granted, Requesting, ToClient
<1>3. Offline'
  BY DEF outgoing, incoming, sentVars, wire, counters, history, Types, PhaseType, Phases, Offline, Ordered, Sessions, NoSession
<1>4. Unmanaged'
  <2>1. up = <<>> /\ down = <<>> /\ server = NoSession
    BY DEF Phases, Offline
  <2>2. QED
    BY <2>1, ShortKinds DEF Unmanaged, wire
<1>5. Resumption'
  BY DEF outgoing, incoming, sentVars, wire, counters, history, Types, PhaseType, Phases, Resumption, Ordered, Offline, Unmanaged, Enabling, Started, Resuming, Match, ToServer, ToClient
<1>6. Enabling'
  BY DEF outgoing, incoming, sentVars, wire, counters, history, Types, PhaseType, Phases, Enabling, Ordered, Offline, Unmanaged, Resumption, Resuming, Requesting, Refused, Granted, NoSession, ToServer, ToClient, Sessions, ServerType, Server
<1>7. Started'
  BY DEF outgoing, incoming, sentVars, wire, counters, history, Types, PhaseType, Phases, Started, Ordered, Offline, Unmanaged, Resumption, Resuming, Requesting, Granted, Refused, Match, ToServer, ToClient, NoStore
<1>8. QED
  BY <1>1, <1>2, <1>3, <1>4, <1>5, <1>6, <1>7 DEF Phases

\* The phases are kept when <enable/> has been sent.
LEMMA DidSendEnablePhases ==
  ASSUME Types, Types', Phases, DidSendEnable
  PROVE  Phases'
<1> USE DEF DidSendEnable
<1>1. Ordered'
  BY DEF outgoing, incoming, sentVars, wire, counters, history, Types, PhaseType, Phases, Ordered
<1>2. Sessions'
  BY DEF outgoing, incoming, sentVars, wire, counters, history, Types, PhaseType, Phases, Sessions, NoStore, NoSession, NoId, ServerType, StoreType, Store, Server, Offline, Resumption, Resuming, Enabling, Started, Unmanaged, Match, Granted, Requesting, ToClient
<1>3. Offline'
  BY DEF outgoing, incoming, sentVars, wire, counters, history, Types, PhaseType, Phases, Offline, Ordered, Sessions, NoSession
<1>4. Unmanaged'
  BY DEF outgoing, incoming, sentVars, wire, counters, history, Types, PhaseType, Phases, Unmanaged, Ordered, Offline, Enabling, Refused
<1>5. Resumption'
  BY DEF outgoing, incoming, sentVars, wire, counters, history, Types, PhaseType, Phases, Resumption, Ordered, Offline, Unmanaged, Enabling, Started, Resuming, Match, ToServer, ToClient
<1>6. Enabling'
  <2>1. up = <<>> /\ down = <<>> /\ unackedByServer = <<>> /\ unprocessed = <<>> /\ server = NoSession
    BY DEF Phases, Enabling
  <2>2. up' = <<<<"enable">>>>
    BY <2>1, ShortKinds DEF ToServer
  <2>3. Requesting'
    BY <2>1, <2>2, ShortKinds DEF Requesting
  <2>4. QED
    BY <2>1, <2>3 DEF Enabling, outgoing
<1>7. Started'
  BY DEF outgoing, incoming, sentVars, wire, counters, history, Types, PhaseType, Phases, Started, Ordered, Offline, Unmanaged, Resumption, Resuming, Requesting, Granted, Refused, Match, ToServer, ToClient, NoStore
<1>8. QED
  BY <1>1, <1>2, <1>3, <1>4, <1>5, <1>6, <1>7 DEF Phases

\* The phases are kept when it is enabled.
LEMMA ReceiveEnabledPhases ==
  ASSUME Types, Types', Phases, ReceiveEnabled
  PROVE  Phases'
<1> USE DEF ReceiveEnabled, ZeroCounters
<1>1. Ordered'
  BY DEF outgoing, incoming, sentVars, wire, counters, history, Types, PhaseType, Phases, Ordered
<1>2. Sessions'
  <2>1. down # <<>> /\ down[1][1] = "enabled" /\ sm = "enableSent" /\ down' = Tail(down)
        /\ Head(down) = down[1]
    BY ClientRead
  <2>2. Granted
    BY <2>1 DEF Phases, Enabling, Requesting, Refused
  <2>3. store'.id = down[1][2]
    BY <2>1 DEF NoStore
  <2>4. ids \in Nat
    BY DEF Types, ServerType
  <2>5. QED
    BY <2>2, <2>3, <2>4 DEF Phases, Sessions, Granted, counters, NoId
<1>3. Offline'
  BY DEF outgoing, incoming, sentVars, wire, counters, history, Types, PhaseType, Phases, Offline, Ordered, Sessions, NoSession
<1>4. Unmanaged'
  BY DEF outgoing, incoming, sentVars, wire, counters, history, Types, PhaseType, Phases, Unmanaged, Ordered, Offline, Enabling, Refused
<1>5. Resumption'
  BY DEF outgoing, incoming, sentVars, wire, counters, history, Types, PhaseType, Phases, Resumption, Ordered, Offline, Unmanaged, Enabling, Started, Resuming, Match, ToServer, ToClient
<1>6. Enabling'
  BY DEF outgoing, incoming, sentVars, wire, counters, history, Types, PhaseType, Phases, Enabling, Ordered, Offline, Unmanaged, Resumption, Resuming, Requesting, Refused, Granted, NoSession, ToServer, ToClient, Sessions, ServerType, Server
<1>7. Started'
  <2>1. down # <<>> /\ down[1][1] = "enabled" /\ sm = "enableSent" /\ down' = Tail(down)
        /\ Head(down) = down[1]
    BY ClientRead
  <2>2. Granted
    BY <2>1 DEF Phases, Enabling, Requesting, Refused
  <2>3. store'.id = down[1][2]
    BY <2>1 DEF NoStore
  <2>4. {"a", "stanza"} = {"stanza", "a"}
    OBVIOUS
  <2>5. Kinds(down', {"stanza", "a"})
    BY <2>1, <2>2, <2>4, ClientRead DEF Granted
  <2>6. Kinds(up, {"stanza", "r", "a"})
    BY <2>2 DEF Granted, Kinds
  <2>7. QED
    BY <2>2, <2>3, <2>5, <2>6 DEF Granted, Started
<1>8. QED
  BY <1>1, <1>2, <1>3, <1>4, <1>5, <1>6, <1>7 DEF Phases

\* The phases are kept when it is refused.
LEMMA ReceiveNotEnabledPhases ==
  ASSUME Types, Types', Phases, ReceiveNotEnabled
  PROVE  Phases'
<1> USE DEF ReceiveNotEnabled
<1>1. Ordered'
  BY DEF outgoing, incoming, sentVars, wire, counters, history, Types, PhaseType, Phases, Ordered
<1>2. Sessions'
  BY DEF outgoing, incoming, sentVars, wire, counters, history, Types, PhaseType, Phases, Sessions, NoStore, NoSession, NoId, ServerType, StoreType, Store, Server, Offline, Resumption, Resuming, Enabling, Started, Unmanaged, Match, Granted, Requesting, ToClient
<1>3. Offline'
  BY DEF outgoing, incoming, sentVars, wire, counters, history, Types, PhaseType, Phases, Offline, Ordered, Sessions, NoSession
<1>4. Unmanaged'
  <2>1. down # <<>> /\ down[1] = <<"failed">> /\ sm = "enableSent" /\ down' = Tail(down)
    BY ClientRead
  <2>2. Refused
    BY <2>1 DEF Phases, Enabling, Requesting, Granted
  <2>3. down' = <<>>
    BY <2>1, <2>2, ShortKinds DEF Refused
  <2>4. QED
    BY <2>2, <2>3 DEF Refused, Unmanaged
<1>5. Resumption'
  BY DEF outgoing, incoming, sentVars, wire, counters, history, Types, PhaseType, Phases, Resumption, Ordered, Offline, Unmanaged, Enabling, Started, Resuming, Match, ToServer, ToClient
<1>6. Enabling'
  BY DEF outgoing, incoming, sentVars, wire, counters, history, Types, PhaseType, Phases, Enabling, Ordered, Offline, Unmanaged, Resumption, Resuming, Requesting, Refused, Granted, NoSession, ToServer, ToClient, Sessions, ServerType, Server
<1>7. Started'
  BY DEF outgoing, incoming, sentVars, wire, counters, history, Types, PhaseType, Phases, Started, Ordered, Offline, Unmanaged, Resumption, Resuming, Requesting, Granted, Refused, Match, ToServer, ToClient, NoStore
<1>8. QED
  BY <1>1, <1>2, <1>3, <1>4, <1>5, <1>6, <1>7 DEF Phases

\* The phases are kept when a stanza is sent.
LEMMA SendStanzaPhases ==
  ASSUME Types, Types', Phases, SendStanza
  PROVE  Phases'
<1> USE DEF SendStanza
<1>1. Ordered'
  BY DEF outgoing, incoming, sentVars, wire, counters, history, Types, PhaseType, Phases, Ordered
<1>2. Sessions'
  BY DEF outgoing, incoming, sentVars, wire, counters, history, Types, PhaseType, Phases, Sessions, NoStore, NoSession, NoId, ServerType, StoreType, Store, Server, Offline, Resumption, Resuming, Enabling, Started, Unmanaged, Match, Granted, Requesting, ToClient
<1>3. Offline'
  BY DEF outgoing, incoming, sentVars, wire, counters, history, Types, PhaseType, Phases, Offline, Ordered, Sessions, NoSession
<1>4. Unmanaged'
  BY DEF outgoing, incoming, sentVars, wire, counters, history, Types, PhaseType, Phases, Unmanaged, Ordered, Offline, Enabling, Refused
<1>5. Resumption'
  BY DEF outgoing, incoming, sentVars, wire, counters, history, Types, PhaseType, Phases, Resumption, Ordered, Offline, Unmanaged, Enabling, Started, Resuming, Match, ToServer, ToClient
<1>6. Enabling'
  <2>1. PICK e, f : e = <<"stanza", sent + 1>> /\ f = <<"r">>
    OBVIOUS
  <2>2. PICK x : x = Append(up, e) /\ up' \in {x, Append(x, f)}
    BY <2>1, StanzaSent
  <2>3. /\ e \in UpElement /\ e[1] = "stanza" /\ f \in UpElement /\ f[1] = "r"
        /\ up \in Seq(UpElement) /\ sm \in {"enableSent", "started"}
    BY <2>1, StanzaSent, ListTypes
  <2>4. /\ up' # <<>> /\ (up # <<>> => up'[1] = up[1])
        /\ FirstThen(up, {"stanza", "r"}) => FirstThen(up', {"stanza", "r"})
        /\ Kinds(up, {"stanza", "r"}) => Kinds(up', {"stanza", "r"})
    <3>1. /\ x \in Seq(UpElement) /\ x # <<>> /\ (up # <<>> => x[1] = up[1])
          /\ FirstThen(up, {"stanza", "r"}) => FirstThen(x, {"stanza", "r"})
          /\ Kinds(up, {"stanza", "r"}) => Kinds(x, {"stanza", "r"})
      BY <2>2, <2>3, UpGrows
    <3>2. PICK y : y = Append(x, f)
      OBVIOUS
    <3>3. /\ y # <<>> /\ y[1] = x[1]
          /\ FirstThen(x, {"stanza", "r"}) => FirstThen(y, {"stanza", "r"})
          /\ Kinds(x, {"stanza", "r"}) => Kinds(y, {"stanza", "r"})
      BY <2>3, <3>1, <3>2, UpGrows
    <3>4. QED
      BY <2>2, <3>1, <3>2, <3>3
  <2>5. ASSUME sm = "enableSent" PROVE (Requesting \/ Refused \/ Granted)'
    BY <2>4, <2>5 DEF Phases, Enabling, Requesting, Refused, Granted, counters
  <2>6. Len(unackedByServer') = Len(unackedByServer) + 1 /\ tracked' = tracked + 1
    BY StanzaSent
  <2>7. QED
    BY <2>3, <2>5, <2>6 DEF Phases, Enabling
<1>7. Started'
  <2>1. PICK e, f : e = <<"stanza", sent + 1>> /\ f = <<"r">>
    OBVIOUS
  <2>2. PICK x : x = Append(up, e) /\ up' \in {x, Append(x, f)}
    BY <2>1, StanzaSent
  <2>3. /\ e \in UpElement /\ e[1] = "stanza" /\ f \in UpElement /\ f[1] = "r"
        /\ up \in Seq(UpElement) /\ sm \in {"enableSent", "started"}
    BY <2>1, StanzaSent, ListTypes
  <2>4. Kinds(up, {"stanza", "r", "a"}) => Kinds(up', {"stanza", "r", "a"})
    <3>1. /\ x \in Seq(UpElement)
          /\ Kinds(up, {"stanza", "r", "a"}) => Kinds(x, {"stanza", "r", "a"})
      BY <2>2, <2>3, UpGrows
    <3>2. PICK y : y = Append(x, f)
      OBVIOUS
    <3>3. Kinds(x, {"stanza", "r", "a"}) => Kinds(y, {"stanza", "r", "a"})
      BY <2>3, <3>1, <3>2, UpGrows
    <3>4. QED
      BY <2>2, <3>1, <3>2, <3>3
  <2>5. QED
    BY <2>4 DEF Phases, Started
<1>8. QED
  BY <1>1, <1>2, <1>3, <1>4, <1>5, <1>6, <1>7 DEF Phases

\* The phases are kept when the timer requests an ack.
LEMMA RequestTimerFiresPhases ==
  ASSUME Types, Types', Phases, RequestTimerFires
  PROVE  Phases'
<1> USE DEF RequestTimerFires
<1>1. Ordered'
  BY DEF outgoing, incoming, sentVars, wire, counters, history, Types, PhaseType, Phases, Ordered
<1>2. Sessions'
  BY DEF outgoing, incoming, sentVars, wire, counters, history, Types, PhaseType, Phases, Sessions, NoStore, NoSession, NoId, ServerType, StoreType, Store, Server, Offline, Resumption, Resuming, Enabling, Started, Unmanaged, Match, Granted, Requesting, ToClient
<1>3. Offline'
  BY DEF outgoing, incoming, sentVars, wire, counters, history, Types, PhaseType, Phases, Offline, Ordered, Sessions, NoSession
<1>4. Unmanaged'
  BY DEF outgoing, incoming, sentVars, wire, counters, history, Types, PhaseType, Phases, Unmanaged, Ordered, Offline, Enabling, Refused
<1>5. Resumption'
  BY DEF outgoing, incoming, sentVars, wire, counters, history, Types, PhaseType, Phases, Resumption, Ordered, Offline, Unmanaged, Enabling, Started, Resuming, Match, ToServer, ToClient
<1>6. Enabling'
  <2>1. PICK e : e = <<"r">>
    OBVIOUS
  <2>2. e \in UpElement /\ e[1] = "r" /\ up \in Seq(UpElement)
    BY <2>1, UpFacts, ListTypes
  <2>3. sm # "off" => up' = Append(up, e)
    BY <2>1 DEF ToServer
  <2>4. sm # "enableQueued"
    BY DEF Phases, Ordered
  <2>5. ASSUME sm = "enableSent" PROVE (Requesting \/ Refused \/ Granted)'
    BY <2>2, <2>3, <2>5, UpGrows DEF Phases, Enabling, Requesting, Refused, Granted, counters
  <2>6. QED
    BY <2>4, <2>5 DEF Phases, Enabling, sentVars
<1>7. Started'
  <2>1. PICK e : e = <<"r">>
    OBVIOUS
  <2>2. e \in UpElement /\ e[1] = "r" /\ up \in Seq(UpElement)
    BY <2>1, UpFacts, ListTypes
  <2>3. sm # "off" => up' = Append(up, e)
    BY <2>1 DEF ToServer
  <2>4. QED
    BY <2>2, <2>3, UpGrows DEF Phases, Started
<1>8. QED
  BY <1>1, <1>2, <1>3, <1>4, <1>5, <1>6, <1>7 DEF Phases

\* The phases are kept when an ack arrives.
LEMMA ReceiveAckPhases ==
  ASSUME Types, Types', Phases, Accounted, ReceiveAck
  PROVE  Phases'
<1> USE DEF ReceiveAck
<1>1. Ordered'
  BY DEF outgoing, incoming, sentVars, wire, counters, history, Types, PhaseType, Phases, Ordered
<1>2. Sessions'
  <2>1. PICK c, w, d, p, k, b : AckTaken(c, w, d, p, k, b)
    BY AckReceived
  <2>2. store'.id = store.id
    BY <2>1, AckSaved
  <2>3. QED
    BY <2>2 DEF Phases, Sessions, counters
<1>3. Offline'
  BY DEF outgoing, incoming, sentVars, wire, counters, history, Types, PhaseType, Phases, Offline, Ordered, Sessions, NoSession
<1>4. Unmanaged'
  BY DEF outgoing, incoming, sentVars, wire, counters, history, Types, PhaseType, Phases, Unmanaged, Ordered, Offline, Enabling, Refused
<1>5. Resumption'
  BY DEF outgoing, incoming, sentVars, wire, counters, history, Types, PhaseType, Phases, Resumption, Ordered, Offline, Unmanaged, Enabling, Started, Resuming, Match, ToServer, ToClient
<1>6. Enabling'
  BY DEF outgoing, incoming, sentVars, wire, counters, history, Types, PhaseType, Phases, Enabling, Ordered, Offline, Unmanaged, Resumption, Resuming, Requesting, Refused, Granted, NoSession, ToServer, ToClient, Sessions, ServerType, Server
<1>7. Started'
  <2>1. PICK c, w, d, p, k, b : AckTaken(c, w, d, p, k, b)
    BY AckReceived
  <2>2. store'.id = store.id
    BY <2>1, AckSaved
  <2>3. down # <<>> /\ down' = Tail(down)
    OBVIOUS
  <2>4. QED
    BY <2>2, <2>3, ClientRead DEF Phases, Started
<1>8. QED
  BY <1>1, <1>2, <1>3, <1>4, <1>5, <1>6, <1>7 DEF Phases

\* The phases are kept when a stanza arrives.
LEMMA ReceiveStanzaPhases ==
  ASSUME Types, Types', Phases, ReceiveStanza
  PROVE  Phases'
<1> USE DEF ReceiveStanza
<1>1. Ordered'
  BY DEF outgoing, incoming, sentVars, wire, counters, history, Types, PhaseType, Phases, Ordered
<1>2. Sessions'
  BY DEF outgoing, incoming, sentVars, wire, counters, history, Types, PhaseType, Phases, Sessions, NoStore, NoSession, NoId, ServerType, StoreType, Store, Server, Offline, Resumption, Resuming, Enabling, Started, Unmanaged, Match, Granted, Requesting, ToClient
<1>3. Offline'
  BY DEF outgoing, incoming, sentVars, wire, counters, history, Types, PhaseType, Phases, Offline, Ordered, Sessions, NoSession
<1>4. Unmanaged'
  BY DEF outgoing, incoming, sentVars, wire, counters, history, Types, PhaseType, Phases, Unmanaged, Ordered, Offline, Enabling, Refused
<1>5. Resumption'
  BY DEF outgoing, incoming, sentVars, wire, counters, history, Types, PhaseType, Phases, Resumption, Ordered, Offline, Unmanaged, Enabling, Started, Resuming, Match, ToServer, ToClient
<1>6. Enabling'
  BY DEF outgoing, incoming, sentVars, wire, counters, history, Types, PhaseType, Phases, Enabling, Ordered, Offline, Unmanaged, Resumption, Resuming, Requesting, Refused, Granted, NoSession, ToServer, ToClient, Sessions, ServerType, Server
<1>7. Started'
  <2>1. store'.id = store.id
    BY DEF Types, StoreType, Store
  <2>2. QED
    BY <2>1, ClientRead DEF Phases, Started
<1>8. QED
  BY <1>1, <1>2, <1>3, <1>4, <1>5, <1>6, <1>7 DEF Phases

\* The phases are kept when an ack is sent.
LEMMA SendAckPhases ==
  ASSUME Types, Types', Phases, SendAck
  PROVE  Phases'
<1> USE DEF SendAck
<1>1. Ordered'
  BY DEF outgoing, incoming, sentVars, wire, counters, history, Types, PhaseType, Phases, Ordered
<1>2. Sessions'
  BY DEF outgoing, incoming, sentVars, wire, counters, history, Types, PhaseType, Phases, Sessions, NoStore, NoSession, NoId, ServerType, StoreType, Store, Server, Offline, Resumption, Resuming, Enabling, Started, Unmanaged, Match, Granted, Requesting, ToClient
<1>3. Offline'
  BY DEF outgoing, incoming, sentVars, wire, counters, history, Types, PhaseType, Phases, Offline, Ordered, Sessions, NoSession
<1>4. Unmanaged'
  BY DEF outgoing, incoming, sentVars, wire, counters, history, Types, PhaseType, Phases, Unmanaged, Ordered, Offline, Enabling, Refused
<1>5. Resumption'
  BY DEF outgoing, incoming, sentVars, wire, counters, history, Types, PhaseType, Phases, Resumption, Ordered, Offline, Unmanaged, Enabling, Started, Resuming, Match, ToServer, ToClient
<1>6. Enabling'
  BY DEF outgoing, incoming, sentVars, wire, counters, history, Types, PhaseType, Phases, Enabling, Ordered, Offline, Unmanaged, Resumption, Resuming, Requesting, Refused, Granted, NoSession, ToServer, ToClient, Sessions, ServerType, Server
<1>7. Started'
  <2>1. PICK e : e = <<"a", lastHandledByClient>>
    OBVIOUS
  <2>2. e \in UpElement /\ e[1] = "a" /\ up \in Seq(UpElement)
    BY <2>1, UpFacts, ListTypes DEF Types, StoreType
  <2>3. up' = Append(up, e)
    BY <2>1 DEF ToServer
  <2>4. QED
    BY <2>2, <2>3, UpGrows DEF Phases, Started
<1>8. QED
  BY <1>1, <1>2, <1>3, <1>4, <1>5, <1>6, <1>7 DEF Phases

\* The phases are kept when a stanza gets its name.
LEMMA StanzaIdAnsweredPhases ==
  ASSUME Types, Types', Phases, Accounted, NEW n \in unanswered, StanzaIdAnswered(n)
  PROVE  Phases'
<1> USE DEF StanzaIdAnswered
<1>1. Ordered'
  BY DEF outgoing, incoming, sentVars, wire, counters, history, Types, PhaseType, Phases, Ordered
<1>2. Sessions'
  <2>1. PICK c, w, d, p, k, b : NameTaken(n, c, w, d, p, k, b)
    BY NameAnswered
  <2>2. store'.id = store.id
    BY <2>1, NameSaved
  <2>3. QED
    BY <2>2 DEF Phases, Sessions, counters
<1>3. Offline'
  BY DEF outgoing, incoming, sentVars, wire, counters, history, Types, PhaseType, Phases, Offline, Ordered, Sessions, NoSession
<1>4. Unmanaged'
  BY DEF outgoing, incoming, sentVars, wire, counters, history, Types, PhaseType, Phases, Unmanaged, Ordered, Offline, Enabling, Refused
<1>5. Resumption'
  <2>1. PICK c, w, d, p, k, b : NameTaken(n, c, w, d, p, k, b)
    BY NameAnswered
  <2>2. unprocessed = <<>> => /\ unackedByServer' = unackedByServer /\ unprocessed' = <<>>
                             /\ lastHandledByServer' = lastHandledByServer
    BY <2>1, NameAlone
  <2>3. store'.id = store.id /\ (store' = store \/ Saved)
    BY <2>1, NameSaved
  <2>4. SUFFICES ASSUME conn = "resuming" PROVE Resuming'
    BY DEF Resumption
  <2>5. Resuming /\ sm = "off"
    BY <2>4 DEF Phases, Ordered, Resumption
  <2>6. /\ unackedByServer' = <<>> /\ unprocessed' = <<>>
        /\ lastHandledByServer' = store.byServer /\ lastHandledByClient' = store.byClient
    BY <2>2, <2>5 DEF Resuming, incoming
  <2>7. store'.byServer = store.byServer /\ store'.byClient = store.byClient
    BY <2>3, <2>5, <2>6 DEF Saved, Resuming
  <2>8. QED
    BY <2>3, <2>5, <2>6, <2>7 DEF Resuming, wire, Match
<1>6. Enabling'
  <2>1. PICK c, w, d, p, k, b : NameTaken(n, c, w, d, p, k, b)
    BY NameAnswered
  <2>2. unprocessed = <<>> => /\ unackedByServer' = unackedByServer /\ unprocessed' = <<>>
                             /\ lastHandledByServer' = lastHandledByServer
    BY <2>1, NameAlone
  <2>3. store'.id = store.id /\ (store' = store \/ Saved)
    BY <2>1, NameSaved
  <2>4. sm \in {"enableQueued", "enableSent"} => unprocessed = <<>>
    BY DEF Phases, Enabling
  <2>5. QED
    BY <2>2, <2>3, <2>4 DEF Phases, Enabling, Requesting, Refused, Granted, wire, counters
<1>7. Started'
  <2>1. PICK c, w, d, p, k, b : NameTaken(n, c, w, d, p, k, b)
    BY NameAnswered
  <2>2. unprocessed = <<>> => /\ unackedByServer' = unackedByServer /\ unprocessed' = <<>>
                             /\ lastHandledByServer' = lastHandledByServer
    BY <2>1, NameAlone
  <2>3. store'.id = store.id /\ (store' = store \/ Saved)
    BY <2>1, NameSaved
  <2>4. QED
    BY <2>3 DEF Phases, Started, wire
<1>8. QED
  BY <1>1, <1>2, <1>3, <1>4, <1>5, <1>6, <1>7 DEF Phases

\* The phases are kept when the stream disconnects.
LEMMA DisconnectPhases ==
  ASSUME Types, Types', Phases, NEW clean \in BOOLEAN, Disconnect(clean)
  PROVE  Phases'
<1> USE DEF Disconnect
<1>1. Ordered'
  BY DEF outgoing, incoming, sentVars, wire, counters, history, Types, PhaseType, Phases, Ordered
<1>2. Sessions'
  BY DEF outgoing, incoming, sentVars, wire, counters, history, Types, PhaseType, Phases, Sessions, NoStore, NoSession, NoId, ServerType, StoreType, Store, Server, Offline, Resumption, Resuming, Enabling, Started, Unmanaged, Match, Granted, Requesting, ToClient
<1>3. Offline'
  BY DEF outgoing, incoming, sentVars, wire, counters, history, Types, PhaseType, Phases, Offline, Ordered, Sessions, NoSession
<1>4. Unmanaged'
  BY DEF outgoing, incoming, sentVars, wire, counters, history, Types, PhaseType, Phases, Unmanaged, Ordered, Offline, Enabling, Refused
<1>5. Resumption'
  BY DEF outgoing, incoming, sentVars, wire, counters, history, Types, PhaseType, Phases, Resumption, Ordered, Offline, Unmanaged, Enabling, Started, Resuming, Match, ToServer, ToClient
<1>6. Enabling'
  BY DEF outgoing, incoming, sentVars, wire, counters, history, Types, PhaseType, Phases, Enabling, Ordered, Offline, Unmanaged, Resumption, Resuming, Requesting, Refused, Granted, NoSession, ToServer, ToClient, Sessions, ServerType, Server
<1>7. Started'
  BY DEF outgoing, incoming, sentVars, wire, counters, history, Types, PhaseType, Phases, Started, Ordered, Offline, Unmanaged, Resumption, Resuming, Requesting, Granted, Refused, Match, ToServer, ToClient, NoStore
<1>8. QED
  BY <1>1, <1>2, <1>3, <1>4, <1>5, <1>6, <1>7 DEF Phases

\* The phases are kept when the server reads <enable/>.
LEMMA ServerEnablesPhases ==
  ASSUME Types, Types', Phases, ServerEnables
  PROVE  Phases'
<1> USE DEF ServerEnables, ServerReads
<1>1. Ordered'
  BY DEF outgoing, incoming, sentVars, wire, counters, history, Types, PhaseType, Phases, Ordered
<1>2. Sessions'
  <2>1. /\ conn = "online" /\ sm = "enableSent" /\ Requesting /\ down = <<>> /\ server = NoSession
        /\ Kinds(up', {"stanza", "r"})
    BY ReadsEnable
  <2>2. \/ /\ server' = [NoSession EXCEPT !.id = ids + 1, !.on = TRUE] /\ ids' = ids + 1
           /\ \E id \in {ids + 1, NoId} : down' = <<<<"enabled", id>>>>
        \/ down' = <<<<"failed">>>> /\ server' = server /\ ids' = ids
    BY <2>1, ShortKinds DEF ToClient
  <2>3. ids \in Nat /\ store.id <= ids /\ store.id \in Nat
    BY ListTypes DEF Types, ServerType, Phases, Sessions
  <2>4. \/ server'.id = ids + 1 /\ ids' = ids + 1
        \/ server' = server /\ ids' = ids
    BY <2>2 DEF NoSession
  <2>5. QED
    BY <2>1, <2>3, <2>4 DEF Phases, Sessions, NoId
<1>3. Offline'
  BY DEF outgoing, incoming, sentVars, wire, counters, history, Types, PhaseType, Phases, Offline, Ordered, Sessions, NoSession
<1>4. Unmanaged'
  <2>1. /\ conn = "online" /\ sm = "enableSent" /\ Requesting /\ down = <<>> /\ server = NoSession
        /\ Kinds(up', {"stanza", "r"})
    BY ReadsEnable
  <2>2. \/ /\ server' = [NoSession EXCEPT !.id = ids + 1, !.on = TRUE] /\ ids' = ids + 1
           /\ \E id \in {ids + 1, NoId} : down' = <<<<"enabled", id>>>>
        \/ down' = <<<<"failed">>>> /\ server' = server /\ ids' = ids
    BY <2>1, ShortKinds DEF ToClient
  <2>3. QED
    BY <2>1 DEF Unmanaged
<1>5. Resumption'
  BY DEF outgoing, incoming, sentVars, wire, counters, history, Types, PhaseType, Phases, Resumption, Ordered, Offline, Unmanaged, Enabling, Started, Resuming, Match, ToServer, ToClient
<1>6. Enabling'
  <2>1. /\ conn = "online" /\ sm = "enableSent" /\ Requesting /\ down = <<>> /\ server = NoSession
        /\ Kinds(up', {"stanza", "r"})
    BY ReadsEnable
  <2>2. \/ /\ server' = [NoSession EXCEPT !.id = ids + 1, !.on = TRUE] /\ ids' = ids + 1
           /\ \E id \in {ids + 1, NoId} : down' = <<<<"enabled", id>>>>
        \/ down' = <<<<"failed">>>> /\ server' = server /\ ids' = ids
    BY <2>1, ShortKinds DEF ToClient
  <2>3. ids \in Nat /\ store.id <= ids /\ store.id \in Nat
    BY ListTypes DEF Types, ServerType, Phases, Sessions
  <2>4. CASE down' = <<<<"failed">>>> /\ server' = server
    BY <2>1, <2>4 DEF Phases, Enabling, Refused, outgoing, sentVars
  <2>5. ASSUME server' = [NoSession EXCEPT !.id = ids + 1, !.on = TRUE], ids' = ids + 1,
               NEW id \in {ids + 1, NoId}, down' = <<<<"enabled", id>>>>
        PROVE  Granted'
    <3>1. server'.on /\ server'.id = ids' /\ server'.acked = 0 /\ store' = store
      BY <2>5 DEF NoSession
    <3>2. PICK e : e = <<"enabled", id>>
      OBVIOUS
    <3>3. down' = <<e>> /\ e[1] = "enabled" /\ e[2] = id
      BY <2>5, <3>2
    <3>4. down' # <<>> /\ down'[1] = e /\ FirstThen(down', {"a", "stanza"})
      BY <3>3, ShortKinds
    <3>5. QED
      BY <2>1, <2>3, <2>5, <3>1, <3>3, <3>4 DEF Granted
  <2>6. QED
    BY <2>1, <2>2, <2>4, <2>5 DEF Phases, Enabling, outgoing, sentVars
<1>7. Started'
  <2>1. /\ conn = "online" /\ sm = "enableSent" /\ Requesting /\ down = <<>> /\ server = NoSession
        /\ Kinds(up', {"stanza", "r"})
    BY ReadsEnable
  <2>2. \/ /\ server' = [NoSession EXCEPT !.id = ids + 1, !.on = TRUE] /\ ids' = ids + 1
           /\ \E id \in {ids + 1, NoId} : down' = <<<<"enabled", id>>>>
        \/ down' = <<<<"failed">>>> /\ server' = server /\ ids' = ids
    BY <2>1, ShortKinds DEF ToClient
  <2>3. QED
    BY <2>1 DEF Started
<1>8. QED
  BY <1>1, <1>2, <1>3, <1>4, <1>5, <1>6, <1>7 DEF Phases

\* The phases are kept when the server reads <resume/>.
LEMMA ServerResumesPhases ==
  ASSUME Types, Types', Phases, ServerResumes
  PROVE  Phases'
<1> USE DEF ServerResumes, ServerReads
<1>1. Ordered'
  BY DEF outgoing, incoming, sentVars, wire, counters, history, Types, PhaseType, Phases, Ordered
<1>2. Sessions'
  <2>1. /\ conn = "resuming" /\ sm = "off" /\ Resuming /\ up' = <<>> /\ down = <<>> /\ ~server.on
        /\ store.id # NoId /\ Head(up) = <<"resume", store.id, store.byClient>>
    BY ReadsResume
  <2>2. Head(up)[2] = store.id
    BY <2>1
  <2>3. server'.id = server.id /\ (server'.on => server.id = store.id)
    BY <2>1, <2>2 DEF Types, ServerType, Server
  <2>4. QED
    BY <2>1, <2>3 DEF Phases, Sessions, counters
<1>3. Offline'
  BY DEF outgoing, incoming, sentVars, wire, counters, history, Types, PhaseType, Phases, Offline, Ordered, Sessions, NoSession
<1>4. Unmanaged'
  <2>1. /\ conn = "resuming" /\ sm = "off" /\ Resuming /\ up' = <<>> /\ down = <<>> /\ ~server.on
        /\ store.id # NoId /\ Head(up) = <<"resume", store.id, store.byClient>>
    BY ReadsResume
  <2>2. QED
    BY <2>1 DEF Unmanaged
<1>5. Resumption'
  <2>1. /\ conn = "resuming" /\ sm = "off" /\ Resuming /\ up' = <<>> /\ down = <<>> /\ ~server.on
        /\ store.id # NoId /\ Head(up) = <<"resume", store.id, store.byClient>>
    BY ReadsResume
  <2>2. Head(up)[2] = store.id
    BY <2>1
  <2>3. CASE server.id # store.id
    <3>1. server' = server /\ down' = Append(down, <<"failed">>)
      BY <2>2, <2>3 DEF ToClient
    <3>2. down' = <<<<"failed">>>>
      BY <2>1, <3>1, ShortKinds
    <3>3. QED
      BY <2>1, <3>1, <3>2 DEF outgoing, incoming, Resumption, Resuming
  <2>4. CASE server.id = store.id
    <3>1. PICK acked, e, x : Again(acked, e, x)
      BY <2>4, SentAgain
    <3>2. /\ down' # <<>> /\ down'[1] = <<"resumed", server.in % Modulus>>
          /\ FirstThen(down', {"stanza"})
          /\ server'.on /\ server'.id = server.id /\ server'.in = server.in
      BY <3>1 DEF Again
    <3>3. QED
      BY <2>1, <2>4, <3>2 DEF outgoing, incoming, Resumption, Resuming, Match
  <2>5. QED
    BY <2>3, <2>4
<1>6. Enabling'
  <2>1. /\ conn = "resuming" /\ sm = "off" /\ Resuming /\ up' = <<>> /\ down = <<>> /\ ~server.on
        /\ store.id # NoId /\ Head(up) = <<"resume", store.id, store.byClient>>
    BY ReadsResume
  <2>2. QED
    BY <2>1 DEF Enabling
<1>7. Started'
  <2>1. /\ conn = "resuming" /\ sm = "off" /\ Resuming /\ up' = <<>> /\ down = <<>> /\ ~server.on
        /\ store.id # NoId /\ Head(up) = <<"resume", store.id, store.byClient>>
    BY ReadsResume
  <2>2. QED
    BY <2>1 DEF Started
<1>8. QED
  BY <1>1, <1>2, <1>3, <1>4, <1>5, <1>6, <1>7 DEF Phases

\* The phases are kept when the server handles a stanza.
LEMMA ServerHandlesPhases ==
  ASSUME Types, Types', Phases, ServerHandles
  PROVE  Phases'
<1> USE DEF ServerHandles, ServerReads
<1>1. Ordered'
  BY DEF outgoing, incoming, sentVars, wire, counters, history, Types, PhaseType, Phases, Ordered
<1>2. Sessions'
  BY DEF outgoing, incoming, sentVars, wire, counters, history, Types, PhaseType, Phases, Sessions, NoStore, NoSession, NoId, ServerType, StoreType, Store, Server, Offline, Resumption, Resuming, Enabling, Started, Unmanaged, Match, Granted, Requesting, ToClient
<1>3. Offline'
  BY DEF outgoing, incoming, sentVars, wire, counters, history, Types, PhaseType, Phases, Offline, Ordered, Sessions, NoSession
<1>4. Unmanaged'
  <2>1. /\ conn = "online" /\ sm \in {"off", "enableSent", "started"}
        /\ sm = "off" => /\ server = NoSession /\ down = <<>> /\ "stanza" # "a"
                         /\ Kinds(up', {"stanza", "r"})
        /\ sm = "enableSent" => /\ Refused \/ Granted
                                /\ "stanza" # "a" /\ Kinds(up', {"stanza", "r"})
        /\ sm = "started" => Kinds(up', {"stanza", "r", "a"})
    BY ReadsOther
  <2>2. /\ server'.id = server.id /\ server'.on = server.on /\ down' = down
        /\ ~server.on => server' = server
        /\ server'.acked = server.acked
    BY DEF wire, Types, ServerType, Server
  <2>3. QED
    BY <2>1, <2>2 DEF Unmanaged, NoSession
<1>5. Resumption'
  BY DEF outgoing, incoming, sentVars, wire, counters, history, Types, PhaseType, Phases, Resumption, Ordered, Offline, Unmanaged, Enabling, Started, Resuming, Match, ToServer, ToClient
<1>6. Enabling'
  <2>1. /\ conn = "online" /\ sm \in {"off", "enableSent", "started"}
        /\ sm = "off" => /\ server = NoSession /\ down = <<>> /\ "stanza" # "a"
                         /\ Kinds(up', {"stanza", "r"})
        /\ sm = "enableSent" => /\ Refused \/ Granted
                                /\ "stanza" # "a" /\ Kinds(up', {"stanza", "r"})
        /\ sm = "started" => Kinds(up', {"stanza", "r", "a"})
    BY ReadsOther
  <2>2. /\ server'.id = server.id /\ server'.on = server.on /\ down' = down
        /\ ~server.on => server' = server
        /\ server'.acked = server.acked
    BY DEF wire, Types, ServerType, Server
  <2>3. ASSUME sm = "enableSent" PROVE Refused' \/ Granted'
    <3>1. CASE Refused
      BY <2>1, <2>2, <2>3, <3>1 DEF Refused, NoSession
    <3>2. CASE Granted
      BY <2>1, <2>2, <2>3, <3>2 DEF Granted, counters
    <3>3. QED
      BY <2>1, <2>3, <3>1, <3>2
  <2>4. QED
    BY <2>1, <2>3 DEF Phases, Enabling, outgoing, sentVars
<1>7. Started'
  <2>1. /\ conn = "online" /\ sm \in {"off", "enableSent", "started"}
        /\ sm = "off" => /\ server = NoSession /\ down = <<>> /\ "stanza" # "a"
                         /\ Kinds(up', {"stanza", "r"})
        /\ sm = "enableSent" => /\ Refused \/ Granted
                                /\ "stanza" # "a" /\ Kinds(up', {"stanza", "r"})
        /\ sm = "started" => Kinds(up', {"stanza", "r", "a"})
    BY ReadsOther
  <2>2. /\ server'.id = server.id /\ server'.on = server.on /\ down' = down
        /\ ~server.on => server' = server
        /\ server'.acked = server.acked
    BY DEF wire, Types, ServerType, Server
  <2>3. QED
    BY <2>1, <2>2 DEF Phases, Started
<1>8. QED
  BY <1>1, <1>2, <1>3, <1>4, <1>5, <1>6, <1>7 DEF Phases

\* The phases are kept when the server answers a request.
LEMMA ServerAcksPhases ==
  ASSUME Types, Types', Phases, ServerAcks
  PROVE  Phases'
<1> USE DEF ServerAcks, ServerReads
<1>1. Ordered'
  BY DEF outgoing, incoming, sentVars, wire, counters, history, Types, PhaseType, Phases, Ordered
<1>2. Sessions'
  BY DEF outgoing, incoming, sentVars, wire, counters, history, Types, PhaseType, Phases, Sessions, NoStore, NoSession, NoId, ServerType, StoreType, Store, Server, Offline, Resumption, Resuming, Enabling, Started, Unmanaged, Match, Granted, Requesting, ToClient
<1>3. Offline'
  BY DEF outgoing, incoming, sentVars, wire, counters, history, Types, PhaseType, Phases, Offline, Ordered, Sessions, NoSession
<1>4. Unmanaged'
  <2>1. /\ conn = "online" /\ sm \in {"off", "enableSent", "started"}
        /\ sm = "off" => /\ server = NoSession /\ down = <<>> /\ "r" # "a"
                         /\ Kinds(up', {"stanza", "r"})
        /\ sm = "enableSent" => /\ Refused \/ Granted
                                /\ "r" # "a" /\ Kinds(up', {"stanza", "r"})
        /\ sm = "started" => Kinds(up', {"stanza", "r", "a"})
    BY ReadsOther
  <2>2. PICK e : e = <<"a", server.in % Modulus>>
    OBVIOUS
  <2>3. e \in DownElement /\ e[1] = "a" /\ down \in Seq(DownElement)
    BY <2>2, ListTypes, Quotient, DownFacts
  <2>4. down' = (IF server.on THEN Append(down, e) ELSE down) /\ server' = server
    BY <2>2 DEF ToClient
  <2>5. QED
    BY <2>1, <2>4 DEF Unmanaged, NoSession
<1>5. Resumption'
  BY DEF outgoing, incoming, sentVars, wire, counters, history, Types, PhaseType, Phases, Resumption, Ordered, Offline, Unmanaged, Enabling, Started, Resuming, Match, ToServer, ToClient
<1>6. Enabling'
  <2>1. /\ conn = "online" /\ sm \in {"off", "enableSent", "started"}
        /\ sm = "off" => /\ server = NoSession /\ down = <<>> /\ "r" # "a"
                         /\ Kinds(up', {"stanza", "r"})
        /\ sm = "enableSent" => /\ Refused \/ Granted
                                /\ "r" # "a" /\ Kinds(up', {"stanza", "r"})
        /\ sm = "started" => Kinds(up', {"stanza", "r", "a"})
    BY ReadsOther
  <2>2. PICK e : e = <<"a", server.in % Modulus>>
    OBVIOUS
  <2>3. e \in DownElement /\ e[1] = "a" /\ down \in Seq(DownElement)
    BY <2>2, ListTypes, Quotient, DownFacts
  <2>4. down' = (IF server.on THEN Append(down, e) ELSE down) /\ server' = server
    BY <2>2 DEF ToClient
  <2>5. ASSUME sm = "enableSent" PROVE Refused' \/ Granted'
    <3>1. CASE Refused
      BY <2>1, <2>4, <2>5, <3>1 DEF Refused, NoSession
    <3>2. CASE Granted
      <4>1. {"a", "stanza"} = {"stanza", "a"}
        OBVIOUS
      <4>2. server.on /\ down # <<>> /\ FirstThen(down, {"stanza", "a"})
        BY <3>2, <4>1 DEF Granted
      <4>2a. down' = Append(down, e)
        BY <2>4, <4>2
      <4>2b. down' # <<>> /\ down'[1] = down[1] /\ FirstThen(down', {"stanza", "a"})
        BY ONLY <2>3, <4>2, <4>2a, <4>1, DownGrows
      <4>3. down' # <<>> /\ down'[1] = down[1] /\ FirstThen(down', {"a", "stanza"})
        BY ONLY <4>1, <4>2b
      <4>4. QED
        BY <2>1, <2>4, <2>5, <3>2, <4>3 DEF Granted, counters
    <3>3. QED
      BY <2>1, <2>5, <3>1, <3>2
  <2>6. QED
    BY <2>1, <2>5 DEF Phases, Enabling, outgoing, sentVars
<1>7. Started'
  <2>1. /\ conn = "online" /\ sm \in {"off", "enableSent", "started"}
        /\ sm = "off" => /\ server = NoSession /\ down = <<>> /\ "r" # "a"
                         /\ Kinds(up', {"stanza", "r"})
        /\ sm = "enableSent" => /\ Refused \/ Granted
                                /\ "r" # "a" /\ Kinds(up', {"stanza", "r"})
        /\ sm = "started" => Kinds(up', {"stanza", "r", "a"})
    BY ReadsOther
  <2>2. PICK e : e = <<"a", server.in % Modulus>>
    OBVIOUS
  <2>3. e \in DownElement /\ e[1] = "a" /\ down \in Seq(DownElement)
    BY <2>2, ListTypes, Quotient, DownFacts
  <2>4. down' = (IF server.on THEN Append(down, e) ELSE down) /\ server' = server
    BY <2>2 DEF ToClient
  <2>5. ASSUME sm = "started" PROVE Kinds(down', {"stanza", "a"})
    BY <2>3, <2>4, <2>5, DownGrows DEF Phases, Started
  <2>6. QED
    BY <2>1, <2>4, <2>5 DEF Phases, Started
<1>8. QED
  BY <1>1, <1>2, <1>3, <1>4, <1>5, <1>6, <1>7 DEF Phases

\* The phases are kept when the server is acked.
LEMMA ServerIsAckedPhases ==
  ASSUME Types, Types', Phases, ServerIsAcked
  PROVE  Phases'
<1> USE DEF ServerIsAcked, ServerReads
<1>1. Ordered'
  BY DEF outgoing, incoming, sentVars, wire, counters, history, Types, PhaseType, Phases, Ordered
<1>2. Sessions'
  BY DEF outgoing, incoming, sentVars, wire, counters, history, Types, PhaseType, Phases, Sessions, NoStore, NoSession, NoId, ServerType, StoreType, Store, Server, Offline, Resumption, Resuming, Enabling, Started, Unmanaged, Match, Granted, Requesting, ToClient
<1>3. Offline'
  BY DEF outgoing, incoming, sentVars, wire, counters, history, Types, PhaseType, Phases, Offline, Ordered, Sessions, NoSession
<1>4. Unmanaged'
  <2>1. /\ conn = "online" /\ sm \in {"off", "enableSent", "started"}
        /\ sm = "off" => /\ server = NoSession /\ down = <<>> /\ "a" # "a"
                         /\ Kinds(up', {"stanza", "r"})
        /\ sm = "enableSent" => /\ Refused \/ Granted
                                /\ "a" # "a" /\ Kinds(up', {"stanza", "r"})
        /\ sm = "started" => Kinds(up', {"stanza", "r", "a"})
    BY ReadsOther
  <2>2. /\ server'.id = server.id /\ server'.on = server.on /\ down' = down
    BY DEF wire, Types, ServerType, Server
  <2>3. QED
    BY <2>1, <2>2 DEF Unmanaged, NoSession
<1>5. Resumption'
  BY DEF outgoing, incoming, sentVars, wire, counters, history, Types, PhaseType, Phases, Resumption, Ordered, Offline, Unmanaged, Enabling, Started, Resuming, Match, ToServer, ToClient
<1>6. Enabling'
  <2>1. /\ conn = "online" /\ sm \in {"off", "enableSent", "started"}
        /\ sm = "off" => /\ server = NoSession /\ down = <<>> /\ "a" # "a"
                         /\ Kinds(up', {"stanza", "r"})
        /\ sm = "enableSent" => /\ Refused \/ Granted
                                /\ "a" # "a" /\ Kinds(up', {"stanza", "r"})
        /\ sm = "started" => Kinds(up', {"stanza", "r", "a"})
    BY ReadsOther
  <2>2. /\ server'.id = server.id /\ server'.on = server.on /\ down' = down
    BY DEF wire, Types, ServerType, Server
  <2>3. QED
    BY <2>1 DEF Enabling
<1>7. Started'
  <2>1. /\ conn = "online" /\ sm \in {"off", "enableSent", "started"}
        /\ sm = "off" => /\ server = NoSession /\ down = <<>> /\ "a" # "a"
                         /\ Kinds(up', {"stanza", "r"})
        /\ sm = "enableSent" => /\ Refused \/ Granted
                                /\ "a" # "a" /\ Kinds(up', {"stanza", "r"})
        /\ sm = "started" => Kinds(up', {"stanza", "r", "a"})
    BY ReadsOther
  <2>2. /\ server'.id = server.id /\ server'.on = server.on /\ down' = down
    BY DEF wire, Types, ServerType, Server
  <2>3. QED
    BY <2>1, <2>2 DEF Phases, Started
<1>8. QED
  BY <1>1, <1>2, <1>3, <1>4, <1>5, <1>6, <1>7 DEF Phases

\* The phases are kept when the server sends a stanza.
LEMMA ServerSendsPhases ==
  ASSUME Types, Types', Phases, ServerSends
  PROVE  Phases'
<1> USE DEF ServerSends
<1>1. Ordered'
  BY DEF outgoing, incoming, sentVars, wire, counters, history, Types, PhaseType, Phases, Ordered
<1>2. Sessions'
  BY DEF outgoing, incoming, sentVars, wire, counters, history, Types, PhaseType, Phases, Sessions, NoStore, NoSession, NoId, ServerType, StoreType, Store, Server, Offline, Resumption, Resuming, Enabling, Started, Unmanaged, Match, Granted, Requesting, ToClient
<1>3. Offline'
  BY DEF outgoing, incoming, sentVars, wire, counters, history, Types, PhaseType, Phases, Offline, Ordered, Sessions, NoSession
<1>4. Unmanaged'
  <2>1. server # NoSession /\ server'.id = server.id /\ server'.on = server.on /\ server'.in = server.in
        /\ server'.acked = server.acked
    BY DEF NoSession, Types, ServerType, Server
  <2>2. QED
    BY <2>1 DEF Phases, Unmanaged
<1>5. Resumption'
  <2>1. server # NoSession /\ server'.id = server.id /\ server'.on = server.on /\ server'.in = server.in
        /\ server'.acked = server.acked
    BY DEF NoSession, Types, ServerType, Server
  <2>2. PICK e : e = <<"stanza", server.out + 1>>
    OBVIOUS
  <2>3. e \in DownElement /\ e[1] = "stanza" /\ down \in Seq(DownElement)
    <3>1. server.out + 1 \in Nat
      BY CountTypes
    <3>2. QED
      BY <2>2, <3>1, DownFacts, ListTypes
  <2>4. down' = IF server.on THEN Append(down, e) ELSE down
    BY <2>2 DEF ToClient
  <2>5. SUFFICES ASSUME conn = "resuming" PROVE Resuming'
    BY DEF Resumption
  <2>6. Resuming
    BY <2>5 DEF Phases, Resumption
  <2>7. CASE ~server.on
    BY <2>1, <2>4, <2>6, <2>7 DEF outgoing, incoming, Resuming
  <2>8. CASE server.on
    <3>1. down # <<>> /\ down[1] = <<"resumed", server.in % Modulus>> /\ FirstThen(down, {"stanza"})
          /\ up = <<>> /\ Match
      BY <2>6, <2>8 DEF Resuming
    <3>2. down' # <<>> /\ down'[1] = down[1] /\ FirstThen(down', {"stanza"})
      BY <2>3, <2>4, <2>8, <3>1, DownGrows
    <3>3. QED
      BY <2>1, <2>6, <2>8, <3>1, <3>2 DEF outgoing, incoming, Resuming, Match
  <2>9. QED
    BY <2>7, <2>8
<1>6. Enabling'
  <2>1. server # NoSession /\ server'.id = server.id /\ server'.on = server.on /\ server'.in = server.in
        /\ server'.acked = server.acked
    BY DEF NoSession, Types, ServerType, Server
  <2>2. PICK e : e = <<"stanza", server.out + 1>>
    OBVIOUS
  <2>3. e \in DownElement /\ e[1] = "stanza" /\ down \in Seq(DownElement)
    <3>1. server.out + 1 \in Nat
      BY CountTypes
    <3>2. QED
      BY <2>2, <3>1, DownFacts, ListTypes
  <2>4. down' = IF server.on THEN Append(down, e) ELSE down
    BY <2>2 DEF ToClient
  <2>5. sm # "enableQueued"
    BY <2>1 DEF Phases, Enabling
  <2>6. ASSUME sm = "enableSent" PROVE Granted'
    <3>1. Granted
      BY <2>1, <2>6 DEF Phases, Enabling, Requesting, Refused
    <3>2. down' # <<>> /\ down'[1] = down[1] /\ FirstThen(down', {"a", "stanza"})
      <4>1. {"a", "stanza"} = {"stanza", "a"}
        OBVIOUS
      <4>2. server.on /\ down # <<>> /\ FirstThen(down, {"stanza", "a"})
        BY <3>1, <4>1 DEF Granted
      <4>3. QED
        BY <2>3, <2>4, <4>1, <4>2, DownGrows
    <3>3. QED
      BY <2>1, <3>1, <3>2 DEF Granted, counters
  <2>7. QED
    BY <2>5, <2>6 DEF Phases, Enabling, outgoing, sentVars
<1>7. Started'
  <2>1. server # NoSession /\ server'.id = server.id /\ server'.on = server.on /\ server'.in = server.in
        /\ server'.acked = server.acked
    BY DEF NoSession, Types, ServerType, Server
  <2>2. PICK e : e = <<"stanza", server.out + 1>>
    OBVIOUS
  <2>3. e \in DownElement /\ e[1] = "stanza" /\ down \in Seq(DownElement)
    <3>1. server.out + 1 \in Nat
      BY CountTypes
    <3>2. QED
      BY <2>2, <3>1, DownFacts, ListTypes
  <2>4. down' = IF server.on THEN Append(down, e) ELSE down
    BY <2>2 DEF ToClient
  <2>5. ASSUME sm = "started" PROVE Kinds(down', {"stanza", "a"})
    BY <2>3, <2>4, <2>5, DownGrows DEF Phases, Started
  <2>6. QED
    BY <2>1, <2>5 DEF Phases, Started
<1>8. QED
  BY <1>1, <1>2, <1>3, <1>4, <1>5, <1>6, <1>7 DEF Phases

\* The phases are kept when the session expires.
LEMMA SessionExpiresPhases ==
  ASSUME Types, Types', Phases, SessionExpires
  PROVE  Phases'
<1> USE DEF SessionExpires
<1>1. Ordered'
  BY DEF outgoing, incoming, sentVars, wire, counters, history, Types, PhaseType, Phases, Ordered
<1>2. Sessions'
  BY DEF outgoing, incoming, sentVars, wire, counters, history, Types, PhaseType, Phases, Sessions, NoStore, NoSession, NoId, ServerType, StoreType, Store, Server, Offline, Resumption, Resuming, Enabling, Started, Unmanaged, Match, Granted, Requesting, ToClient
<1>3. Offline'
  BY DEF outgoing, incoming, sentVars, wire, counters, history, Types, PhaseType, Phases, Offline, Ordered, Sessions, NoSession
<1>4. Unmanaged'
  BY DEF outgoing, incoming, sentVars, wire, counters, history, Types, PhaseType, Phases, Unmanaged, Ordered, Offline, Enabling, Refused
<1>5. Resumption'
  <2>1. conn = "resuming" => Resuming /\ ~server.on
    BY DEF Phases, Resumption
  <2>2. QED
    BY <2>1 DEF outgoing, incoming, wire, counters, Resumption, Resuming, NoSession
<1>6. Enabling'
  BY DEF outgoing, incoming, sentVars, wire, counters, history, Types, PhaseType, Phases, Enabling, Ordered, Offline, Unmanaged, Resumption, Resuming, Requesting, Refused, Granted, NoSession, ToServer, ToClient, Sessions, ServerType, Server
<1>7. Started'
  BY DEF outgoing, incoming, sentVars, wire, counters, history, Types, PhaseType, Phases, Started, Ordered, Offline, Unmanaged, Resumption, Resuming, Requesting, Granted, Refused, Match, ToServer, ToClient, NoStore
<1>8. QED
  BY <1>1, <1>2, <1>3, <1>4, <1>5, <1>6, <1>7 DEF Phases

-----------------------------------------------------------------------------
(* The lists of stanzas.                                                   *)

Lists == <<unackedByServer, prevUnacked, sent, tracked, unprocessed, unanswered, reported>>

\* The lists are as before.
LEMMA ListedFrame ==
  ASSUME Listed, UNCHANGED Lists, Resumable' => Resumable
  PROVE  Listed'
BY DEF Listed, Open, Lists

\* What is stored of the lists is as before.
LEMMA PendingFrame ==
  ASSUME Pending, UNCHANGED Lists, Resumable' => Resumable,
         conn' \in {"down", "binding"} => conn \in {"down", "binding"},
         store'.pending = store.pending, store'.byServer = store.byServer,
         lastHandledByServer' = lastHandledByServer
  PROVE  Pending'
BY DEF Pending, Open, Lists

\* Without a session to resume, nothing is pending.
LEMMA NothingPending ==
  ASSUME ~Resumable'
  PROVE  Pending'
BY DEF Pending

\* Nothing that only concerns the server and what is on its way touches the lists.
LEMMA ListsStay ==
  ASSUME Types, Listed, Pending,
         \/ Connect \/ RequestTimerFires \/ SendAck \/ ServerHandles \/ ServerAcks
         \/ ServerIsAcked \/ ServerSends \/ ServerResumes
  PROVE  Listed' /\ Pending'
<1>1. server'.id = server.id
  BY DEF Connect, RequestTimerFires, SendAck, ServerHandles, ServerAcks, ServerIsAcked, ServerSends,
     ServerResumes, Types, ServerType, Server
<1>2. UNCHANGED <<sm, store, Lists, lastHandledByServer>>
  BY DEF Connect, RequestTimerFires, SendAck, ServerHandles, ServerAcks, ServerIsAcked, ServerSends,
     ServerResumes, outgoing, sentVars, history, Lists
<1>3. Resumable' => Resumable
  BY <1>1, <1>2 DEF Resumable, Match
<1>4. conn' \in {"down", "binding"} => conn \in {"down", "binding"}
  BY DEF Connect, RequestTimerFires, SendAck, ServerHandles, ServerAcks, ServerIsAcked, ServerSends,
     ServerResumes
<1>5. QED
  BY <1>2, <1>3, <1>4, ListedFrame, PendingFrame

\* The lists are as before, and there is no session to resume.
LEMMA ListsUnused ==
  ASSUME Types, Phases, Listed,
         \/ BindAnew \/ NotOffered \/ ReceiveStanza \/ ServerEnables \/ SessionExpires
         \/ ReceiveResumeFailed \/ ReceiveNotEnabled
  PROVE  Listed' /\ Pending'
<1>1. ~Resumable'
  <2>1. CASE BindAnew \/ SessionExpires \/ ReceiveResumeFailed
    <3>1. server'.id = NoId /\ store' = store
      BY <2>1 DEF BindAnew, SessionExpires, ReceiveResumeFailed, NoSession
    <3>2. QED
      BY <3>1 DEF Resumable, Match
  <2>2. CASE NotOffered
    BY <2>2 DEF NotOffered, Phases, Offline, NoSession, Resumable, Match
  <2>3. CASE ReceiveStanza
    BY <2>3 DEF ReceiveStanza, Resumable
  <2>4. CASE ServerEnables
    BY <2>4, ReadsEnable DEF ServerEnables, Resumable
  <2>5. CASE ReceiveNotEnabled
    BY <2>5 DEF ReceiveNotEnabled, NoStore, Resumable, Match
  <2>6. QED
    BY <2>1, <2>2, <2>3, <2>4, <2>5
<1>2. CASE prevUnacked' = prevUnacked
  <2>1. UNCHANGED Lists
    BY <1>2 DEF BindAnew, SessionExpires, ReceiveResumeFailed, NotOffered, ReceiveStanza,
       ServerEnables, ReceiveNotEnabled, outgoing, sentVars, history, Lists
  <2>2. QED
    BY <1>1, <2>1, ListedFrame, NothingPending
<1>3. CASE prevUnacked' # prevUnacked
  <2>1. UNCHANGED <<unackedByServer, sent, tracked, unprocessed, unanswered, reported>>
    BY <1>3 DEF BindAnew, SessionExpires, ReceiveResumeFailed, NotOffered, ReceiveStanza,
       ServerEnables, ReceiveNotEnabled, outgoing, sentVars, history
  <2>2. Listed'
    BY <1>1, <2>1 DEF Listed
  <2>3. QED
    BY <1>1, <2>2, NothingPending
<1>4. QED
  BY <1>2, <1>3

\* The list is emptied.
LEMMA ListEmptied ==
  ASSUME Types, Types', Listed, unackedByServer' = <<>>, unprocessed' = <<>>,
         sent' = sent, reported' = reported, ~Resumable'
  PROVE  Listed' /\ Pending'
<1>1. Len(unackedByServer') = 0
  BY EmptySeq
<1>2. tracked' \in Nat /\ sent \in Nat /\ Len(unackedByServer) \in Nat
  BY ListTypes DEF Types, SentType
<1>3. \A i \in 1..Len(reported') : reported'[i] <= sent' - Len(unackedByServer')
  <2>1. \A i \in 1..Len(reported) : reported[i] <= sent - Len(unackedByServer) /\ reported[i] \in Nat
    BY ElementOfSeq DEF Listed, Types, HistoryType
  <2>2. QED
    BY <1>1, <1>2, <2>1
<1>4. Listed'
  BY <1>1, <1>2, <1>3 DEF Listed
<1>5. QED
  BY <1>4, NothingPending

\* The lists stay in order when stream management is being enabled.
LEMMA EnablingLists ==
  ASSUME Types, Types', Phases, Listed, EnableStreamManagement \/ DidSendEnable
  PROVE  Listed' /\ Pending'
<1>1. unackedByServer' = <<>> /\ unprocessed' = <<>>
  BY DEF EnableStreamManagement, ForgetUnacked, DidSendEnable, Phases, Enabling, outgoing
<1>2. sent' = sent /\ reported' = reported /\ ~Resumable'
  BY DEF EnableStreamManagement, DidSendEnable, sentVars, history, Resumable
<1>3. QED
  BY <1>1, <1>2, ListEmptied

\* The lists stay in order when it is enabled.
LEMMA ReceiveEnabledLists ==
  ASSUME Types, Types', Listed, ReceiveEnabled
  PROVE  Listed' /\ Pending'
<1>1. /\ UNCHANGED <<unackedByServer, prevUnacked, sent, tracked, unanswered, reported>>
      /\ unprocessed' = <<>> /\ ~Resumable'
  BY DEF ReceiveEnabled, sentVars, Resumable
<1>2. QED
  BY <1>1, NothingPending DEF Listed

\* The lists stay in order when a stanza is sent.
LEMMA SendStanzaLists ==
  ASSUME Types, Types', Listed, SendStanza
  PROVE  Listed' /\ Pending'
<1>1. PICK n, s : n = Len(unackedByServer) /\ s = sent
  OBVIOUS
<1>2. n \in Nat /\ s \in Nat /\ tracked \in Nat
  BY <1>1, ListTypes
<1>3. /\ sent' = s + 1 /\ tracked' = tracked + 1 /\ Len(unackedByServer') = n + 1
      /\ unackedByServer'[n + 1] = s + 1
      /\ \A i \in 1..n : unackedByServer'[i] = unackedByServer[i]
  BY <1>1, StanzaSent
<1>4. /\ \A i \in 1..n : unackedByServer[i] = s - n + i
      /\ n <= tracked
  BY <1>1 DEF Listed
<1>5. \A i \in 1..(n + 1) : unackedByServer'[i] = (s + 1) - (n + 1) + i
  BY ONLY <1>2, <1>3, <1>4
<1>6. n + 1 <= tracked + 1
  BY ONLY <1>2, <1>4
<1>7. unprocessed' = unprocessed /\ reported' = reported /\ ~Resumable' /\ unanswered \subseteq unanswered'
  BY DEF SendStanza, history, Resumable
<1>8. ASSUME unprocessed # <<>> PROVE unackedByServer' # <<>> /\ unackedByServer'[1] \in unanswered'
  <2>1. unackedByServer # <<>> /\ unackedByServer[1] \in unanswered
    BY <1>8 DEF Listed
  <2>2. n > 0
    BY <1>1, <2>1, ListTypes, NonEmpty
  <2>3. 1 \in 1..n
    BY ONLY <1>2, <2>2
  <2>4. unackedByServer' # <<>>
    BY <1>2, <1>3, EmptySeq
  <2>5. QED
    BY <1>3, <1>7, <2>1, <2>3, <2>4
<1>9. \A i \in 1..Len(reported') : reported'[i] <= (s + 1) - (n + 1)
  <2>1. \A i \in 1..Len(reported) : reported[i] <= s - n
    BY <1>1 DEF Listed
  <2>2. (s + 1) - (n + 1) = s - n
    BY ONLY <1>2
  <2>3. QED
    BY <1>7, <2>1, <2>2
<1>10. Listed'
  BY <1>3, <1>5, <1>6, <1>7, <1>8, <1>9 DEF Listed
<1>11. QED
  BY <1>7, <1>10, NothingPending

\* The lists stay in order when <resume/> is sent.
LEMMA SendResumeLists ==
  ASSUME Types, Types', Phases, Listed, Pending, SendResume
  PROVE  Listed' /\ Pending'
<1>1. PICK n, s, q : n = Len(unackedByServer) /\ s = sent /\ q = store.pending
  OBVIOUS
<1>2. n \in Nat /\ s \in Nat /\ tracked \in Nat /\ Len(prevUnacked') \in Nat /\ q \in Seq(Nat)
  <2>1. Len(prevUnacked') \in Nat
    BY NonEmpty DEF Types, ListType
  <2>2. QED
    BY <1>1, <2>1, ListTypes
<1>3. /\ conn = "binding" /\ conn' = "resuming" /\ unackedByServer' = <<>> /\ unprocessed' = <<>>
      /\ prevUnacked' = (IF q = <<>> THEN prevUnacked ELSE q)
      /\ UNCHANGED <<sm, store, server, sent, tracked, reported>>
  BY <1>1 DEF SendResume, ForgetUnacked, sentVars, history
<1>4. prevUnacked = <<>> /\ Len(unackedByServer') = 0
  BY <1>3, EmptySeq DEF Phases, Ordered
<1>5. Resumable' <=> Resumable
  BY <1>3 DEF Resumable, Match
<1>6. ASSUME Resumable
      PROVE  /\ Len(prevUnacked') = n /\ n <= tracked
             /\ \A i \in 1..n : prevUnacked'[i] = NoId \/ prevUnacked'[i] = s - n + i
  <2>1. /\ Len(q) = n
        /\ \A i \in 1..n : q[i] = NoId \/ q[i] = unackedByServer[i]
    BY <1>1, <1>3, <1>6 DEF Pending
  <2>2. n <= tracked /\ \A i \in 1..n : unackedByServer[i] = s - n + i
    BY <1>1 DEF Listed
  <2>3. CASE q = <<>>
    <3>1. n = 0
      BY <2>1, <2>3, EmptySeq
    <3>2. QED
      BY <1>3, <1>4, <2>2, <2>3, <3>1
  <2>4. CASE q # <<>>
    <3>1. prevUnacked' = q
      BY <1>3, <2>4
    <3>2. QED
      BY <2>1, <2>2, <3>1
  <2>5. QED
    BY <2>3, <2>4
<1>7. PICK o : o = Len(prevUnacked')
  OBVIOUS
<1>8. Open' = o
  BY <1>2, <1>4, <1>7 DEF Open
<1>9. ASSUME NEW i \in 1..Len(reported')
      PROVE  reported'[i] <= sent' - Len(unackedByServer') /\ (Resumable' => reported'[i] <= sent' - o)
  <2>1. reported'[i] <= s - n /\ reported'[i] \in Nat
    <3>1. i \in 1..Len(reported) /\ reported' = reported
      BY <1>3
    <3>2. reported[i] \in Nat
      BY <3>1, ElementOfSeq DEF Types, HistoryType
    <3>3. QED
      BY <1>1, <3>1, <3>2 DEF Listed
  <2>2. reported'[i] <= s
    BY ONLY <1>2, <2>1
  <2>3. Resumable' => o = n
    BY <1>5, <1>6, <1>7
  <2>4. s - 0 = s /\ sent' = s
    BY <1>1, <1>2, <1>3
  <2>5. QED
    BY <1>4, <2>1, <2>2, <2>3, <2>4
<1>10. Listed'
  BY <1>2, <1>3, <1>4, <1>8, <1>9 DEF Listed
<1>11. ASSUME Resumable'
       PROVE  /\ Open' <= tracked'
              /\ \A i \in 1..Len(prevUnacked') :
                   prevUnacked'[i] = NoId \/ prevUnacked'[i] = sent' - Len(prevUnacked') + i
  <2>1. /\ Len(prevUnacked') = n /\ n <= tracked
        /\ \A i \in 1..n : prevUnacked'[i] = NoId \/ prevUnacked'[i] = s - n + i
    BY <1>5, <1>6, <1>11
  <2>2. sent' = s /\ tracked' = tracked
    BY <1>1, <1>3
  <2>3. QED
    BY <1>7, <1>8, <2>1, <2>2
<1>12. Pending'
  BY <1>3, <1>11 DEF Pending
<1>13. QED
  BY <1>10, <1>12

\* The lists stay in order when the session is resumed.
LEMMA ReceiveResumedLists ==
  ASSUME Types, Types', Phases, Listed, Pending, Outgoing, Accounted, ReceiveResumed
  PROVE  Listed' /\ Pending'
<1>1. /\ unackedByServer = <<>> /\ unprocessed = <<>> /\ Resumable
      /\ UNCHANGED <<unackedByServer, unprocessed, sent>> /\ sm' = "started" /\ tracked' \in Nat
  BY Resumed DEF ReceiveResumed, Types, SentType
<1>2. PICK n, x : ResumedTaken(Len(prevUnacked), n, x)
  BY Resumed
<1>3. PICK o, s, r, t : o = Len(prevUnacked) /\ s = sent /\ r = reported /\ t = r \o x
  OBVIOUS
<1>4. /\ o \in Nat /\ n \in Nat /\ n <= o /\ s \in Nat
      /\ reported' = t /\ x \in Seq(Nat)
      /\ \A i \in 1..Len(x) : x[i] > s - o /\ x[i] <= s - o + n
      /\ \A i, j \in 1..Len(x) : i < j => x[i] < x[j]
  BY <1>2, <1>3, ListTypes DEF ResumedTaken
<1>5. Open = o /\ Len(unackedByServer) = 0
  BY <1>1, <1>3, <1>4, EmptySeq DEF Open
<1>6. /\ r \in Seq(Nat) /\ \A i, j \in 1..Len(r) : i < j => r[i] < r[j]
      /\ \A i \in 1..Len(r) : r[i] <= s - o
  BY <1>1, <1>3, <1>5 DEF Listed, Types, HistoryType
<1>7. PICK a, b : a = Len(r) /\ b = Len(x)
  OBVIOUS
<1>8. a \in Nat /\ b \in Nat
  BY <1>4, <1>6, <1>7, NonEmpty
<1>9. /\ Len(t) = a + b
      /\ \A i \in 1..(a + b) : t[i] = IF i <= a THEN r[i] ELSE x[i - a]
  BY <1>3, <1>4, <1>6, <1>7, ConcatProperties
<1>10. ASSUME NEW i \in 1..(a + b)
       PROVE  \/ i \in 1..a /\ t[i] = r[i] /\ t[i] \in Nat /\ t[i] <= s - o
              \/ /\ i > a /\ i - a \in 1..b /\ t[i] = x[i - a] /\ t[i] \in Nat
                 /\ t[i] > s - o /\ t[i] <= s - o + n
  <2>1. CASE i <= a
    <3>1. i \in 1..a /\ t[i] = r[i]
      BY <1>8, <1>9, <2>1
    <3>2. r[i] \in Nat
      BY <1>6, <1>7, <3>1, ElementOfSeq
    <3>3. QED
      BY <1>6, <1>7, <3>1, <3>2
  <2>2. CASE ~(i <= a)
    <3>1. i - a \in 1..b /\ i > a
      BY <1>8, <2>2
    <3>2. t[i] = x[i - a]
      BY <1>9, <2>2
    <3>3. x[i - a] \in Nat
      BY <1>4, <1>7, <3>1, ElementOfSeq
    <3>4. QED
      BY <1>4, <1>7, <3>1, <3>2, <3>3
  <2>3. QED
    BY <2>1, <2>2
<1>11. ASSUME NEW i \in 1..(a + b), NEW j \in 1..(a + b), i < j PROVE t[i] < t[j]
  <2>1. CASE j \in 1..a
    <3>1. i \in 1..a
      BY ONLY <1>8, <1>11, <2>1
    <3>2. QED
      BY <1>6, <1>7, <1>8, <1>10, <1>11, <2>1, <3>1
  <2>2. CASE i > a
    <3>1. j > a
      BY ONLY <1>8, <1>11, <2>2
    <3>2. /\ i - a \in 1..b /\ t[i] = x[i - a] /\ j - a \in 1..b /\ t[j] = x[j - a]
      BY <1>8, <1>10, <2>2, <3>1
    <3>3. i - a < j - a
      BY ONLY <1>8, <1>11
    <3>4. QED
      BY <1>4, <1>7, <3>2, <3>3
  <2>3. CASE ~(i > a) /\ ~(j \in 1..a)
    <3>1. t[i] \in Nat /\ t[i] <= s - o
      BY <1>10, <2>3
    <3>2. t[j] \in Nat /\ t[j] > s - o
      BY <1>10, <2>3
    <3>3. QED
      BY ONLY <1>4, <3>1, <3>2
  <2>4. QED
    BY <2>1, <2>2, <2>3
<1>12. ASSUME NEW i \in 1..(a + b) PROVE t[i] <= s
  <2>1. t[i] \in Nat /\ (t[i] <= s - o \/ t[i] <= s - o + n)
    BY <1>10
  <2>2. QED
    BY ONLY <1>4, <2>1
<1>13. Listed'
  <2>1. Len(unackedByServer') = 0 /\ sent' = s /\ unprocessed' = <<>> /\ ~Resumable' /\ Len(reported') = a + b
    BY <1>1, <1>3, <1>4, <1>5, <1>9 DEF Resumable
  <2>2. \A i \in 1..Len(reported') : reported'[i] <= sent' - Len(unackedByServer')
    BY <1>4, <1>12, <2>1
  <2>3. \A i, j \in 1..Len(reported') : i < j => reported'[i] < reported'[j]
    BY <1>4, <1>11, <2>1
  <2>4. QED
    BY <1>1, <2>1, <2>2, <2>3 DEF Listed
<1>14. QED
  BY <1>1, <1>13, NothingPending DEF Resumable

\* k stanzas are taken off the list and reported.
LEMMA ListShortened ==
  ASSUME Types, Types', Listed, NEW p, NEW k, NEW b, Stands(p, k, b), Took(p),
         UNCHANGED <<sent, tracked, prevUnacked>>,
         Resumable' => Resumable /\ (prevUnacked = <<>> \/ k = 0),
         unprocessed' # <<>> => unackedByServer' # <<>> /\ unackedByServer'[1] \in unanswered'
  PROVE  Listed'
<1>1. PICK n, s, a : n = Len(unackedByServer) /\ s = sent /\ a = Len(reported)
  OBVIOUS
<1>2. n \in Nat /\ s \in Nat /\ a \in Nat /\ tracked \in Nat
  BY <1>1, ListTypes
<1>3. /\ k \in 0..n /\ Len(unackedByServer') = n - k
      /\ \A i \in 1..(n - k) : unackedByServer'[i] = unackedByServer[k + i]
      /\ Len(reported') = a + k /\ \A i \in 1..a : reported'[i] = reported[i]
      /\ \A i \in 1..k : reported'[a + i] = unackedByServer[i]
  BY <1>1, ListAfter
<1>4. /\ \A i \in 1..n : unackedByServer[i] = s - n + i
      /\ n <= tracked
      /\ \A i, j \in 1..a : i < j => reported[i] < reported[j]
      /\ \A i \in 1..a : reported[i] <= s - n /\ (Resumable => reported[i] <= s - Open)
  BY <1>1 DEF Listed
<1>5. \A i \in 1..(n - k) : unackedByServer'[i] = s - (n - k) + i
  <2>1. \A i \in 1..(n - k) : k + i \in 1..n /\ s - n + (k + i) = s - (n - k) + i
    BY ONLY <1>2, <1>3
  <2>2. QED
    BY <1>3, <1>4, <2>1
<1>6. n - k <= tracked
  BY ONLY <1>2, <1>3, <1>4
<1>7. ASSUME NEW i \in 1..(a + k)
      PROVE  \/ i \in 1..a /\ reported'[i] = reported[i] /\ reported'[i] \in Nat
                /\ reported'[i] <= s - n
             \/ i > a /\ reported'[i] = s - n + (i - a) /\ i - a \in 1..k
  <2>1. CASE i <= a
    <3>1. i \in 1..a
      BY <1>2, <2>1
    <3>2. reported[i] \in Nat
      BY <1>1, <3>1, ElementOfSeq DEF Types, HistoryType
    <3>3. QED
      BY <1>3, <1>4, <3>1, <3>2
  <2>2. CASE ~(i <= a)
    <3>1. i - a \in 1..k /\ i - a \in 1..n /\ i > a /\ a + (i - a) = i
      BY <1>2, <1>3, <2>2
    <3>2. QED
      BY <1>3, <1>4, <3>1
  <2>3. QED
    BY <2>1, <2>2
<1>8. ASSUME NEW i \in 1..(a + k), NEW j \in 1..(a + k), i < j
      PROVE  reported'[i] < reported'[j]
  <2>1. CASE j \in 1..a
    <3>1. i \in 1..a
      BY ONLY <1>2, <1>3, <1>8, <2>1
    <3>2. QED
      BY <1>3, <1>4, <1>8, <2>1, <3>1
  <2>2. CASE ~(j \in 1..a)
    <3>1. reported'[j] = s - n + (j - a) /\ j - a \in 1..k
      BY <1>7, <2>2
    <3>2. \/ reported'[i] \in Nat /\ reported'[i] <= s - n
          \/ reported'[i] = s - n + (i - a)
      BY <1>7
    <3>3. QED
      BY ONLY <1>2, <1>3, <1>8, <3>1, <3>2
  <2>3. QED
    BY <2>1, <2>2
<1>9. ASSUME NEW i \in 1..(a + k) PROVE reported'[i] <= s - (n - k)
  <2>1. \/ reported'[i] \in Nat /\ reported'[i] <= s - n
        \/ reported'[i] = s - n + (i - a) /\ i - a \in 1..k
    BY <1>7
  <2>2. QED
    BY ONLY <1>2, <1>3, <2>1
<1>10. ASSUME Resumable', NEW i \in 1..(a + k) PROVE reported'[i] <= s - Open'
  <2>1. CASE prevUnacked = <<>>
    <3>1. Open' = n - k
      BY <1>2, <1>3, <2>1, EmptySeq DEF Open
    <3>2. QED
      BY <1>9, <3>1
  <2>2. CASE k = 0
    <3>1. Open' = Open
      BY <1>1, <1>2, <1>3, <2>2 DEF Open
    <3>2. i \in 1..a
      BY <1>2, <2>2
    <3>3. QED
      BY <1>3, <1>4, <1>10, <3>1, <3>2
  <2>3. QED
    BY <1>10, <2>1, <2>2
<1>11. /\ \A i \in 1..Len(unackedByServer') : unackedByServer'[i] = sent' - Len(unackedByServer') + i
       /\ Len(unackedByServer') <= tracked'
  BY <1>1, <1>3, <1>5, <1>6
<1>12. /\ \A i, j \in 1..Len(reported') : i < j => reported'[i] < reported'[j]
       /\ \A i \in 1..Len(reported') : /\ reported'[i] <= sent' - Len(unackedByServer')
                                       /\ Resumable' => reported'[i] <= sent' - Open'
  BY <1>1, <1>3, <1>8, <1>9, <1>10
<1>13. QED
  BY <1>11, <1>12 DEF Listed

\* The lists stay in order when an ack arrives.
LEMMA ReceiveAckLists ==
  ASSUME Types, Types', Phases, Listed, Accounted, ReceiveAck
  PROVE  Listed' /\ Pending'
<1>1. sm = "started"
  BY AckReceived
<1>2. PICK c, w, d, p, k, b : AckTaken(c, w, d, p, k, b)
  BY AckReceived
<1>3. /\ Stands(p, k, b) /\ Took(p) /\ Takes(AckState, 0, c, d[1], unanswered, p, k, b)
      /\ QueueAck(d[1] % Modulus, p.complete)
  BY <1>2 DEF AckTaken
<1>4. UNCHANGED <<sm, sent, tracked, unanswered, prevUnacked>>
  BY DEF ReceiveAck, sentVars
<1>5. PICK n : n = Len(unackedByServer)
  OBVIOUS
<1>6. /\ n \in Nat /\ k \in 0..n /\ Len(unackedByServer') = n - k
      /\ \A i \in 1..(n - k) : unackedByServer'[i] = unackedByServer[k + i]
  BY <1>3, <1>5, ListTypes, ListAfter
<1>7. \A i \in 1..k : unackedByServer[i] \notin unanswered
  <2>1. \A i \in (0 + 1)..k : unackedByServer[i] \notin unanswered
    BY <1>3 DEF Takes
  <2>2. 0 + 1 = 1
    OBVIOUS
  <2>3. QED
    BY <2>1, <2>2
<1>8. ASSUME unprocessed' # <<>>
      PROVE  unackedByServer' # <<>> /\ unackedByServer'[1] \in unanswered'
  <2>1. k < n /\ unackedByServer[k + 1] \in unanswered
    <3>1. CASE p.complete
      <4>1. unackedByServer # <<>> /\ unackedByServer[1] \in unanswered
        BY <1>3, <1>8, <3>1 DEF QueueAck, Listed
      <4>2. k = 0
        <5>1. ~(1 \in 1..k)
          BY <1>7, <4>1
        <5>2. QED
          BY ONLY <1>6, <5>1
      <4>3. n > 0
        BY <1>5, <4>1, ListTypes, NonEmpty
      <4>4. QED
        BY <4>1, <4>2, <4>3
    <3>2. CASE ~p.complete
      BY <1>3, <1>5, <3>2 DEF Takes
    <3>3. QED
      BY <3>1, <3>2
  <2>2. 1 \in 1..(n - k) /\ n - k # 0
    BY <1>6, <2>1
  <2>3. unackedByServer' # <<>>
    BY <1>6, <2>2, EmptySeq
  <2>4. QED
    BY <1>4, <1>6, <2>1, <2>2, <2>3
<1>9. ~Resumable'
  BY <1>1, <1>4 DEF Resumable
<1>10. Listed'
  BY <1>3, <1>4, <1>8, <1>9, ListShortened
<1>11. QED
  BY <1>9, <1>10, NothingPending

\* The lists stay in order when a stanza gets its name.
LEMMA StanzaIdAnsweredLists ==
  ASSUME Types, Types', Phases, Listed, Pending, Accounted, NEW n \in unanswered, StanzaIdAnswered(n)
  PROVE  Listed' /\ Pending'
<1>1. PICK c, w, d, p, k, b : NameTaken(n, c, w, d, p, k, b)
  BY NameAnswered
<1>2. /\ Stands(p, k, b) /\ Took(p) /\ p.taken \in 0..Len(unprocessed)
      /\ unprocessed # <<>> => TakesAll(c, w, unanswered \ {n}, p, k, b)
      /\ unprocessed' = Drop(unprocessed, p.taken)
  BY <1>1 DEF NameTaken
<1>3. /\ UNCHANGED <<conn, sm, sent, tracked, prevUnacked, server>> /\ unanswered' = unanswered \ {n}
      /\ store'.id = store.id
  BY <1>1, NameSaved DEF StanzaIdAnswered
<1>4. PICK m : m = Len(unackedByServer)
  OBVIOUS
<1>5. /\ m \in Nat /\ k \in 0..m /\ Len(unackedByServer') = m - k
      /\ \A i \in 1..(m - k) : unackedByServer'[i] = unackedByServer[k + i]
  BY <1>2, <1>4, ListTypes, ListAfter
<1>6. ASSUME unprocessed' # <<>>
      PROVE  unackedByServer' # <<>> /\ unackedByServer'[1] \in unanswered'
  <2>1. p.taken < Len(unprocessed) /\ unprocessed # <<>>
    <3>1. PICK l, q : l = Len(unprocessed) /\ q = p.taken
      OBVIOUS
    <3>2. Len(unprocessed') = l - q /\ l \in Nat /\ q \in 0..l
      <4>1. unprocessed \in Seq(Nat) /\ l \in Nat /\ q \in 0..l
        BY <1>2, <3>1, ListTypes
      <4>2. q \in 0..Len(unprocessed) /\ unprocessed \in Seq(Nat)
        BY ONLY <3>1, <4>1
      <4>3. Len(Drop(unprocessed, q)) = Len(unprocessed) - q
        BY ONLY <4>2, DropFacts
      <4>4. QED
        BY <1>2, <3>1, <4>1, <4>3
    <3>3. l - q # 0
      <4>1. unprocessed' \in Seq(0..(Modulus - 1))
        BY DEF Types, AckType
      <4>2. QED
        BY <1>6, <3>2, <4>1, EmptySeq
    <3>4. q < l /\ l # 0
      BY ONLY <3>2, <3>3
    <3>5. QED
      BY <3>1, <3>4, EmptySeq
  <2>2. k < m /\ unackedByServer[k + 1] \in unanswered \ {n}
    BY <1>2, <1>4, <2>1 DEF TakesAll
  <2>3. 1 \in 1..(m - k) /\ m - k # 0
    BY <1>5, <2>2
  <2>4. unackedByServer' # <<>>
    BY <1>5, <2>3, EmptySeq
  <2>5. QED
    BY <1>3, <1>5, <2>2, <2>3, <2>4
<1>7. Resumable' <=> Resumable
  BY <1>3 DEF Resumable, Match
<1>8. prevUnacked = <<>> \/ (conn = "resuming" /\ unprocessed = <<>> /\ k = 0)
  <2>1. ASSUME conn = "resuming" PROVE unprocessed = <<>> /\ k = 0
    <3>1. unprocessed = <<>>
      BY <2>1 DEF Phases, Resumption, Resuming
    <3>2. QED
      BY <1>1, <3>1, NameAlone
  <2>2. QED
    BY <2>1 DEF Phases, Ordered
<1>9. Listed'
  BY <1>2, <1>3, <1>6, <1>7, <1>8, ListShortened
<1>10. ASSUME Resumable' PROVE Open' <= tracked'
  <2>1. Open <= tracked
    BY <1>7, <1>10 DEF Pending
  <2>2. PICK o : o = Len(prevUnacked)
    OBVIOUS
  <2>3. o \in Nat /\ tracked \in Nat /\ Open = m + o /\ Open' = (m - k) + o
    BY <1>3, <1>4, <1>5, <2>2, ListTypes DEF Open
  <2>4. (m - k) + o <= tracked
    BY ONLY <1>5, <2>1, <2>3
  <2>5. QED
    BY <1>3, <2>3, <2>4
<1>11. ASSUME Resumable', conn' \in {"down", "binding"}
       PROVE  /\ Len(store'.pending) = Len(unackedByServer')
              /\ \A i \in 1..Len(store'.pending) :
                   store'.pending[i] = NoId \/ store'.pending[i] = unackedByServer'[i]
              /\ store'.byServer = lastHandledByServer'
  <2>1. /\ Len(store.pending) = Len(unackedByServer)
        /\ \A i \in 1..Len(store.pending) :
             store.pending[i] = NoId \/ store.pending[i] = unackedByServer[i]
        /\ store.byServer = lastHandledByServer
    BY <1>3, <1>7, <1>11 DEF Pending
  <2>2. CASE Saved
    BY <2>2 DEF Saved
  <2>3. CASE store' = store /\ k = 0 /\ lastHandledByServer' = lastHandledByServer
    <3>1. Len(unackedByServer') = m /\ \A i \in 1..m : unackedByServer'[i] = unackedByServer[i]
      BY <1>5, <2>3
    <3>2. QED
      BY <1>4, <2>1, <2>3, <3>1
  <2>4. QED
    BY <1>1, <2>2, <2>3, NameSaved
<1>12. ASSUME Resumable', NEW i \in 1..Len(prevUnacked')
       PROVE  prevUnacked'[i] = NoId \/ prevUnacked'[i] = sent' - Len(prevUnacked') + i
  BY <1>3, <1>7, <1>12 DEF Pending
<1>13. Pending'
  BY <1>10, <1>11, <1>12 DEF Pending
<1>14. QED
  BY <1>9, <1>13

\* The lists stay in order when the stream disconnects.
LEMMA DisconnectLists ==
  ASSUME Types, Types', Listed, NEW clean \in BOOLEAN, Disconnect(clean)
  PROVE  Listed' /\ Pending'
<1>1. /\ UNCHANGED <<unackedByServer, unprocessed, unanswered, sent, tracked, reported, lastHandledByServer>>
      /\ prevUnacked' = <<>>
  BY DEF Disconnect, sentVars, history
<1>2. Len(unackedByServer) \in Nat /\ Open' = Len(unackedByServer)
  BY <1>1, ListTypes, EmptySeq DEF Open
<1>3. Listed'
  BY <1>1, <1>2 DEF Listed
<1>4. ASSUME Resumable'
      PROVE  /\ Len(store'.pending) = Len(unackedByServer)
             /\ \A i \in 1..Len(unackedByServer) :
                  store'.pending[i] = NoId \/ store'.pending[i] = unackedByServer[i]
             /\ store'.byServer = lastHandledByServer
  <2>1. ~clean
    BY <1>4 DEF Disconnect, NoStore, Resumable, Match
  <2>2. PICK m : m = Names(unackedByServer, unanswered)
    OBVIOUS
  <2>3. /\ Len(m) = Len(unackedByServer)
        /\ \A i \in 1..Len(unackedByServer) : m[i] = NoId \/ m[i] = unackedByServer[i]
    BY <2>2, NamesFacts DEF Types, ListType
  <2>4. store' = [store EXCEPT !.byClient = lastHandledByClient, !.byServer = lastHandledByServer, !.pending = m]
    BY <2>1, <2>2 DEF Disconnect
  <2>5. store'.pending = m /\ store'.byServer = lastHandledByServer
    BY <2>4 DEF Types, StoreType, Store
  <2>6. QED
    BY <2>3, <2>5
<1>5. Len(prevUnacked') = 0
  BY <1>1, EmptySeq
<1>6. Open' <= tracked'
  BY <1>1, <1>2 DEF Listed
<1>7. QED
  BY <1>1, <1>3, <1>4, <1>5, <1>6 DEF Pending

-----------------------------------------------------------------------------
(* What the server handled.                                                *)

\* The server handled no more, and no more is waited for.
LEMMA OutgoingFrame ==
  ASSUME Outgoing, UNCHANGED <<sent, tracked, handled>>, server'.in = server.in,
         Counting' \/ Live' => Counting \/ Live,
         Counting' => Stanzas(up', Before + server.in, sent),
         Live' => Live /\ Open' \in Nat /\ Open \in Nat /\ Open' <= Open /\ sent \in Nat
  PROVE  Outgoing'
<1>1. (Counting' \/ Live') => server'.in <= tracked'
  BY DEF Outgoing
<1>2. Before' = Before
  BY DEF Before
<1>3. Counting' => Stanzas(up', Before' + server'.in, sent')
  BY <1>2
<1>4. ASSUME Live', NEW n \in (sent' - Open' + 1)..(Before' + server'.in) PROVE n \in handled'
  <2>1. PICK o, q, h, s : o = Open /\ q = Open' /\ h = Before + server.in /\ s = sent
    OBVIOUS
  <2>2. n \in (s - q + 1)..h /\ o \in Nat /\ q \in Nat /\ q <= o /\ s \in Nat
    BY <1>2, <1>4, <2>1
  <2>3. n \in (s - o + 1)..h
    BY ONLY <2>2
  <2>4. \A m \in (s - o + 1)..h : m \in handled
    BY <1>4, <2>1 DEF Outgoing, Covered
  <2>5. QED
    BY <2>3, <2>4
<1>5. QED
  BY <1>1, <1>3, <1>4 DEF Outgoing, Covered

\* There is no session that counts.
LEMMA OutgoingIdle ==
  ASSUME ~Counting', ~Live'
  PROVE  Outgoing'
BY DEF Outgoing

\* Numbers of the account.
LEMMA OpenFacts ==
  ASSUME Types, Types'
  PROVE  /\ Open \in Nat /\ Open' \in Nat /\ Before \in Nat /\ Before + server.in \in Nat
         /\ prevUnacked = <<>> => Open = Len(unackedByServer)
         /\ unackedByServer = <<>> => Open = Len(prevUnacked)
         /\ prevUnacked' = <<>> => Open' = Len(unackedByServer')
         /\ unackedByServer' = <<>> => Open' = Len(prevUnacked')
<1>1. /\ Len(unackedByServer) \in Nat /\ Len(prevUnacked) \in Nat
      /\ Before \in Nat /\ server.in \in Nat
  BY ListTypes DEF Before
<1>2. Len(unackedByServer') \in Nat /\ Len(prevUnacked') \in Nat
  BY NonEmpty DEF Types, ListType
<1>3. QED
  BY <1>1, <1>2, EmptySeq DEF Open

\* Where the server counts, the client is not refused.
LEMMA CountingFacts ==
  ASSUME Types, Phases
  PROVE  /\ sm \in {"enableSent", "started"} /\ server.id # NoId => Counting
         /\ sm = "started" => Counting
         /\ sm \in {"enableSent", "started"} /\ down # <<>> /\ Head(down)[1] # "failed" => Counting
         /\ sm \in {"enableSent", "started"} /\ ~Counting =>
              sm = "enableSent" /\ Refused /\ server = NoSession
         /\ sm = "enableSent" /\ (server.on \/ server.id # NoId) => Granted /\ ~Match
<1>1. \A e : down = <<e>> => down # <<>> /\ Head(down) = e /\ down[1] = e /\ Len(down) = 1
  OBVIOUS
<1>2. ASSUME down = <<<<"failed">>>>
      PROVE  ~Granted /\ ~Requesting /\ ~Kinds(down, {"stanza", "a"}) /\ Head(down)[1] = "failed"
  <2>1. down # <<>> /\ Head(down) = <<"failed">> /\ down[1] = <<"failed">> /\ Len(down) = 1
    BY <1>1, <1>2
  <2>2. 1 \in 1..Len(down)
    BY <2>1
  <2>3. QED
    BY <2>1, <2>2 DEF Granted, Requesting, Kinds
<1>3. sm = "enableSent" => Requesting \/ Refused \/ Granted
  BY DEF Phases, Enabling
<1>4. sm = "started" => Kinds(down, {"stanza", "a"})
  BY DEF Phases, Started
<1>5. Refused \/ Requesting => server = NoSession
  BY DEF Refused, Requesting
<1>6. server = NoSession => server.id = NoId /\ ~server.on
  BY DEF NoSession
<1>7. Granted => server.id = ids /\ store.id # ids
  BY DEF Granted
<1>8. Granted => ~Match
  BY <1>7 DEF Match
<1>9. QED
  BY <1>2, <1>3, <1>4, <1>5, <1>6, <1>8 DEF Counting

\* What the server handled stays right when a connection is begun or nothing is offered.
LEMMA ConnectOutgoing ==
  ASSUME Types, Types', Phases, Outgoing, Connect \/ NotOffered
  PROVE  Outgoing'
<1>1. UNCHANGED <<sm, store, Lists, wire, server, handled>>
  BY DEF Connect, NotOffered, outgoing, sentVars, history, Lists
<1>2. (Counting' <=> Counting) /\ (Live' <=> Live) /\ Open' = Open
  BY <1>1 DEF Counting, Live, Resumable, Match, Open, Lists, wire
<1>3. Counting => Stanzas(up', Before + server.in, sent)
  BY <1>1 DEF Outgoing, wire
<1>4. sent \in Nat
  BY ListTypes
<1>5. QED
  BY <1>1, <1>2, <1>3, <1>4, OpenFacts, OutgoingFrame DEF Lists

\* There is no session that counts.
LEMMA NothingOutgoing ==
  ASSUME Types, Types', Phases,
         \/ BindAnew \/ ReceiveResumeFailed \/ EnableStreamManagement \/ ReceiveNotEnabled
         \/ SessionExpires
  PROVE  Outgoing'
<1>1. CASE BindAnew \/ ReceiveResumeFailed
  <2>1. sm' = "off" /\ server'.id = NoId /\ store' = store
    BY <1>1 DEF BindAnew, ReceiveResumeFailed, Phases, Ordered, NoSession
  <2>2. QED
    BY <2>1, OutgoingIdle DEF Counting, Live, Resumable, Match
<1>2. CASE EnableStreamManagement
  <2>1. sm' = "enableQueued"
    BY <1>2 DEF EnableStreamManagement
  <2>2. QED
    BY <2>1, OutgoingIdle DEF Counting, Live, Resumable
<1>3. CASE ReceiveNotEnabled
  <2>1. sm' = "off" /\ store'.id = NoId
    BY <1>3 DEF ReceiveNotEnabled, NoStore
  <2>2. QED
    BY <2>1, OutgoingIdle DEF Counting, Live, Resumable, Match
<1>4. CASE SessionExpires
  <2>1. server.id # NoId /\ ~server.on /\ server'.id = NoId /\ ~server'.on /\ sm' = sm /\ store' = store
    BY <1>4 DEF SessionExpires, NoSession
  <2>2. sm \notin {"enableSent", "started"}
    <3>1. sm # "started"
      BY <2>1 DEF Phases, Started
    <3>2. sm # "enableSent"
      BY <2>1, CountingFacts DEF Granted
    <3>3. QED
      BY <3>1, <3>2
  <2>3. QED
    BY <2>1, <2>2, OutgoingIdle DEF Counting, Live, Resumable, Match
<1>5. QED
  BY <1>1, <1>2, <1>3, <1>4

\* What the server handled stays right when <resume/> is sent.
LEMMA SendResumeOutgoing ==
  ASSUME Types, Types', Phases, Listed, Pending, Outgoing, SendResume
  PROVE  Outgoing'
<1>1. /\ conn = "binding" /\ unackedByServer' = <<>>
      /\ prevUnacked' = (IF store.pending = <<>> THEN prevUnacked ELSE store.pending)
      /\ UNCHANGED <<sm, store, server, sent, tracked, handled>>
  BY DEF SendResume, ForgetUnacked, sentVars, history
<1>2. sm = "off" /\ prevUnacked = <<>>
  BY <1>1 DEF Phases, Ordered
<1>3. ~Counting' /\ (Live' <=> Resumable) /\ (Live <=> Resumable)
  BY <1>1, <1>2 DEF Counting, Live, Resumable, Match
<1>4. ASSUME Resumable PROVE Open' = Open
  <2>1. Len(store.pending) = Len(unackedByServer)
    BY <1>1, <1>4 DEF Pending
  <2>2. Len(prevUnacked') = Len(store.pending)
    BY <1>1, <1>2
  <2>3. QED
    BY <1>1, <1>2, <2>1, <2>2, OpenFacts
<1>5. sent \in Nat
  BY ListTypes
<1>6. QED
  BY <1>1, <1>3, <1>4, <1>5, OpenFacts, OutgoingFrame

\* What the server handled stays right when the session is resumed.
LEMMA ReceiveResumedOutgoing ==
  ASSUME Types, Types', Phases, Listed, Pending, Outgoing, Accounted, ReceiveResumed
  PROVE  Outgoing'
<1>1. /\ up = <<>> /\ unackedByServer = <<>> /\ server.in <= tracked
      /\ unackedByServer' = unackedByServer /\ prevUnacked' = <<>> /\ tracked' = server.in
      /\ UNCHANGED <<sent, server, up>>
  BY Resumed DEF ReceiveResumed
<1>2. server.in \in Nat /\ sent \in Nat /\ sent' = sent /\ server'.in = server.in
  BY <1>1, ListTypes
<1>3. Before' + server'.in = sent
  BY <1>1, <1>2 DEF Before
<1>4. Stanzas(up', sent, sent)
  BY <1>1, <1>2, NoStanzas
<1>5. Open' = 0
  BY <1>1, OpenFacts, EmptySeq
<1>6. Covered(server.in)'
  <2>1. \A n \in (sent - 0 + 1)..sent : n \in handled'
    BY <1>2
  <2>2. QED
    BY <1>2, <1>3, <1>5, <2>1 DEF Covered
<1>7. QED
  BY <1>1, <1>2, <1>3, <1>4, <1>6 DEF Outgoing

\* What the server handled stays right when <enable/> has been sent.
LEMMA DidSendEnableOutgoing ==
  ASSUME Types, Types', Phases, DidSendEnable
  PROVE  Outgoing'
<1>1. /\ up = <<>> /\ server = NoSession /\ tracked' = 0 /\ up' = Append(up, <<"enable">>)
      /\ sent' = sent /\ server' = server /\ sm' = "enableSent"
  BY DEF DidSendEnable, ToServer, Phases, Enabling
<1>2. server'.in = 0 /\ ~server'.on /\ sent \in Nat
  BY <1>1, ListTypes DEF NoSession
<1>3. Before' = sent /\ Before' + server'.in = sent
  BY <1>1, <1>2 DEF Before
<1>4. Stanzas(up', sent, sent)
  <2>1. Stanzas(<<>>, sent, sent) /\ <<>> \in Seq(UpElement)
    BY <1>2, NoStanzas, EmptySeq
  <2>2. PICK e : e = <<"enable">>
    OBVIOUS
  <2>3. e \in UpElement /\ e[1] # "stanza"
    BY <2>2, UpFacts
  <2>4. Stanzas(Append(<<>>, e), sent, sent)
    BY <1>2, <2>1, <2>3, StanzasAppend
  <2>5. QED
    BY <1>1, <2>2, <2>4
<1>5. ~Live'
  BY <1>1, <1>2 DEF Live, Resumable
<1>6. QED
  BY <1>1, <1>2, <1>3, <1>4, <1>5 DEF Outgoing

\* What the server handled stays right when it is enabled.
LEMMA ReceiveEnabledOutgoing ==
  ASSUME Types, Types', Phases, Outgoing, ReceiveEnabled
  PROVE  Outgoing'
<1>1. /\ sm = "enableSent" /\ down # <<>> /\ Head(down)[1] = "enabled"
      /\ UNCHANGED <<up, server, sent, tracked, handled, unackedByServer, prevUnacked>>
  BY DEF ReceiveEnabled, sentVars
<1>2. Counting
  BY <1>1, CountingFacts
<1>3. Granted
  <2>1. Head(down) = down[1]
    BY <1>1, DownReads
  <2>2. Requesting \/ Refused \/ Granted
    BY <1>1 DEF Phases, Enabling
  <2>3. QED
    BY <1>1, <1>2, <2>1, <2>2 DEF Counting, Requesting, Refused
<1>4. Live
  BY <1>1, <1>3 DEF Live, Granted
<1>5. Open' = Open
  BY <1>1 DEF Open
<1>6. Stanzas(up', Before + server.in, sent)
  BY <1>1, <1>2 DEF Outgoing
<1>7. sent \in Nat
  BY ListTypes
<1>8. QED
  BY <1>1, <1>2, <1>4, <1>5, <1>6, <1>7, OpenFacts, OutgoingFrame

\* What the server handled stays right when a stanza is sent.
LEMMA SendStanzaOutgoing ==
  ASSUME Types, Types', Phases, Outgoing, SendStanza
  PROVE  Outgoing'
<1>1. PICK lo, s, e : lo = Before + server.in /\ s = sent /\ e = <<"stanza", sent + 1>>
  OBVIOUS
<1>2. /\ lo \in Nat /\ s \in Nat /\ tracked \in Nat /\ server.in \in Nat /\ up \in Seq(UpElement)
      /\ sent' = s + 1 /\ tracked' = tracked + 1
      /\ UNCHANGED <<sm, down, server, store, prevUnacked, handled>>
  BY <1>1, StanzaSent, ListTypes, OpenFacts DEF SendStanza, history
<1>3. e \in UpElement /\ e[1] = "stanza" /\ e[2] = s + 1 /\ <<"r">> \in UpElement /\ <<"r">>[1] # "stanza"
  BY <1>1, StanzaSent
<1>4. Before' = Before
  BY <1>1, <1>2 DEF Before
<1>5. (Counting' <=> Counting) /\ (Live' <=> Live)
  BY <1>2 DEF Counting, Live, Resumable, Match
<1>6. Counting \/ Live => server.in <= tracked /\ lo <= s
  <2>1. Counting \/ Live => server.in <= tracked
    BY DEF Outgoing
  <2>2. lo = (s - tracked) + server.in
    BY <1>1 DEF Before
  <2>3. QED
    BY <1>2, <2>1, <2>2
<1>7. ASSUME Counting PROVE Stanzas(up', lo, s + 1)
  <2>1. Stanzas(up, lo, s)
    BY <1>1, <1>7 DEF Outgoing
  <2>2. PICK x : /\ x = Append(up, e)
                 /\ up' = Append(x, <<"r">>) \/ up' = x
    BY <1>1, StanzaSent
  <2>3. Stanzas(x, lo, s + 1) /\ x \in Seq(UpElement)
    BY <1>2, <1>3, <1>6, <1>7, <2>1, <2>2, StanzasAppend, AppendFacts
  <2>4. PICK r : r = <<"r">>
    OBVIOUS
  <2>5. s + 1 \in Nat /\ r \in UpElement /\ r[1] # "stanza"
    BY <1>2, <1>3, <2>4
  <2>6. Stanzas(Append(x, r), lo, s + 1)
    BY <1>2, <2>3, <2>5, StanzasAppend
  <2>7. QED
    BY <2>2, <2>3, <2>4, <2>6
<1>8. PICK o : o = Open
  OBVIOUS
<1>9. Open' = o + 1 /\ o \in Nat
  <2>1. Len(unackedByServer') = Len(unackedByServer) + 1 /\ Len(unackedByServer) \in Nat /\ Len(prevUnacked) \in Nat
    BY StanzaSent, ListTypes
  <2>2. QED
    BY <1>2, <1>8, <2>1, OpenFacts DEF Open
<1>10. sent' - Open' + 1 = s - o + 1
  BY <1>2, <1>9
<1>11. Live => Covered(server.in)'
  BY <1>1, <1>2, <1>4, <1>8, <1>10 DEF Outgoing, Covered
<1>12. (Counting \/ Live) => server'.in <= tracked'
  BY <1>2, <1>6
<1>13. QED
  BY <1>1, <1>2, <1>4, <1>5, <1>7, <1>11, <1>12 DEF Outgoing

\* What the server handled stays right when something is sent.
LEMMA SentOutgoing ==
  ASSUME Types, Types', Phases, Outgoing, RequestTimerFires \/ SendAck
  PROVE  Outgoing'
<1>1. UNCHANGED <<sm, down, server, store, unackedByServer, prevUnacked, sent, tracked, handled>>
  BY DEF RequestTimerFires, SendAck, outgoing, sentVars, history
<1>2. sm # "off"
  BY DEF RequestTimerFires, SendAck, Phases, Ordered
<1>3. PICK e \in UpElement : up' = Append(up, e) /\ e[1] # "stanza"
  <2>1. CASE RequestTimerFires
    BY <1>2, <2>1, UpFacts DEF RequestTimerFires, ToServer
  <2>2. CASE SendAck
    BY <2>2, UpFacts DEF SendAck, ToServer, Types, StoreType
  <2>3. QED
    BY <2>1, <2>2
<1>4. (Counting' <=> Counting) /\ (Live' <=> Live) /\ Open' = Open
  BY <1>1 DEF Counting, Live, Resumable, Match, Open
<1>5. Counting => Stanzas(up', Before + server.in, sent)
  <2>1. Counting => Stanzas(up, Before + server.in, sent)
    BY DEF Outgoing
  <2>2. PICK lo, s : lo = Before + server.in /\ s = sent
    OBVIOUS
  <2>3. lo \in Nat /\ s \in Nat /\ up \in Seq(UpElement)
    BY <2>2, ListTypes, OpenFacts
  <2>4. Counting => Stanzas(Append(up, e), lo, s)
    BY <1>3, <2>1, <2>2, <2>3, StanzasAppend
  <2>5. QED
    BY <1>3, <2>2, <2>4
<1>6. sent \in Nat
  BY ListTypes
<1>7. QED
  BY <1>1, <1>4, <1>5, <1>6, OpenFacts, OutgoingFrame

\* What is taken off the list only leaves less to account for.
LEMMA ShorterOpen ==
  ASSUME Types, Types', NEW p, NEW k, NEW b, Stands(p, k, b), Took(p), prevUnacked' = prevUnacked
  PROVE  Open' = Open - k /\ k \in Nat /\ Open' \in Nat /\ Open \in Nat /\ Open' <= Open
<1>1. PICK n, o : n = Len(unackedByServer) /\ o = Len(prevUnacked)
  OBVIOUS
<1>2. n \in Nat /\ o \in Nat /\ k \in 0..n /\ Len(unackedByServer') = n - k
  BY <1>1, ListTypes, ListAfter
<1>3. Open = n + o /\ Open' = (n - k) + o
  BY <1>1, <1>2 DEF Open
<1>4. (n - k) + o = (n + o) - k /\ k \in Nat /\ (n - k) + o <= n + o /\ (n - k) + o \in Nat /\ n + o \in Nat
  BY ONLY <1>2
<1>5. QED
  BY <1>3, <1>4

\* What the server handled stays right when an ack arrives.
LEMMA ReceiveAckOutgoing ==
  ASSUME Types, Types', Phases, Outgoing, Accounted, ReceiveAck
  PROVE  Outgoing'
<1>1. sm = "started" /\ \E c, w, d, p, k, b : AckTaken(c, w, d, p, k, b)
  BY AckReceived
<1>2. PICK p, k, b : Stands(p, k, b) /\ Took(p)
  BY <1>1 DEF AckTaken
<1>3. UNCHANGED <<sm, sent, tracked, handled, prevUnacked, up, server>>
  BY DEF ReceiveAck, sentVars
<1>4. Counting /\ Live
  BY <1>1, CountingFacts DEF Live
<1>5. Stanzas(up', Before + server.in, sent)
  BY <1>3, <1>4 DEF Outgoing
<1>6. sent \in Nat
  BY ListTypes
<1>7. Open' \in Nat /\ Open \in Nat /\ Open' <= Open
  BY <1>2, <1>3, ShorterOpen
<1>8. QED
  BY <1>3, <1>4, <1>5, <1>6, <1>7, OutgoingFrame

\* What the server handled stays right when a stanza gets its name.
LEMMA StanzaIdAnsweredOutgoing ==
  ASSUME Types, Types', Phases, Outgoing, Accounted, NEW n \in unanswered, StanzaIdAnswered(n)
  PROVE  Outgoing'
<1>1. PICK c, w, d, p, k, b : NameTaken(n, c, w, d, p, k, b)
  BY NameAnswered
<1>2. Stands(p, k, b) /\ Took(p) /\ store'.id = store.id
  BY <1>1, NameSaved DEF NameTaken
<1>3. UNCHANGED <<sm, sent, tracked, handled, prevUnacked, up, down, server>>
  BY DEF StanzaIdAnswered, wire
<1>4. (Counting' <=> Counting) /\ (Live' <=> Live)
  BY <1>2, <1>3 DEF Counting, Live, Resumable, Match
<1>5. Counting => Stanzas(up', Before + server.in, sent)
  BY <1>3 DEF Outgoing
<1>6. sent \in Nat
  BY ListTypes
<1>7. Open' \in Nat /\ Open \in Nat /\ Open' <= Open
  BY <1>2, <1>3, ShorterOpen
<1>8. QED
  BY <1>3, <1>4, <1>5, <1>6, <1>7, OutgoingFrame

\* What the server handled stays right when a stanza arrives.
LEMMA ReceiveStanzaOutgoing ==
  ASSUME Types, Types', Phases, Outgoing, ReceiveStanza
  PROVE  Outgoing'
<1>1. /\ sm = "started"
      /\ UNCHANGED <<sm, sent, tracked, handled, unackedByServer, prevUnacked, up, server>>
  BY DEF ReceiveStanza, sentVars, outgoing
<1>2. Counting /\ Live
  BY <1>1, CountingFacts DEF Live
<1>3. Stanzas(up', Before + server.in, sent)
  BY <1>1, <1>2 DEF Outgoing
<1>4. sent \in Nat /\ Open' = Open
  BY <1>1, ListTypes DEF Open
<1>5. QED
  BY <1>1, <1>2, <1>3, <1>4, OpenFacts, OutgoingFrame

\* A session that can be resumed after a disconnect is the one there was before it.
LEMMA DisconnectLive ==
  ASSUME Types, Phases, NEW clean \in BOOLEAN, Disconnect(clean), Live'
  PROVE  Live /\ server'.in = server.in /\ sm # "enableSent"
<1>1. Match'
  BY DEF Disconnect, Live, Resumable
<1>2. ~clean
  BY <1>1 DEF Disconnect, NoStore, Match
<1>3. server' = [server EXCEPT !.on = FALSE]
      /\ store' = [store EXCEPT !.byClient = lastHandledByClient,
                                !.byServer = lastHandledByServer,
                                !.pending = Names(unackedByServer, unanswered)]
  BY <1>2 DEF Disconnect
<1>4. server'.in = server.in /\ server'.id = server.id
  BY <1>3 DEF Types, ServerType, Server
<1>5. store'.id = store.id
  BY <1>3 DEF Types, StoreType, Store
<1>6. Match
  BY <1>1, <1>4, <1>5 DEF Match
<1>7. server.id # NoId
  BY <1>6 DEF Match
<1>8. sm # "enableSent"
  BY <1>6, <1>7, CountingFacts
<1>9. sm # "enableQueued"
  BY <1>7 DEF Phases, Enabling, NoSession
<1>10. Live
  BY <1>6, <1>8, <1>9 DEF Live, Resumable, Types, PhaseType
<1>11. QED
  BY <1>4, <1>8, <1>10

\* What the server handled stays right when the stream disconnects.
LEMMA DisconnectOutgoing ==
  ASSUME Types, Types', Phases, Outgoing, NEW clean \in BOOLEAN, Disconnect(clean)
  PROVE  Outgoing'
<1>1. /\ sm' = "off" /\ prevUnacked' = <<>>
      /\ UNCHANGED <<sent, tracked, handled, unackedByServer>>
  BY DEF Disconnect, sentVars, history
<1>2. ~Counting'
  BY <1>1 DEF Counting
<1>3. ASSUME Live' PROVE Live /\ server'.in = server.in
  BY <1>3, DisconnectLive
<1>4. Open' \in Nat /\ Open \in Nat /\ Open' <= Open
  <2>1. Open' = Len(unackedByServer)
    BY <1>1, OpenFacts
  <2>2. PICK n, o : n = Len(unackedByServer) /\ o = Len(prevUnacked)
    OBVIOUS
  <2>3. n \in Nat /\ o \in Nat /\ Open' = n /\ Open = n + o
    BY <2>1, <2>2, ListTypes DEF Open
  <2>4. QED
    BY ONLY <2>3
<1>5. sent \in Nat
  BY ListTypes
<1>6. CASE Live'
  BY <1>1, <1>2, <1>3, <1>4, <1>5, <1>6, OutgoingFrame
<1>7. CASE ~Live'
  BY <1>2, <1>7, OutgoingIdle
<1>8. QED
  BY <1>6, <1>7

\* What the server handled stays right when the server reads <enable/>.
LEMMA ServerEnablesOutgoing ==
  ASSUME Types, Types', Phases, Outgoing, ServerEnables
  PROVE  Outgoing'
<1>1. /\ sm = "enableSent" /\ Requesting /\ down = <<>> /\ server = NoSession
      /\ up # <<>> /\ up' = Tail(up) /\ conn = "online"
  BY ReadsEnable DEF ServerEnables
<1>2. UNCHANGED <<sm, sent, tracked, handled, unackedByServer, prevUnacked>>
  BY DEF ServerEnables, sentVars, history, outgoing
<1>3. server.in = 0 /\ tracked \in Nat /\ sent \in Nat /\ up \in Seq(UpElement) /\ Before \in Nat
  BY <1>1, ListTypes, OpenFacts DEF NoSession
<1>4. Counting /\ Before + server.in = Before /\ up[1] = <<"enable">>
  BY <1>1, <1>3 DEF Counting, Requesting
<1>5. Stanzas(up', Before, sent)
  <2>1. Stanzas(up, Before, sent)
    BY <1>4 DEF Outgoing
  <2>2. PICK lo, s : lo = Before /\ s = sent
    OBVIOUS
  <2>3. up[1][1] # "stanza"
    BY <1>4
  <2>4. Stanzas(Tail(up), lo, s)
    BY <1>1, <1>3, <2>1, <2>2, <2>3, StanzasTail
  <2>5. QED
    BY <1>1, <2>2, <2>4
<1>6. server'.in = 0
  <2>1. server' = [NoSession EXCEPT !.id = ids + 1, !.on = TRUE] \/ server' = server
    BY DEF ServerEnables
  <2>2. [NoSession EXCEPT !.id = ids + 1, !.on = TRUE].in = 0
    BY DEF NoSession
  <2>3. QED
    BY <1>3, <2>1, <2>2
<1>7. Open' = tracked
  <2>1. Len(unackedByServer) = tracked /\ prevUnacked = <<>>
    BY <1>1 DEF Phases, Enabling, Ordered
  <2>2. QED
    BY <1>2, <2>1, OpenFacts
<1>8. Before' = Before /\ Before' + 0 = sent - tracked /\ sent' = sent
  BY <1>2, <1>3 DEF Before
<1>9. \A n \in (sent' - Open' + 1)..(Before' + 0) : n \in handled'
  BY <1>3, <1>7, <1>8
<1>10. Before' + server'.in = Before
  BY <1>3, <1>6, <1>8
<1>11. QED
  BY <1>2, <1>3, <1>5, <1>6, <1>8, <1>9, <1>10 DEF Outgoing, Covered

\* What the server handled stays right when the server reads <resume/>.
LEMMA ServerResumesOutgoing ==
  ASSUME Types, Types', Phases, Outgoing, ServerResumes
  PROVE  Outgoing'
<1>1. sm = "off"
  BY ReadsResume DEF ServerResumes
<1>2. UNCHANGED <<sm, store, sent, tracked, handled, unackedByServer, prevUnacked>>
  BY DEF ServerResumes, sentVars, history, outgoing
<1>3. server'.in = server.in /\ server'.id = server.id
  BY DEF ServerResumes, Types, ServerType, Server
<1>4. ~Counting' /\ (Live' <=> Live) /\ Open' = Open
  BY <1>1, <1>2, <1>3 DEF Counting, Live, Resumable, Match, Open
<1>5. sent \in Nat
  BY ListTypes
<1>6. QED
  BY <1>2, <1>3, <1>4, <1>5, OpenFacts, OutgoingFrame

\* What is read and is not a stanza.
LEMMA OutgoingRead ==
  ASSUME Types, Phases, Outgoing, NEW word, word # "stanza", ServerReads(word), Counting
  PROVE  Stanzas(up', Before + server.in, sent)
<1>1. PICK lo, s : lo = Before + server.in /\ s = sent
  OBVIOUS
<1>2. lo \in Nat /\ s \in Nat /\ up \in Seq(UpElement)
  <2>1. sent \in Nat /\ server.in \in Nat /\ Before \in Nat /\ up \in Seq(UpElement)
    BY ListTypes DEF Before
  <2>2. QED
    BY <1>1, <2>1
<1>3. up # <<>> /\ up[1][1] = word /\ up' = Tail(up)
  BY ServerRead
<1>4. Stanzas(up, lo, s)
  BY <1>1 DEF Outgoing
<1>5. Stanzas(Tail(up), lo, s)
  BY <1>2, <1>3, <1>4, StanzasTail
<1>6. QED
  BY <1>1, <1>3, <1>5

\* What the server handled stays right when the server handles a stanza.
LEMMA ServerHandlesOutgoing ==
  ASSUME Types, Types', Phases, Outgoing, ServerHandles
  PROVE  Outgoing'
<1>1. /\ sm \in {"off", "enableSent", "started"} /\ up # <<>> /\ Head(up) = up[1]
      /\ up[1][1] = "stanza" /\ up' = Tail(up)
      /\ sm = "off" => server = NoSession
  BY ReadsOther DEF ServerHandles
<1>2. /\ handled' = handled \cup {up[1][2]}
      /\ server' = IF server.on THEN [server EXCEPT !.in = @ + 1] ELSE server
      /\ UNCHANGED <<sm, store, down, sent, tracked, unackedByServer, prevUnacked>>
  BY <1>1 DEF ServerHandles, sentVars, outgoing
<1>3. CASE server.on
  <2>1. sm # "off" /\ server.id # NoId
    BY <1>1, <1>3 DEF Phases, Sessions, NoSession
  <2>2. Counting /\ Live
    BY <1>1, <1>3, <2>1, CountingFacts DEF Live
  <2>3. PICK lo, s : lo = Before + server.in /\ s = sent
    OBVIOUS
  <2>4. /\ lo \in Nat /\ s \in Nat /\ tracked \in Nat /\ server.in \in Nat /\ up \in Seq(UpElement)
        /\ lo = (s - tracked) + server.in
    BY <2>3, ListTypes, OpenFacts DEF Before
  <2>5. Stanzas(up, lo, s)
    BY <2>2, <2>3 DEF Outgoing
  <2>6. up[1][2] = lo + 1 /\ lo + 1 <= s /\ Stanzas(Tail(up), lo + 1, s)
    BY <1>1, <2>4, <2>5, StanzasTail
  <2>7. server'.in = server.in + 1
    BY <1>2, <1>3 DEF Types, ServerType, Server
  <2>8. server'.in <= tracked' /\ Before' + server'.in = lo + 1 /\ sent' = s
    <3>1. Before' = s - tracked /\ tracked' = tracked /\ sent' = s
      BY <1>2, <2>3 DEF Before
    <3>2. QED
      BY <2>4, <2>6, <2>7, <3>1
  <2>9. Open' = Open /\ Open \in Nat
    BY <1>2, OpenFacts DEF Open
  <2>10. ASSUME NEW n \in (sent' - Open' + 1)..(Before' + server'.in) PROVE n \in handled'
    <3>1. PICK o : o = Open
      OBVIOUS
    <3>2. n \in (s - o + 1)..(lo + 1) /\ o \in Nat
      BY <2>8, <2>9, <3>1
    <3>3. n \in (s - o + 1)..lo \/ n = lo + 1
      BY ONLY <2>4, <3>2
    <3>4. \A m \in (s - o + 1)..lo : m \in handled
      BY <2>2, <2>3, <3>1 DEF Outgoing, Covered
    <3>5. QED
      BY <1>2, <2>6, <3>3, <3>4
  <2>11. Stanzas(up', Before' + server'.in, sent')
    BY <1>1, <2>6, <2>8
  <2>12. QED
    BY <2>8, <2>10, <2>11 DEF Outgoing, Covered
<1>4. CASE ~server.on
  <2>1. sm # "started"
    BY <1>4 DEF Phases, Started
  <2>2. ~Live' /\ ~Counting'
    <3>1. server' = server
      BY <1>2, <1>4
    <3>2. CASE sm = "off"
      BY <1>1, <1>2, <3>1, <3>2 DEF Live, Counting, Resumable, Match, NoSession
    <3>3. CASE sm = "enableSent"
      <4>1. Refused \/ Granted
        BY <3>3, ReadsOther DEF ServerHandles
      <4>2. ~Granted
        BY <1>4 DEF Granted
      <4>3. QED
        BY <1>2, <1>4, <3>1, <3>3, <4>1, <4>2 DEF Refused, Counting, Live, Resumable
    <3>4. QED
      BY <1>1, <2>1, <3>2, <3>3
  <2>3. QED
    BY <2>2, OutgoingIdle
<1>5. QED
  BY <1>3, <1>4

\* What the server handled stays right when the server answers a request.
LEMMA ServerAcksOutgoing ==
  ASSUME Types, Types', Phases, Outgoing, ServerAcks
  PROVE  Outgoing'
<1>1. UNCHANGED <<sm, store, server, sent, tracked, handled, unackedByServer, prevUnacked>>
  BY DEF ServerAcks, sentVars, outgoing, history
<1>2. (Live' <=> Live) /\ Open' = Open
  BY <1>1 DEF Live, Resumable, Match, Open
<1>3. ASSUME Counting' PROVE Counting
  <2>1. CASE server.on
    <3>1. server.id # NoId
      BY <2>1 DEF Phases, Sessions
    <3>2. QED
      BY <1>1, <1>3, <3>1, CountingFacts DEF Counting
  <2>2. CASE ~server.on
    BY <1>1, <1>3, <2>2 DEF ServerAcks, Counting
  <2>3. QED
    BY <2>1, <2>2
<1>4. Counting' => Stanzas(up', Before + server.in, sent)
  BY <1>3, OutgoingRead DEF ServerAcks
<1>5. sent \in Nat
  BY ListTypes
<1>6. QED
  BY <1>1, <1>2, <1>3, <1>4, <1>5, OpenFacts, OutgoingFrame

\* What the server handled stays right when the server is acked.
LEMMA ServerIsAckedOutgoing ==
  ASSUME Types, Types', Phases, Outgoing, ServerIsAcked
  PROVE  Outgoing'
<1>1. UNCHANGED <<sm, store, down, sent, tracked, handled, unackedByServer, prevUnacked>>
  BY DEF ServerIsAcked, sentVars, outgoing, history
<1>2. server'.in = server.in /\ server'.id = server.id /\ server'.on = server.on
  BY DEF ServerIsAcked, Types, ServerType, Server
<1>3. (Live' <=> Live) /\ Open' = Open /\ (Counting' <=> Counting)
  BY <1>1, <1>2 DEF Live, Resumable, Match, Open, Counting
<1>4. Counting' => Stanzas(up', Before + server.in, sent)
  BY <1>3, OutgoingRead DEF ServerIsAcked
<1>5. sent \in Nat
  BY ListTypes
<1>6. QED
  BY <1>1, <1>2, <1>3, <1>4, <1>5, OpenFacts, OutgoingFrame

\* What the server handled stays right when the server sends a stanza.
LEMMA ServerSendsOutgoing ==
  ASSUME Types, Types', Phases, Outgoing, ServerSends
  PROVE  Outgoing'
<1>1. /\ server.id # NoId
      /\ UNCHANGED <<sm, store, up, sent, tracked, handled, unackedByServer, prevUnacked>>
  BY DEF ServerSends, sentVars, outgoing, history
<1>2. server'.in = server.in /\ server'.id = server.id /\ server'.on = server.on
  BY DEF ServerSends, Types, ServerType, Server
<1>3. (Live' <=> Live) /\ Open' = Open
  BY <1>1, <1>2 DEF Live, Resumable, Match, Open
<1>4. Counting' => Counting
  BY <1>1, CountingFacts DEF Counting
<1>5. Counting' => Stanzas(up', Before + server.in, sent)
  BY <1>1, <1>4 DEF Outgoing
<1>6. sent \in Nat
  BY ListTypes
<1>7. QED
  BY <1>1, <1>2, <1>3, <1>4, <1>5, <1>6, OpenFacts, OutgoingFrame

-----------------------------------------------------------------------------
(* The account of the acks.                                                *)

NoAcks(s) == \A i \in 1..Len(s) : s[i][1] # "a"

\* No ack is on its way.
LEMMA ArrivesNothing ==
  ASSUME NEW c, NEW w, NEW d, NoAcks(down')
  PROVE  Arriving(c, w, d)'
BY DEF Arriving, NoAcks

\* Where there are no acks.
LEMMA NoAcksFacts ==
  /\ NoAcks(<<>>)
  /\ \A e : e[1] # "a" => NoAcks(<<e>>)
  /\ \A s, K : Kinds(s, K) /\ "a" \notin K => NoAcks(s)
  /\ \A s, K : s # <<>> /\ s[1][1] # "a" /\ FirstThen(s, K) /\ "a" \notin K /\ Len(s) \in Nat => NoAcks(s)
<1>1. NoAcks(<<>>)
  BY DEF NoAcks
<1>2. ASSUME NEW e, e[1] # "a" PROVE NoAcks(<<e>>)
  BY <1>2 DEF NoAcks
<1>3. ASSUME NEW s, NEW K, Kinds(s, K), "a" \notin K PROVE NoAcks(s)
  BY <1>3 DEF NoAcks, Kinds
<1>4. ASSUME NEW s, NEW K, s # <<>>, s[1][1] # "a", FirstThen(s, K), "a" \notin K, Len(s) \in Nat
      PROVE  NoAcks(s)
  <2>1. \A i \in 1..Len(s) : i = 1 \/ i \in 2..Len(s)
    BY <1>4
  <2>2. QED
    BY <1>4, <2>1 DEF NoAcks, FirstThen
<1>5. QED
  BY <1>1, <1>2, <1>3, <1>4

\* What arrives is not changed, or something else comes after it or goes.
LEMMA ArrivesAsBefore ==
  ASSUME Types, Types', NEW c, NEW w, NEW d, Arriving(c, w, d), unprocessed' = unprocessed,
         server.in <= server'.in,
         \/ down' = down
         \/ \E e \in DownElement : e[1] # "a" /\ down' = Append(down, e)
  PROVE  Arriving(c, w, d)'
<1>1. PICK n, h, g, l : n = Len(down) /\ h = server.in /\ g = server'.in /\ l = Len(unprocessed)
  OBVIOUS
<1>2. n \in Nat /\ h \in Nat /\ g \in Nat /\ h <= g /\ down \in Seq(DownElement)
  <2>1. server'.in \in Nat
    BY DEF Types, ServerType, Server
  <2>2. QED
    BY <1>1, <2>1, ListTypes, NonEmpty
<1>3. /\ \A i \in 1..n : down[i][1] = "a" =>
           /\ d[i] \in Nat /\ c <= d[i] /\ d[i] <= h
           /\ down[i][2] = d[i] % Modulus
           /\ \A j \in 1..l : w[j] <= d[i]
      /\ \A i, j \in 1..n :
           i < j /\ down[i][1] = "a" /\ down[j][1] = "a" => d[i] <= d[j]
  BY <1>1 DEF Arriving
<1>4. ASSUME NEW i \in Nat, d[i] \in Nat, d[i] <= h PROVE d[i] <= g
  BY ONLY <1>2, <1>4
<1>5. \A i \in 1..n : i \in Nat
  OBVIOUS
<1>6. /\ \A i \in 1..n : down[i][1] = "a" =>
           /\ d[i] \in Nat /\ c <= d[i] /\ d[i] <= g
           /\ down[i][2] = d[i] % Modulus
           /\ \A j \in 1..l : w[j] <= d[i]
  BY <1>3, <1>4, <1>5
<1>7. CASE down' = down
  BY <1>1, <1>3, <1>6, <1>7 DEF Arriving
<1>8. ASSUME NEW e \in DownElement, e[1] # "a", down' = Append(down, e) PROVE Arriving(c, w, d)'
  <2>1. Len(down') = n + 1 /\ down'[n + 1] = e /\ \A i \in 1..n : down'[i] = down[i]
    BY <1>1, <1>2, <1>8, AppendFacts
  <2>2. \A i \in 1..(n + 1) : i \in 1..n \/ i = n + 1
    BY ONLY <1>2
  <2>3. \A i \in 1..(n + 1) : down'[i][1] = "a" => i \in 1..n /\ down'[i] = down[i]
    BY <1>8, <2>1, <2>2
  <2>4. QED
    BY <1>1, <1>3, <1>6, <2>1, <2>3 DEF Arriving
<1>9. QED
  BY <1>7, <1>8

\* What is in front is read.
Shifted(d) == [i \in Nat |-> d[i + 1]]

\* What arrives when something in front of it was received.
LEMMA ArrivesNext ==
  ASSUME Types, Types', NEW c, NEW w, NEW d, Arriving(c, w, d), unprocessed' = unprocessed,
         server' = server, down # <<>>, down' = Tail(down)
  PROVE  Arriving(c, w, Shifted(d))'
<1>1. PICK n, h, l, e : n = Len(down) - 1 /\ h = server.in /\ l = Len(unprocessed) /\ e = Shifted(d)
  OBVIOUS
<1>2. n \in Nat /\ Len(down) = n + 1 /\ Len(down') = n /\ \A i \in 1..n : down'[i] = down[i + 1]
  BY <1>1, ListTypes, NonEmpty
<1>3. \A i \in 1..n : i + 1 \in 1..(n + 1) /\ e[i] = d[i + 1]
  BY <1>1 DEF Shifted
<1>4. /\ \A i \in 1..(n + 1) : down[i][1] = "a" =>
           /\ d[i] \in Nat /\ c <= d[i] /\ d[i] <= h
           /\ down[i][2] = d[i] % Modulus
           /\ \A j \in 1..l : w[j] <= d[i]
      /\ \A i, j \in 1..(n + 1) :
           i < j /\ down[i][1] = "a" /\ down[j][1] = "a" => d[i] <= d[j]
  BY <1>1, <1>2 DEF Arriving
<1>5. \A i \in 1..n : down'[i][1] = "a" =>
        /\ e[i] \in Nat /\ c <= e[i] /\ e[i] <= h
        /\ down'[i][2] = e[i] % Modulus
        /\ \A j \in 1..l : w[j] <= e[i]
  BY <1>2, <1>3, <1>4
<1>6. \A i, j \in 1..n :
        i < j /\ down'[i][1] = "a" /\ down'[j][1] = "a" => e[i] <= e[j]
  <2>1. \A i, j \in 1..n : i < j => i + 1 < j + 1
    BY ONLY <1>2
  <2>2. QED
    BY <1>2, <1>3, <1>4, <2>1
<1>7. server'.in = h /\ Len(unprocessed') = l
  BY <1>1
<1>8. QED
  BY <1>1, <1>2, <1>5, <1>6, <1>7 DEF Arriving

\* The list and the acks that wait stay as they are.
LEMMA AccountFrame ==
  ASSUME Types, Types', NEW c, NEW w, NEW d, NEW e, Account(c, w, d), Arriving(c, w, e)',
         UNCHANGED <<sent, tracked, unprocessed, lastHandledByServer>>, Open' = Open,
         handled \subseteq handled', Resumable' => Resumable,
         sm' = "started" => sm = "started", sm' = "enableSent" => sm = "enableSent",
         Live' => Live /\ server.in <= server'.in
  PROVE  Accounted'
<1>1. PICK h, g : h = server.in /\ g = server'.in
  OBVIOUS
<1>2. h \in Nat /\ g \in Nat
  <2>1. server'.in \in Nat
    BY DEF Types, ServerType, Server
  <2>2. QED
    BY <1>1, <2>1, ListTypes
<1>3. c \in Nat
  BY DEF Account
<1>4. sm' = "started" /\ g < Modulus => h < Modulus
  <2>1. sm' = "started" => h <= g
    BY <1>1 DEF Live
  <2>2. QED
    BY <1>2, <2>1, Bounds
<1>5. Live' => c <= g
  <2>1. Live' => c <= h /\ h <= g
    BY <1>1 DEF Account, Acked
  <2>2. QED
    BY ONLY <1>2, <1>3, <2>1
<1>6. Acked(c)'
  <2>1. (sm' = "started" \/ unprocessed' # <<>> \/ Resumable') =>
          /\ lastHandledByServer' = c % Modulus
          /\ (sm' = "started" \/ Open' > 0) => tracked' - Open' <= c
    BY DEF Account, Acked
  <2>2. (sm' = "enableSent" => c = 0) /\ (sm' = "started" /\ g < Modulus => c = tracked' - Open')
    BY <1>1, <1>4 DEF Account, Acked
  <2>3. QED
    BY <1>1, <1>5, <2>1, <2>2 DEF Acked
<1>7. Before' = Before
  BY DEF Before
<1>8. \A n : Covered(n) => Covered(n)'
  BY <1>7 DEF Covered
<1>9. ASSUME NEW i \in 1..Len(unprocessed), Live' PROVE w[i] <= g
  <2>1. w[i] \in Nat /\ w[i] <= h /\ h <= g
    BY <1>1, <1>9 DEF Account, Waiting
  <2>2. QED
    BY ONLY <1>2, <2>1
<1>10. Waiting(c, w)'
  BY <1>1, <1>8, <1>9 DEF Account, Waiting
<1>11. QED
  BY <1>3, <1>6, <1>10 DEF Account, Accounted

\* No ack waits or is on its way.
LEMMA AccountQuiet ==
  ASSUME NEW c \in Nat, unprocessed' = <<>>, NoAcks(down'), Acked(c)'
  PROVE  Accounted'
<1>1. Waiting(c, <<>>)'
  BY EmptySeq DEF Waiting
<1>2. Arriving(c, <<>>, <<>>)'
  BY ArrivesNothing
<1>3. QED
  BY <1>1, <1>2 DEF Account, Accounted

\* Nothing is accounted for.
LEMMA AccountNone ==
  ASSUME unprocessed' = <<>>, NoAcks(down'), sm' # "started", ~Live'
  PROVE  Accounted'
<1>1. Acked(0)'
  BY DEF Acked, Live
<1>2. QED
  BY <1>1, AccountQuiet

\* The account does not change.
LEMMA AccountStays ==
  ASSUME Types, Types', Phases, Accounted,
         Connect \/ RequestTimerFires \/ SendAck \/ ServerHandles \/ ServerIsAcked \/ ServerSends
  PROVE  Accounted'
<1>1. PICK c, w, d : Account(c, w, d)
  BY DEF Accounted
<1>2. UNCHANGED <<sm, store, Lists, lastHandledByServer>> /\ handled \subseteq handled'
  BY DEF Connect, RequestTimerFires, SendAck, ServerHandles, ServerIsAcked, ServerSends,
     outgoing, sentVars, history, Lists
<1>3. server'.id = server.id /\ server'.on = server.on
  BY DEF Connect, RequestTimerFires, SendAck, ServerHandles, ServerIsAcked, ServerSends,
     Types, ServerType, Server
<1>4. server.in <= server'.in
  <2>1. server.in \in Nat
    BY ListTypes
  <2>2. server'.in = server.in \/ server'.in = server.in + 1
    BY DEF Connect, RequestTimerFires, SendAck, ServerHandles, ServerIsAcked, ServerSends,
       Types, ServerType, Server
  <2>3. PICK h : h = server.in
    OBVIOUS
  <2>4. h <= h /\ h <= h + 1
    BY ONLY <2>1, <2>3
  <2>5. QED
    BY <2>2, <2>3, <2>4
<1>5. down' = down \/ \E e \in DownElement : e[1] # "a" /\ down' = Append(down, e)
  <2>1. CASE ServerSends
    <3>1. PICK e : e = <<"stanza", server.out + 1>>
      OBVIOUS
    <3>2. e \in DownElement /\ e[1] # "a"
      <4>1. server.out + 1 \in Nat
        BY CountTypes
      <4>2. QED
        BY <3>1, <4>1, DownFacts
    <3>3. down' = down \/ down' = Append(down, e)
      BY <2>1, <3>1 DEF ServerSends, ToClient
    <3>4. QED
      BY <3>2, <3>3
  <2>2. CASE ~ServerSends
    BY <2>2 DEF Connect, RequestTimerFires, SendAck, ServerHandles, ServerIsAcked, wire
  <2>3. QED
    BY <2>1, <2>2
<1>6. Arriving(c, w, d)'
  BY <1>1, <1>2, <1>4, <1>5, ArrivesAsBefore DEF Account, Lists
<1>7. (Live' <=> Live) /\ (Resumable' <=> Resumable) /\ Open' = Open
  BY <1>2, <1>3 DEF Live, Resumable, Match, Open, Lists
<1>8. QED
  BY <1>1, <1>2, <1>4, <1>6, <1>7, AccountFrame DEF Lists

\* The account is kept where the session is not used.
LEMMA AccountUnused ==
  ASSUME Types, Types', Phases, Accounted, BindAnew \/ NotOffered \/ SessionExpires
  PROVE  Accounted'
<1>1. PICK c, w, d : Account(c, w, d)
  BY DEF Accounted
<1>2. UNCHANGED <<sm, store, Lists, lastHandledByServer, handled, down>>
  BY DEF BindAnew, NotOffered, SessionExpires, outgoing, sentVars, history, Lists, wire
<1>3. NoAcks(down) /\ ~Live' /\ sm \notin {"started", "enableSent"}
  <2>1. CASE BindAnew \/ NotOffered
    <3>1. sm = "off" /\ down = <<>> /\ server' = NoSession
      BY <2>1 DEF BindAnew, NotOffered, Phases, Ordered, Offline
    <3>2. QED
      BY <1>2, <3>1, NoAcksFacts DEF Live, Resumable, Match, NoSession
  <2>2. CASE SessionExpires
    <3>1. server.id # NoId /\ ~server.on /\ server' = NoSession
      BY <2>2 DEF SessionExpires
    <3>2. sm # "started"
      BY <3>1 DEF Phases, Started
    <3>3. sm # "enableSent"
      BY <3>1, CountingFacts DEF Granted
    <3>4. ~Live'
      BY <1>2, <3>1, <3>2, <3>3 DEF Live, Resumable, Match, NoSession
    <3>5. NoAcks(down)
      <4>1. CASE conn \in {"down", "binding", "bound"}
        BY <4>1, NoAcksFacts DEF Phases, Offline
      <4>2. CASE conn = "resuming"
        <5>1. down = <<>> \/ down = <<<<"failed">>>>
          BY <3>1, <4>2 DEF Phases, Resumption, Resuming
        <5>2. <<"failed">>[1] # "a"
          OBVIOUS
        <5>3. QED
          BY <5>1, <5>2, NoAcksFacts
      <4>3. CASE conn = "online"
        <5>1. sm # "off"
          BY <3>1, <4>3 DEF Phases, Unmanaged, NoSession
        <5>2. sm # "enableQueued"
          BY <3>1 DEF Phases, Enabling, NoSession
        <5>3. QED
          BY <3>2, <3>3, <5>1, <5>2 DEF Types, PhaseType
      <4>4. QED
        BY <4>1, <4>2, <4>3 DEF Types, PhaseType, Connection
    <3>6. QED
      BY <3>2, <3>3, <3>4, <3>5
  <2>3. QED
    BY <2>1, <2>2
<1>4. Arriving(c, w, d)'
  BY <1>2, <1>3, ArrivesNothing
<1>5. Open' = Open /\ ~Resumable'
  BY <1>2, <1>3 DEF Open, Lists, Live
<1>6. QED
  BY <1>1, <1>2, <1>3, <1>4, <1>5, AccountFrame DEF Lists

\* There is nothing to account for.
LEMMA NothingAccounted ==
  ASSUME Types, Types', Phases,
         \/ ReceiveResumeFailed \/ EnableStreamManagement \/ DidSendEnable \/ ReceiveNotEnabled
  PROVE  Accounted'
<1>1. CASE ReceiveResumeFailed
  <2>1. conn = "resuming" /\ down # <<>> /\ Head(down) = <<"failed">> /\ down' = Tail(down)
        /\ server' = NoSession /\ UNCHANGED <<sm, store, unprocessed>>
    BY <1>1 DEF ReceiveResumeFailed
  <2>2. sm = "off" /\ Resuming
    BY <2>1 DEF Phases, Ordered, Resumption
  <2>3. down = <<<<"failed">>>> /\ unprocessed = <<>>
    <3>1. Head(down) = down[1]
      BY <2>1, DownReads
    <3>2. <<"failed">> # <<"resumed", server.in % Modulus>>
      OBVIOUS
    <3>3. QED
      BY <2>1, <2>2, <3>1, <3>2 DEF Resuming
  <2>4. down' = <<>>
    BY <2>1, <2>3, ShortKinds
  <2>5. ~Live'
    BY <2>1, <2>2 DEF Live, Resumable, Match, NoSession
  <2>6. QED
    BY <2>1, <2>2, <2>3, <2>4, <2>5, NoAcksFacts, AccountNone
<1>2. CASE EnableStreamManagement
  <2>1. sm' = "enableQueued" /\ unprocessed' = <<>> /\ down' = <<>>
    BY <1>2 DEF EnableStreamManagement, ForgetUnacked, wire, Phases, Offline
  <2>2. QED
    BY <2>1, NoAcksFacts, AccountNone DEF Live, Resumable
<1>3. CASE DidSendEnable
  <2>1. sm' = "enableSent" /\ unprocessed' = <<>> /\ down' = <<>> /\ ~server'.on
    BY <1>3 DEF DidSendEnable, outgoing, Phases, Enabling, NoSession
  <2>2. QED
    BY <2>1, NoAcksFacts, AccountNone DEF Live, Resumable
<1>4. CASE ReceiveNotEnabled
  <2>1. /\ sm' = "off" /\ store' = NoStore /\ unprocessed' = unprocessed
        /\ sm = "enableSent" /\ down # <<>> /\ Head(down) = <<"failed">> /\ down' = Tail(down)
    BY <1>4 DEF ReceiveNotEnabled
  <2>2. unprocessed = <<>> /\ (Requesting \/ Refused \/ Granted)
    BY <2>1 DEF Phases, Enabling
  <2>3. down = <<<<"failed">>>>
    <3>1. Head(down) = down[1]
      BY <2>1, DownReads
    <3>2. QED
      BY <2>1, <2>2, <3>1 DEF Requesting, Refused, Granted
  <2>4. down' = <<>>
    BY <2>1, <2>3, ShortKinds
  <2>5. QED
    BY <2>1, <2>2, <2>4, NoAcksFacts, AccountNone DEF Live, Resumable, Match, NoStore
<1>5. QED
  BY <1>1, <1>2, <1>3, <1>4

\* The account of the acks stays exact when <resume/> is sent.
LEMMA SendResumeAccounted ==
  ASSUME Types, Types', Phases, Pending, Accounted, SendResume
  PROVE  Accounted'
<1>1. /\ conn = "binding" /\ unprocessed' = <<>> /\ lastHandledByServer' = store.byServer
      /\ unackedByServer' = <<>>
      /\ prevUnacked' = (IF store.pending = <<>> THEN prevUnacked ELSE store.pending)
      /\ UNCHANGED <<sm, down, server, store, tracked>>
  BY DEF SendResume, ForgetUnacked, sentVars
<1>2. sm = "off" /\ down = <<>> /\ prevUnacked = <<>>
  BY <1>1 DEF Phases, Ordered, Offline
<1>3. NoAcks(down')
  BY <1>1, <1>2, NoAcksFacts
<1>4. PICK c, w, d : Account(c, w, d)
  BY DEF Accounted
<1>5. CASE Resumable
  <2>1. Open' = Open /\ lastHandledByServer' = lastHandledByServer
    <3>1. Len(store.pending) = Len(unackedByServer) /\ store.byServer = lastHandledByServer
      BY <1>1, <1>5 DEF Pending
    <3>2. Len(prevUnacked') = Len(store.pending)
      BY <1>1, <1>2
    <3>3. QED
      BY <1>1, <1>2, <3>1, <3>2, OpenFacts
  <2>2. Acked(c) /\ c \in Nat
    BY <1>4 DEF Account
  <2>3. Acked(c)'
    BY <1>1, <1>2, <1>5, <2>1, <2>2 DEF Acked, Live, Resumable, Match
  <2>4. QED
    BY <1>1, <1>3, <2>2, <2>3, AccountQuiet
<1>6. CASE ~Resumable
  <2>1. ~Live'
    BY <1>1, <1>2, <1>6 DEF Live, Resumable, Match
  <2>2. QED
    BY <1>1, <1>2, <1>3, <2>1, AccountNone
<1>7. QED
  BY <1>5, <1>6

\* The account of the acks stays exact when the session is resumed.
LEMMA ReceiveResumedAccounted ==
  ASSUME Types, Types', Phases, Listed, Pending, Outgoing, Accounted, ReceiveResumed
  PROVE  Accounted'
<1>1. /\ up = <<>> /\ unackedByServer = <<>> /\ unprocessed = <<>>
      /\ down # <<>> /\ down' = Tail(down) /\ FirstThen(down, {"stanza"})
      /\ lastHandledByServer' = server.in % Modulus
      /\ unackedByServer' = unackedByServer /\ prevUnacked' = <<>> /\ tracked' = server.in
      /\ sm' = "started" /\ UNCHANGED <<server, unprocessed>>
  BY Resumed DEF ReceiveResumed
<1>2. server.in \in Nat
  BY ListTypes
<1>3. Open' = 0
  BY <1>1, OpenFacts, EmptySeq
<1>4. NoAcks(down')
  BY <1>1, ClientRead, NoAcksFacts
<1>5. PICK h : h = server.in
  OBVIOUS
<1>6. h \in Nat /\ tracked' - Open' = h /\ server'.in = h /\ lastHandledByServer' = h % Modulus
  BY <1>1, <1>2, <1>3, <1>5
<1>7. Acked(h)'
  BY <1>1, <1>6 DEF Acked
<1>8. QED
  BY <1>1, <1>4, <1>6, <1>7, AccountQuiet

\* The account of the acks stays exact when it is enabled.
LEMMA ReceiveEnabledAccounted ==
  ASSUME Types, Types', Phases, Accounted, ReceiveEnabled
  PROVE  Accounted'
<1>1. /\ sm = "enableSent" /\ down # <<>> /\ Head(down)[1] = "enabled" /\ down' = Tail(down)
      /\ sm' = "started" /\ unprocessed' = <<>> /\ lastHandledByServer' = 0
      /\ UNCHANGED <<unackedByServer, prevUnacked, server, tracked>>
  BY DEF ReceiveEnabled, ZeroCounters, sentVars
<1>2. PICK c, w, d : Account(c, w, d)
  BY DEF Accounted
<1>3. c = 0 /\ unprocessed = <<>> /\ Len(unackedByServer) = tracked /\ prevUnacked = <<>>
  BY <1>1, <1>2 DEF Account, Acked, Phases, Enabling, Ordered
<1>4. Arriving(0, w, Shifted(d))'
  BY <1>1, <1>2, <1>3, ArrivesNext DEF Account
<1>5. Open' = tracked /\ tracked \in Nat /\ server'.in \in Nat /\ tracked' = tracked
  BY <1>1, <1>3, ListTypes, OpenFacts
<1>6. 0 % Modulus = 0
  BY Bounds
<1>7. tracked' - Open' = 0
  BY <1>5
<1>8. Acked(0)'
  <2>1. lastHandledByServer' = 0 % Modulus
    BY <1>1, <1>6
  <2>2. 0 <= server'.in
    BY <1>5
  <2>3. QED
    BY <1>1, <1>7, <2>1, <2>2 DEF Acked
<1>9. Waiting(0, w)'
  BY <1>1, EmptySeq DEF Waiting
<1>10. QED
  BY <1>4, <1>8, <1>9 DEF Account, Accounted

\* The account of the acks stays exact when a stanza is sent.
LEMMA SendStanzaAccounted ==
  ASSUME Types, Types', Phases, Accounted, SendStanza
  PROVE  Accounted'
<1>1. PICK c, w, d : Account(c, w, d)
  BY DEF Accounted
<1>2. PICK s, t, o : s = sent /\ t = tracked /\ o = Open
  OBVIOUS
<1>3. /\ s \in Nat /\ t \in Nat /\ c \in Nat
      /\ sent' = s + 1 /\ tracked' = t + 1 /\ sm \in {"enableSent", "started"}
      /\ UNCHANGED <<sm, store, down, server, prevUnacked, unprocessed, lastHandledByServer, handled>>
  BY <1>1, <1>2, StanzaSent, ListTypes DEF SendStanza, history, Account
<1>4. Open' = o + 1 /\ o \in Nat
  <2>1. Len(unackedByServer') = Len(unackedByServer) + 1 /\ Len(unackedByServer) \in Nat /\ Len(prevUnacked) \in Nat
    BY StanzaSent, ListTypes
  <2>2. QED
    BY <1>2, <1>3, <2>1, OpenFacts DEF Open
<1>5. (Live' <=> Live) /\ ~Resumable' /\ Before' = Before
  <2>1. Before' = Before
    BY <1>2, <1>3 DEF Before
  <2>2. QED
    BY <1>3, <2>1 DEF Live, Resumable, Match
<1>6. tracked' - Open' = t - o /\ sent' - Open' = s - o
  BY <1>3, <1>4
<1>7. Acked(c)'
  <2>1. sm = "enableSent" => unprocessed = <<>>
    BY DEF Phases, Enabling
  <2>2. Acked(c)
    BY <1>1 DEF Account
  <2>3. sm' = "started" \/ unprocessed' # <<>> \/ Resumable' => sm = "started"
    BY <1>3, <1>5, <2>1
  <2>4. sm = "started" => lastHandledByServer = c % Modulus /\ t - o <= c
    BY <1>2, <2>2 DEF Acked
  <2>5. (sm = "enableSent" => c = 0) /\ (Live => c <= server.in)
        /\ (sm = "started" /\ server.in < Modulus => c = t - o)
    BY <1>2, <2>2 DEF Acked
  <2>6. QED
    BY <1>3, <1>5, <1>6, <2>3, <2>4, <2>5 DEF Acked
<1>8. \A n : Covered(n) => Covered(n)'
  <2>1. sent' - Open' + 1 = sent - Open + 1
    BY <1>2, <1>6
  <2>2. QED
    BY <1>3, <1>5, <2>1 DEF Covered
<1>9. Waiting(c, w)'
  <2>1. \A i \in 1..Len(unprocessed) : w[i] \in Nat /\ w[i] <= t
    BY <1>1, <1>2 DEF Account, Waiting
  <2>2. \A i \in 1..Len(unprocessed) : w[i] <= tracked'
    BY <1>3, <2>1
  <2>3. QED
    BY <1>1, <1>3, <1>5, <1>8, <2>2 DEF Account, Waiting
<1>10. Arriving(c, w, d)'
  BY <1>1, <1>3 DEF Account, Arriving
<1>11. QED
  BY <1>3, <1>7, <1>9, <1>10 DEF Account, Accounted

\* The account of the acks stays exact when a stanza arrives.
LEMMA ReceiveStanzaAccounted ==
  ASSUME Types, Types', Phases, Accounted, ReceiveStanza
  PROVE  Accounted'
<1>1. PICK c, w, d : Account(c, w, d)
  BY DEF Accounted
<1>2. /\ sm = "started" /\ down # <<>> /\ down' = Tail(down)
      /\ UNCHANGED <<sm, Open, sent, tracked, unprocessed, lastHandledByServer, server, handled>>
  BY DEF ReceiveStanza, outgoing, sentVars, Open
<1>3. Arriving(c, w, Shifted(d))'
  BY <1>1, <1>2, ArrivesNext DEF Account
<1>4. ~Resumable' /\ Live
  BY <1>2 DEF Resumable, Live
<1>4a. server.in <= server'.in /\ server'.in \in Nat
  BY <1>2, InStays
<1>5. QED
  BY <1>1, <1>2, <1>3, <1>4, <1>4a, AccountFrame

\* One more ack waits, or is on its way.
Extended(f, n, v) == [i \in Nat |-> IF i <= n THEN f[i] ELSE v]

\* A function with one value more.
LEMMA ExtendedFacts ==
  ASSUME NEW f, NEW n \in Nat, NEW v
  PROVE  /\ \A i \in 1..n : Extended(f, n, v)[i] = f[i]
         /\ Extended(f, n, v)[n + 1] = v
         /\ \A i \in 1..(n + 1) : i \in 1..n \/ i = n + 1
         /\ \A i, j \in 1..(n + 1) : i < j => i \in 1..n
<1>1. \A i \in 1..n : i \in Nat /\ i <= n
  OBVIOUS
<1>2. n + 1 \in Nat /\ ~(n + 1 <= n)
  OBVIOUS
<1>3. /\ \A i \in 1..(n + 1) : i \in 1..n \/ i = n + 1
      /\ \A i, j \in 1..(n + 1) : i < j => i \in 1..n
  OBVIOUS
<1>4. QED
  BY <1>1, <1>2, <1>3 DEF Extended

\* The account of the acks stays exact when the server answers a request.
LEMMA ServerAcksAccounted ==
  ASSUME Types, Types', Phases, Accounted, ServerAcks
  PROVE  Accounted'
<1>1. PICK c, w, d : Account(c, w, d)
  BY DEF Accounted
<1>2. UNCHANGED <<sm, store, server, Open, sent, tracked, unprocessed, lastHandledByServer, handled>>
  BY DEF ServerAcks, outgoing, sentVars, history, Open
<1>3. (Live' <=> Live) /\ (Resumable' <=> Resumable) /\ server.in <= server'.in
  <2>1. (Live' <=> Live) /\ (Resumable' <=> Resumable)
    BY <1>2 DEF Live, Resumable, Match
  <2>2. server.in <= server'.in
    BY <1>2, InStays
  <2>3. QED
    BY <2>1, <2>2
<1>4. \E e : Arriving(c, w, e)'
  <2>1. CASE ~server.on
    <3>1. down' = down
      BY <2>1 DEF ServerAcks
    <3>2. QED
      BY <1>1, <1>2, <1>3, <3>1, ArrivesAsBefore DEF Account
  <2>2. CASE server.on
    <3>1. Live
      <4>1. sm \in {"off", "enableSent", "started"} /\ (sm = "off" => server = NoSession)
        BY ReadsOther DEF ServerAcks
      <4>2. QED
        BY <2>2, <4>1 DEF Live, NoSession
    <3>2. PICK n, h, l : n = Len(down) /\ h = server.in /\ l = Len(unprocessed)
      OBVIOUS
    <3>3. n \in Nat /\ h \in Nat /\ down \in Seq(DownElement)
      BY <3>2, ListTypes, NonEmpty
    <3>4. PICK v, e : v = <<"a", h % Modulus>> /\ e = Extended(d, n, h)
      OBVIOUS
    <3>5. v \in DownElement /\ v[1] = "a" /\ v[2] = h % Modulus
      BY <3>3, <3>4, Quotient, DownFacts
    <3>6. Len(down') = n + 1 /\ down'[n + 1] = v /\ \A i \in 1..n : down'[i] = down[i]
      <4>1. down' = Append(down, v)
        BY <2>2, <3>2, <3>4 DEF ServerAcks, ToClient
      <4>2. QED
        BY <3>2, <3>3, <3>5, <4>1, AppendFacts
    <3>7. /\ \A i \in 1..n : e[i] = d[i]
          /\ e[n + 1] = h
          /\ \A i \in 1..(n + 1) : i \in 1..n \/ i = n + 1
          /\ \A i, j \in 1..(n + 1) : i < j => i \in 1..n
      <4>1. n \in Nat
        BY <3>3
      <4>2. \A i \in 1..n : Extended(d, n, h)[i] = d[i]
        BY ONLY <4>1, ExtendedFacts
      <4>3. Extended(d, n, h)[n + 1] = h
        BY ONLY <4>1, ExtendedFacts
      <4>4. /\ \A i \in 1..(n + 1) : i \in 1..n \/ i = n + 1
            /\ \A i, j \in 1..(n + 1) : i < j => i \in 1..n
        BY ONLY <4>1
      <4>5. QED
        BY ONLY <3>4, <4>2, <4>3, <4>4
    <3>8. /\ \A i \in 1..n : down[i][1] = "a" =>
               /\ d[i] \in Nat /\ c <= d[i] /\ d[i] <= h
               /\ down[i][2] = d[i] % Modulus
               /\ \A j \in 1..l : w[j] <= d[i]
          /\ \A i, j \in 1..n :
               i < j /\ down[i][1] = "a" /\ down[j][1] = "a" => d[i] <= d[j]
      BY <1>1, <3>2 DEF Account, Arriving
    <3>9. c <= h /\ \A j \in 1..l : w[j] <= h
      BY <1>1, <3>1, <3>2 DEF Account, Acked, Waiting
    <3>10. h <= h
      BY <3>3
    <3>11. \A i \in 1..(n + 1) : down'[i][1] = "a" =>
             /\ e[i] \in Nat /\ c <= e[i] /\ e[i] <= h
             /\ down'[i][2] = e[i] % Modulus
             /\ \A j \in 1..l : w[j] <= e[i]
      BY <3>3, <3>5, <3>6, <3>7, <3>8, <3>9, <3>10
    <3>12. \A i, j \in 1..(n + 1) :
             i < j /\ down'[i][1] = "a" /\ down'[j][1] = "a" => e[i] <= e[j]
      <4>1. ASSUME NEW i \in 1..(n + 1), NEW j \in 1..(n + 1),
                   i < j, down'[i][1] = "a", down'[j][1] = "a"
            PROVE  e[i] <= e[j]
        <5>1. i \in 1..n /\ e[i] = d[i] /\ down'[i] = down[i]
          BY <3>6, <3>7, <4>1
        <5>2. CASE j \in 1..n
          BY <3>6, <3>7, <3>8, <4>1, <5>1, <5>2
        <5>3. CASE j = n + 1
          BY <3>7, <3>8, <4>1, <5>1, <5>3
        <5>4. QED
          BY <3>7, <5>2, <5>3
      <4>2. QED
        BY <4>1
    <3>13. server'.in = h /\ Len(unprocessed') = l
      BY <1>2, <3>2
    <3>14. Arriving(c, w, e)'
      BY <3>6, <3>11, <3>12, <3>13 DEF Arriving
    <3>15. QED
      BY <3>14
  <2>3. QED
    BY <2>1, <2>2
<1>5. QED
  BY <1>1, <1>2, <1>3, <1>4, AccountFrame

\* The account of the acks stays exact when the server reads <enable/>.
LEMMA ServerEnablesAccounted ==
  ASSUME Types, Types', Phases, Accounted, ServerEnables
  PROVE  Accounted'
<1>1. sm = "enableSent" /\ down = <<>> /\ server = NoSession
  BY ReadsEnable DEF ServerEnables
<1>2. PICK c, w, d : Account(c, w, d)
  BY DEF Accounted
<1>3. c = 0 /\ unprocessed = <<>>
  BY <1>1, <1>2 DEF Account, Acked, Phases, Enabling
<1>4. sm' = "enableSent" /\ unprocessed' = <<>>
  BY <1>1, <1>3 DEF ServerEnables, outgoing
<1>5. PICK e : down' = Append(down, e) /\ e[1] # "a"
  BY DEF ServerEnables, ToClient
<1>6. NoAcks(down')
  BY <1>1, <1>5, ShortKinds, NoAcksFacts
<1>7. server'.in \in Nat
  BY DEF Types, ServerType, Server
<1>8. Acked(0)'
  BY <1>4, <1>7 DEF Acked, Resumable
<1>9. QED
  BY <1>4, <1>6, <1>8, AccountQuiet

\* The account of the acks stays exact when the server reads <resume/>.
LEMMA ServerResumesAccounted ==
  ASSUME Types, Types', Phases, Accounted, ServerResumes
  PROVE  Accounted'
<1>1. conn = "resuming" /\ sm = "off" /\ Resuming /\ down = <<>>
  BY ReadsResume DEF ServerResumes
<1>2. PICK c, w, d : Account(c, w, d)
  BY DEF Accounted
<1>3. UNCHANGED <<sm, store, Open, tracked, unprocessed, lastHandledByServer>> /\ unprocessed = <<>>
  BY <1>1 DEF ServerResumes, outgoing, sentVars, Open, Resuming
<1>4. server'.in = server.in /\ server'.id = server.id
  BY DEF ServerResumes, Types, ServerType, Server
<1>5. NoAcks(down')
  <2>1. CASE server.id = store.id
    <3>1. PICK acked, e, x : Again(acked, e, x)
      BY <2>1, SentAgain
    <3>2. down' # <<>> /\ down'[1][1] = "resumed" /\ FirstThen(down', {"stanza"})
      BY <3>1 DEF Again
    <3>3. Len(down') \in Nat
      BY NonEmpty DEF Types, WireType
    <3>4. QED
      BY <3>2, <3>3, NoAcksFacts
  <2>2. CASE server.id # store.id
    <3>1. Head(up)[2] = store.id
      BY ReadsResume DEF ServerResumes
    <3>2. down' = Append(down, <<"failed">>)
      BY <2>2, <3>1 DEF ServerResumes, ToClient
    <3>3. <<"failed">>[1] # "a"
      OBVIOUS
    <3>4. QED
      BY <1>1, <3>2, <3>3, ShortKinds, NoAcksFacts
  <2>3. QED
    BY <2>1, <2>2
<1>6. c \in Nat /\ Acked(c)
  BY <1>2 DEF Account
<1>7. Acked(c)'
  BY <1>1, <1>3, <1>4, <1>6 DEF Acked, Live, Resumable, Match
<1>8. QED
  BY <1>3, <1>5, <1>6, <1>7, AccountQuiet

\* A shorter list leaves less to handle.
LEMMA CoveredStays ==
  ASSUME Types, UNCHANGED <<sent, tracked>>, handled \subseteq handled',
         Open \in Nat, Open' \in Nat, Open' <= Open, NEW n \in Nat, Covered(n)
  PROVE  Covered(n)'
<1>1. ASSUME NEW m \in (sent' - Open' + 1)..(Before' + n) PROVE m \in handled'
  <2>1. PICK o, q, h, s : o = Open /\ q = Open' /\ h = Before + n /\ s = sent
    OBVIOUS
  <2>2. m \in (s - q + 1)..h /\ o \in Nat /\ q \in Nat /\ q <= o /\ s \in Nat
    BY <1>1, <2>1, ListTypes DEF Before
  <2>3. m \in (s - o + 1)..h
    BY ONLY <2>2
  <2>4. QED
    BY <2>1, <2>3 DEF Covered
<1>2. QED
  BY <1>1 DEF Covered

\* The account of the acks stays exact when the stream disconnects.
LEMMA DisconnectAccounted ==
  ASSUME Types, Types', Phases, Accounted, NEW clean \in BOOLEAN, Disconnect(clean)
  PROVE  Accounted'
<1>1. PICK c, w, d : Account(c, w, d)
  BY DEF Accounted
<1>2. /\ sm' = "off" /\ prevUnacked' = <<>> /\ down' = <<>>
      /\ UNCHANGED <<sent, tracked, handled, unackedByServer, unprocessed, lastHandledByServer>>
  BY DEF Disconnect, sentVars, history
<1>3. Live' => Live /\ server'.in = server.in /\ sm # "enableSent"
  BY DisconnectLive
<1>4. Open' = Len(unackedByServer) /\ (Open' > 0 => Open' = Open)
  <2>1. Open' = Len(unackedByServer)
    BY <1>2, OpenFacts
  <2>2. CASE prevUnacked = <<>>
    BY <2>1, <2>2, OpenFacts
  <2>3. CASE prevUnacked # <<>>
    <3>1. unackedByServer = <<>>
      BY <2>3 DEF Phases, Ordered, Resumption, Resuming
    <3>2. QED
      BY <2>1, <3>1, EmptySeq
  <2>4. QED
    BY <2>2, <2>3
<1>5. c \in Nat /\ Acked(c) /\ Waiting(c, w)
  BY <1>1 DEF Account
<1>6. Acked(c)'
  <2>1. Resumable' => Live'
    BY DEF Live
  <2>2. unprocessed' # <<>> \/ Resumable' => sm = "started" \/ unprocessed # <<>> \/ Resumable
    BY <1>2, <1>3, <2>1 DEF Live
  <2>3. unprocessed' # <<>> \/ Resumable' =>
          lastHandledByServer' = c % Modulus /\ (Open' > 0 => tracked' - Open' <= c)
    BY <1>2, <1>4, <1>5, <2>2 DEF Acked
  <2>4. Live' => c <= server'.in
    BY <1>3, <1>5 DEF Acked
  <2>5. QED
    BY <1>2, <2>3, <2>4 DEF Acked
<1>7. \A n \in Nat : Covered(n) => Covered(n)'
  <2>1. Open \in Nat /\ Open' \in Nat /\ Open' <= Open
    <3>1. PICK n, o : n = Len(unackedByServer) /\ o = Len(prevUnacked)
      OBVIOUS
    <3>2. n \in Nat /\ o \in Nat /\ Open' = n /\ Open = n + o
      BY <1>4, <3>1, ListTypes DEF Open
    <3>3. QED
      BY ONLY <3>2
  <2>2. QED
    BY <1>2, <2>1, CoveredStays
<1>8. Waiting(c, w)'
  BY <1>2, <1>3, <1>5, <1>7 DEF Waiting
<1>9. Arriving(c, w, d)'
  BY <1>2, NoAcksFacts, ArrivesNothing
<1>10. QED
  BY <1>5, <1>6, <1>8, <1>9 DEF Account, Accounted

\* An ack is taken while others wait only if it takes nothing.
LEMMA NothingTaken ==
  ASSUME Types, Listed, NEW c, NEW w, NEW d, NEW p, NEW k, NEW b, AckTaken(c, w, d, p, k, b),
         unprocessed # <<>>
  PROVE  k = 0 /\ b = c
<1>1. PICK n : n = Len(unackedByServer)
  OBVIOUS
<1>2. unackedByServer # <<>> /\ unackedByServer[1] \in unanswered
  BY DEF Listed
<1>3. n \in Nat /\ n > 0 /\ k \in Nat
  BY <1>1, <1>2, ListTypes, NonEmpty DEF AckTaken
<1>4. /\ \A i \in (0 + 1)..k : unackedByServer[i] \notin unanswered
      /\ b = c \/ k > 0 \/ 0 = n
  BY <1>1 DEF AckTaken, Takes
<1>5. k = 0
  <2>1. ~(1 \in (0 + 1)..k)
    BY <1>2, <1>4
  <2>2. QED
    BY ONLY <1>3, <2>1
<1>6. QED
  BY <1>3, <1>4, <1>5

\* The account of the acks stays exact when an ack arrives.
LEMMA ReceiveAckAccounted ==
  ASSUME Types, Types', Phases, Listed, Outgoing, Accounted, ReceiveAck
  PROVE  Accounted'
<1>1. sm = "started"
  BY AckReceived
<1>2. PICK c, w, d, p, k, b : AckTaken(c, w, d, p, k, b)
  BY AckReceived
<1>3. /\ down # <<>> /\ down' = Tail(down)
      /\ UNCHANGED <<sm, sent, tracked, prevUnacked, server, handled>>
  BY DEF ReceiveAck, sentVars
<1>4. prevUnacked = <<>> /\ Live /\ ~Resumable
  BY <1>1 DEF Phases, Ordered, Live, Resumable
<1>5. PICK n, l, h, t, q : /\ n = Len(unackedByServer) /\ l = Len(unprocessed) /\ h = server.in
                           /\ t = tracked /\ q = d[1]
  OBVIOUS
<1>6. /\ n \in Nat /\ l \in Nat /\ h \in Nat /\ t \in Nat /\ q \in Nat /\ k \in Nat /\ b \in Nat /\ c \in Nat
      /\ c <= q /\ q <= h
  BY <1>2, <1>5, ListTypes DEF AckTaken, Account
<1>7. Open = n /\ Open' = n - k /\ Open' \in Nat /\ Open \in Nat /\ Open' <= Open
  <2>1. Stands(p, k, b) /\ Took(p)
    BY <1>2 DEF AckTaken
  <2>2. Open = n
    BY <1>4, <1>5, OpenFacts
  <2>3. Open' = Open - k /\ Open' \in Nat /\ Open \in Nat /\ Open' <= Open
    BY <1>3, <2>1, ShorterOpen
  <2>4. QED
    BY <2>2, <2>3
<1>8. /\ k <= b - c /\ c <= b /\ b <= q
      /\ q < Modulus /\ q - c <= n => k = b - c
      /\ lastHandledByServer' = b % Modulus
  <2>1. /\ k - 0 <= b - c /\ c <= b /\ b <= q
        /\ q < Modulus /\ q - c <= n - 0 => k - 0 = b - c
    BY <1>2, <1>5 DEF AckTaken, Takes
  <2>2. lastHandledByServer' = b % Modulus
    BY <1>2 DEF AckTaken, Took
  <2>3. QED
    BY ONLY <1>6, <2>1, <2>2
<1>9. h <= t /\ Covered(h)
  BY <1>1, <1>4, <1>5, CountingFacts DEF Outgoing
<1>10. t - n <= c /\ (h < Modulus => c = t - n)
  BY <1>1, <1>2, <1>5, <1>7 DEF AckTaken, Account, Acked
<1>11. Acked(b)'
  <2>1. t - (n - k) <= b /\ b <= h
    BY ONLY <1>6, <1>8, <1>10
  <2>2. h < Modulus => b = t - (n - k)
    BY ONLY <1>6, <1>8, <1>9, <1>10, Bounds
  <2>3. tracked' = t /\ Open' = n - k /\ server'.in = h /\ sm' = "started"
    BY <1>1, <1>3, <1>5, <1>7
  <2>4. QED
    BY <1>8, <2>1, <2>2, <2>3 DEF Acked
<1>12. ASSUME NEW m \in Nat, Covered(m) PROVE Covered(m)'
  BY <1>3, <1>7, <1>12, CoveredStays
<1>13. Covered(q)
  <2>1. PICK s, r : s = sent - Open + 1 /\ r = Before
    OBVIOUS
  <2>2. r \in Nat
    BY <2>1, ListTypes DEF Before
  <2>3. s \in Int
    BY <1>6, <1>7, <2>1, ListTypes
  <2>4. \A m \in s..(r + q) : m \in s..(r + h)
    BY ONLY <1>6, <2>2, <2>3
  <2>5. QED
    BY <1>9, <2>1, <2>4 DEF Covered
<1>14. /\ \A i \in 1..l : /\ w[i] \in Nat /\ b <= w[i] /\ w[i] <= t /\ Covered(w[i])
                          /\ unprocessed[i] = w[i] % Modulus /\ w[i] <= h /\ w[i] <= q
       /\ \A i, j \in 1..l : i < j => w[i] <= w[j]
  <2>1. /\ \A i \in 1..l : /\ w[i] \in Nat /\ c <= w[i] /\ w[i] <= t /\ Covered(w[i])
                           /\ unprocessed[i] = w[i] % Modulus /\ w[i] <= h
        /\ \A i, j \in 1..l : i < j => w[i] <= w[j]
    BY <1>2, <1>4, <1>5 DEF AckTaken, Account, Waiting
  <2>2. \A i \in 1..l : w[i] <= q
    <3>1. 1 \in 1..Len(down) /\ down[1][1] = "a"
      <4>1. Head(down) = down[1]
        BY <1>3, DownReads
      <4>2. 1 \in 1..Len(down)
        BY <1>3, ListTypes, NonEmpty
      <4>3. QED
        BY <4>1, <4>2 DEF ReceiveAck
    <3>2. QED
      BY <1>2, <1>5, <3>1 DEF AckTaken, Account, Arriving
  <2>3. \A i \in 1..l : b = c
    <3>1. SUFFICES ASSUME NEW i \in 1..l PROVE b = c
      OBVIOUS
    <3>2. unprocessed # <<>>
      BY <1>5, <1>6, <3>1, EmptySeq
    <3>3. QED
      BY <1>2, <3>2, NothingTaken
  <2>4. QED
    BY <2>1, <2>2, <2>3
<1>15. PICK x : x = IF p.complete THEN w ELSE Extended(w, l, q)
  OBVIOUS
<1>16. PICK z : z = Len(unprocessed')
  OBVIOUS
<1>17. \/ z = l /\ x = w /\ unprocessed' = unprocessed
       \/ /\ z = l + 1 /\ unprocessed'[l + 1] = q % Modulus
          /\ \A i \in 1..l : unprocessed'[i] = unprocessed[i]
          /\ x = Extended(w, l, q)
  <2>1. CASE p.complete
    BY <1>2, <1>5, <1>15, <1>16, <2>1 DEF AckTaken, QueueAck
  <2>2. CASE ~p.complete
    <3>1. PICK v : v = q % Modulus
      OBVIOUS
    <3>2. v \in Nat
      BY <1>6, <3>1, Quotient
    <3>3. unprocessed' = Append(unprocessed, v)
      BY <1>2, <1>5, <2>2, <3>1 DEF AckTaken, QueueAck
    <3>4. /\ Len(unprocessed') = l + 1 /\ unprocessed'[l + 1] = v
          /\ \A i \in 1..l : unprocessed'[i] = unprocessed[i]
      BY <1>5, <3>2, <3>3, ListTypes, AppendFacts
    <3>5. QED
      BY <1>15, <1>16, <2>2, <3>1, <3>4
  <2>3. QED
    BY <2>1, <2>2
<1>18. \A i \in 1..z : \/ i \in 1..l /\ x[i] = w[i] /\ unprocessed'[i] = unprocessed[i]
                       \/ i = l + 1 /\ x[i] = q /\ unprocessed'[i] = q % Modulus
  <2>1. CASE z = l /\ x = w /\ unprocessed' = unprocessed
    BY <2>1
  <2>2. CASE /\ z = l + 1 /\ unprocessed'[l + 1] = q % Modulus
             /\ \A i \in 1..l : unprocessed'[i] = unprocessed[i]
             /\ x = Extended(w, l, q)
    <3>1. \A i \in 1..l : x[i] = w[i]
      BY ONLY <1>6, <2>2, ExtendedFacts
    <3>2. x[l + 1] = q
      <4>1. Extended(w, l, q)[l + 1] = q
        BY ONLY <1>6, ExtendedFacts
      <4>2. QED
        BY <2>2, <4>1
    <3>3. \A i \in 1..(l + 1) : i \in 1..l \/ i = l + 1
      BY ONLY <1>6
    <3>4. QED
      BY <2>2, <3>1, <3>2, <3>3
  <2>3. QED
    BY <1>17, <2>1, <2>2
<1>19. \A i \in 1..z : /\ x[i] \in Nat /\ b <= x[i] /\ x[i] <= t /\ Covered(x[i])
                       /\ unprocessed'[i] = x[i] % Modulus /\ x[i] <= h /\ x[i] <= q
  <2>1. b <= q /\ q <= t /\ q <= h /\ q <= q
    BY ONLY <1>6, <1>8, <1>9
  <2>2. QED
    BY <1>6, <1>13, <1>14, <1>18, <2>1
<1>20. ASSUME NEW i \in 1..z, NEW j \in 1..z, i < j PROVE x[i] <= x[j]
  <2>1. CASE j \in 1..l
    <3>1. i \in 1..l
      BY ONLY <1>6, <1>20, <2>1
    <3>2. i # l + 1 /\ j # l + 1
      BY ONLY <1>6, <2>1, <3>1
    <3>3. QED
      BY <1>14, <1>18, <1>20, <2>1, <3>1, <3>2
  <2>2. CASE j = l + 1
    BY <1>6, <1>18, <1>19, <2>2
  <2>3. QED
    BY <1>18, <2>1, <2>2
<1>21. Waiting(b, x)'
  <2>1. tracked' = t /\ server'.in = h
    BY <1>3, <1>5
  <2>2. \A i \in 1..z : Covered(x[i])'
    BY <1>12, <1>19
  <2>3. QED
    BY <1>16, <1>19, <1>20, <2>1, <2>2 DEF Waiting
<1>22. PICK e, y : e = Shifted(d) /\ y = Len(down) - 1
  OBVIOUS
<1>23. /\ y \in Nat /\ Len(down) = y + 1 /\ Len(down') = y /\ \A i \in 1..y : down'[i] = down[i + 1]
  BY <1>3, <1>22, ListTypes, NonEmpty
<1>24. /\ \A i \in 1..(y + 1) : down[i][1] = "a" =>
            /\ d[i] \in Nat /\ d[i] <= h /\ down[i][2] = d[i] % Modulus
       /\ \A i, j \in 1..(y + 1) :
            i < j /\ down[i][1] = "a" /\ down[j][1] = "a" => d[i] <= d[j]
  BY <1>2, <1>5, <1>23 DEF AckTaken, Account, Arriving
<1>25. /\ \A i \in 1..y : i + 1 \in 1..(y + 1) /\ 1 < i + 1
       /\ \A i, j \in 1..y : i < j => i + 1 < j + 1
       /\ 1 \in 1..(y + 1)
  BY ONLY <1>23
<1>26. \A i \in 1..y : e[i] = d[i + 1]
  BY <1>22 DEF Shifted
<1>27. ASSUME NEW i \in 1..y, down'[i][1] = "a"
       PROVE  /\ e[i] \in Nat /\ b <= e[i] /\ e[i] <= h /\ down'[i][2] = e[i] % Modulus
              /\ \A j \in 1..z : x[j] <= e[i]
  <2>1. down[1][1] = "a"
    BY <1>3, ListTypes, NonEmpty DEF ReceiveAck
  <2>2. e[i] \in Nat /\ e[i] <= h /\ down'[i][2] = e[i] % Modulus
    BY <1>23, <1>24, <1>25, <1>26, <1>27
  <2>3. q <= e[i]
    BY <1>5, <1>23, <1>24, <1>25, <1>26, <1>27, <2>1
  <2>4. b <= e[i]
    BY ONLY <1>6, <1>8, <2>2, <2>3
  <2>5. ASSUME NEW j \in 1..z PROVE x[j] <= e[i]
    <3>1. x[j] \in Nat /\ x[j] <= q
      BY <1>19
    <3>2. QED
      BY ONLY <1>6, <2>2, <2>3, <3>1
  <2>6. QED
    BY <2>2, <2>4, <2>5
<1>28. \A i, j \in 1..y : i < j /\ down'[i][1] = "a" /\ down'[j][1] = "a" => e[i] <= e[j]
  BY <1>23, <1>24, <1>25, <1>26
<1>29. Arriving(b, x, e)'
  <2>1. server'.in = h
    BY <1>3, <1>5
  <2>2. QED
    BY <1>16, <1>23, <1>27, <1>28, <2>1 DEF Arriving
<1>30. QED
  BY <1>6, <1>11, <1>21, <1>29 DEF Account, Accounted

\* What a name takes off when acks wait.
LEMMA NamesTaken ==
  ASSUME Types, Phases, Accounted, NEW n, NEW c, NEW w, NEW d, NEW p, NEW k, NEW b,
         NameTaken(n, c, w, d, p, k, b), unprocessed # <<>>,
         UNCHANGED <<sm, prevUnacked, tracked, server>>
  PROVE  /\ c \in Nat /\ c <= b /\ k <= b - c /\ b <= w[Len(unprocessed)]
         /\ \A j \in (p.taken + 1)..Len(unprocessed) : b <= w[j]
         /\ lastHandledByServer' = b % Modulus
         /\ sm = "started" /\ server.in < Modulus =>
              k = b - c /\ \A j \in 1..p.taken : w[j] <= b
<1>1. PICK l, m, h, t : /\ l = Len(unprocessed) /\ m = Len(unackedByServer) /\ h = server.in
                        /\ t = tracked
  OBVIOUS
<1>2. /\ l \in Nat /\ l > 0 /\ m \in Nat /\ h \in Nat /\ t \in Nat /\ k \in Nat /\ b \in Nat /\ c \in Nat
  BY <1>1, ListTypes, NonEmpty DEF NameTaken, Account
<1>3. /\ c <= b /\ b <= w[l] /\ k <= b - c
      /\ \A j \in (p.taken + 1)..l : b <= w[j]
      /\ w[l] < Modulus /\ w[l] - c <= m => k = b - c /\ \A j \in 1..p.taken : w[j] <= b
  BY <1>1 DEF NameTaken, TakesAll
<1>4. lastHandledByServer' = b % Modulus
  BY DEF NameTaken, Took
<1>5. ASSUME sm = "started", h < Modulus PROVE k = b - c /\ \A j \in 1..p.taken : w[j] <= b
  <2>1. prevUnacked = <<>> /\ Live
    BY <1>5 DEF Phases, Ordered, Live
  <2>2. Open = m
    <3>1. Len(prevUnacked) = 0
      BY <2>1, EmptySeq
    <3>2. QED
      BY <1>1, <1>2, <3>1 DEF Open
  <2>3. c = t - m
    BY <1>1, <1>5, <2>2 DEF NameTaken, Account, Acked
  <2>4. l \in 1..l
    BY <1>2
  <2>5. w[l] \in Nat /\ w[l] <= t /\ w[l] <= h
    BY <1>1, <2>1, <2>4 DEF NameTaken, Account, Waiting
  <2>6. w[l] < Modulus /\ w[l] - c <= m
    BY ONLY <1>2, <1>5, <2>3, <2>5, Bounds
  <2>7. QED
    BY <1>3, <2>6
<1>6. QED
  BY <1>1, <1>2, <1>3, <1>4, <1>5

\* The account of the acks stays exact when a stanza gets its name.
LEMMA StanzaIdAnsweredAccounted ==
  ASSUME Types, Types', Phases, Accounted, NEW n \in unanswered, StanzaIdAnswered(n)
  PROVE  Accounted'
<1>1. PICK c, w, d, p, k, b : NameTaken(n, c, w, d, p, k, b)
  BY NameAnswered
<1>2. /\ UNCHANGED <<conn, sm, sent, tracked, prevUnacked, server, handled, down>>
      /\ store'.id = store.id
  BY <1>1, NameSaved DEF StanzaIdAnswered, wire
<1>3. (Live' <=> Live) /\ (Resumable' <=> Resumable)
  BY <1>2 DEF Live, Resumable, Match
<1>4. PICK l, f : l = Len(unprocessed) /\ f = p.taken
  OBVIOUS
<1>5. /\ l \in Nat /\ f \in 0..l /\ unprocessed' = Drop(unprocessed, f) /\ Account(c, w, d)
      /\ Stands(p, k, b) /\ Took(p) /\ k \in Nat /\ b \in Nat /\ c \in Nat
  BY <1>1, <1>4, ListTypes DEF NameTaken, Account
<1>6. CASE unprocessed = <<>>
  <2>1. /\ UNCHANGED <<unackedByServer, unprocessed, lastHandledByServer>>
    BY <1>1, <1>6, NameAlone
  <2>2. Open' = Open
    BY <1>2, <2>1 DEF Open
  <2>3. server.in <= server'.in
    BY <1>2, InStays
  <2>4. Arriving(c, w, d)'
    BY <1>2, <1>5, <2>1, <2>3, ArrivesAsBefore DEF Account
  <2>5. QED
    BY <1>2, <1>3, <1>5, <2>1, <2>2, <2>3, <2>4, AccountFrame
<1>7. CASE unprocessed # <<>>
  <2>1. /\ c <= b /\ k <= b - c /\ b <= w[l]
        /\ \A j \in (f + 1)..l : b <= w[j]
        /\ lastHandledByServer' = b % Modulus
        /\ sm = "started" /\ server.in < Modulus => k = b - c
    BY <1>1, <1>2, <1>4, <1>7, NamesTaken
  <2>2. PICK o, t, h : o = Open /\ t = tracked /\ h = server.in
    OBVIOUS
  <2>3. Open' = o - k /\ o \in Nat /\ Open' \in Nat /\ Open' <= o /\ t \in Nat /\ h \in Nat
    BY <1>2, <1>5, <2>2, ShorterOpen, ListTypes
  <2>4. l > 0 /\ l \in 1..l
    BY <1>4, <1>7, ListTypes, NonEmpty
  <2>5. \A i \in 1..l : /\ w[i] \in Nat /\ w[i] <= t /\ Covered(w[i])
                        /\ unprocessed[i] = w[i] % Modulus /\ (Live => w[i] <= h)
    BY <1>4, <1>5, <2>2 DEF Account, Waiting
  <2>6. \A i, j \in 1..l : i < j => w[i] <= w[j]
    BY <1>4, <1>5 DEF Account, Waiting
  <2>7. sm # "enableSent"
    BY <1>7 DEF Phases, Enabling
  <2>8. Acked(b)'
    <3>1. /\ sm = "started" \/ o > 0 => t - o <= c
          /\ sm = "started" /\ h < Modulus => c = t - o
      BY <1>5, <1>7, <2>2 DEF Account, Acked
    <3>2. sm = "started" \/ o - k > 0 => t - (o - k) <= b
      BY ONLY <1>5, <2>1, <2>3, <3>1
    <3>3. sm = "started" /\ h < Modulus => b = t - (o - k)
      BY <1>5, <2>1, <2>2, <2>3, <3>1
    <3>4. Live => b <= h
      <4>1. w[l] \in Nat /\ (Live => w[l] <= h)
        BY <2>4, <2>5
      <4>2. QED
        BY ONLY <1>5, <2>1, <2>3, <4>1
    <3>5. tracked' = t /\ server'.in = h /\ sm' = sm
      BY <1>2, <2>2
    <3>6. QED
      BY <1>3, <2>1, <2>3, <2>7, <3>2, <3>3, <3>4, <3>5 DEF Acked
  <2>9. PICK x, z : x = [i \in Nat |-> w[f + i]] /\ z = l - f
    OBVIOUS
  <2>10. /\ z \in Nat /\ Len(unprocessed') = z /\ \A i \in 1..z : unprocessed'[i] = unprocessed[f + i]
    <3>1. f \in 0..Len(unprocessed) /\ unprocessed \in Seq(Nat)
      BY <1>4, <1>5, ListTypes
    <3>2. /\ Len(Drop(unprocessed, f)) = Len(unprocessed) - f
          /\ \A i \in 1..(Len(unprocessed) - f) : Drop(unprocessed, f)[i] = unprocessed[f + i]
      BY <3>1, DropFacts
    <3>3. z \in Nat
      BY ONLY <1>5, <2>9
    <3>4. QED
      BY <1>4, <1>5, <2>9, <3>2, <3>3
  <2>11. /\ \A i \in 1..z : x[i] = w[f + i] /\ f + i \in 1..l /\ f + i \in (f + 1)..l
         /\ \A i, j \in 1..z : i < j => f + i < f + j
    <3>1. \A i \in 1..z : x[i] = w[f + i]
      BY <2>9
    <3>2. /\ \A i \in 1..z : f + i \in 1..l /\ f + i \in (f + 1)..l
          /\ \A i, j \in 1..z : i < j => f + i < f + j
      BY ONLY <1>5, <2>9
    <3>3. QED
      BY <3>1, <3>2
  <2>12. Waiting(b, x)'
    <3>1. \A i \in 1..z : /\ x[i] \in Nat /\ b <= x[i] /\ x[i] <= t /\ Covered(x[i])
                          /\ unprocessed'[i] = x[i] % Modulus /\ (Live => x[i] <= h)
      <4>1. SUFFICES ASSUME NEW i \in 1..z
                     PROVE  /\ x[i] \in Nat /\ b <= x[i] /\ x[i] <= t /\ Covered(x[i])
                            /\ unprocessed'[i] = x[i] % Modulus /\ (Live => x[i] <= h)
        OBVIOUS
      <4>2. PICK j : j = f + i
        OBVIOUS
      <4>3. x[i] = w[j] /\ j \in 1..l /\ j \in (f + 1)..l
        BY <2>11, <4>2
      <4>4. /\ w[j] \in Nat /\ w[j] <= t /\ Covered(w[j])
            /\ unprocessed[j] = w[j] % Modulus /\ (Live => w[j] <= h)
        BY ONLY <2>5, <4>3
      <4>5. b <= w[j]
        BY <2>1, <4>3
      <4>6. unprocessed'[i] = unprocessed[j]
        BY <2>10, <4>2
      <4>7. QED
        BY ONLY <4>3, <4>4, <4>5, <4>6
    <3>2. \A i \in 1..z : Covered(x[i])'
      BY <1>2, <2>2, <2>3, <3>1, CoveredStays
    <3>3. \A i, j \in 1..z : i < j => x[i] <= x[j]
      BY <2>6, <2>11
    <3>4. tracked' = t /\ server'.in = h
      BY <1>2, <2>2
    <3>5. QED
      BY <1>3, <2>10, <3>1, <3>2, <3>3, <3>4 DEF Waiting
  <2>13. Arriving(b, x, d)'
    <3>1. ASSUME NEW i \in 1..Len(down), down[i][1] = "a"
          PROVE  /\ d[i] \in Nat /\ b <= d[i] /\ d[i] <= h /\ down[i][2] = d[i] % Modulus
                 /\ \A j \in 1..z : x[j] <= d[i]
      <4>1. /\ d[i] \in Nat /\ d[i] <= h /\ down[i][2] = d[i] % Modulus
            /\ \A j \in 1..l : w[j] <= d[i]
        BY <1>4, <1>5, <2>2, <3>1 DEF Account, Arriving
      <4>2. b <= d[i]
        <5>1. w[l] \in Nat /\ w[l] <= d[i]
          BY <2>4, <2>5, <4>1
        <5>2. QED
          BY ONLY <1>5, <2>1, <4>1, <5>1
      <4>3. QED
        BY <2>11, <4>1, <4>2
    <3>2. \A i, j \in 1..Len(down) :
            i < j /\ down[i][1] = "a" /\ down[j][1] = "a" => d[i] <= d[j]
      BY <1>5 DEF Account, Arriving
    <3>3. server'.in = h /\ down' = down
      BY <1>2, <2>2
    <3>4. QED
      BY <2>10, <3>1, <3>2, <3>3 DEF Arriving
  <2>14. QED
    BY <1>5, <2>8, <2>12, <2>13 DEF Account, Accounted
<1>8. QED
  BY <1>6, <1>7

-----------------------------------------------------------------------------
(* What is reported.                                                       *)

\* Nothing more is reported.
LEMMA ReportsStay ==
  ASSUME OnlyHandledReported,
         \/ Connect \/ SendResume \/ BindAnew \/ EnableStreamManagement \/ NotOffered \/ DidSendEnable
         \/ ReceiveResumeFailed \/ ReceiveEnabled \/ ReceiveNotEnabled \/ ReceiveStanza
         \/ SendStanza \/ RequestTimerFires \/ SendAck \/ \E clean \in BOOLEAN : Disconnect(clean)
         \/ ServerEnables \/ ServerResumes \/ ServerHandles \/ ServerAcks \/ ServerIsAcked
         \/ ServerSends \/ SessionExpires
  PROVE  OnlyHandledReported'
<1>1. reported' = reported /\ handled \subseteq handled'
  BY DEF Connect, SendResume, BindAnew, EnableStreamManagement, NotOffered, DidSendEnable,
     ReceiveResumeFailed, ReceiveEnabled, ReceiveNotEnabled, ReceiveStanza, SendStanza,
     RequestTimerFires, SendAck, Disconnect, ServerEnables, ServerResumes, ServerHandles,
     ServerAcks, ServerIsAcked, ServerSends, SessionExpires, history
<1>2. QED
  BY <1>1 DEF OnlyHandledReported

\* The first k stanzas of the list are reported, and the server handled m stanzas.
LEMMA ReportsHandled ==
  ASSUME Types, Listed, OnlyHandledReported, NEW p, NEW k, NEW b, Stands(p, k, b), Took(p),
         NEW m \in Nat, k > 0 => Covered(m) /\ tracked - Open + k <= m /\ prevUnacked = <<>>,
         handled' = handled
  PROVE  OnlyHandledReported'
<1>1. PICK n, a, s, t : n = Len(unackedByServer) /\ a = Len(reported) /\ s = sent /\ t = tracked
  OBVIOUS
<1>2. n \in Nat /\ a \in Nat /\ s \in Nat /\ t \in Nat
  BY <1>1, ListTypes
<1>3. /\ k \in 0..n /\ Len(reported') = a + k
      /\ \A i \in 1..a : reported'[i] = reported[i]
      /\ \A i \in 1..k : reported'[a + i] = unackedByServer[i]
  BY <1>1, ListAfter
<1>4. Len(reported') \in Nat /\ DOMAIN reported' = 1..(a + k) /\ DOMAIN reported = 1..a
  <2>1. reported' \in Seq(Nat) /\ reported \in Seq(Nat)
    BY ListAfter DEF Types, HistoryType
  <2>2. QED
    BY <1>1, <1>3, <2>1, LenProperties
<1>5. ASSUME NEW i \in 1..(a + k) PROVE reported'[i] \in handled
  <2>1. CASE i <= a
    <3>1. i \in 1..a
      BY <1>2, <2>1
    <3>2. QED
      BY <1>3, <1>4, <3>1 DEF OnlyHandledReported
  <2>2. CASE ~(i <= a)
    <3>1. i - a \in 1..k /\ i - a \in 1..n /\ a + (i - a) = i /\ k > 0
      BY <1>2, <1>3, <2>2
    <3>2. reported'[i] = s - n + (i - a)
      BY <1>1, <1>3, <3>1 DEF Listed
    <3>3. Covered(m) /\ t - n + k <= m
      <4>1. Open = n
        <5>1. Len(prevUnacked) = 0
          BY <3>1, EmptySeq
        <5>2. QED
          BY <1>1, <1>2, <5>1 DEF Open
      <4>2. QED
        BY <1>1, <3>1, <4>1
    <3>4. s - n + (i - a) \in (s - n + 1)..((s - t) + m)
      <4>1. PICK q : q = i - a
        OBVIOUS
      <4>2. q \in 1..k /\ k \in 0..n /\ t - n + k <= m
        BY <1>3, <3>1, <3>3, <4>1
      <4>3. s - n + q \in (s - n + 1)..((s - t) + m)
        BY ONLY <1>2, <4>2, m \in Nat
      <4>4. QED
        BY ONLY <4>1, <4>3
    <3>5. \A j \in (s - n + 1)..((s - t) + m) : j \in handled
      <4>1. Open = n
        <5>1. Len(prevUnacked) = 0
          BY <3>1, EmptySeq
        <5>2. QED
          BY <1>1, <1>2, <5>1 DEF Open
      <4>2. QED
        BY <1>1, <3>3, <4>1 DEF Covered, Before
    <3>6. QED
      BY <3>2, <3>4, <3>5
  <2>3. QED
    BY <2>1, <2>2
<1>6. QED
  BY <1>4, <1>5 DEF OnlyHandledReported

\* Only what was handled is reported when an ack arrives.
LEMMA ReceiveAckReports ==
  ASSUME Types, Phases, Listed, Outgoing, Accounted, OnlyHandledReported, ReceiveAck
  PROVE  OnlyHandledReported'
<1>1. sm = "started" /\ handled' = handled
  BY AckReceived DEF ReceiveAck
<1>2. PICK c, w, d, p, k, b : AckTaken(c, w, d, p, k, b)
  BY AckReceived
<1>3. prevUnacked = <<>> /\ Live
  BY <1>1 DEF Phases, Ordered, Live
<1>4. PICK h, o, t : h = server.in /\ o = Open /\ t = tracked
  OBVIOUS
<1>5. /\ h \in Nat /\ o \in Nat /\ t \in Nat /\ k \in Nat /\ b \in Nat /\ c \in Nat /\ d[1] \in Nat
      /\ c <= d[1] /\ d[1] <= h
  <2>1. Len(unackedByServer) \in Nat /\ Len(prevUnacked) \in Nat
    BY ListTypes
  <2>2. QED
    BY <1>2, <1>4, <2>1, ListTypes DEF AckTaken, Account, Open
<1>6. k - 0 <= b - c /\ b <= d[1] /\ Stands(p, k, b) /\ Took(p)
  BY <1>2 DEF AckTaken, Takes
<1>7. t - o <= c
  BY <1>1, <1>2, <1>4 DEF AckTaken, Account, Acked
<1>8. t - o + k <= h
  <2>1. PICK q : q = d[1]
    OBVIOUS
  <2>2. QED
    BY ONLY <1>5, <1>6, <1>7, <2>1
<1>9. Covered(h)
  BY <1>3, <1>4 DEF Outgoing
<1>10. QED
  BY <1>1, <1>3, <1>4, <1>5, <1>6, <1>8, <1>9, ReportsHandled

\* Only what was handled is reported when a stanza gets its name.
LEMMA StanzaIdAnsweredReports ==
  ASSUME Types, Phases, Listed, Accounted, OnlyHandledReported, NEW n \in unanswered, StanzaIdAnswered(n)
  PROVE  OnlyHandledReported'
<1>1. PICK c, w, d, p, k, b : NameTaken(n, c, w, d, p, k, b)
  BY NameAnswered
<1>2. UNCHANGED <<sm, prevUnacked, tracked, server, handled>>
  BY DEF StanzaIdAnswered
<1>3. CASE unprocessed = <<>>
  <2>1. reported' = reported
    BY <1>1, <1>3, NameAlone
  <2>2. QED
    BY <1>2, <2>1 DEF OnlyHandledReported
<1>4. CASE unprocessed # <<>>
  <2>1. PICK l : l = Len(unprocessed)
    OBVIOUS
  <2>2. c \in Nat /\ c <= b /\ k <= b - c /\ b <= w[l]
    BY <1>1, <1>2, <1>4, <2>1, NamesTaken
  <2>3. l \in 1..l
    BY <1>4, <2>1, ListTypes, NonEmpty
  <2>4. w[l] \in Nat /\ Covered(w[l])
    BY <1>1, <2>1, <2>3 DEF NameTaken, Account, Waiting
  <2>5. k \in Nat /\ b \in Nat /\ Stands(p, k, b) /\ Took(p)
    BY <1>1 DEF NameTaken
  <2>6. prevUnacked = <<>>
    BY <1>4 DEF Phases, Ordered, Resumption, Resuming
  <2>7. PICK o, t, m : o = Open /\ t = tracked /\ m = Len(unackedByServer)
    OBVIOUS
  <2>8. o = m /\ m \in Nat /\ t \in Nat /\ k <= m
    <3>1. Len(prevUnacked) = 0
      BY <2>6, EmptySeq
    <3>2. k \in 0..m
      BY <2>5, <2>7, ListAfter
    <3>3. QED
      BY <2>7, <3>1, <3>2, ListTypes DEF Open
  <2>9. k > 0 => t - o <= c
    <3>1. k > 0 => o > 0
      BY ONLY <2>5, <2>8
    <3>2. QED
      BY <1>1, <1>4, <2>7, <3>1 DEF NameTaken, Account, Acked
  <2>10. k > 0 => t - o + k <= w[l]
    BY ONLY <2>2, <2>4, <2>5, <2>8, <2>9
  <2>11. QED
    BY <1>2, <2>4, <2>5, <2>6, <2>7, <2>10, ReportsHandled
<1>5. QED
  BY <1>3, <1>4

\* Only what was handled is reported when the session is resumed.
LEMMA ReceiveResumedReports ==
  ASSUME Types, Phases, Listed, Pending, Outgoing, Accounted, OnlyHandledReported, ReceiveResumed
  PROVE  OnlyHandledReported'
<1>1. Live /\ unackedByServer = <<>> /\ handled' = handled
  BY Resumed DEF ReceiveResumed
<1>2. PICK c, n, x : /\ c \in Nat /\ c <= server.in
                     /\ tracked - Len(prevUnacked) <= c \/ Len(prevUnacked) = 0
                     /\ ResumedTaken(Len(prevUnacked), n, x) /\ n <= server.in - c
  BY Resumed
<1>3. PICK o, s, t, h, a, r : /\ o = Len(prevUnacked) /\ s = sent /\ t = tracked /\ h = server.in
                              /\ a = Len(reported) /\ r = reported
  OBVIOUS
<1>4. /\ o \in Nat /\ s \in Nat /\ t \in Nat /\ h \in Nat /\ a \in Nat /\ n \in Nat /\ n <= o
      /\ x \in Seq(Nat) /\ reported' = r \o x /\ r \in Seq(Nat)
      /\ \A i \in 1..Len(x) : x[i] > s - o /\ x[i] <= s - o + n
  BY <1>2, <1>3, ListTypes DEF ResumedTaken, Types, HistoryType
<1>5. \A j \in (s - o + 1)..((s - t) + h) : j \in handled
  <2>1. Open = o
    BY <1>1, <1>3, <1>4, EmptySeq DEF Open
  <2>2. QED
    BY <1>1, <1>3, <2>1 DEF Outgoing, Covered, Before
<1>6. ASSUME NEW i \in 1..Len(x) PROVE x[i] \in handled
  <2>1. x[i] \in Nat /\ x[i] > s - o /\ x[i] <= s - o + n
    BY <1>4, ElementOfSeq
  <2>2. t - o <= c \/ o = 0
    BY <1>2, <1>3
  <2>3. n <= h - c /\ c <= h
    BY <1>2, <1>3
  <2>4. x[i] \in (s - o + 1)..((s - t) + h)
    <3>1. PICK y : y = x[i]
      OBVIOUS
    <3>2. y \in Nat /\ y > s - o /\ y <= s - o + n /\ c \in Nat
      BY <1>2, <2>1, <3>1
    <3>3. o \in Nat /\ s \in Nat /\ t \in Nat /\ h \in Nat /\ n \in Nat /\ n <= o
      BY <1>4
    <3>4. y \in (s - o + 1)..((s - t) + h)
      BY ONLY <2>2, <2>3, <3>2, <3>3
    <3>5. QED
      BY <3>1, <3>4
  <2>5. QED
    BY <1>5, <2>4
<1>7. PICK b, z : b = Len(x) /\ z = reported'
  OBVIOUS
<1>8. b \in Nat /\ z \in Seq(Nat) /\ Len(z) = a + b
      /\ \A i \in 1..(a + b) : z[i] = IF i <= a THEN r[i] ELSE x[i - a]
  BY <1>3, <1>4, <1>7, ConcatProperties, NonEmpty
<1>9. ASSUME NEW i \in 1..(a + b) PROVE z[i] \in handled
  <2>1. CASE i <= a
    <3>1. i \in DOMAIN reported
      BY <1>3, <1>4, <1>8, <2>1, LenProperties
    <3>2. QED
      BY <1>3, <1>8, <2>1, <3>1 DEF OnlyHandledReported
  <2>2. CASE ~(i <= a)
    <3>1. i - a \in 1..b
      BY <1>4, <1>8, <2>2
    <3>2. QED
      BY <1>6, <1>7, <1>8, <2>2, <3>1
  <2>3. QED
    BY <2>1, <2>2
<1>10. DOMAIN z = 1..(a + b)
  BY <1>8, LenProperties
<1>11. QED
  BY <1>1, <1>7, <1>9, <1>10 DEF OnlyHandledReported

-----------------------------------------------------------------------------
(* The account is kept by every step.                                      *)

Core ==
  Types /\ Phases /\ Listed /\ Pending /\ Outgoing /\ Accounted /\ OnlyHandledReported

\* The invariant holds in the beginning.
LEMMA InitCore == Init => Core
<1> SUFFICES ASSUME Init PROVE Core
  OBVIOUS
<1>1. Types
  BY InitTypes
<1>2. /\ conn = "down" /\ sm = "off" /\ store = NoStore /\ server = NoSession
      /\ unackedByServer = <<>> /\ prevUnacked = <<>> /\ unprocessed = <<>> /\ reported = <<>>
      /\ up = <<>> /\ down = <<>> /\ ~requestTimer /\ tracked = 0 /\ ids = 0
  BY DEF Init
<1>3. ~Match /\ ~Resumable /\ ~Live /\ ~Counting
  BY <1>2 DEF Match, Resumable, Live, Counting, NoStore
<1>4. Phases
  <2>1. Ordered /\ Offline /\ Unmanaged /\ Resumption /\ Enabling /\ Started
    BY <1>2 DEF Ordered, Offline, Unmanaged, Resumption, Enabling, Started, NoSession
  <2>2. Sessions
    BY <1>2 DEF Sessions, NoSession, NoStore, NoId
  <2>3. QED
    BY <2>1, <2>2 DEF Phases
<1>5. Len(unackedByServer) = 0 /\ Len(reported) = 0 /\ Len(unprocessed) = 0
  BY <1>2, EmptySeq
<1>6. Listed
  BY <1>2, <1>5 DEF Listed
<1>7. Pending /\ Outgoing
  BY <1>3 DEF Pending, Outgoing
<1>8. Accounted
  <2>1. Acked(0)
    BY <1>2, <1>3 DEF Acked
  <2>2. Waiting(0, <<>>)
    BY <1>5 DEF Waiting
  <2>3. Arriving(0, <<>>, <<>>)
    BY <1>2, EmptySeq DEF Arriving
  <2>4. QED
    BY <2>1, <2>2, <2>3 DEF Account, Accounted
<1>9. OnlyHandledReported
  BY <1>2 DEF OnlyHandledReported
<1>10. QED
  BY <1>1, <1>4, <1>6, <1>7, <1>8, <1>9 DEF Core

\* A step that changes nothing keeps the invariant.
LEMMA CoreStutters ==
  ASSUME Core, UNCHANGED vars
  PROVE  Core'
<1>1. UNCHANGED <<conn, sm, store, unackedByServer, lastRequestOffset, requestTimer,
                  lastHandledByServer, prevUnacked, unprocessed, lastHandledByClient, lastAckOffset,
                  sent, unanswered, tracked, up, down, server, connects, ids, handled, reported, got>>
  BY DEF vars, outgoing, incoming, sentVars, wire, counters, history
<1>2. Types'
  BY <1>1 DEF Core, Types, PhaseType, ListType, AckType, StoreType, WireType, ServerType, SentType,
     HistoryType
<1>3. /\ Match' = Match /\ Resumable' = Resumable /\ Before' = Before /\ Open' = Open
      /\ Counting' = Counting /\ Live' = Live
  BY <1>1 DEF Match, Resumable, Before, Open, Counting, Live
<1>4. Phases'
  <2>1. Resuming' = Resuming /\ Requesting' = Requesting /\ Refused' = Refused /\ Granted' = Granted
    BY <1>1 DEF Resuming, Requesting, Refused, Granted, Match
  <2>2. QED
    BY <1>1, <2>1 DEF Core, Phases, Ordered, Sessions, Offline, Unmanaged, Resumption, Enabling, Started
<1>5. Listed' /\ Pending'
  BY <1>1, <1>3 DEF Core, Listed, Pending
<1>6. \A n : Covered(n)' = Covered(n)
  BY <1>1, <1>3 DEF Covered
<1>7. Outgoing'
  BY <1>1, <1>3, <1>6 DEF Core, Outgoing
<1>8. Accounted'
  <2>1. PICK c, w, d : Account(c, w, d)
    BY DEF Core, Accounted
  <2>2. Acked(c)'
    BY <1>1, <1>3, <2>1 DEF Account, Acked
  <2>3. Waiting(c, w)'
    BY <1>1, <1>3, <1>6, <2>1 DEF Account, Waiting
  <2>4. Arriving(c, w, d)'
    BY <1>1, <2>1 DEF Account, Arriving
  <2>5. QED
    BY <2>1, <2>2, <2>3, <2>4 DEF Account, Accounted
<1>9. OnlyHandledReported'
  BY <1>1 DEF Core, OnlyHandledReported
<1>10. QED
  BY <1>2, <1>4, <1>5, <1>7, <1>8, <1>9 DEF Core

\* Every step keeps the invariant.
LEMMA CoreStep ==
  ASSUME Core, [Next]_vars
  PROVE  Core'
<1> USE DEF Core
<1>1. CASE Connect
  <2>1. Types' /\ Phases'
    BY <1>1, ConnectTypes, ConnectPhases
  <2>2. QED
    BY <1>1, <2>1, ListsStay, ConnectOutgoing, AccountStays, ReportsStay
<1>2. CASE SendResume
  <2>1. Types' /\ Phases'
    BY <1>2, SendResumeTypes, SendResumePhases
  <2>2. QED
    BY <1>2, <2>1, SendResumeLists, SendResumeOutgoing, SendResumeAccounted, ReportsStay
<1>3. CASE BindAnew
  <2>1. Types' /\ Phases'
    BY <1>3, BindAnewTypes, BindAnewPhases
  <2>2. QED
    BY <1>3, <2>1, ListsUnused, NothingOutgoing, AccountUnused, ReportsStay
<1>4. CASE EnableStreamManagement
  <2>1. Types' /\ Phases'
    BY <1>4, EnableStreamManagementTypes, EnableStreamManagementPhases
  <2>2. QED
    BY <1>4, <2>1, EnablingLists, NothingOutgoing, NothingAccounted, ReportsStay
<1>5. CASE NotOffered
  <2>1. Types' /\ Phases'
    BY <1>5, NotOfferedTypes, NotOfferedPhases
  <2>2. QED
    BY <1>5, <2>1, ListsUnused, ConnectOutgoing, AccountUnused, ReportsStay
<1>6. CASE DidSendEnable
  <2>1. Types' /\ Phases'
    BY <1>6, DidSendEnableTypes, DidSendEnablePhases
  <2>2. QED
    BY <1>6, <2>1, EnablingLists, DidSendEnableOutgoing, NothingAccounted, ReportsStay
<1>7. CASE ReceiveResumeFailed
  <2>1. Types' /\ Phases'
    BY <1>7, ReceiveResumeFailedTypes, ReceiveResumeFailedPhases
  <2>2. QED
    BY <1>7, <2>1, ListsUnused, NothingOutgoing, NothingAccounted, ReportsStay
<1>8. CASE ReceiveResumed
  <2>1. Types' /\ Phases'
    BY <1>8, ReceiveResumedTypes, ReceiveResumedPhases
  <2>2. QED
    BY <1>8, <2>1, ReceiveResumedLists, ReceiveResumedOutgoing, ReceiveResumedAccounted, ReceiveResumedReports
<1>9. CASE ReceiveEnabled
  <2>1. Types' /\ Phases'
    BY <1>9, ReceiveEnabledTypes, ReceiveEnabledPhases
  <2>2. QED
    BY <1>9, <2>1, ReceiveEnabledLists, ReceiveEnabledOutgoing, ReceiveEnabledAccounted, ReportsStay
<1>10. CASE ReceiveNotEnabled
  <2>1. Types' /\ Phases'
    BY <1>10, ReceiveNotEnabledTypes, ReceiveNotEnabledPhases
  <2>2. QED
    BY <1>10, <2>1, ListsUnused, NothingOutgoing, NothingAccounted, ReportsStay
<1>11. CASE ReceiveAck
  <2>1. Types' /\ Phases'
    BY <1>11, ReceiveAckTypes, ReceiveAckPhases
  <2>2. QED
    BY <1>11, <2>1, ReceiveAckLists, ReceiveAckOutgoing, ReceiveAckAccounted, ReceiveAckReports
<1>12. CASE ReceiveStanza
  <2>1. Types' /\ Phases'
    BY <1>12, ReceiveStanzaTypes, ReceiveStanzaPhases
  <2>2. QED
    BY <1>12, <2>1, ListsUnused, ReceiveStanzaOutgoing, ReceiveStanzaAccounted, ReportsStay
<1>13. CASE SendStanza
  <2>1. Types' /\ Phases'
    BY <1>13, SendStanzaTypes, SendStanzaPhases
  <2>2. QED
    BY <1>13, <2>1, SendStanzaLists, SendStanzaOutgoing, SendStanzaAccounted, ReportsStay
<1>14. CASE RequestTimerFires
  <2>1. Types' /\ Phases'
    BY <1>14, RequestTimerFiresTypes, RequestTimerFiresPhases
  <2>2. QED
    BY <1>14, <2>1, ListsStay, SentOutgoing, AccountStays, ReportsStay
<1>15. CASE SendAck
  <2>1. Types' /\ Phases'
    BY <1>15, SendAckTypes, SendAckPhases
  <2>2. QED
    BY <1>15, <2>1, ListsStay, SentOutgoing, AccountStays, ReportsStay
<1>16. ASSUME NEW n \in unanswered, StanzaIdAnswered(n) PROVE Core'
  <2>1. Types' /\ Phases'
    BY <1>16, StanzaIdAnsweredTypes, StanzaIdAnsweredPhases
  <2>2. QED
    BY <1>16, <2>1, StanzaIdAnsweredLists, StanzaIdAnsweredOutgoing, StanzaIdAnsweredAccounted, StanzaIdAnsweredReports
<1>17. ASSUME NEW clean \in BOOLEAN, Disconnect(clean) PROVE Core'
  <2>1. Types' /\ Phases'
    BY <1>17, DisconnectTypes, DisconnectPhases
  <2>2. QED
    BY <1>17, <2>1, DisconnectLists, DisconnectOutgoing, DisconnectAccounted, ReportsStay
<1>18. CASE ServerEnables
  <2>1. Types' /\ Phases'
    BY <1>18, ServerEnablesTypes, ServerEnablesPhases
  <2>2. QED
    BY <1>18, <2>1, ListsUnused, ServerEnablesOutgoing, ServerEnablesAccounted, ReportsStay
<1>19. CASE ServerResumes
  <2>1. Types' /\ Phases'
    BY <1>19, ServerResumesTypes, ServerResumesPhases
  <2>2. QED
    BY <1>19, <2>1, ListsStay, ServerResumesOutgoing, ServerResumesAccounted, ReportsStay
<1>20. CASE ServerHandles
  <2>1. Types' /\ Phases'
    BY <1>20, ServerHandlesTypes, ServerHandlesPhases
  <2>2. QED
    BY <1>20, <2>1, ListsStay, ServerHandlesOutgoing, AccountStays, ReportsStay
<1>21. CASE ServerAcks
  <2>1. Types' /\ Phases'
    BY <1>21, ServerAcksTypes, ServerAcksPhases
  <2>2. QED
    BY <1>21, <2>1, ListsStay, ServerAcksOutgoing, ServerAcksAccounted, ReportsStay
<1>22. CASE ServerIsAcked
  <2>1. Types' /\ Phases'
    BY <1>22, ServerIsAckedTypes, ServerIsAckedPhases
  <2>2. QED
    BY <1>22, <2>1, ListsStay, ServerIsAckedOutgoing, AccountStays, ReportsStay
<1>23. CASE ServerSends
  <2>1. Types' /\ Phases'
    BY <1>23, ServerSendsTypes, ServerSendsPhases
  <2>2. QED
    BY <1>23, <2>1, ListsStay, ServerSendsOutgoing, AccountStays, ReportsStay
<1>24. CASE SessionExpires
  <2>1. Types' /\ Phases'
    BY <1>24, SessionExpiresTypes, SessionExpiresPhases
  <2>2. QED
    BY <1>24, <2>1, ListsUnused, NothingOutgoing, AccountUnused, ReportsStay
<1>25. CASE UNCHANGED vars
  BY <1>25, CoreStutters
<1>26. QED
  BY <1>1, <1>2, <1>3, <1>4, <1>5, <1>6, <1>7, <1>8, <1>9, <1>10, <1>11, <1>12, <1>13, <1>14, <1>15, <1>16, <1>17, <1>18, <1>19, <1>20, <1>21, <1>22, <1>23, <1>24, <1>25
  DEF Next, ClientReceives, Serve

\* The invariant holds in every reachable state.
THEOREM CoreHolds == Spec => []Core
<1>1. QED
  BY InitCore, CoreStep, PTL DEF Spec

\* Every variable keeps its type, for any modulus and any bounds.
THEOREM TypesHold == Spec => []TypeOK
<1>1. Core => TypeOK
  BY TypesGiveTypeOK DEF Core
<1>2. QED
  BY <1>1, CoreHolds, PTL

\* No stanza is reported as acked that the server did not handle: whatever is lost,
\* however often the session is resumed or begun anew, however late the stanzas get
\* their names, and although the counters wrap around.
THEOREM OnlyHandledReportedHolds == Spec => []OnlyHandledReported
<1>1. Core => OnlyHandledReported
  BY DEF Core
<1>2. QED
  BY <1>1, CoreHolds, PTL

\* Reports come in the order the stanzas were sent, and no stanza is reported twice.
THEOREM ReportedInOrderHolds == Spec => []ReportedInOrder
<1>1. Core => ReportedInOrder
  <2>1. SUFFICES ASSUME Core PROVE ReportedInOrder
    OBVIOUS
  <2>2. DOMAIN reported = 1..Len(reported)
    BY <2>1, LenProperties DEF Core, Types, HistoryType
  <2>3. QED
    BY <2>1, <2>2 DEF Core, Listed, ReportedInOrder
<1>2. QED
  BY <1>1, CoreHolds, PTL

\* Until the counter of the server wraps around, what it is known to have handled and
\* the list of the others make up all that was sent.
THEOREM LedgerBalancesHolds == Spec => []LedgerBalances
<1>1. Core => LedgerBalances
  <2>1. SUFFICES ASSUME Core, sm = "started", server.in < Modulus
                 PROVE  (lastHandledByServer + Len(unackedByServer)) % Modulus = tracked % Modulus
    BY DEF LedgerBalances
  <2>2. PICK c, w, d : Account(c, w, d)
    BY <2>1 DEF Core, Accounted
  <2>3. PICK n, t : n = Len(unackedByServer) /\ t = tracked
    OBVIOUS
  <2>4. Open = n /\ n \in Nat /\ t \in Nat
    <3>1. prevUnacked = <<>>
      BY <2>1 DEF Core, Phases, Ordered
    <3>2. Len(prevUnacked) = 0
      BY <3>1, EmptySeq
    <3>3. n \in Nat /\ t \in Nat
      BY <2>1, <2>3, ListTypes DEF Core
    <3>4. QED
      BY <2>3, <3>2, <3>3 DEF Open
  <2>5. c \in Nat /\ lastHandledByServer = c % Modulus /\ c = t - n
    BY <2>1, <2>2, <2>3, <2>4 DEF Account, Acked
  <2>6. ((c % Modulus) + n) % Modulus = (c + n) % Modulus
    BY <2>4, <2>5, ModulusSum
  <2>7. c + n = t
    BY ONLY <2>4, <2>5
  <2>8. QED
    BY <2>3, <2>5, <2>6, <2>7
<1>2. QED
  BY <1>1, CoreHolds, PTL
=============================================================================
