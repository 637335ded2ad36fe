--------------------------- MODULE SpooferProofs ---------------------------
(***************************************************************************)
(* For any devices, node lists and exclusions, broadcasts on or off: the   *)
(* spoofer redirects nobody before the user's exclusions have arrived, and *)
(* when nothing else runs after the signal, on_terminate undoes what it    *)
(* did between the nodes it spoofed last.                                  *)
(***************************************************************************)
EXTENDS Spoofer, SequenceFacts

-----------------------------------------------------------------------------
(* Who may be spoofed and when.                                            *)

(* What the ARP tables are, and what the coroutine spoof() knows where it  *)
(* is suspended: once it has left the idle loop there is a blacklist,      *)
(* which is only forgotten together with the coroutine.                    *)
ArpType == arp \in [Devices -> [Devices -> BOOLEAN]]

Gate == spoof # "idle" => blacklist # None

GInv == ArpType /\ Gate

(* A packet changes the tables of those who hear it, for the better or for *)
(* the worse, and keeps their type.                                        *)
LEMMA SendArpEffect ==
  ASSUME ArpType, NEW pair, NEW spoofed \in BOOLEAN, SendArp(pair, spoofed)
  PROVE  /\ ArpType'
         /\ ~spoofed => \A d, e \in Devices : arp'[d][e] => arp[d][e]
<1>1. ArpType'
  BY DEF ArpType, SendArp
<1>2. ASSUME ~spoofed, NEW d \in Devices, NEW e \in Devices, arp'[d][e]
      PROVE  arp[d][e]
  <2>1. arp[d] \in [Devices -> BOOLEAN]
    BY DEF ArpType
  <2>2. CASE d \in Hears(pair[1], pair[2])
    <3>1. arp'[d] = [arp[d] EXCEPT ![pair[2]] = spoofed]
      BY <2>2 DEF SendArp
    <3> QED
      BY <1>2, <2>1, <3>1
  <2>3. CASE d \notin Hears(pair[1], pair[2])
    BY <1>2, <2>3 DEF SendArp
  <2> QED
    BY <2>2, <2>3
<1> QED
  BY <1>1, <1>2

(* Nor does a device that corrects an entry redirect anybody.              *)
LEMMA CorrectedEffect ==
  ASSUME ArpType, NEW p \in Devices, NEW q \in Devices, Corrected(p, q)
  PROVE  ArpType' /\ \A d, e \in Devices : arp'[d][e] => arp[d][e]
<1>1. arp' = [arp EXCEPT ![p] = [arp[p] EXCEPT ![q] = FALSE]]
  BY DEF Corrected
<1>2. arp \in [Devices -> [Devices -> BOOLEAN]]
  BY DEF ArpType
<1>3. \A d, e \in Devices : arp'[d][e] => arp[d][e]
  BY <1>1, <1>2
<1> QED
  BY <1>1, <1>2, <1>3 DEF ArpType

LEMMA InitGInv == Init => GInv
BY DEF Init, GInv, ArpType, Gate

LEMMA NextGInv == GInv /\ [Next]_vars => GInv'
<1> SUFFICES ASSUME GInv, [Next]_vars PROVE GInv'
  OBVIOUS
<1> USE DEF GInv
<1>1. ASSUME NEW ns \in NodeLists, OnNodeconfig(ns) PROVE GInv'
  BY <1>1 DEF OnNodeconfig, spoofVars, ArpType, Gate
<1>2. ASSUME NEW bl \in Blacklists, OnWhitelist(bl) PROVE GInv'
  <2>1. bl # None
    BY SpooferAssumption
  <2> QED
    BY <1>2, <2>1 DEF OnWhitelist, spoofVars, ArpType, Gate
<1>3. CASE Configure
  BY <1>3 DEF Configure, spoofVars, ArpType, Gate
<1>4. CASE SpoofStart
  BY <1>4 DEF SpoofStart, MaySpoof, attributes, ArpType, Gate
<1>5. CASE SpoofRound
  <2>1. ArpType'
    BY <1>5, SendArpEffect DEF SpoofRound, ArpType
  <2>2. Gate'
    BY <1>5 DEF SpoofRound, attributes, Gate
  <2> QED
    BY <2>1, <2>2
<1>6. CASE SpoofSend
  <2>1. ArpType'
    BY <1>6, SendArpEffect DEF SpoofSend
  <2>2. Gate'
    BY <1>6 DEF SpoofSend, attributes, Gate
  <2> QED
    BY <2>1, <2>2
<1>7. CASE SpoofRoundDone
  BY <1>7 DEF SpoofRoundDone, attributes, ArpType, Gate
<1>8. ASSUME NEW t \in {"listener", "spoof"}, Fail(t) PROVE GInv'
  BY <1>8 DEF Fail, attributes, spoofVars, ArpType, Gate
<1>9. CASE Restart
  BY <1>9 DEF Restart, FreshModule, ArpType, Gate
<1>10. ASSUME NEW dies \in {{}, {"listener"}, {"spoof"}}, Interrupt(dies) PROVE GInv'
  BY <1>10 DEF Interrupt, attributes, spoofVars, ArpType, Gate
<1>11. CASE Restore
  <2>1. ArpType'
    BY <1>11, SendArpEffect DEF Restore
  <2>2. Gate'
    BY <1>11 DEF Restore, attributes, spoofVars, Gate
  <2> QED
    BY <2>1, <2>2
<1>12. CASE RestoreFails
  BY <1>12 DEF RestoreFails, attributes, spoofVars, ArpType, Gate
<1>13. CASE Sigkill
  BY <1>13 DEF Sigkill, attributes, spoofVars, ArpType, Gate
<1>14. ASSUME NEW d \in Devices, NEW e \in Devices, Corrected(d, e) PROVE GInv'
  <2>1. ArpType'
    BY <1>14, CorrectedEffect DEF ArpType
  <2>2. Gate'
    BY <1>14 DEF Corrected, attributes, spoofVars, Gate
  <2> QED
    BY <2>1, <2>2
<1>15. CASE UNCHANGED vars
  BY <1>15 DEF vars, attributes, spoofVars, ArpType, Gate
<1> QED
  BY <1>1, <1>2, <1>3, <1>4, <1>5, <1>6, <1>7, <1>8, <1>9, <1>10, <1>11, <1>12, <1>13, <1>14,
     <1>15
     DEF Next, ListenerStep, SpoofStep

(* Only the two sends of spoof() redirect anybody, and they are behind the *)
(* gate.                                                                   *)
LEMMA OnlyBehindGate ==
  ASSUME GInv, [Next]_vars, NEW d \in Devices, NEW e \in Devices, ~arp[d][e], arp'[d][e]
  PROVE  blacklist # None
<1> USE DEF GInv
<1>1. CASE SpoofRound \/ SpoofSend
  BY <1>1 DEF SpoofRound, SpoofSend, Gate
<1>2. CASE Restore
  BY <1>2, SendArpEffect DEF Restore
<1>3. ASSUME NEW p \in Devices, NEW q \in Devices, Corrected(p, q) PROVE FALSE
  BY <1>3, CorrectedEffect
<1>4. CASE UNCHANGED arp
  BY <1>4
<1>5. \/ SpoofRound \/ SpoofSend \/ Restore
      \/ \E p, q \in Devices : Corrected(p, q)
      \/ UNCHANGED arp
  BY DEF Next, vars, ListenerStep, SpoofStep, OnNodeconfig, OnWhitelist, Configure, SpoofStart,
         SpoofRoundDone, Fail, Restart, Interrupt, RestoreFails, Sigkill
<1> QED
  BY <1>1, <1>2, <1>3, <1>4, <1>5

(* No device is redirected before the user's exclusions have arrived, in   *)
(* any incarnation of the module (spoofer.py:56-57).                       *)
THEOREM NobodyBeforeWhitelist == Spec => NoSpoofBeforeWhitelist
<1>1. GInv /\ [Next]_vars => [\A d, e \in Devices : ~arp[d][e] /\ arp'[d][e] => blacklist # None]_vars
  BY OnlyBehindGate
<1> QED
  BY <1>1, InitGInv, NextGInv, PTL DEF Spec, NoSpoofBeforeWhitelist

-----------------------------------------------------------------------------
(* What the process restores on its way out.                               *)

(* Quotients and rests, which number the pairs of a list row by row.       *)
LEMMA Divides ==
  ASSUME NEW d \in Nat \ {0}, NEW a \in Nat
  PROVE  a \div d \in Nat /\ a % d \in 0 .. d - 1 /\ a = (a \div d) * d + (a % d)
  OBVIOUS

(* Products grow with their factors.                                       *)
LEMMA Times ==
  ASSUME NEW d \in Nat, NEW p \in Nat, NEW q \in Nat, p <= q
  PROVE  p * d <= q * d
  OBVIOUS

(* What divides with a rest is the quotient.                               *)
LEMMA Quotient ==
  ASSUME NEW d \in Nat \ {0}, NEW q \in Nat, NEW r \in 0 .. d - 1
  PROVE  (q * d + r) \div d = q /\ (q * d + r) % d = r
<1> DEFINE a == q * d + r
           p == a \div d
           s == a % d
<1>1. a \in Nat
  OBVIOUS
<1>2. p \in Nat /\ s \in 0 .. d - 1 /\ a = p * d + s
  BY <1>1, Divides
<1>3. a = q * d + r /\ q * d \in Nat /\ p * d \in Nat
  BY <1>2
<1> HIDE DEF a, p, s
<1>4. ~(p < q)
  <2> SUFFICES ASSUME p < q PROVE FALSE
    OBVIOUS
  <2>1. p + 1 <= q /\ p + 1 \in Nat
    BY <1>2
  <2>2. (p + 1) * d <= q * d
    BY <1>2, <2>1, Times
  <2>3. (p + 1) * d = p * d + d
    BY <1>2
  <2> QED
    BY <1>2, <1>3, <2>2, <2>3
<1>5. ~(q < p)
  <2> SUFFICES ASSUME q < p PROVE FALSE
    OBVIOUS
  <2>1. q + 1 <= p /\ q + 1 \in Nat
    BY <1>2
  <2>2. (q + 1) * d <= p * d
    BY <1>2, <2>1, Times
  <2>3. (q + 1) * d = q * d + d
    OBVIOUS
  <2> QED
    BY <1>2, <1>3, <2>2, <2>3
<1>6. p = q /\ s = r
  BY <1>2, <1>3, <1>4, <1>5
<1> QED
  BY <1>6 DEF a, p, s

(* There are no more quotients than rows.                                  *)
LEMMA Quotients ==
  ASSUME NEW d \in Nat \ {0}, NEW n \in Nat, NEW a \in 0 .. n * d - 1
  PROVE  a \div d \in 0 .. n - 1
<1>1. a \in Nat /\ n * d \in Nat /\ a < n * d
  OBVIOUS
<1> DEFINE p == a \div d
           s == a % d
<1>2. p \in Nat /\ s \in 0 .. d - 1 /\ a = p * d + s
  BY <1>1, Divides
<1> HIDE DEF p, s
<1>3. ~(n <= p)
  <2> SUFFICES ASSUME n <= p PROVE FALSE
    OBVIOUS
  <2>1. n * d <= p * d /\ p * d \in Nat
    BY <1>2, Times
  <2> QED
    BY <1>1, <1>2, <2>1
<1> QED
  BY <1>2, <1>3 DEF p
(* Nodes, each of them once.                                               *)
Nodes ==
  {ns \in Seq(Devices) : \A i, j \in 1..Len(ns) : i # j => ns[i] # ns[j]}

(* Without the excluded ones they are still that.                          *)
LEMMA WithoutIsNodes ==
  ASSUME NEW ns \in Nodes, NEW bl
  PROVE  Without(ns, bl) \in Nodes
<1> DEFINE n == Len(ns)
           kept == {i \in 1..n : ns[i] \notin bl}
           Upto(p) == {j \in kept : j <= p}
           At(k) == CHOOSE i \in kept : Cardinality(Upto(i)) = k
           c == Cardinality(kept)
           w == [k \in 1..c |-> ns[At(k)]]
<1>1. n \in Nat /\ ns \in [1..n -> Devices] /\ \A i, j \in 1..n : i # j => ns[i] # ns[j]
  BY DEF Nodes
<1>2. (\A i \in kept : i \in 1..n) /\ IsFiniteSet(kept) /\ c \in Nat
  <2>1. IsFiniteSet(1..n)
    BY <1>1, FS_Interval
  <2>2. kept \in SUBSET (1..n)
    OBVIOUS
  <2> QED
    BY <2>1, <2>2, FS_Subset, FS_CardinalityType
<1>3. Without(ns, bl) = w
  BY DEF Without
<1> HIDE DEF n, kept, c
<1>4. \A k \in 1..c : At(k) \in kept /\ Cardinality(Upto(At(k))) = k
  <2> TAKE k \in 1..c
  <2>1. \E i \in kept : Cardinality(Upto(i)) = k
    <3>1. k \in 1..Cardinality(kept)
      BY DEF c
    <3>2. n \in Nat /\ \A x \in kept : x \in 1..n
      BY <1>1, <1>2
    <3>3. \E p \in kept : Cardinality({x \in kept : x <= p}) = k
      BY <3>1, <3>2, NthPosition, ZenonT(60)
    <3> QED
      BY <3>3
  <2> QED
    BY <2>1, Zenon
<1> HIDE DEF At
<1>5. w \in Seq(Devices) /\ Len(w) = c /\ \A k \in 1..c : w[k] = ns[At(k)]
  <2>1. \A k \in 1..c : ns[At(k)] \in Devices
    BY <1>1, <1>2, <1>4
  <2> QED
    BY <1>2, <2>1
<1> HIDE DEF w
<1>6. ASSUME NEW k \in 1..c, NEW l \in 1..c, k # l PROVE w[k] # w[l]
  <2>1. At(k) # At(l)
    BY <1>4, <1>6, Zenon
  <2> QED
    BY <1>1, <1>2, <1>4, <1>5, <2>1
<1> QED
  BY <1>3, <1>5, <1>6 DEF Nodes

(* Every ordered pair of nodes is among the permutations.                  *)
LEMMA AllPairs ==
  ASSUME NEW ns \in Seq(Devices)
  PROVE  /\ Permutations2(ns) \in Seq(Devices \X Devices)
         /\ \A i, j \in 1..Len(ns) : i # j =>
              \E k \in 1..Len(Permutations2(ns)) : Permutations2(ns)[k] = <<ns[i], ns[j]>>
<1> DEFINE n == Len(ns)
           d == n - 1
           Row(k) == ((k - 1) \div d) + 1
           Place(k) == ((k - 1) % d) + 1
           Other(k) == IF Place(k) < Row(k) THEN Place(k) ELSE Place(k) + 1
           P == [k \in 1..(n * d) |-> <<ns[Row(k)], ns[Other(k)]>>]
<1>1. n \in Nat /\ ns \in [1..n -> Devices] /\ Permutations2(ns) = P
  BY DEF Permutations2
<1> HIDE DEF n
<1>2. CASE n < 2
  <2>1. n * d = 0
    <3>1. n = 0 \/ n = 1
      BY <1>1, <1>2
    <3> QED
      BY <3>1
  <2>2. P = << >>
    BY <2>1
  <2> QED
    BY <1>1, <1>2, <2>2 DEF n
<1>3. CASE n >= 2
  <2>1. d \in Nat \ {0} /\ n * d \in Nat
    BY <1>1, <1>3
  <2>2. ASSUME NEW k \in 1..(n * d)
        PROVE  Row(k) \in 1..n /\ Other(k) \in 1..n
    <3> DEFINE a == k - 1
    <3>1. a \in 0..n * d - 1 /\ a \in Nat
      BY <2>1
    <3> HIDE DEF a
    <3>2. a \div d \in 0..n - 1 /\ a % d \in 0..d - 1
      BY <1>1, <2>1, <3>1, Divides, Quotients
    <3>3. Row(k) = (a \div d) + 1 /\ Place(k) = (a % d) + 1
      BY DEF a
    <3> HIDE DEF Row, Place
    <3> QED
      BY <1>1, <1>3, <3>2, <3>3
  <2>3. ASSUME NEW i \in 1..n, NEW j \in 1..n, i # j
        PROVE  \E k \in 1..(n * d) : Row(k) = i /\ Other(k) = j
    <3> DEFINE q == i - 1
               m == IF j < i THEN j ELSE j - 1
               r == m - 1
               k == q * d + r + 1
    <3>1. q \in 0..n - 1 /\ q \in Nat /\ m \in 1..d /\ r \in 0..d - 1 /\ r \in Nat
      BY <1>1, <1>3, <2>3
    <3>2. (IF m < i THEN m ELSE m + 1) = j
      BY <1>1, <2>3
    <3> HIDE DEF m
    <3>3. q * d \in Nat /\ q * d <= d * d /\ n * d = d * d + d
      <4>1. q <= d
        BY <3>1
      <4>2. q * d <= d * d
        BY <2>1, <3>1, <4>1, Times
      <4>3. n = d + 1
        BY <1>1
      <4> HIDE DEF d
      <4> QED
        BY <2>1, <3>1, <4>2, <4>3
    <3>4. k \in 1..(n * d) /\ k - 1 = q * d + r
      <4> HIDE DEF q, r
      <4> DEFINE x == q * d
                 y == d * d
      <4>1. x \in Nat /\ x <= y /\ n * d = y + d /\ r \in 0..d - 1 /\ d \in Nat /\ y \in Nat
        BY <2>1, <3>1, <3>3
      <4> HIDE DEF x, d
      <4>2. x + r + 1 \in 1..(y + d) /\ (x + r + 1) - 1 = x + r
        <5> HIDE DEF y
        <5> QED
          BY <4>1
      <4> QED
        BY <4>1, <4>2 DEF x
    <3>5. (k - 1) \div d = q /\ (k - 1) % d = r
      <4>1. (q * d + r) \div d = q /\ (q * d + r) % d = r
        <5> HIDE DEF q, r, d
        <5> QED
          BY <2>1, <3>1, Quotient
      <4> QED
        BY <3>4, <4>1
    <3> HIDE DEF k
    <3>6. Row(k) = i /\ Place(k) = m
      BY <3>1, <3>5
    <3>7. Other(k) = j
      BY <3>2, <3>6
    <3> QED
      BY <3>4, <3>6, <3>7
  <2> HIDE DEF Row, Other, d
  <2>4. \A k \in 1..(n * d) : P[k] = <<ns[Row(k)], ns[Other(k)]>> /\ P[k] \in Devices \X Devices
    BY <1>1, <2>2
  <2>5. P \in Seq(Devices \X Devices) /\ Len(P) = n * d
    BY <2>1, <2>4
  <2>6. \A i, j \in 1..n : i # j => \E k \in 1..Len(P) : P[k] = <<ns[i], ns[j]>>
    <3> TAKE i, j \in 1..n
    <3> HAVE i # j
    <3>1. PICK k \in 1..(n * d) : Row(k) = i /\ Other(k) = j
      BY <2>3
    <3> HIDE DEF P
    <3>2. k \in 1..Len(P) /\ P[k] = <<ns[i], ns[j]>>
      BY <2>4, <2>5, <3>1
    <3> QED
      BY <3>2
  <2> HIDE DEF P
  <2> QED
    BY <1>1, <2>5, <2>6 DEF n
<1>4. n < 2 \/ n >= 2
  BY <1>1
<1> QED
  BY <1>2, <1>3, <1>4, Zenon

(* A packet about two devices reaches the one whose entry it is about.     *)
LEMMA SendArpReaches ==
  ASSUME ArpType, NEW d \in Devices, NEW e \in Devices, d # e, NEW spoofed \in BOOLEAN,
         SendArp(<<d, e>>, spoofed)
  PROVE  arp'[d][e] = spoofed
<1>1. d \in Hears(d, e)
  BY DEF Hears
<1>2. arp'[d] = [arp[d] EXCEPT ![e] = spoofed]
  BY <1>1 DEF SendArp
<1>3. arp[d] \in [Devices -> BOOLEAN]
  BY DEF ArpType
<1> QED
  BY <1>2, <1>3

(* The attributes are lists of nodes, and on the way out either two nodes  *)
(* see each other, or the packet that makes them is still to come.         *)
NodesType ==
  /\ onodes = None \/ onodes \in Nodes
  /\ nodes \in Nodes /\ cnodes \in Nodes

Owed(d, e) == \E k \in 1..Len(restore) : restore[k] = <<d, e>>

Restoring ==
  \A i, j \in 1..Len(cnodes) :
    i # j => ~arp[cnodes[i]][cnodes[j]] \/ Owed(cnodes[i], cnodes[j])

RInv ==
  /\ ArpType /\ NodesType
  /\ restore \in Seq(Devices \X Devices)
  /\ proc = "terminating" => restore # << >>
  /\ proc = "exited" => restore = << >>
  /\ proc \in {"terminating", "exited"} /\ quiet => Restoring

LEMMA EmptyNodes == << >> \in Nodes
BY DEF Nodes

LEMMA InitRInv == Init => RInv
<1> SUFFICES ASSUME Init PROVE RInv
  OBVIOUS
<1>1. ArpType
  BY DEF Init, ArpType
<1>2. NodesType
  BY EmptyNodes DEF Init, NodesType
<1> QED
  BY <1>1, <1>2 DEF Init, RInv

LEMMA RefilteredIsNodes ==
  ASSUME NEW ns \in Nodes, NEW bl
  PROVE  NotBlacklisted(ns, bl) \in Nodes
BY WithoutIsNodes DEF NotBlacklisted

(* A step of the event loop leaves the process where it is; on the way     *)
(* out it ends the quiet.                                                  *)
LEMMA LoopRInv ==
  ASSUME RInv, proc \in {"running", "terminating"}, Unquiet,
         UNCHANGED <<proc, restore>>, ArpType', NodesType'
  PROVE  RInv'
<1>1. ~(proc' \in {"terminating", "exited"} /\ quiet')
  BY DEF RInv, Unquiet
<1> QED
  BY <1>1 DEF RInv

(* The tables and the nodes are the same, and so is what is owed.          *)
LEMMA StillRestoring ==
  ASSUME Restoring, UNCHANGED <<arp, cnodes, restore>>
  PROVE  Restoring'
<1> SUFFICES ASSUME NEW i \in 1..Len(cnodes), NEW j \in 1..Len(cnodes), i # j
             PROVE  ~arp'[cnodes[i]][cnodes[j]] \/ Owed(cnodes[i], cnodes[j])'
  BY ZenonT(60) DEF Restoring, Owed
<1> QED
  BY DEF Restoring, Owed

LEMMA InterruptRInv ==
  ASSUME RInv, NEW dies, Interrupt(dies)
  PROVE  RInv'
<1>1. /\ ArpType' /\ NodesType'
      /\ cnodes' = cnodes /\ cnodes \in Nodes
      /\ proc' \in {"exited", "terminating", "crashed"}
      /\ proc' = "exited" <=> Len(cnodes) < 2
      /\ restore' = IF proc' = "terminating" THEN RestoreList(cnodes) ELSE << >>
  BY DEF RInv, Interrupt, ArpType, NodesType, attributes, listenerVars
<1>2. cnodes \in Seq(Devices) /\ Len(cnodes) \in Nat
  BY <1>1 DEF Nodes
<1>3. CASE proc' # "terminating"
  <2>1. restore' = << >> /\ restore' \in Seq(Devices \X Devices)
    BY <1>1, <1>3
  <2>2. proc' = "exited" => Restoring'
    <3> SUFFICES ASSUME Len(cnodes) < 2 PROVE Restoring'
      BY <1>1
    <3> SUFFICES ASSUME NEW i \in 1..Len(cnodes), NEW j \in 1..Len(cnodes), i # j
                 PROVE  ~arp'[cnodes[i]][cnodes[j]] \/ Owed(cnodes[i], cnodes[j])'
      BY <1>1 DEF Restoring, Owed
    <3> QED
      BY <1>2
  <2> QED
    BY <1>1, <1>3, <2>1, <2>2 DEF RInv
<1>4. CASE proc' = "terminating"
  <2> DEFINE P == Permutations2(cnodes)
             R == P \o P
  <2>1. P \in Seq(Devices \X Devices)
        /\ \A i, j \in 1..Len(cnodes) : i # j => \E k \in 1..Len(P) : P[k] = <<cnodes[i], cnodes[j]>>
    BY <1>2, AllPairs
  <2>2. restore' = R
    BY <1>1, <1>4 DEF RestoreList
  <2> HIDE DEF P
  <2>3. R \in Seq(Devices \X Devices) /\ Len(P) \in Nat /\ Len(R) = Len(P) + Len(P)
        /\ \A k \in 1..Len(P) : k \in 1..Len(R) /\ R[k] = P[k]
    BY <2>1
  <2> HIDE DEF R
  <2>4. ASSUME NEW i \in 1..Len(cnodes), NEW j \in 1..Len(cnodes), i # j
        PROVE  \E k \in 1..Len(R) : R[k] = <<cnodes[i], cnodes[j]>>
    <3>1. PICK k \in 1..Len(P) : P[k] = <<cnodes[i], cnodes[j]>>
      BY <2>1, <2>4
    <3>2. k \in 1..Len(R) /\ R[k] = <<cnodes[i], cnodes[j]>>
      BY <2>3, <3>1
    <3> QED
      BY <3>2
  <2>5. Restoring'
    <3> SUFFICES ASSUME NEW i \in 1..Len(cnodes), NEW j \in 1..Len(cnodes), i # j
                 PROVE  Owed(cnodes[i], cnodes[j])'
      BY <1>1, ZenonT(60) DEF Restoring, Owed
    <3>1. \E k \in 1..Len(R) : R[k] = <<cnodes[i], cnodes[j]>>
      BY <2>4
    <3> QED
      BY <1>1, <2>2, <3>1 DEF Owed
  <2>6. R # << >>
    <3>1. 1 \in 1..Len(cnodes) /\ 2 \in 1..Len(cnodes) /\ 1 # 2
      BY <1>1, <1>2, <1>4
    <3>2. PICK k \in 1..Len(R) : R[k] = <<cnodes[1], cnodes[2]>>
      BY <2>4, <3>1, Zenon
    <3> QED
      BY <2>3, <3>2
  <2> QED
    BY <1>1, <1>4, <2>2, <2>3, <2>5, <2>6 DEF RInv
<1> QED
  BY <1>3, <1>4

LEMMA RestoreRInv ==
  ASSUME RInv, Restore
  PROVE  RInv'
<1>1. /\ ArpType /\ NodesType /\ restore \in Seq(Devices \X Devices) /\ restore # << >>
      /\ quiet => Restoring
      /\ proc' = IF Len(restore) = 1 THEN "exited" ELSE "terminating"
      /\ SendArp(Head(restore), FALSE) /\ restore' = Tail(restore)
      /\ cnodes' = cnodes /\ quiet' = quiet /\ NodesType'
  BY DEF RInv, Restore, NodesType, attributes, listenerVars
<1>2. /\ restore' \in Seq(Devices \X Devices) /\ Len(restore) \in Nat /\ Len(restore) >= 1
      /\ Len(restore') = Len(restore) - 1 /\ Head(restore) = restore[1]
      /\ \A k \in 1..Len(restore) - 1 : restore'[k] = restore[k + 1]
  BY <1>1
<1>3. restore' = << >> <=> Len(restore) = 1
  BY <1>2
<1>4. ArpType' /\ \A d, e \in Devices : arp'[d][e] => arp[d][e]
  BY <1>1, SendArpEffect
<1>5. ASSUME quiet PROVE Restoring'
  <2> SUFFICES ASSUME NEW i \in 1..Len(cnodes), NEW j \in 1..Len(cnodes), i # j
               PROVE  ~arp'[cnodes[i]][cnodes[j]] \/ Owed(cnodes[i], cnodes[j])'
    BY <1>1 DEF Restoring, Owed
  <2> DEFINE d == cnodes[i]
             e == cnodes[j]
  <2>1. d \in Devices /\ e \in Devices /\ d # e
    BY <1>1 DEF NodesType, Nodes
  <2>2. ~arp[d][e] \/ Owed(d, e)
    BY <1>1, <1>5 DEF Restoring
  <2> HIDE DEF d, e
  <2>3. CASE ~arp[d][e]
    BY <1>4, <2>1, <2>3 DEF d, e
  <2>4. CASE Owed(d, e)
    <3>1. PICK k \in 1..Len(restore) : restore[k] = <<d, e>>
      BY <2>4 DEF Owed
    <3>2. CASE k = 1
      <4>1. SendArp(<<d, e>>, FALSE)
        BY <1>1, <1>2, <3>1, <3>2
      <4>2. ~arp'[d][e]
        BY <1>1, <2>1, <4>1, SendArpReaches
      <4> QED
        BY <4>2 DEF d, e
    <3>3. CASE k # 1
      <4>1. k - 1 \in 1..Len(restore') /\ restore'[k - 1] = <<d, e>>
        BY <1>2, <3>1, <3>3
      <4> QED
        BY <1>1, <4>1 DEF Owed, d, e
    <3> QED
      BY <3>2, <3>3
  <2> QED
    BY <2>2, <2>3, <2>4
<1> QED
  BY <1>1, <1>2, <1>3, <1>4, <1>5 DEF RInv

LEMMA NextRInv == RInv /\ [Next]_vars => RInv'
<1> SUFFICES ASSUME RInv, [Next]_vars PROVE RInv'
  OBVIOUS
<1>1. ASSUME NEW ns \in NodeLists, OnNodeconfig(ns) PROVE RInv'
  <2>1. ns \in Nodes
    BY SpooferAssumption DEF Nodes
  <2>2. NodesType'
    BY <1>1, <2>1, RefilteredIsNodes DEF RInv, NodesType, OnNodeconfig
  <2> QED
    BY <1>1, <2>2, LoopRInv DEF OnNodeconfig, LoopRuns, RInv, ArpType
<1>2. ASSUME NEW bl \in Blacklists, OnWhitelist(bl) PROVE RInv'
  <2>1. NodesType'
    BY <1>2, RefilteredIsNodes DEF RInv, NodesType, OnWhitelist, Refiltered
  <2> QED
    BY <1>2, <2>1, LoopRInv DEF OnWhitelist, LoopRuns, RInv, ArpType
<1>3. CASE Configure
  BY <1>3, LoopRInv DEF Configure, LoopRuns, RInv, ArpType, NodesType
<1>4. CASE SpoofStart \/ SpoofRoundDone
  BY <1>4, LoopRInv
     DEF SpoofStart, SpoofRoundDone, LoopRuns, RInv, ArpType, NodesType, attributes, listenerVars
<1>5. CASE SpoofRound \/ SpoofSend
  <2>1. ArpType'
    BY <1>5, SendArpEffect DEF SpoofRound, SpoofSend, RInv, ArpType
  <2> QED
    BY <1>5, <2>1, LoopRInv
       DEF SpoofRound, SpoofSend, LoopRuns, RInv, NodesType, attributes, listenerVars
<1>6. ASSUME NEW t \in {"listener", "spoof"}, Fail(t) PROVE RInv'
  BY <1>6 DEF Fail, RInv, ArpType, NodesType, attributes, listenerVars
<1>7. CASE Restart
  BY <1>7, EmptyNodes DEF Restart, FreshModule, RInv, ArpType, NodesType
<1>8. ASSUME NEW dies \in {{}, {"listener"}, {"spoof"}}, Interrupt(dies) PROVE RInv'
  BY <1>8, InterruptRInv
<1>9. CASE Restore
  BY <1>9, RestoreRInv
<1>10. CASE RestoreFails \/ Sigkill
  BY <1>10 DEF RestoreFails, Sigkill, RInv, ArpType, NodesType, attributes, listenerVars
<1>11. ASSUME NEW d \in Devices, NEW e \in Devices, Corrected(d, e) PROVE RInv'
  <2>1. ArpType'
    BY <1>11, CorrectedEffect DEF RInv
  <2> QED
    BY <1>11, <2>1 DEF Corrected, RInv, NodesType, attributes, listenerVars
<1>12. CASE UNCHANGED vars
  BY <1>12, StillRestoring DEF vars, RInv, ArpType, NodesType, attributes, listenerVars
<1> QED
  BY <1>1, <1>2, <1>3, <1>4, <1>5, <1>6, <1>7, <1>8, <1>9, <1>10, <1>11, <1>12
     DEF Next, ListenerStep, SpoofStep

(* When nothing but on_terminate runs after the signal and it gets to its  *)
(* end, no node that was spoofed last is redirected away from another one  *)
(* (spoofer.py:89-102): in the order of the permutations every ordered     *)
(* pair has its packet, and nobody sends another.                          *)
THEOREM QuietTerminateUndoes == Spec => []QuietTerminateRestores
<1>1. RInv => QuietTerminateRestores
  BY DEF RInv, QuietTerminateRestores, Restoring, Owed
<1> QED
  BY <1>1, InitRInv, NextRInv, PTL DEF Spec
=============================================================================
