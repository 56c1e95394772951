------------------------- MODULE PortalInjectorProofs -------------------------
(***************************************************************************)
(* Proofs about PortalInjector: what the injector believes of a device is  *)
(* what the EIS server has said of it, so that events go to devices that   *)
(* take them; for any devices, notices and sessions.                       *)
(***************************************************************************)
EXTENDS PortalInjector, SequenceTheorems, WellFoundedInduction, TLAPS

-----------------------------------------------------------------------------
\* Induction, for what is read of the socket: a set of numbers with 0 and every
\* successor is all of them.

LEMMA LessIsWellFounded == IsWellFoundedOn({ss \in Nat \X Nat : ss[1] < ss[2]}, Nat)
BY NatLessThanWellFounded DEF OpToRel

\* A set of numbers has a smallest one.
LEMMA SmallestOf ==
  ASSUME NEW S, S \subseteq Nat, S # {}
  PROVE  \E n \in S : \A m \in S : n <= m
<1> DEFINE R == {ss \in Nat \X Nat : ss[1] < ss[2]}
<1>1. PICK n \in S : \A m \in S : ~(<<m, n>> \in R)
  BY LessIsWellFounded, WFMin
<1>2. \A m \in S : ~(m < n)
  BY <1>1
<1> QED BY <1>2

\* Induction.
LEMMA AllNumbers ==
  ASSUME NEW S, S \subseteq Nat, 0 \in S, \A n \in S : n + 1 \in S
  PROVE  S = Nat
<1> SUFFICES ASSUME S # Nat PROVE FALSE
  OBVIOUS
<1> DEFINE T == Nat \ S
<1>1. PICK n \in T : \A m \in T : n <= m
  BY SmallestOf
<1>2. n - 1 \in S
  BY <1>1
<1> QED BY <1>1, <1>2

-----------------------------------------------------------------------------
\* Reading the socket.

Unread == [list |-> devices, started |-> {}]

\* One notice.
ReadOne(before, n) ==
  [list    |-> Believe(before.list, notices[n]),
   started |-> before.started \cup Starts(before.list, notices[n])]

\* The first n notices, one after the other.
IsReading(f, n) ==
  /\ DOMAIN f = 0..n
  /\ f[0] = Unread
  /\ \A k \in 1..n : f[k] = ReadOne(f[k - 1], k)

\* There is a reading of any number of notices.
LEMMA ReadingExists == \A n \in Nat : \E f : IsReading(f, n)
<1> DEFINE S == {n \in Nat : \E f : IsReading(f, n)}
<1>1. 0 \in S
  <2> DEFINE f == [k \in 0..0 |-> Unread]
  <2>1. IsReading(f, 0)
    BY DEF IsReading
  <2> QED BY <2>1
<1>2. ASSUME NEW n \in S  PROVE n + 1 \in S
  <2>1. PICK f : IsReading(f, n)
    OBVIOUS
  <2> DEFINE g == [k \in 0..(n + 1) |-> IF k = n + 1 THEN ReadOne(f[n], n + 1) ELSE f[k]]
  <2>2. n \in Nat
    OBVIOUS
  <2>3. DOMAIN g = 0..(n + 1) /\ g[0] = Unread
    BY <2>1, <2>2 DEF IsReading
  <2>4. ASSUME NEW k \in 1..(n + 1)  PROVE g[k] = ReadOne(g[k - 1], k)
    <3>1. g[k - 1] = f[k - 1]
      BY <2>2
    <3>2. CASE k = n + 1
      BY <2>2, <3>1, <3>2
    <3>3. CASE k \in 1..n
      BY <2>1, <2>2, <3>1, <3>3 DEF IsReading
    <3> QED BY <2>2, <3>2, <3>3
  <2> HIDE DEF g
  <2>5. IsReading(g, n + 1)
    BY <2>3, <2>4 DEF IsReading
  <2> QED BY <2>2, <2>5
<1> HIDE DEF S
<1>3. S = Nat
  <2>1. S \subseteq Nat
    BY DEF S
  <2> QED BY <1>1, <1>2, <2>1, AllNumbers
<1> QED BY <1>3 DEF S

\* Two readings say the same of what both have read.
LEMMA ReadingsAgree ==
  ASSUME NEW m \in Nat, NEW n \in Nat, m <= n, NEW f, NEW g, IsReading(f, m), IsReading(g, n)
  PROVE  \A k \in 0..m : f[k] = g[k]
<1> DEFINE S == {k \in Nat : k <= m => f[k] = g[k]}
<1>1. 0 \in S
  BY DEF IsReading
<1>2. ASSUME NEW k \in S  PROVE k + 1 \in S
  <2>1. CASE k + 1 <= m
    <3>1. k + 1 \in 1..m /\ k + 1 \in 1..n /\ (k + 1) - 1 = k
      BY <2>1
    <3>2. f[k + 1] = ReadOne(f[k], k + 1) /\ g[k + 1] = ReadOne(g[k], k + 1)
      BY <3>1 DEF IsReading
    <3>3. f[k] = g[k]
      BY <2>1
    <3> QED BY <3>2, <3>3
  <2>2. CASE ~(k + 1 <= m)
    BY <2>2
  <2> QED BY <2>1, <2>2
<1> HIDE DEF S
<1>3. S = Nat
  <2>1. S \subseteq Nat
    BY DEF S
  <2> QED BY <1>1, <1>2, <2>1, AllNumbers
<1> QED BY <1>3 DEF S

\* Read is what its definition says.
ReadingRule ==
  /\ Read[0] = Unread
  /\ \A n \in Nat : Read[n + 1] = ReadOne(Read[n], n + 1)

LEMMA ReadIs == ReadingRule
<1> DEFINE reading(n) == CHOOSE f : IsReading(f, n)
           F == [n \in Nat |-> reading(n)[n]]
           Body(f) == [n \in Nat |-> IF n = 0 THEN [list |-> devices, started |-> {}]
                         ELSE LET before == f[n - 1]
                              IN [list    |-> Believe(before.list, notices[n]),
                                  started |-> before.started \cup Starts(before.list, notices[n])]]
<1>1. \A n \in Nat : IsReading(reading(n), n)
  BY ReadingExists
<1> HIDE DEF reading
<1>2. F[0] = Unread
  BY <1>1 DEF IsReading
<1>3. ASSUME NEW n \in Nat, n # 0  PROVE F[n] = ReadOne(F[n - 1], n)
  <2>1. n - 1 \in Nat /\ n - 1 <= n /\ n \in 1..n /\ n - 1 \in 0..(n - 1)
    BY <1>3
  <2>2. reading(n)[n] = ReadOne(reading(n)[n - 1], n)
    BY <1>1, <2>1 DEF IsReading
  <2>3. reading(n - 1)[n - 1] = reading(n)[n - 1]
    BY <1>1, <2>1, ReadingsAgree
  <2> QED BY <2>1, <2>2, <2>3
<1> HIDE DEF F
<1>4. F = [n \in Nat |-> F[n]]
  BY DEF F
<1>5. F = Body(F)
  BY <1>2, <1>3, <1>4 DEF Unread, ReadOne
<1>6. Read = Body(Read)
  BY <1>5 DEF Read
<1>7. Read[0] = Unread
  BY <1>6 DEF Unread
<1>8. ASSUME NEW n \in Nat PROVE Read[n + 1] = ReadOne(Read[n], n + 1)
  <2>1. n + 1 \in Nat /\ n + 1 # 0 /\ (n + 1) - 1 = n
    OBVIOUS
  <2> QED BY <1>6, <2>1 DEF ReadOne
<1> QED BY <1>7, <1>8 DEF ReadingRule

-----------------------------------------------------------------------------
\* What is believed after a reading, and what the server has said.

Belief   == [device : Device, resumed : BOOLEAN, emulating : BOOLEAN]
EisState == {"absent", "paused", "resumed", "emulating"}
Kinds    == {"added", "resumed", "paused", "removed", "disconnect"}
Running  == {"resumed", "emulating"}

\* A list of beliefs has one entry for each device the server has, and says of it
\* what the server says.
AgreesWith(list, e) ==
  /\ list \in Seq(Belief)
  /\ \A i, j \in 1..Len(list) : list[i].device = list[j].device => i = j
  /\ \A d \in Device : e[d] # "absent" <=> \E i \in 1..Len(list) : list[i].device = d
  /\ \A i \in 1..Len(list) : /\ list[i].emulating = list[i].resumed
                             /\ list[i].resumed <=> e[list[i].device] \in Running

\* The server has said since that it will not take anything from the device.
Stopping(d) == \E n \in 1..Len(notices) :
                 notices[n].device = d /\ notices[n].kind \in {"paused", "removed"}

InjectorTypes ==
  /\ eis \in [Device -> EisState]
  /\ notices \in Seq([kind : Kinds, device : Device])
  /\ devices \in Seq(Belief)

\* Once everything has been read, the beliefs are right, and every device that is
\* resumed and not yet emulating is told to start; until then they are right but
\* for what is on the socket.
InjectorInv ==
  /\ InjectorTypes
  /\ AgreesWith(Read[Len(notices)].list, eis)
  /\ \A d \in Device : eis[d] = "resumed" => d \in Read[Len(notices)].started
  /\ \A i \in 1..Len(devices) :
       devices[i].resumed => eis[devices[i].device] = "emulating" \/ Stopping(devices[i].device)

\* A device leaves the list.
LEMMA WithoutFacts ==
  ASSUME NEW list \in Seq(Belief), NEW i \in 1..Len(list)
  PROVE  /\ Without(list, i) \in Seq(Belief)
         /\ Len(Without(list, i)) = Len(list) - 1
         /\ \A j \in 1..(Len(list) - 1) :
              Without(list, i)[j] = list[IF j < i THEN j ELSE j + 1]
<1> DEFINE a == SubSeq(list, 1, i - 1)
           b == SubSeq(list, i + 1, Len(list))
           n == Len(list)
<1>0. n \in Nat /\ i \in 1..n /\ \A k \in 1..n : list[k] \in Belief
  OBVIOUS
<1>1. /\ a \in Seq(Belief) /\ Len(a) = i - 1
      /\ \A j \in 1..(i - 1) : a[j] = list[j]
  <2>1. \A k \in 1..(i - 1) : list[k] \in Belief
    BY <1>0
  <2>2. /\ a \in Seq(Belief) /\ Len(a) = IF 1 <= i - 1 THEN (i - 1) - 1 + 1 ELSE 0
        /\ \A j \in 1..(i - 1) - 1 + 1 : a[j] = list[1 + j - 1]
    BY <1>0, <2>1, SubSeqProperties
  <2> HIDE DEF a
  <2> QED BY <1>0, <2>2
<1>2. /\ b \in Seq(Belief) /\ Len(b) = n - i
      /\ \A j \in 1..(n - i) : b[j] = list[i + j]
  <2>1. \A k \in (i + 1)..n : list[k] \in Belief
    BY <1>0
  <2>2. /\ b \in Seq(Belief) /\ Len(b) = IF i + 1 <= n THEN n - (i + 1) + 1 ELSE 0
        /\ \A j \in 1..n - (i + 1) + 1 : b[j] = list[(i + 1) + j - 1]
    BY <1>0, <2>1, SubSeqProperties
  <2> HIDE DEF b, n
  <2> QED BY <1>0, <2>2
<1> HIDE DEF a, b
<1>3. /\ a \o b \in Seq(Belief) /\ Len(a \o b) = Len(a) + Len(b)
      /\ \A j \in 1..Len(a) + Len(b) : (a \o b)[j] = IF j <= Len(a) THEN a[j] ELSE b[j - Len(a)]
  BY <1>1, <1>2, ConcatProperties
<1>4. Without(list, i) = a \o b
  BY DEF Without, a, b
<1> HIDE DEF n
<1>5. Len(a) + Len(b) = n - 1
  BY <1>0, <1>1, <1>2
<1>6. ASSUME NEW j \in 1..(n - 1)  PROVE (a \o b)[j] = list[IF j < i THEN j ELSE j + 1]
  <2>1. CASE j < i
    <3>1. j \in 1..(i - 1) /\ j <= Len(a) /\ j \in 1..Len(a) + Len(b)
      BY <1>0, <1>1, <1>5, <2>1
    <3> QED BY <1>1, <1>3, <2>1, <3>1
  <2>2. CASE ~(j < i)
    <3>1. /\ j - (i - 1) \in 1..(n - i) /\ ~(j <= Len(a)) /\ j \in 1..Len(a) + Len(b)
          /\ i + (j - (i - 1)) = j + 1
      BY <1>0, <1>1, <1>5, <2>2
    <3>2. (a \o b)[j] = b[j - (i - 1)]
      BY <1>1, <1>3, <3>1
    <3> QED BY <1>2, <2>2, <3>1, <3>2
  <2> QED BY <2>1, <2>2
<1> QED BY <1>3, <1>4, <1>5, <1>6 DEF n

\* Notices, one after the other; the server is where the beliefs will be.

LEMMA AddedAgrees ==
  ASSUME NEW list, NEW e \in [Device -> EisState], AgreesWith(list, e),
         NEW d \in Device, e[d] = "absent"
  PROVE  AgreesWith(Believe(list, Notice("added", d)), [e EXCEPT ![d] = "paused"])
<1> DEFINE new == [device |-> d, resumed |-> FALSE, emulating |-> FALSE]
           longer == Append(list, new)
           f == [e EXCEPT ![d] = "paused"]
           n == Len(list)
<1>1. Believe(list, Notice("added", d)) = longer
  BY DEF Believe, Notice
<1>2. new \in Belief /\ new.device = d /\ new.resumed = FALSE /\ new.emulating = FALSE
  BY DEF Belief
<1> HIDE DEF new
<1>3. /\ longer \in Seq(Belief) /\ Len(longer) = n + 1 /\ n \in Nat
      /\ \A i \in 1..n : longer[i] = list[i]
      /\ longer[n + 1] = new
  BY <1>2, AppendProperties DEF AgreesWith
<1>4. \A i \in 1..n : list[i] \in Belief /\ list[i].device \in Device /\ list[i].device # d
  <2>1. \A i \in 1..n : list[i] \in Belief
    BY DEF AgreesWith
  <2>2. \A i \in 1..n : list[i].device # d
    BY DEF AgreesWith
  <2> QED BY <2>1, <2>2 DEF Belief
<1>5. f[d] = "paused" /\ \A c \in Device : c # d => f[c] = e[c]
  OBVIOUS
<1> HIDE DEF longer, f, n
<1>6. \A i \in 1..(n + 1) : i \in 1..n \/ i = n + 1
  BY <1>3
<1>7. \A i, j \in 1..(n + 1) : longer[i].device = longer[j].device => i = j
  BY <1>2, <1>3, <1>4, <1>6 DEF AgreesWith, n
<1>8. ASSUME NEW c \in Device
      PROVE  f[c] # "absent" <=> \E i \in 1..(n + 1) : longer[i].device = c
  <2>1. CASE c = d
    <3>1. n + 1 \in 1..(n + 1)
      BY <1>3
    <3> QED BY <1>2, <1>3, <1>5, <2>1, <3>1
  <2>2. CASE c # d
    <3>1. (\E i \in 1..(n + 1) : longer[i].device = c) <=> (\E i \in 1..n : list[i].device = c)
      BY <1>2, <1>3, <1>6, <2>2
    <3> QED BY <1>5, <2>2, <3>1 DEF AgreesWith, n
  <2> QED BY <2>1, <2>2
<1>9. \A i \in 1..(n + 1) : /\ longer[i].emulating = longer[i].resumed
                            /\ longer[i].resumed <=> f[longer[i].device] \in Running
  <2>1. \A i \in 1..n : /\ longer[i].emulating = longer[i].resumed
                        /\ longer[i].resumed <=> f[longer[i].device] \in Running
    BY <1>3, <1>4, <1>5 DEF AgreesWith, n
  <2> QED BY <1>2, <1>3, <1>5, <1>6, <2>1 DEF Running
<1>10. AgreesWith(longer, f)
  BY <1>3, <1>7, <1>8, <1>9 DEF AgreesWith
<1> QED BY <1>1, <1>10 DEF longer, f

LEMMA ChangedAgrees ==
  ASSUME NEW list, NEW e \in [Device -> EisState], AgreesWith(list, e),
         NEW d \in Device, e[d] # "absent",
         NEW kind \in {"resumed", "paused"}, NEW to, kind = to
  PROVE  AgreesWith(Believe(list, Notice(kind, d)), [e EXCEPT ![d] = to])
<1> DEFINE n == Len(list)
           f == [e EXCEPT ![d] = to]
           g == [i \in 1..n |->
                  IF list[i].device # d THEN list[i]
                  ELSE [list[i] EXCEPT !.resumed = (kind = "resumed"),
                                       !.emulating = (kind = "resumed")]]
<1>1. list \in Seq(Belief) /\ n \in Nat /\ DOMAIN list = 1..n /\ \A i \in 1..n : list[i] \in Belief
  BY DEF AgreesWith
<1>2. Believe(list, Notice(kind, d)) = g
  BY <1>1 DEF Believe, Notice
<1>3. ASSUME NEW i \in 1..n
      PROVE  /\ g[i] \in Belief /\ g[i].device = list[i].device
             /\ IF list[i].device # d THEN g[i] = list[i]
                ELSE g[i].resumed = (kind = "resumed") /\ g[i].emulating = (kind = "resumed")
  BY <1>1 DEF Belief
<1>4. f[d] = to /\ \A c \in Device : c # d => f[c] = e[c]
  OBVIOUS
<1>5. g \in Seq(Belief) /\ Len(g) = n
  <2>1. g = [i \in 1..n |-> g[i]] /\ n \in Nat
    BY <1>1
  <2>2. \A i \in 1..n : g[i] \in Belief
    BY <1>3
  <2> HIDE DEF g, n
  <2>3. g \in [1..n -> Belief] /\ DOMAIN g = 1..n
    BY <2>1, <2>2
  <2> QED BY <2>1, <2>3
<1> HIDE DEF g, f, n
<1>6. \A i, j \in 1..n : g[i].device = g[j].device => i = j
  BY <1>3 DEF AgreesWith, n
<1>7. \A c \in Device : f[c] # "absent" <=> \E i \in 1..n : g[i].device = c
  <2>1. to # "absent"
    OBVIOUS
  <2>2. \A c \in Device : (\E i \in 1..n : g[i].device = c) <=> (\E i \in 1..n : list[i].device = c)
    BY <1>3
  <2> QED BY <1>4, <2>1, <2>2 DEF AgreesWith, n
<1>8. ASSUME NEW i \in 1..n
      PROVE  /\ g[i].emulating = g[i].resumed
             /\ g[i].resumed <=> f[g[i].device] \in Running
  <2>1. list[i].device \in Device
    BY <1>1 DEF Belief
  <2>2. CASE list[i].device # d
    BY <1>3, <1>4, <2>1, <2>2 DEF AgreesWith, n
  <2>3. CASE list[i].device = d
    BY <1>3, <1>4, <2>3 DEF Running
  <2> QED BY <2>2, <2>3
<1>9. AgreesWith(g, f)
  BY <1>5, <1>6, <1>7, <1>8 DEF AgreesWith
<1> QED BY <1>2, <1>9 DEF f

LEMMA RemovedAgrees ==
  ASSUME NEW list, NEW e \in [Device -> EisState], AgreesWith(list, e),
         NEW d \in Device, e[d] # "absent"
  PROVE  AgreesWith(Believe(list, Notice("removed", d)), [e EXCEPT ![d] = "absent"])
<1> DEFINE n == Len(list)
           f == [e EXCEPT ![d] = "absent"]
           k == CHOOSE i \in Index(list, d) : TRUE
           g == Without(list, k)
           old(i) == IF i < k THEN i ELSE i + 1
<1>1. list \in Seq(Belief) /\ n \in Nat /\ DOMAIN list = 1..n /\ \A i \in 1..n : list[i] \in Belief
  BY DEF AgreesWith
<1>2. Index(list, d) # {}
  BY <1>1 DEF AgreesWith, Index
<1>3. k \in 1..n /\ list[k].device = d
  BY <1>1, <1>2 DEF Index
<1>4. Believe(list, Notice("removed", d)) = g
  BY <1>2 DEF Believe, Notice
<1> HIDE DEF k
<1>5. /\ g \in Seq(Belief) /\ Len(g) = n - 1
      /\ \A j \in 1..(n - 1) : g[j] = list[old(j)]
  BY <1>1, <1>3, WithoutFacts
<1>6. f[d] = "absent" /\ \A c \in Device : c # d => f[c] = e[c]
  OBVIOUS
<1> HIDE DEF g, f, n
<1>7. /\ \A j \in 1..(n - 1) : old(j) \in 1..n /\ old(j) # k
      /\ \A i, j \in 1..(n - 1) : old(i) = old(j) => i = j
  BY <1>1, <1>3
<1>8. \A i \in 1..n : i # k => \E j \in 1..(n - 1) : old(j) = i
  <2> SUFFICES ASSUME NEW i \in 1..n, i # k  PROVE \E j \in 1..(n - 1) : old(j) = i
    OBVIOUS
  <2>1. CASE i < k
    <3>1. i \in 1..(n - 1) /\ old(i) = i
      BY <1>1, <1>3, <2>1
    <3> QED BY <3>1
  <2>2. CASE i > k
    <3>1. i - 1 \in 1..(n - 1) /\ old(i - 1) = i
      BY <1>1, <1>3, <2>2
    <3> QED BY <3>1
  <2> QED BY <1>1, <1>3, <2>1, <2>2
<1> HIDE DEF old
<1>9. \A j \in 1..(n - 1) : g[j].device # d
  BY <1>3, <1>5, <1>7 DEF AgreesWith, n
<1>10. \A i, j \in 1..(n - 1) : g[i].device = g[j].device => i = j
  BY <1>5, <1>7 DEF AgreesWith, n
<1>11. ASSUME NEW c \in Device
       PROVE  f[c] # "absent" <=> \E i \in 1..(n - 1) : g[i].device = c
  <2>1. CASE c = d
    BY <1>6, <1>9, <2>1
  <2>2. CASE c # d
    <3>1. (\E i \in 1..(n - 1) : g[i].device = c) <=> (\E i \in 1..n : list[i].device = c)
      BY <1>3, <1>5, <1>7, <1>8, <2>2
    <3> QED BY <1>6, <2>2, <3>1 DEF AgreesWith, n
  <2> QED BY <2>1, <2>2
<1>12. ASSUME NEW i \in 1..(n - 1)
       PROVE  /\ g[i].emulating = g[i].resumed
              /\ g[i].resumed <=> f[g[i].device] \in Running
  <2>1. g[i] = list[old(i)] /\ old(i) \in 1..n /\ g[i].device # d
    BY <1>5, <1>7, <1>9
  <2>2. g[i].device \in Device
    BY <1>1, <2>1 DEF Belief
  <2> QED BY <1>6, <2>1, <2>2 DEF AgreesWith, n
<1>13. AgreesWith(g, f)
  BY <1>5, <1>10, <1>11, <1>12 DEF AgreesWith
<1> QED BY <1>4, <1>13 DEF f

\* Any other notice changes no belief.
LEMMA DisconnectAgrees ==
  ASSUME NEW list, NEW e, AgreesWith(list, e), NEW d \in Device
  PROVE  Believe(list, Notice("disconnect", d)) = list
<1>1. list \in Seq(Belief)
  BY DEF AgreesWith
<1>2. Believe(list, Notice("disconnect", d)) = [i \in DOMAIN list |-> list[i]]
  BY DEF Believe, Notice
<1> QED BY <1>1, <1>2

-----------------------------------------------------------------------------
\* The server says something while earlier notices are still unread.

\* What has been read so far is read as before.
LEMMA NoticeIsRead ==
  ASSUME InjectorTypes, NEW kind \in Kinds, NEW d \in Device, Notify(kind, d)
  PROVE  LET last == Read[Len(notices)]
         IN /\ notices' \in Seq([kind : Kinds, device : Device])
            /\ Len(notices') = Len(notices) + 1
            /\ \A n \in 1..Len(notices) : notices'[n] = notices[n]
            /\ notices'[Len(notices) + 1] = Notice(kind, d)
            /\ Read'[Len(notices')] =
                 [list    |-> Believe(last.list, Notice(kind, d)),
                  started |-> last.started \cup Starts(last.list, Notice(kind, d))]
<1> DEFINE Pairs == [kind : Kinds, device : Device]
           m == Len(notices)
<1>1. notices \in Seq(Pairs) /\ m \in Nat /\ Notice(kind, d) \in Pairs
  BY DEF InjectorTypes, Notice
<1>2. notices' = Append(notices, Notice(kind, d)) /\ devices' = devices
  BY DEF Notify, injectorVars
<1> HIDE DEF Pairs
<1>3. /\ notices' \in Seq(Pairs) /\ Len(notices') = m + 1
      /\ \A n \in 1..m : notices'[n] = notices[n]
      /\ notices'[m + 1] = Notice(kind, d)
  BY <1>1, <1>2, AppendProperties
<1>4. ReadingRule
  BY ReadIs
<1>5. ReadingRule'
  BY ReadIs, PTL
<1>6. /\ Read[0] = Unread
      /\ \A n \in Nat : Read[n + 1] = ReadOne(Read[n], n + 1)
      /\ Read'[0] = Unread
      /\ \A n \in Nat : Read'[n + 1] =
           [list    |-> Believe(Read'[n].list, notices'[n + 1]),
            started |-> Read'[n].started \cup Starts(Read'[n].list, notices'[n + 1])]
  BY <1>2, <1>4, <1>5 DEF ReadingRule, ReadOne, Unread
<1> HIDE DEF m
<1> DEFINE S == {n \in Nat : n <= m => Read'[n] = Read[n]}
<1>7. 0 \in S
  BY <1>6
<1>8. ASSUME NEW n \in S  PROVE n + 1 \in S
  <2>1. CASE n + 1 <= m
    <3>1. n \in Nat /\ n <= m /\ n + 1 \in 1..m
      BY <1>1, <2>1
    <3>2. Read'[n] = Read[n] /\ notices'[n + 1] = notices[n + 1]
      BY <1>3, <3>1
    <3>3. Read[n + 1] = [list    |-> Believe(Read[n].list, notices[n + 1]),
                         started |-> Read[n].started \cup Starts(Read[n].list, notices[n + 1])]
      BY <1>6, <3>1 DEF ReadOne
    <3>4. Read'[n + 1] =
            [list    |-> Believe(Read'[n].list, notices'[n + 1]),
             started |-> Read'[n].started \cup Starts(Read'[n].list, notices'[n + 1])]
      BY <1>6, <3>1
    <3>5. Read'[n + 1] = Read[n + 1]
      BY <3>2, <3>3, <3>4
    <3> QED BY <3>5
  <2>2. CASE ~(n + 1 <= m)
    BY <2>2
  <2> QED BY <2>1, <2>2
<1> HIDE DEF S
<1>9. S = Nat
  <2>1. S \subseteq Nat
    BY DEF S
  <2> QED BY <1>7, <1>8, <2>1, AllNumbers
<1>10. Read'[m] = Read[m]
  BY <1>1, <1>9 DEF S
<1> QED BY <1>1, <1>3, <1>6, <1>10 DEF m, Pairs

\* What is the same for every notice: the new one is the last to be read, and
\* the devices that were being stopped still are.
LEMMA NoticeKeeps ==
  ASSUME InjectorInv, NEW kind \in Kinds, NEW d \in Device, Notify(kind, d),
         NEW to \in EisState, eis' = [eis EXCEPT ![d] = to],
         AgreesWith(Believe(Read[Len(notices)].list, Notice(kind, d)), eis'),
         eis[d] = "emulating" => kind \in {"paused", "removed"} \/ to = "emulating",
         to = "resumed" => eis[d] = "resumed" \/ d \in Starts(Read[Len(notices)].list, Notice(kind, d))
  PROVE  InjectorInv'
<1> DEFINE last == Read[Len(notices)]
           m == Len(notices)
<1>1. /\ InjectorTypes
      /\ m \in Nat
      /\ \A c \in Device : eis[c] = "resumed" => c \in last.started
      /\ \A i \in 1..Len(devices) :
           devices[i].resumed => eis[devices[i].device] = "emulating" \/ Stopping(devices[i].device)
  BY DEF InjectorInv, InjectorTypes
<1>2. /\ notices' \in Seq([kind : Kinds, device : Device])
      /\ Len(notices') = m + 1
      /\ \A n \in 1..m : notices'[n] = notices[n]
      /\ notices'[m + 1] = Notice(kind, d)
      /\ Read'[Len(notices')] =
           [list    |-> Believe(last.list, Notice(kind, d)),
            started |-> last.started \cup Starts(last.list, Notice(kind, d))]
  BY <1>1, NoticeIsRead
<1>3. devices' = devices
  BY DEF Notify, injectorVars
<1>4. eis \in [Device -> EisState] /\ devices \in Seq(Belief)
  BY <1>1 DEF InjectorTypes
<1>5. /\ eis'[d] = to /\ \A c \in Device : c # d => eis'[c] = eis[c]
      /\ eis' \in [Device -> EisState]
  BY <1>4
<1> HIDE DEF last, m
<1>6. InjectorTypes'
  BY <1>2, <1>3, <1>4, <1>5 DEF InjectorTypes
<1>7. AgreesWith(Read'[Len(notices')].list, eis')
  BY <1>2 DEF last
<1>8. ASSUME NEW c \in Device, eis'[c] = "resumed"
      PROVE  c \in Read'[Len(notices')].started
  <2>1. CASE c = d
    BY <1>1, <1>2, <1>5, <1>8, <2>1 DEF last
  <2>2. CASE c # d
    BY <1>1, <1>2, <1>5, <1>8, <2>2
  <2> QED BY <2>1, <2>2
<1>9. ASSUME NEW i \in 1..Len(devices), devices[i].resumed
      PROVE  eis'[devices[i].device] = "emulating" \/ Stopping(devices[i].device)'
  <2> DEFINE c == devices[i].device
  <2>1. c \in Device
    <3>1. devices[i] \in Belief
      BY <1>4
    <3> QED BY <3>1 DEF Belief
  <2>2. eis[c] = "emulating" \/ Stopping(c)
    BY <1>1, <1>9
  <2> HIDE DEF c
  <2>3. CASE Stopping(c)
    <3>1. PICK n \in 1..m : notices[n].device = c /\ notices[n].kind \in {"paused", "removed"}
      BY <2>3 DEF Stopping, m
    <3>2. n \in 1..Len(notices') /\ notices'[n] = notices[n]
      BY <1>1, <1>2, <3>1
    <3>3. \E k \in 1..Len(notices') :
            notices'[k].device = c /\ notices'[k].kind \in {"paused", "removed"}
      BY <3>1, <3>2
    <3> QED BY <1>3, <3>3 DEF Stopping, c
  <2>4. CASE eis[c] = "emulating" /\ c # d
    BY <1>5, <2>1, <2>4 DEF c
  <2>5. CASE eis[c] = "emulating" /\ c = d
    <3>1. CASE to = "emulating"
      BY <1>5, <2>5, <3>1 DEF c
    <3>2. CASE kind \in {"paused", "removed"}
      <4>1. m + 1 \in 1..Len(notices')
        BY <1>1, <1>2
      <4>2. notices'[m + 1].device = c /\ notices'[m + 1].kind \in {"paused", "removed"}
        BY <1>2, <2>5, <3>2 DEF Notice
      <4>3. \E k \in 1..Len(notices') :
              notices'[k].device = c /\ notices'[k].kind \in {"paused", "removed"}
        BY <4>1, <4>2
      <4> QED BY <1>3, <4>3 DEF Stopping, c
    <3> QED BY <2>5, <3>1, <3>2
  <2> QED BY <2>2, <2>3, <2>4, <2>5
<1> QED BY <1>3, <1>6, <1>7, <1>8, <1>9 DEF InjectorInv

-----------------------------------------------------------------------------
\* The invariant.

LEMMA InitInjector == Init => InjectorInv
<1> SUFFICES ASSUME Init PROVE InjectorInv
  OBVIOUS
<1>1. notices = <<>> /\ devices = <<>> /\ eis = [d \in Device |-> "absent"]
  BY DEF Init
<1>2. Read[Len(notices)] = [list |-> <<>>, started |-> {}]
  <2>1. Read[0] = Unread
    BY ReadIs DEF ReadingRule
  <2> QED BY <1>1, <2>1 DEF Unread
<1>3. InjectorTypes
  BY <1>1 DEF InjectorTypes, EisState
<1>4. AgreesWith(Read[Len(notices)].list, eis)
  BY <1>1, <1>2 DEF AgreesWith
<1> QED BY <1>1, <1>3, <1>4 DEF InjectorInv

LEMMA AddKeeps == InjectorInv /\ Add => InjectorInv'
<1> SUFFICES ASSUME InjectorInv, NEW d \in Device, eis[d] = "absent",
                    eis' = [eis EXCEPT ![d] = "paused"], Notify("added", d)
             PROVE  InjectorInv'
  BY DEF Add, ServerStep
<1>1. AgreesWith(Believe(Read[Len(notices)].list, Notice("added", d)), eis')
  BY AddedAgrees DEF InjectorInv, InjectorTypes
<1> QED BY <1>1, NoticeKeeps DEF Kinds, EisState

LEMMA ResumeKeeps == InjectorInv /\ Resume => InjectorInv'
<1> SUFFICES ASSUME InjectorInv, NEW d \in Device, eis[d] = "paused",
                    eis' = [eis EXCEPT ![d] = "resumed"], Notify("resumed", d)
             PROVE  InjectorInv'
  BY DEF Resume, ServerStep
<1> DEFINE list == Read[Len(notices)].list
<1>1. AgreesWith(list, eis)
  BY DEF InjectorInv
<1> HIDE DEF list
<1>2. AgreesWith(Believe(list, Notice("resumed", d)), eis')
  BY <1>1, ChangedAgrees DEF InjectorInv, InjectorTypes
<1>3. PICK i \in 1..Len(list) : list[i].device = d
  BY <1>1 DEF AgreesWith
<1>4. list[i].emulating = FALSE
  <2>1. list[i] \in Belief
    BY <1>1 DEF AgreesWith
  <2>2. list[i].emulating = list[i].resumed /\ (list[i].resumed <=> eis[d] \in Running)
    BY <1>1, <1>3 DEF AgreesWith
  <2> QED BY <2>1, <2>2 DEF Running, Belief
<1>5. d \in Starts(list, Notice("resumed", d))
  <2>1. DOMAIN list = 1..Len(list)
    BY <1>1 DEF AgreesWith
  <2> QED BY <1>3, <1>4, <2>1 DEF Starts, Index, Notice
<1> QED BY <1>2, <1>5, NoticeKeeps DEF Kinds, EisState, list

LEMMA PauseKeeps == InjectorInv /\ Pause => InjectorInv'
<1> SUFFICES ASSUME InjectorInv, NEW d \in Device, eis[d] \in Running,
                    eis' = [eis EXCEPT ![d] = "paused"], Notify("paused", d)
             PROVE  InjectorInv'
  BY DEF Pause, ServerStep, Running
<1>1. AgreesWith(Believe(Read[Len(notices)].list, Notice("paused", d)), eis')
  <2>1. eis[d] # "absent"
    BY DEF Running
  <2> QED BY <2>1, ChangedAgrees DEF InjectorInv, InjectorTypes
<1> QED BY <1>1, NoticeKeeps DEF Kinds, EisState

LEMMA RemoveKeeps == InjectorInv /\ Remove => InjectorInv'
<1> SUFFICES ASSUME InjectorInv, NEW d \in Device, eis[d] # "absent",
                    eis' = [eis EXCEPT ![d] = "absent"], Notify("removed", d)
             PROVE  InjectorInv'
  BY DEF Remove, ServerStep
<1>1. AgreesWith(Believe(Read[Len(notices)].list, Notice("removed", d)), eis')
  BY RemovedAgrees DEF InjectorInv, InjectorTypes
<1> QED BY <1>1, NoticeKeeps DEF Kinds, EisState

LEMMA DisconnectKeeps == InjectorInv /\ Disconnect => InjectorInv'
<1> SUFFICES ASSUME InjectorInv, NEW d \in Device, eis' = eis, Notify("disconnect", d)
             PROVE  InjectorInv'
  BY DEF Disconnect
<1>1. AgreesWith(Believe(Read[Len(notices)].list, Notice("disconnect", d)), eis')
  BY DisconnectAgrees DEF InjectorInv
<1>2. /\ eis[d] \in EisState /\ eis' = [eis EXCEPT ![d] = eis[d]]
  BY DEF InjectorInv, InjectorTypes
<1> QED BY <1>1, <1>2, NoticeKeeps DEF Kinds

\* The socket is read: the beliefs are what was read, and every device that was
\* resumed has been told to start.
LEMMA DispatchKeeps == InjectorInv /\ DispatchEi => InjectorInv'
<1> SUFFICES ASSUME InjectorInv, DispatchEi PROVE InjectorInv'
  OBVIOUS
<1> DEFINE after == Read[Len(notices)]
           list == after.list
<1>1. /\ devices' = list /\ notices' = <<>>
      /\ eis' = [d \in Device |-> IF d \in after.started /\ eis[d] = "resumed"
                                  THEN "emulating" ELSE eis[d]]
  BY DEF DispatchEi
<1>2. /\ eis \in [Device -> EisState]
      /\ AgreesWith(list, eis)
      /\ \A d \in Device : eis[d] = "resumed" => d \in after.started
  BY DEF InjectorInv, InjectorTypes
<1> HIDE DEF after, list
<1>3. \A d \in Device : eis'[d] = IF eis[d] = "resumed" THEN "emulating" ELSE eis[d]
  BY <1>1, <1>2
<1>4. eis' \in [Device -> EisState]
  BY <1>1, <1>2 DEF EisState
<1>5. list \in Seq(Belief) /\ \A i \in 1..Len(list) : list[i].device \in Device
  <2>1. list \in Seq(Belief)
    BY <1>2 DEF AgreesWith
  <2>2. \A i \in 1..Len(list) : list[i] \in Belief
    BY <2>1
  <2> QED BY <2>1, <2>2 DEF Belief
<1>6. \A d \in Device : /\ eis'[d] # "absent" <=> eis[d] # "absent"
                        /\ eis'[d] \in Running <=> eis[d] \in Running
                        /\ eis'[d] \in Running => eis'[d] = "emulating"
  BY <1>3 DEF Running
<1>7. AgreesWith(list, eis')
  BY <1>2, <1>5, <1>6 DEF AgreesWith
<1>8. Read'[Len(notices')] = [list |-> devices', started |-> {}]
  <2>1. ReadingRule'
    BY ReadIs, PTL
  <2> QED BY <1>1, <2>1 DEF ReadingRule, Unread
<1>9. InjectorTypes'
  BY <1>1, <1>4, <1>5 DEF InjectorTypes
<1>10. AgreesWith(Read'[Len(notices')].list, eis')
  BY <1>1, <1>7, <1>8
<1>11. \A d \in Device : eis'[d] # "resumed"
  BY <1>3, <1>6 DEF Running
<1>12. \A i \in 1..Len(list) : list[i].resumed => eis'[list[i].device] = "emulating"
  BY <1>5, <1>6, <1>7 DEF AgreesWith
<1> QED BY <1>1, <1>9, <1>10, <1>11, <1>12 DEF InjectorInv

\* The connection ends: the beliefs, the notices and the devices go together.
LEMMA CloseKeeps == Close => InjectorInv'
<1> SUFFICES ASSUME Close PROVE InjectorInv'
  OBVIOUS
<1>1. notices' = <<>> /\ devices' = <<>> /\ eis' = [d \in Device |-> "absent"]
  BY DEF Close
<1>2. Read'[Len(notices')] = [list |-> <<>>, started |-> {}]
  <2>1. ReadingRule'
    BY ReadIs, PTL
  <2> QED BY <1>1, <2>1 DEF ReadingRule, Unread
<1>3. InjectorTypes'
  BY <1>1 DEF InjectorTypes, EisState
<1>4. AgreesWith(Read'[Len(notices')].list, eis')
  BY <1>1, <1>2 DEF AgreesWith
<1> QED BY <1>1, <1>3, <1>4 DEF InjectorInv

\* Nothing the invariant speaks of changes.
LEMMA StutterKeeps == InjectorInv /\ UNCHANGED <<devices, eisVars>> => InjectorInv'
<1> SUFFICES ASSUME InjectorInv, UNCHANGED <<devices, notices, eis>> PROVE InjectorInv'
  BY DEF eisVars
<1>1. Read' = Read
  BY DEF Read
<1> QED BY <1>1 DEF InjectorInv, InjectorTypes, Stopping

LEMMA NextInjector == InjectorInv /\ [Next]_vars => InjectorInv'
<1> SUFFICES ASSUME InjectorInv, [Next]_vars PROVE InjectorInv'
  OBVIOUS
<1>1. CASE EisStep
  BY <1>1, AddKeeps, ResumeKeeps, PauseKeeps, RemoveKeeps, DisconnectKeeps DEF EisStep
<1>2. CASE AwaitDevices \/ Inject
  BY <1>2, DispatchKeeps DEF AwaitDevices, Inject
<1>3. CASE Refused \/ AwaitDisconnected \/ Shutdown
  BY <1>3, CloseKeeps DEF Refused, AwaitDisconnected, Shutdown
<1>4. CASE Initialize \/ Created \/ Started \/ PollFails \/ InjectUnready
  BY <1>4, StutterKeeps DEF Initialize, Created, Started, PollFails, InjectUnready
<1>5. CASE UNCHANGED vars
  BY <1>5, StutterKeeps DEF vars, injectorVars, eisVars
<1> QED BY <1>1, <1>2, <1>3, <1>4, <1>5 DEF Next, InjectorStep

\* The invariant holds, whatever the devices, the notices and the sessions.
THEOREM InjectorInvariant == Spec => []InjectorInv
BY InitInjector, NextInjector, PTL DEF Spec

\* The injector sends events to devices that take them, unless the server has
\* said since that a device is paused or removed: the bookkeeping of resumed and
\* emulating in processEiEvent is right, over any notices in any order.
THEOREM EventsAreAlwaysTaken == Spec => []EventsAreTaken
<1>1. InjectorInv => EventsAreTaken
  <2> SUFFICES ASSUME InjectorInv, NEW i \in DOMAIN devices, devices[i].resumed
               PROVE  \/ eis[devices[i].device] = "emulating"
                      \/ \E n \in DOMAIN notices :
                           /\ notices[n].device = devices[i].device
                           /\ notices[n].kind \in {"paused", "removed"}
    BY DEF EventsAreTaken
  <2>1. DOMAIN devices = 1..Len(devices) /\ DOMAIN notices = 1..Len(notices)
    BY DEF InjectorInv, InjectorTypes
  <2>2. eis[devices[i].device] = "emulating" \/ Stopping(devices[i].device)
    BY <2>1 DEF InjectorInv
  <2> QED BY <2>1, <2>2 DEF Stopping
<1> QED BY <1>1, InjectorInvariant, PTL

=============================================================================
