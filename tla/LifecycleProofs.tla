--------------------------- MODULE LifecycleProofs ---------------------------
(***************************************************************************)
(* Proofs about Lifecycle.                                                 *)
(***************************************************************************)
EXTENDS Lifecycle, FunctionTheorems, FiniteSetTheorems, TLAPS

-----------------------------------------------------------------------------
(* Choices and lists.                                                          *)

\* A finite set goes into another one that is not smaller.
LEMMA InjectionExists ==
  ASSUME NEW A, NEW B, IsFiniteSet(A), IsFiniteSet(B), Cardinality(A) <= Cardinality(B)
  PROVE  \E f \in [A -> B] : \A x, y \in A : f[x] = f[y] => x = y
<1> DEFINE M == 1 .. Cardinality(A)
           K == 1 .. Cardinality(B)
<1>1. /\ Cardinality(A) \in Nat /\ Cardinality(B) \in Nat
      /\ ExistsBijection(M, A) /\ ExistsBijection(K, B)
  BY FS_CardinalityType
<1>2. M \subseteq K
  BY <1>1
<1> HIDE DEF M, K
<1>3. PICK p \in Bijection(M, A) : TRUE
  BY <1>1 DEF ExistsBijection
<1>4. PICK q \in Bijection(K, B) : TRUE
  BY <1>1 DEF ExistsBijection
<1>5. p \in [M -> A] /\ \A t \in A : \E i \in M : p[i] = t
  BY <1>3, Fun_BijectionProperties
<1>6. q \in [K -> B] /\ \A i, j \in K : q[i] = q[j] => i = j
  BY <1>4, Fun_BijectionProperties
<1> DEFINE at(x) == CHOOSE i \in M : p[i] = x
           f == [x \in A |-> q[at(x)]]
<1>7. \A x \in A : at(x) \in M /\ p[at(x)] = x
  BY <1>5
<1>8. \A x \in A : at(x) \in K
  BY <1>7, <1>2
<1> HIDE DEF at
<1>9. f \in [A -> B]
  BY <1>6, <1>8
<1>10. \A x, y \in A : f[x] = f[y] => x = y
  BY <1>6, <1>7, <1>8
<1>11. QED
  BY <1>9, <1>10

\* The elements of a finite set, each once, as a list.
LEMMA SetToSeqLists ==
  ASSUME NEW S, IsFiniteSet(S)
  PROVE  SetToSeq(S) \in Seq(S) /\ ToSet(SetToSeq(S)) = S /\ IsInjective(SetToSeq(S))
<1> DEFINE M == 1 .. Cardinality(S)
           q == SetToSeq(S)
<1>1. Cardinality(S) \in Nat /\ ExistsBijection(M, S)
  BY FS_CardinalityType
<1>2. q = CHOOSE f \in [M -> S] : IsInjective(f)
  BY DEF SetToSeq
<1>3. IsFiniteSet(M) /\ Cardinality(M) = Cardinality(S)
  BY <1>1, FS_Interval
<1>4. \A f \in [M -> S] : f \in Seq(S) /\ DOMAIN f = M
  BY <1>1
<1> HIDE DEF M, q
<1>5. PICK p \in Bijection(M, S) : TRUE
  BY <1>1 DEF ExistsBijection
<1>6. p \in [M -> S] /\ \A i, j \in M : p[i] = p[j] => i = j
  BY <1>5, Fun_BijectionProperties
<1>7. q \in [M -> S] /\ IsInjective(q)
  <2>1. IsInjective(p)
    BY <1>6 DEF IsInjective
  <2>2. QED
    BY <1>2, <1>6, <2>1
<1>8. q \in Injection(M, S)
  BY <1>7 DEF Injection
<1>9. q \in Surjection(M, S)
  BY <1>3, <1>8, FS_Injection
<1>10. \A t \in S : \E i \in M : q[i] = t
  BY <1>9, Fun_SurjectionProperties
<1>11. ToSet(q) = S
  BY <1>4, <1>7, <1>10 DEF ToSet
<1>12. QED
  BY <1>4, <1>7, <1>11 DEF q

\* A list followed by another one.
LEMMA Concatenated ==
  ASSUME NEW T, NEW p \in Seq(T), NEW q \in Seq(T)
  PROVE  /\ p \o q \in Seq(T) /\ Len(p \o q) = Len(p) + Len(q)
         /\ \A i \in 1 .. Len(p) + Len(q) :
              (p \o q)[i] = IF i <= Len(p) THEN p[i] ELSE q[i - Len(p)]
OBVIOUS

\* Two lists without an element in common.
LEMMA Joined ==
  ASSUME NEW T, NEW p \in Seq(T), NEW q \in Seq(T), IsInjective(p), IsInjective(q),
         ToSet(p) \cap ToSet(q) = {}
  PROVE  /\ p \o q \in Seq(T) /\ ToSet(p \o q) = ToSet(p) \cup ToSet(q) /\ IsInjective(p \o q)
         /\ \A i \in DOMAIN p : i \in DOMAIN (p \o q) /\ (p \o q)[i] = p[i]
<1> DEFINE s == p \o q
<1>1. /\ Len(p) \in Nat /\ Len(q) \in Nat /\ DOMAIN p = 1 .. Len(p) /\ DOMAIN q = 1 .. Len(q)
      /\ s \in Seq(T) /\ DOMAIN s = 1 .. Len(p) + Len(q)
      /\ \A i \in DOMAIN s : s[i] = IF i <= Len(p) THEN p[i] ELSE q[i - Len(p)]
  OBVIOUS
<1>2. \A i \in DOMAIN s : i <= Len(p) => i \in DOMAIN p
  BY <1>1
<1>3. \A i \in DOMAIN s : ~(i <= Len(p)) => i - Len(p) \in DOMAIN q
  BY <1>1
<1>4. \A i \in DOMAIN q : i + Len(p) \in DOMAIN s /\ s[i + Len(p)] = q[i]
  BY <1>1
<1>5. \A i \in DOMAIN p : i \in DOMAIN s /\ s[i] = p[i]
  BY <1>1
<1> HIDE DEF s
<1>6. ToSet(s) = ToSet(p) \cup ToSet(q)
  <2>1. \A x \in ToSet(s) : x \in ToSet(p) \cup ToSet(q)
    BY <1>1, <1>2, <1>3 DEF ToSet
  <2>2. \A x \in ToSet(p) \cup ToSet(q) : x \in ToSet(s)
    BY <1>4, <1>5 DEF ToSet
  <2>3. QED
    BY <2>1, <2>2
<1>7. IsInjective(s)
  <2> SUFFICES ASSUME NEW i \in DOMAIN s, NEW j \in DOMAIN s, s[i] = s[j] PROVE i = j
    BY DEF IsInjective
  <2>1. CASE i <= Len(p) /\ j <= Len(p)
    BY <2>1, <1>1, <1>2 DEF IsInjective
  <2>2. CASE ~(i <= Len(p)) /\ ~(j <= Len(p))
    <3>1. i - Len(p) = j - Len(p)
      BY <2>2, <1>1, <1>3 DEF IsInjective
    <3>2. QED
      BY <3>1, <1>1
  <2>3. CASE i <= Len(p) /\ ~(j <= Len(p))
    BY <2>3, <1>1, <1>2, <1>3 DEF ToSet
  <2>4. CASE ~(i <= Len(p)) /\ j <= Len(p)
    BY <2>4, <1>1, <1>2, <1>3 DEF ToSet
  <2>5. QED
    BY <2>1, <2>2, <2>3, <2>4
<1>8. QED
  BY <1>1, <1>5, <1>6, <1>7 DEF s

\* A list with one more element.
LEMMA Lengthened ==
  ASSUME NEW T, NEW p \in Seq(T), NEW x \in T, IsInjective(p), x \notin ToSet(p)
  PROVE  /\ Append(p, x) \in Seq(T) /\ ToSet(Append(p, x)) = ToSet(p) \cup {x}
         /\ IsInjective(Append(p, x))
         /\ \A i \in DOMAIN p : i \in DOMAIN Append(p, x) /\ Append(p, x)[i] = p[i]
<1> DEFINE s == Append(p, x)
<1>1. /\ s \in Seq(T) /\ Len(p) \in Nat /\ DOMAIN p = 1 .. Len(p)
      /\ DOMAIN s = 1 .. Len(p) + 1 /\ s[Len(p) + 1] = x
      /\ \A i \in DOMAIN p : s[i] = p[i]
  OBVIOUS
<1>2. \A i \in DOMAIN s : i \in DOMAIN p \/ i = Len(p) + 1
  BY <1>1
<1>3. /\ \A i \in DOMAIN p : i \in DOMAIN s
      /\ Len(p) + 1 \in DOMAIN s
  BY <1>1
<1> HIDE DEF s
<1>4. ToSet(s) = ToSet(p) \cup {x}
  <2>1. \A y \in ToSet(s) : y \in ToSet(p) \cup {x}
    BY <1>1, <1>2 DEF ToSet
  <2>2. \A y \in ToSet(p) \cup {x} : y \in ToSet(s)
    BY <1>1, <1>3 DEF ToSet
  <2>3. QED
    BY <2>1, <2>2
<1>5. IsInjective(s)
  BY <1>1, <1>2 DEF IsInjective, ToSet
<1>6. QED
  BY <1>1, <1>3, <1>4, <1>5 DEF s

\* A list without one of its elements.
LEMMA Shortened ==
  ASSUME NEW T, NEW p \in Seq(T), NEW i \in DOMAIN p, IsInjective(p)
  PROVE  /\ RemoveAt(p, i) \in Seq(T) /\ ToSet(RemoveAt(p, i)) = ToSet(p) \ {p[i]}
         /\ IsInjective(RemoveAt(p, i))
<1> DEFINE s == RemoveAt(p, i)
           n == Len(p)
<1>1. /\ n \in Nat /\ i \in Nat /\ 1 <= i /\ i <= n /\ DOMAIN p = 1 .. n
  OBVIOUS
<1>2. /\ SubSeq(p, 1, i - 1) \in Seq(T) /\ Len(SubSeq(p, 1, i - 1)) = i - 1
      /\ \A j \in 1 .. i - 1 : SubSeq(p, 1, i - 1)[j] = p[j]
  BY <1>1
<1>3. /\ SubSeq(p, i + 1, n) \in Seq(T) /\ Len(SubSeq(p, i + 1, n)) = n - i
      /\ \A j \in 1 .. n - i : SubSeq(p, i + 1, n)[j] = p[j + i]
  BY <1>1
<1>4. /\ s \in Seq(T) /\ DOMAIN s = 1 .. n - 1
      /\ \A j \in DOMAIN s : s[j] = IF j < i THEN p[j] ELSE p[j + 1]
  <2> DEFINE u == SubSeq(p, 1, i - 1)
             v == SubSeq(p, i + 1, n)
  <2>1. s = u \o v
    BY DEF RemoveAt
  <2> HIDE DEF u, v, s
  <2>2. /\ u \in Seq(T) /\ Len(u) = i - 1 /\ v \in Seq(T) /\ Len(v) = n - i
        /\ \A j \in 1 .. i - 1 : u[j] = p[j]
        /\ \A j \in 1 .. n - i : v[j] = p[j + i]
    BY <1>2, <1>3 DEF u, v
  <2>3. /\ s \in Seq(T) /\ DOMAIN s = 1 .. n - 1
        /\ \A j \in DOMAIN s : s[j] = IF j <= i - 1 THEN u[j] ELSE v[j - (i - 1)]
    <3>1. /\ s \in Seq(T) /\ Len(s) = Len(u) + Len(v)
          /\ \A j \in 1 .. Len(u) + Len(v) :
               s[j] = IF j <= Len(u) THEN u[j] ELSE v[j - Len(u)]
      BY <2>1, <2>2, Concatenated
    <3>2. Len(u) + Len(v) = n - 1 /\ DOMAIN s = 1 .. Len(s)
      BY <3>1, <2>2, <1>1
    <3>3. QED
      BY <3>1, <3>2, <2>2
  <2>4. QED
    <3> SUFFICES ASSUME NEW j \in DOMAIN s
                 PROVE  s[j] = IF j < i THEN p[j] ELSE p[j + 1]
      BY <2>3
    <3>1. CASE j < i
      <4>1. j \in 1 .. i - 1
        BY <3>1, <2>3, <1>1
      <4>2. QED
        BY <4>1, <3>1, <2>2, <2>3
    <3>2. CASE ~(j < i)
      <4>1. j - (i - 1) \in 1 .. n - i /\ j - (i - 1) + i = j + 1 /\ ~(j <= i - 1)
        BY <3>2, <2>3, <1>1
      <4>2. QED
        BY <4>1, <3>2, <2>2, <2>3
    <3>3. QED
      BY <3>1, <3>2
<1> HIDE DEF s
<1>5. \A j \in DOMAIN s : IF j < i THEN j \in DOMAIN p /\ j # i
                                   ELSE j + 1 \in DOMAIN p /\ j + 1 # i
  BY <1>1, <1>4
<1>6. \A j \in DOMAIN p : \/ j = i
                          \/ j \in DOMAIN s /\ s[j] = p[j]
                          \/ j - 1 \in DOMAIN s /\ s[j - 1] = p[j]
  BY <1>1, <1>4
<1>7. \A x \in ToSet(s) : x \in ToSet(p) /\ x # p[i]
  BY <1>4, <1>5 DEF ToSet, IsInjective
<1>8. \A x \in ToSet(p) : x # p[i] => x \in ToSet(s)
  BY <1>6 DEF ToSet
<1>9. IsInjective(s)
  BY <1>1, <1>4, <1>5 DEF IsInjective
<1>10. QED
  BY <1>4, <1>7, <1>8, <1>9 DEF s


\* New objects, one for each name, that start.
Raised(names, f, version) ==
  LET new == NewFor(names)
      H == {new[n] : n \in names}
      g == Starting(f, new, version)
  IN  /\ H \subseteq Speakers /\ \A s \in H : speaker[s].phase = "unused"
      /\ DOMAIN g = Speakers
      /\ \A s \in Speakers \ H : g[s] = f[s]
      /\ \A s \in H : \E n \in names :
           /\ new[n] = s
           /\ g[s] = [name |-> n, ver |-> version[n], phase |-> "starting", link |-> "none"]
      /\ \A x, y \in H : g[x].name = g[y].name => x = y

\* There are enough of them that nobody uses.
LEMMA NewSpeakers ==
  ASSUME NEW names \in SUBSET Names, Enough(names), NEW f, NEW version
  PROVE  Raised(names, f, version)
<1> DEFINE U == {s \in Speakers : speaker[s].phase = "unused"}
           new == NewFor(names)
           H == {new[n] : n \in names}
           g == Starting(f, new, version)
<1>1. IsFiniteSet(names) /\ IsFiniteSet(U)
  BY LifecycleAssumption, FS_Subset
<1>2. \E e \in [names -> U] : \A m, n \in names : e[m] = e[n] => m = n
  <2>1. Cardinality(names) <= Cardinality(U)
    BY DEF Enough
  <2> HIDE DEF U
  <2>2. QED
    BY <1>1, <2>1, InjectionExists
<1>3. new \in [names -> U] /\ \A m, n \in names : new[m] = new[n] => m = n
  BY <1>2 DEF NewFor
<1> HIDE DEF new
<1>4. DOMAIN new = names /\ H \subseteq U
  BY <1>3
<1>5. \A s \in Speakers \ H : g[s] = f[s]
  BY <1>4 DEF Starting
<1>6. ASSUME NEW s \in H
      PROVE  \E n \in names :
               /\ new[n] = s
               /\ g[s] = [name |-> n, ver |-> version[n], phase |-> "starting", link |-> "none"]
  <2> DEFINE n == CHOOSE n \in DOMAIN new : new[n] = s
  <2>1. \E m \in DOMAIN new : new[m] = s
    BY <1>4
  <2>2. n \in names /\ new[n] = s
    BY <2>1, <1>4
  <2>3. s \in Speakers
    BY <1>4
  <2>4. g[s] = [name |-> n, ver |-> version[n], phase |-> "starting", link |-> "none"]
    BY <2>1, <2>3 DEF Starting
  <2> HIDE DEF n
  <2>5. QED
    BY <2>2, <2>4
<1>7. \A x, y \in H : g[x].name = g[y].name => x = y
  <2> TAKE x, y \in H
  <2>1. PICK m \in names :
          /\ new[m] = x
          /\ g[x] = [name |-> m, ver |-> version[m], phase |-> "starting", link |-> "none"]
    BY <1>6
  <2>2. PICK n \in names :
          /\ new[n] = y
          /\ g[y] = [name |-> n, ver |-> version[n], phase |-> "starting", link |-> "none"]
    BY <1>6
  <2>3. g[x].name = m /\ g[y].name = n
    BY <2>1, <2>2
  <2>4. QED
    BY <2>1, <2>2, <2>3
<1>8. DOMAIN g = Speakers
  BY DEF Starting
<1>9. QED
  BY <1>4, <1>5, <1>6, <1>7, <1>8 DEF new, Raised

\* One object for one name.
LEMMA NewSpeaker ==
  ASSUME NEW n \in Names, Enough({n}), NEW f, NEW version
  PROVE  LET s == NewFor({n})[n]
             g == Starting(f, NewFor({n}), version)
         IN  /\ s \in Speakers /\ speaker[s].phase = "unused" /\ DOMAIN g = Speakers
             /\ \A o \in Speakers : o # s => g[o] = f[o]
             /\ g[s] = [name |-> n, ver |-> version[n], phase |-> "starting", link |-> "none"]
<1> DEFINE new == NewFor({n})
           H == {new[m] : m \in {n}}
           g == Starting(f, new, version)
<1>1. Raised({n}, f, version)
  <2>1. {n} \in SUBSET Names
    OBVIOUS
  <2>2. QED
    BY <2>1, NewSpeakers
<1>2. /\ H \subseteq Speakers /\ \A s \in H : speaker[s].phase = "unused"
      /\ DOMAIN g = Speakers
      /\ \A s \in Speakers \ H : g[s] = f[s]
      /\ \A s \in H : \E m \in {n} :
           g[s] = [name |-> m, ver |-> version[m], phase |-> "starting", link |-> "none"]
  BY <1>1 DEF Raised
<1> HIDE DEF g, new
<1>3. H = {new[n]}
  OBVIOUS
<1>4. QED
  BY <1>2, <1>3 DEF g, new

\* Each speaker that failed has a task now, unless its name had one.
Rescheduled(failed) ==
  /\ retrier' = [t \in Retries |-> retrier'[t]] /\ retries' = [n \in Names |-> retries'[n]]
  /\ \A t \in Retries :
       \/ retrier'[t] = retrier[t]
       \/ /\ retrier[t].pc = "idle"
          /\ \E s \in failed :
               /\ retries[speaker[s].name] = None /\ retries'[speaker[s].name] = t
               /\ retrier'[t] = [name |-> speaker[s].name, ver |-> speaker[s].ver,
                                 pc |-> "sleep", holds |-> {}]
  /\ \A n \in Names :
       \/ retries'[n] = retries[n]
       \/ /\ retries[n] = None /\ retries'[n] \in Retries
          /\ retrier'[retries'[n]].name = n /\ retrier'[retries'[n]].pc = "sleep"

\* What Schedule does to the tasks and their table.
LEMMA Scheduled ==
  ASSUME NEW failed \in SUBSET Speakers, Schedule(failed),
         \A s \in failed : speaker[s].name \in Names,
         \A x, y \in failed : speaker[x].name = speaker[y].name => x = y
  PROVE  Rescheduled(failed)
<1> DEFINE news == {s \in failed : retries[speaker[s].name] = None}
           free == {t \in Retries : retrier[t].pc = "idle"}
           f == CHOOSE f \in [news -> free] : \A x, y \in news : f[x] = f[y] => x = y
<1>1. IsFiniteSet(news) /\ IsFiniteSet(free)
  BY LifecycleAssumption, FS_Subset
<1>2. \E e \in [news -> free] : \A x, y \in news : e[x] = e[y] => x = y
  <2>1. Cardinality(news) <= Cardinality(free)
    BY DEF Schedule
  <2> HIDE DEF news, free
  <2>2. QED
    BY <1>1, <2>1, InjectionExists
<1>3. f \in [news -> free] /\ \A x, y \in news : f[x] = f[y] => x = y
  BY <1>2
<1>4. /\ retrier' = [t \in Retries |->
             IF \E s \in news : f[s] = t
             THEN LET s == CHOOSE s \in news : f[s] = t
                  IN  [name |-> speaker[s].name, ver |-> speaker[s].ver, pc |-> "sleep",
                       holds |-> {}]
             ELSE retrier[t]]
      /\ retries' = [n \in Names |->
             IF \E s \in news : speaker[s].name = n
             THEN f[CHOOSE s \in news : speaker[s].name = n] ELSE retries[n]]
  BY DEF Schedule
<1> HIDE DEF f
<1>5. \A s \in news : retries'[speaker[s].name] = f[s]
  <2> TAKE s \in news
  <2>1. (CHOOSE x \in news : speaker[x].name = speaker[s].name) = s
    OBVIOUS
  <2>2. QED
    BY <1>4, <2>1
<1>6. \A s \in news : retrier'[f[s]] = [name |-> speaker[s].name, ver |-> speaker[s].ver,
                                        pc |-> "sleep", holds |-> {}]
  <2> TAKE s \in news
  <2>1. (CHOOSE x \in news : f[x] = f[s]) = s
    BY <1>3
  <2>2. f[s] \in Retries
    BY <1>3
  <2>3. QED
    BY <1>4, <2>1, <2>2
<1>7. \A t \in Retries : \/ retrier'[t] = retrier[t] 
                         \/ \E s \in news : f[s] = t
  BY <1>4
<1>8. \A n \in Names : \/ retries'[n] = retries[n] 
                       \/ \E s \in news : speaker[s].name = n
  BY <1>4
<1>9. \A s \in news : f[s] \in Retries /\ retrier[f[s]].pc = "idle"
  BY <1>3
<1>10. /\ retrier' = [t \in Retries |-> retrier'[t]]
       /\ retries' = [n \in Names |-> retries'[n]]
  BY <1>4
<1>11. ASSUME NEW t \in Retries, retrier'[t] # retrier[t]
       PROVE  /\ retrier[t].pc = "idle"
              /\ \E s \in failed :
                   /\ retries[speaker[s].name] = None /\ retries'[speaker[s].name] = t
                   /\ retrier'[t] = [name |-> speaker[s].name, ver |-> speaker[s].ver,
                                     pc |-> "sleep", holds |-> {}]
  <2>1. PICK s \in news : f[s] = t
    BY <1>7, <1>11
  <2>2. s \in failed /\ retries[speaker[s].name] = None
    OBVIOUS
  <2>3. QED
    BY <2>1, <2>2, <1>5, <1>6, <1>9
<1>12. ASSUME NEW n \in Names, retries'[n] # retries[n]
       PROVE  /\ retries[n] = None /\ retries'[n] \in Retries
              /\ retrier'[retries'[n]].name = n /\ retrier'[retries'[n]].pc = "sleep"
  <2>1. PICK s \in news : speaker[s].name = n
    BY <1>8, <1>12
  <2>2. retries[n] = None /\ retries'[n] = f[s]
    BY <2>1, <1>5
  <2>3. retrier'[f[s]].name = n /\ retrier'[f[s]].pc = "sleep"
    <3>1. retrier'[f[s]] = [name |-> speaker[s].name, ver |-> speaker[s].ver, pc |-> "sleep",
                            holds |-> {}]
      BY <1>6
    <3>2. QED
      BY <3>1, <2>1
  <2>4. QED
    BY <2>2, <2>3, <1>9
<1>13. QED
  BY <1>10, <1>11, <1>12 DEF Rescheduled

-----------------------------------------------------------------------------
(***************************************************************************)
(* The shape of the state: who holds which Speaker objects, and in which   *)
(* phase these may be.  All of it holds in any order of the requests.      *)
(***************************************************************************)
Version == 0 .. MaxRequests + 1

SpeakerObject ==
  [name : Names \cup {None}, ver : Version,
   phase : {"unused", "starting", "up", "stopping", "down"}, link : {"none", "setting", "on"}]

\* The program's own state, and the bounds.
AppShape ==
  /\ app \in {"new", "up", "stopping", "stopped"} /\ api \in {"none", "saved", "web"}
  /\ config \in [Names -> Version]
  /\ used \in [request : 0 .. MaxRequests, failure : Nat, selection : Nat]

\* The list has each object once, and only such that have been started.
SpeakerShape ==
  /\ speaker \in [Speakers -> SpeakerObject]
  /\ \A s \in Speakers : speaker[s].phase # "unused" =>
        speaker[s].name \in Names /\ speaker[s].ver # 0
  /\ listed \in Seq(Speakers) /\ IsInjective(listed)
  /\ \A s \in ToSet(listed) : speaker[s].phase \in {"up", "stopping", "down"}

Begun == {"starting", "up", "down"}
Ended == {"stopping", "down"}

ValidatorShape ==
  /\ validator \in [pc : {"none", "asks", "sleep", "starting", "stopping", "done"},
                    holds : SUBSET Speakers, tracked : BOOLEAN, first : BOOLEAN]
  /\ validator.pc \notin {"starting", "stopping"} => validator.holds = {}
  /\ validator.tracked <=> validator.pc \in {"asks", "sleep", "starting"}
  /\ validator.pc = "starting" => \A s \in validator.holds : speaker[s].phase \in Begun
  /\ validator.pc = "stopping" => \A s \in validator.holds : speaker[s].phase \in Ended
  /\ \A x, y \in validator.holds : speaker[x].name = speaker[y].name => x = y

RequestRecord ==
  [kind : {"none", "login", "logout", "shutdown", "add", "edit", "remove"},
   pc : {"idle", "cancelling", "starting", "stopping"}, name : Names \cup {None},
   ver : Version, holds : SUBSET Speakers, at : Nat, waits : BOOLEAN]

\* The handler q, when the Speaker objects are f.
RequestFits(q, f) ==
  /\ q.kind = "none" => q.pc = "idle"
  /\ q.kind = "login" => q.pc \in {"cancelling", "starting"}
  /\ q.kind \in StopKinds => q.pc \in {"cancelling", "stopping"}
  /\ q.kind = "add" => q.pc = "starting"
  /\ q.kind = "edit" => q.pc \in {"starting", "stopping"} /\ q.ver # 0
  /\ q.kind = "remove" => q.pc = "stopping"
  /\ q.kind \in {"add", "edit", "remove"} => q.name \in Names
  /\ q.pc \in {"idle", "cancelling"} => q.holds = {}
  /\ q.at # 0 => q.kind = "edit"
  /\ q.kind = "edit" /\ q.pc = "stopping" => q.at # 0
  /\ q.kind \in {"add", "edit"} => \E s \in Speakers : q.holds = {s}
  /\ q.kind \in {"add", "edit"} /\ q.pc = "starting" => \A s \in q.holds : f[s].name = q.name
  /\ q.pc = "starting" => /\ \A s \in q.holds : f[s].phase \in Begun
                          /\ \A x, y \in q.holds : f[x].name = f[y].name => x = y
  /\ q.pc = "stopping" => \A s \in q.holds : f[s].phase \in Ended

RequestShape ==
  /\ request \in [Requests -> RequestRecord]
  /\ \A r \in Requests : RequestFits(request[r], speaker)

RetryRecord ==
  [name : Names \cup {None}, ver : Version, pc : {"idle", "sleep", "starting", "stopping"},
   holds : SUBSET Speakers]

RetryFits(q, f) ==
  /\ q.pc \in {"idle", "sleep"} => q.holds = {}
  /\ q.pc # "idle" => q.name \in Names /\ q.ver # 0
  /\ q.pc \in {"starting", "stopping"} => \E s \in Speakers : q.holds = {s}
  /\ \A s \in q.holds : f[s].name = q.name /\ f[s].ver = q.ver
  /\ q.pc = "starting" => \A s \in q.holds : f[s].phase \in Begun
  /\ q.pc = "stopping" => \A s \in q.holds : f[s].phase \in Ended

RetryShape ==
  /\ retrier \in [Retries -> RetryRecord] /\ \A t \in Retries : RetryFits(retrier[t], speaker)
  /\ retries \in [Names -> Retries \cup {None}]
  /\ \A n \in Names : retries[n] # None =>
       retrier[retries[n]].name = n /\ retrier[retries[n]].pc \in {"sleep", "starting"}

\* What a coroutine starts nobody else holds, and it is not listed yet; what is stopped is not
\* started.
Apart ==
  /\ \A s \in ToSet(listed) :
       /\ s \notin validator.holds
       /\ \A t \in Retries : s \notin retrier[t].holds
       /\ \A r \in Requests : request[r].pc = "starting" => s \notin request[r].holds
  /\ \A r \in Requests : \A s \in request[r].holds :
       /\ s \notin validator.holds
       /\ \A t \in Retries : s \notin retrier[t].holds
       /\ request[r].pc = "starting" => \A q \in Requests : q # r => s \notin request[q].holds
  /\ \A t \in Retries : \A s \in retrier[t].holds :
       /\ s \notin validator.holds
       /\ \A u \in Retries : u # t => s \notin retrier[u].holds

\* An object that is free is held by nobody.
Free ==
  \A s \in Speakers : speaker[s].phase = "unused" =>
    /\ s \notin ToSet(listed) /\ s \notin validator.holds
    /\ \A r \in Requests : s \notin request[r].holds
    /\ \A t \in Retries : s \notin retrier[t].holds

\* The courses of the program and of the validation.
Courses ==
  /\ app = "new" => /\ api = "none" /\ validator.pc = "none"
                    /\ \A r \in Requests : request[r].kind = "none"
  /\ validator.pc = "asks" => api = "none"
  /\ \A r \in Requests : request[r].kind \in {"login"} \cup StopKinds => ~validator.tracked
  /\ app \in {"stopping", "stopped"} => ~validator.tracked
  /\ \A r \in Requests : request[r].kind = "shutdown" => app \in {"stopping", "stopped"}

Shape ==
  /\ AppShape /\ SpeakerShape /\ ValidatorShape /\ RequestShape /\ RetryShape /\ Apart /\ Free

\* A step of one speaker.
LEMMA OneSpeaker ==
  ASSUME Shape, UNCHANGED listed, NEW s \in Speakers,
         NEW p \in {"up", "down", speaker[s].phase}, NEW l \in {"none", "setting", "on"},
         speaker[s].phase # "unused",
         speaker' = [speaker EXCEPT ![s] = [@ EXCEPT !.phase = p, !.link = l]]
  PROVE  SpeakerShape'
<1>1. SpeakerShape
  BY DEF Shape
<1>2. speaker' \in [Speakers -> SpeakerObject]
  BY <1>1 DEF SpeakerShape, SpeakerObject
<1>3. /\ \A o \in Speakers : speaker'[o].name = speaker[o].name /\ speaker'[o].ver = speaker[o].ver
      /\ \A o \in Speakers : speaker'[o].phase = IF o = s THEN p ELSE speaker[o].phase
  BY <1>1 DEF SpeakerShape
<1>4. \A o \in Speakers : speaker'[o].phase # "unused" =>
        speaker'[o].name \in Names /\ speaker'[o].ver # 0
  BY <1>1, <1>3 DEF SpeakerShape
<1>5. ToSet(listed) \subseteq Speakers
  BY <1>1 DEF SpeakerShape, ToSet
<1>6. \A o \in ToSet(listed) : speaker'[o].phase \in {"up", "stopping", "down"}
  BY <1>1, <1>3, <1>5 DEF SpeakerShape
<1>7. QED
  BY <1>1, <1>2, <1>4, <1>6 DEF SpeakerShape

\* The task is over.
LEMMA OverShape == ASSUME validator' = Over PROVE ValidatorShape'
<1>1. /\ validator'.pc = "done" /\ validator'.holds = {} /\ validator'.tracked = FALSE
      /\ validator'.first = TRUE
  BY DEF Over
<1>2. validator' \in [pc : {"none", "asks", "sleep", "starting", "stopping", "done"},
                      holds : SUBSET Speakers, tracked : BOOLEAN, first : BOOLEAN]
  BY DEF Over
<1>3. QED
  BY <1>1, <1>2 DEF ValidatorShape

\* What Known means.
LEMMA KnownIs ==
  ASSUME NEW s
  PROVE  s \in Known <=> \/ s \in ToSet(listed) \/ s \in validator.holds
                         \/ \E r \in Requests : s \in request[r].holds
                         \/ \E t \in Retries : s \in retrier[t].holds
<1> DEFINE B == UNION {request[r].holds : r \in Requests}
           C == UNION {retrier[t].holds : t \in Retries}
<1>1. s \in B <=> \E r \in Requests : s \in request[r].holds
  OBVIOUS
<1>2. s \in C <=> \E t \in Retries : s \in retrier[t].holds
  OBVIOUS
<1>3. Known = ToSet(listed) \cup (validator.holds \cup B \cup C)
  BY DEF Known, Holds
<1> HIDE DEF B, C
<1>4. s \in Known <=> s \in ToSet(listed) \/ s \in validator.holds \/ s \in B \/ s \in C
  BY <1>3
<1>5. QED
  BY <1>1, <1>2, <1>4

\* At the start.
LEMMA InitShape == Init => Shape
<1> SUFFICES ASSUME Init PROVE Shape
  OBVIOUS
<1>1. ToSet(<<>>) = {} /\ IsInjective(<<>>) /\ <<>> \in Seq(Speakers)
  BY DEF ToSet, IsInjective
<1>2. MaxRequests \in Nat
  BY LifecycleAssumption
<1>3. AppShape
  BY <1>2, LifecycleAssumption DEF Init, AppShape, Version
<1>4. SpeakerShape
  BY <1>1, <1>2 DEF Init, SpeakerShape, SpeakerObject, Unused, Version
<1>5. ValidatorShape
  BY DEF Init, ValidatorShape
<1>6. RequestShape
  BY <1>2 DEF Init, RequestShape, RequestRecord, RequestFits, Idle, Version, StopKinds
<1>7. RetryShape
  BY <1>2 DEF Init, RetryShape, RetryRecord, RetryFits, NoRetry, Version
<1>8. Apart /\ Free
  BY <1>1 DEF Init, Apart, Free, Idle, NoRetry
<1>9. QED
  BY <1>3, <1>4, <1>5, <1>6, <1>7, <1>8 DEF Shape

\* Boot keeps the shape (app.py:start).
LEMMA BootShape == ASSUME Shape, Courses, NEW token \in BOOLEAN, Boot(token) PROVE Shape'
<1> USE LifecycleAssumption DEF vars, authVars, retryVars
<1>0. AppShape /\ SpeakerShape /\ ValidatorShape /\ RequestShape /\ RetryShape /\ Apart /\ Free
  BY DEF Shape
<1>1. AppShape'
  BY <1>0 DEF Boot, Over, AppShape, Version
<1>2. SpeakerShape'
  BY <1>0 DEF Boot, Over, AppShape, SpeakerShape, SpeakerObject
<1>3. ValidatorShape'
  <2>1. ValidatorShape /\ SpeakerShape
    BY <1>0
  <2>2. CASE validator' = Over
    BY <2>2, OverShape
  <2>3. CASE validator' = [validator EXCEPT !.pc = "asks", !.tracked = TRUE]
    <3>1. validator.holds = {} 
      BY <2>1 DEF Boot, Over, ValidatorShape, Courses
    <3>2. validator'.pc = "asks" /\ validator'.holds = {} /\ validator'.tracked = TRUE
      BY <2>1, <2>3, <3>1 DEF ValidatorShape
    <3>3. validator' \in [pc : {"none", "asks", "sleep", "starting", "stopping", "done"},
                          holds : SUBSET Speakers, tracked : BOOLEAN, first : BOOLEAN]
      BY <2>1, <2>3 DEF ValidatorShape
    <3>4. QED
      BY <3>2, <3>3 DEF ValidatorShape
  <2>4. QED
    BY <2>2, <2>3 DEF Boot, Over
<1>4. RequestShape'
  BY <1>0 DEF Boot, Over, RequestShape, SpeakerShape, AppShape, RequestFits, StopKinds, Begun,
    Ended, RequestRecord
<1>5. RetryShape'
  BY <1>0 DEF Boot, Over, RetryShape, SpeakerShape, RetryFits, Begun, Ended
<1>6. Apart'
  BY <1>0 DEF Boot, Over, Apart
<1>7. Free'
  BY <1>0 DEF Boot, Over, Free, SpeakerShape
<1>8. QED
  BY <1>1, <1>2, <1>3, <1>4, <1>5, <1>6, <1>7 DEF Shape

\* ValidationFails keeps the shape (app.py:_validate_saved_token).
LEMMA ValidationFailsShape == ASSUME Shape, ValidationFails PROVE Shape'
<1> USE LifecycleAssumption DEF vars, authVars, retryVars
<1>0. AppShape /\ SpeakerShape /\ ValidatorShape /\ RequestShape /\ RetryShape /\ Apart /\ Free
  BY DEF Shape
<1>1. AppShape'
  BY <1>0 DEF ValidationFails, Over, Uses, AppShape, Version
<1>2. SpeakerShape'
  BY <1>0 DEF ValidationFails, Over, Uses, AppShape, SpeakerShape, SpeakerObject
<1>3. ValidatorShape'
  <2>1. ValidatorShape /\ SpeakerShape
    BY <1>0
  <2>2. CASE validator' = Over
    BY <2>2, OverShape
  <2>3. CASE validator' = [validator EXCEPT !.pc = "sleep", !.first = TRUE]
    <3>1. validator.holds = {} /\ validator.tracked = TRUE
      BY <2>1 DEF ValidationFails, Over, Uses, ValidatorShape
    <3>2. validator'.pc = "sleep" /\ validator'.holds = {} /\ validator'.tracked = TRUE
      BY <2>1, <2>3, <3>1 DEF ValidatorShape
    <3>3. validator' \in [pc : {"none", "asks", "sleep", "starting", "stopping", "done"},
                          holds : SUBSET Speakers, tracked : BOOLEAN, first : BOOLEAN]
      BY <2>1, <2>3 DEF ValidatorShape
    <3>4. QED
      BY <3>2, <3>3 DEF ValidatorShape
  <2>4. QED
    BY <2>2, <2>3 DEF ValidationFails, Over, Uses
<1>4. RequestShape'
  BY <1>0 DEF ValidationFails, Over, Uses, RequestShape, SpeakerShape, AppShape, RequestFits,
    StopKinds, Begun, Ended, RequestRecord
<1>5. RetryShape'
  BY <1>0 DEF ValidationFails, Over, Uses, RetryShape, SpeakerShape, RetryFits, Begun, Ended
<1>6. Apart'
  <2>1. validator.holds = {}
    BY <1>0 DEF ValidationFails, Over, Uses, ValidatorShape
  <2>2. validator'.holds = {}
    <3>1. CASE validator' = Over
      BY <3>1 DEF Over
    <3>2. CASE validator' # Over
      BY <1>0, <2>1, <3>2 DEF ValidationFails, Over, Uses, ValidatorShape
    <3>3. QED
      BY <3>1, <3>2
  <2>3. QED
    BY <1>0, <2>1, <2>2 DEF ValidationFails, Over, Uses, Apart, SpeakerShape
<1>7. Free'
  <2>1. validator.holds = {}
    BY <1>0 DEF ValidationFails, Over, Uses, ValidatorShape
  <2>2. validator'.holds = {}
    <3>1. CASE validator' = Over
      BY <3>1 DEF Over
    <3>2. CASE validator' # Over
      BY <1>0, <2>1, <3>2 DEF ValidationFails, Over, Uses, ValidatorShape
    <3>3. QED
      BY <3>1, <3>2
  <2>3. QED
    BY <1>0, <2>1, <2>2 DEF ValidationFails, Over, Uses, Free, SpeakerShape
<1>8. QED
  BY <1>1, <1>2, <1>3, <1>4, <1>5, <1>6, <1>7 DEF Shape

\* ValidationWakes keeps the shape (app.py:_validate_saved_token).
LEMMA ValidationWakesShape == ASSUME Shape, ValidationWakes PROVE Shape'
<1> USE LifecycleAssumption DEF vars, authVars, retryVars
<1>0. AppShape /\ SpeakerShape /\ ValidatorShape /\ RequestShape /\ RetryShape /\ Apart /\ Free
  BY DEF Shape
<1>1. AppShape'
  BY <1>0 DEF ValidationWakes, Over, AppShape, Version
<1>2. SpeakerShape'
  BY <1>0 DEF ValidationWakes, Over, AppShape, SpeakerShape, SpeakerObject
<1>3. ValidatorShape'
  BY <1>0 DEF ValidationWakes, Over, ValidatorShape, SpeakerShape, Begun, Ended
<1>4. RequestShape'
  BY <1>0 DEF ValidationWakes, Over, RequestShape, SpeakerShape, AppShape, RequestFits, StopKinds,
    Begun, Ended, RequestRecord
<1>5. RetryShape'
  BY <1>0 DEF ValidationWakes, Over, RetryShape, SpeakerShape, RetryFits, Begun, Ended
<1>6. Apart'
  BY <1>0 DEF ValidationWakes, Over, Apart
<1>7. Free'
  BY <1>0 DEF ValidationWakes, Over, Free, SpeakerShape
<1>8. QED
  BY <1>1, <1>2, <1>3, <1>4, <1>5, <1>6, <1>7 DEF Shape

\* StartSucceeds keeps the shape (speaker.py:start).
LEMMA StartSucceedsShape == ASSUME Shape, NEW s \in Speakers, StartSucceeds(s) PROVE Shape'
<1> USE LifecycleAssumption DEF vars, authVars, retryVars
<1>0. AppShape /\ SpeakerShape /\ ValidatorShape /\ RequestShape /\ RetryShape /\ Apart /\ Free
  BY DEF Shape
<1>1. AppShape'
  BY <1>0 DEF StartSucceeds, AppShape, Version
<1>2. SpeakerShape'
  <2> DEFINE l == speaker[s].link
  <2>1. l \in {"none", "setting", "on"} /\ speaker[s].phase # "unused"
    BY <1>0 DEF StartSucceeds, SpeakerShape, SpeakerObject
  <2>2. speaker' = [speaker EXCEPT ![s] = [@ EXCEPT !.phase = "up", !.link = l]] /\ UNCHANGED listed
    BY <1>0 DEF StartSucceeds, SpeakerShape, SpeakerObject
  <2> HIDE DEF l
  <2>3. QED
    BY <2>1, <2>2, OneSpeaker
<1>3. ValidatorShape'
  BY <1>0 DEF StartSucceeds, ValidatorShape, SpeakerShape, Begun, Ended
<1>4. RequestShape'
  BY <1>0 DEF StartSucceeds, RequestShape, SpeakerShape, AppShape, RequestFits, StopKinds, Begun,
    Ended, RequestRecord
<1>5. RetryShape'
  BY <1>0 DEF StartSucceeds, RetryShape, SpeakerShape, RetryFits, Begun, Ended
<1>6. Apart'
  BY <1>0 DEF StartSucceeds, Apart
<1>7. Free'
  BY <1>0 DEF StartSucceeds, Free, SpeakerShape
<1>8. QED
  BY <1>1, <1>2, <1>3, <1>4, <1>5, <1>6, <1>7 DEF Shape

\* StartFails keeps the shape (speaker.py:start).
LEMMA StartFailsShape == ASSUME Shape, NEW s \in Speakers, StartFails(s) PROVE Shape'
<1> USE LifecycleAssumption DEF vars, authVars, retryVars
<1>0. AppShape /\ SpeakerShape /\ ValidatorShape /\ RequestShape /\ RetryShape /\ Apart /\ Free
  BY DEF Shape
<1>1. AppShape'
  BY <1>0 DEF StartFails, Uses, AppShape, Version
<1>2. SpeakerShape'
  <2>1. PICK l \in Left(s) :
          speaker' = [speaker EXCEPT ![s] = [@ EXCEPT !.phase = "down", !.link = l]]
    BY <1>0 DEF StartFails, SpeakerShape, SpeakerObject
  <2>2. l \in {"none", "setting", "on"} /\ speaker[s].phase # "unused" /\ UNCHANGED listed
    BY <1>0 DEF StartFails, Left, SpeakerShape, SpeakerObject
  <2>3. QED
    BY <1>0, <2>1, <2>2, OneSpeaker
<1>3. ValidatorShape'
  BY <1>0 DEF StartFails, Uses, ValidatorShape, SpeakerShape, Begun, Ended
<1>4. RequestShape'
  BY <1>0 DEF StartFails, Uses, RequestShape, SpeakerShape, AppShape, RequestFits, StopKinds,
    Begun, Ended, RequestRecord
<1>5. RetryShape'
  <2>1. \A o \in Speakers : o # s => speaker'[o] = speaker[o]
    BY <1>0 DEF StartFails, SpeakerShape
  <2>2. /\ speaker'[s].name = speaker[s].name /\ speaker'[s].ver = speaker[s].ver
        /\ speaker'[s].phase = "down" /\ speaker[s].phase = "starting"
    BY <1>0 DEF StartFails, SpeakerShape, SpeakerObject
  <2>3. \A t \in Retries : RetryFits(retrier[t], speaker')
    BY <1>0, <2>1, <2>2 DEF RetryShape, RetryRecord, RetryFits, Begun, Ended
  <2>4. QED
    BY <1>0, <2>3 DEF StartFails, RetryShape
<1>6. Apart'
  BY <1>0 DEF StartFails, Uses, Apart
<1>7. Free'
  BY <1>0 DEF StartFails, Uses, Free, SpeakerShape
<1>8. QED
  BY <1>1, <1>2, <1>3, <1>4, <1>5, <1>6, <1>7 DEF Shape

\* StopEnds keeps the shape (speaker.py:stop).
LEMMA StopEndsShape == ASSUME Shape, NEW s \in Speakers, StopEnds(s) PROVE Shape'
<1> USE LifecycleAssumption DEF vars, authVars, retryVars
<1>0. AppShape /\ SpeakerShape /\ ValidatorShape /\ RequestShape /\ RetryShape /\ Apart /\ Free
  BY DEF Shape
<1>1. AppShape'
  BY <1>0 DEF StopEnds, AppShape, Version
<1>2. SpeakerShape'
  <2>1. PICK l \in Left(s) :
          speaker' = [speaker EXCEPT ![s] = [@ EXCEPT !.phase = "down", !.link = l]]
    BY <1>0 DEF StopEnds, SpeakerShape, SpeakerObject
  <2>2. l \in {"none", "setting", "on"} /\ speaker[s].phase # "unused" /\ UNCHANGED listed
    BY <1>0 DEF StopEnds, Left, SpeakerShape, SpeakerObject
  <2>3. QED
    BY <1>0, <2>1, <2>2, OneSpeaker
<1>3. ValidatorShape'
  BY <1>0 DEF StopEnds, ValidatorShape, SpeakerShape, Begun, Ended
<1>4. RequestShape'
  BY <1>0 DEF StopEnds, RequestShape, SpeakerShape, AppShape, RequestFits, StopKinds, Begun, Ended,
    RequestRecord
<1>5. RetryShape'
  <2>1. \A o \in Speakers : o # s => speaker'[o] = speaker[o]
    BY <1>0 DEF StopEnds, SpeakerShape
  <2>2. /\ speaker'[s].name = speaker[s].name /\ speaker'[s].ver = speaker[s].ver
        /\ speaker'[s].phase = "down" /\ speaker[s].phase = "stopping"
    BY <1>0 DEF StopEnds, SpeakerShape, SpeakerObject
  <2>3. \A t \in Retries : RetryFits(retrier[t], speaker')
    BY <1>0, <2>1, <2>2 DEF RetryShape, RetryRecord, RetryFits, Begun, Ended
  <2>4. QED
    BY <1>0, <2>3 DEF StopEnds, RetryShape
<1>6. Apart'
  BY <1>0 DEF StopEnds, Apart
<1>7. Free'
  BY <1>0 DEF StopEnds, Free, SpeakerShape
<1>8. QED
  BY <1>1, <1>2, <1>3, <1>4, <1>5, <1>6, <1>7 DEF Shape

\* AppConnects keeps the shape (speaker.py:_on_app_connected).
LEMMA AppConnectsShape == ASSUME Shape, NEW s \in Speakers, AppConnects(s) PROVE Shape'
<1> USE LifecycleAssumption DEF vars, authVars, retryVars
<1>0. AppShape /\ SpeakerShape /\ ValidatorShape /\ RequestShape /\ RetryShape /\ Apart /\ Free
  BY DEF Shape
<1>1. AppShape'
  BY <1>0 DEF AppConnects, Uses, AppShape, Version
<1>2. SpeakerShape'
  <2> DEFINE l == "setting"
             p == speaker[s].phase
  <2>1. l \in {"none", "setting", "on"} /\ speaker[s].phase # "unused" /\ p = speaker[s].phase
    BY <1>0 DEF AppConnects
  <2>2. speaker' = [speaker EXCEPT ![s] = [@ EXCEPT !.phase = p, !.link = l]] /\ UNCHANGED listed
    BY <1>0 DEF AppConnects, SpeakerShape, SpeakerObject
  <2> HIDE DEF l, p
  <2>3. QED
    BY <2>1, <2>2, OneSpeaker
<1>3. ValidatorShape'
  BY <1>0 DEF AppConnects, Uses, ValidatorShape, SpeakerShape, Begun, Ended
<1>4. RequestShape'
  BY <1>0 DEF AppConnects, Uses, RequestShape, SpeakerShape, AppShape, RequestFits, StopKinds,
    Begun, Ended, RequestRecord
<1>5. RetryShape'
  BY <1>0 DEF AppConnects, Uses, RetryShape, SpeakerShape, RetryFits, Begun, Ended
<1>6. Apart'
  BY <1>0 DEF AppConnects, Uses, Apart
<1>7. Free'
  BY <1>0 DEF AppConnects, Uses, Free, SpeakerShape
<1>8. QED
  BY <1>1, <1>2, <1>3, <1>4, <1>5, <1>6, <1>7 DEF Shape

\* SetupEnds keeps the shape (speaker.py:_setup_websocket).
LEMMA SetupEndsShape == ASSUME Shape, NEW s \in Speakers, SetupEnds(s) PROVE Shape'
<1> USE LifecycleAssumption DEF vars, authVars, retryVars
<1>0. AppShape /\ SpeakerShape /\ ValidatorShape /\ RequestShape /\ RetryShape /\ Apart /\ Free
  BY DEF Shape
<1>1. AppShape'
  BY <1>0 DEF SetupEnds, AppShape, Version
<1>2. SpeakerShape'
  BY <1>0 DEF SetupEnds, AppShape, SpeakerShape, SpeakerObject
<1>3. ValidatorShape'
  BY <1>0 DEF SetupEnds, ValidatorShape, SpeakerShape, Begun, Ended
<1>4. RequestShape'
  BY <1>0 DEF SetupEnds, RequestShape, SpeakerShape, AppShape, RequestFits, StopKinds, Begun,
    Ended, RequestRecord
<1>5. RetryShape'
  BY <1>0 DEF SetupEnds, RetryShape, SpeakerShape, RetryFits, Begun, Ended
<1>6. Apart'
  BY <1>0 DEF SetupEnds, Apart
<1>7. Free'
  BY <1>0 DEF SetupEnds, Free, SpeakerShape
<1>8. QED
  BY <1>1, <1>2, <1>3, <1>4, <1>5, <1>6, <1>7 DEF Shape

\* After the step.
LEMMA KnownIsNext ==
  ASSUME NEW s
  PROVE  s \in Known' <=> \/ s \in ToSet(listed') \/ s \in validator'.holds
                          \/ \E r \in Requests : s \in request'[r].holds
                          \/ \E t \in Retries : s \in retrier'[t].holds
<1> DEFINE B == UNION {request'[r].holds : r \in Requests}
           C == UNION {retrier'[t].holds : t \in Retries}
<1>1. s \in B <=> \E r \in Requests : s \in request'[r].holds
  OBVIOUS
<1>2. s \in C <=> \E t \in Retries : s \in retrier'[t].holds
  OBVIOUS
<1>3. Known' = ToSet(listed') \cup (validator'.holds \cup B \cup C)
  BY DEF Known, Holds
<1> HIDE DEF B, C
<1>4. s \in Known' <=> s \in ToSet(listed') \/ s \in validator'.holds \/ s \in B \/ s \in C
  BY <1>3
<1>5. QED
  BY <1>1, <1>2, <1>4

\* Who is known is in use.
LEMMA KnownAreUsed ==
  ASSUME Shape, NEW s \in Known PROVE s \in Speakers /\ speaker[s].phase # "unused"
<1>1. SpeakerShape /\ ValidatorShape /\ RequestShape /\ RetryShape /\ Free
  BY DEF Shape
<1>2. s \in Speakers
  BY <1>1, KnownIs
    DEF SpeakerShape, ValidatorShape, RequestShape, RequestRecord, RetryShape, RetryRecord, ToSet
<1>3. QED
  BY <1>1, <1>2, KnownIs DEF Free

\* The end of a coroutine drops what nobody refers to, and nothing else.
LEMMA DropShape ==
  ASSUME Shape, speaker' = Dropped(speaker),
         listed' \in Seq(Speakers), IsInjective(listed'),
         \A s \in ToSet(listed') : speaker[s].phase \in {"up", "stopping", "down"},
         \A s \in Known' : s \in Known
  PROVE  /\ SpeakerShape' /\ Free'
         /\ \A s \in Known' : s \in Speakers /\ speaker'[s] = speaker[s]
         /\ \A s \in Speakers : \/ speaker'[s] = speaker[s]
                                \/ speaker[s].phase = "down" /\ speaker'[s] = Unused
<1>1. SpeakerShape
  BY DEF Shape
<1>2. /\ DOMAIN speaker' = Speakers
      /\ \A s \in Speakers : \/ speaker'[s] = speaker[s]
                             \/ /\ speaker[s].phase = "down" /\ speaker'[s] = Unused
                                /\ s \notin Known'
  BY DEF Dropped
<1>3. \A s \in Known' : s \in Speakers /\ speaker'[s] = speaker[s] /\ speaker[s].phase # "unused"
  BY <1>2, KnownAreUsed
<1>4. Free'
  BY <1>3, KnownIsNext DEF Free
<1>5. SpeakerShape'
  <2>1. Unused \in SpeakerObject
    BY LifecycleAssumption DEF Unused, Version, SpeakerObject
  <2>2. speaker' = [s \in Speakers |-> speaker'[s]]
    BY DEF Dropped
  <2>3. \A s \in Speakers : speaker'[s] \in SpeakerObject
    BY <1>1, <1>2, <2>1 DEF SpeakerShape
  <2>4. speaker' \in [Speakers -> SpeakerObject]
    BY <2>2, <2>3
  <2>5. \A s \in Speakers : speaker'[s].phase # "unused" =>
          speaker'[s].name \in Names /\ speaker'[s].ver # 0
    BY <1>1, <1>2 DEF SpeakerShape, Unused
  <2>6. \A s \in ToSet(listed') : speaker'[s].phase \in {"up", "stopping", "down"}
    BY <1>3, KnownIsNext
  <2>7. QED
    BY <2>4, <2>5, <2>6 DEF SpeakerShape
<1>6. QED
  BY <1>2, <1>3, <1>4, <1>5

\* Speaker objects as they were, but that some are stopping.
Slowed(f) ==
  /\ f \in [Speakers -> SpeakerObject]
  /\ \A s \in Speakers :
       /\ f[s].name = speaker[s].name /\ f[s].ver = speaker[s].ver
       /\ f[s].phase # speaker[s].phase =>
            speaker[s].phase # "unused" /\ f[s].phase = "stopping"

\* Stopping changes the phase of what is in use, and nothing else.
LEMMA StoppingSlows ==
  ASSUME Shape, NEW holds \in SUBSET Known
  PROVE  /\ Slowed(Stopping(holds))
         /\ \A s \in Speakers : /\ s \notin holds => Stopping(holds)[s] = speaker[s]
                                /\ s \in holds => Stopping(holds)[s].phase = "stopping"
<1>1. SpeakerShape /\ \A s \in holds : s \in Speakers /\ speaker[s].phase # "unused"
  BY KnownAreUsed DEF Shape
<1>2. \A s \in Speakers : Stopping(holds)[s] = IF s \in holds
                                               THEN [speaker[s] EXCEPT !.phase = "stopping"]
                                               ELSE speaker[s]
  BY DEF Stopping
<1>3. \A s \in Speakers : speaker[s] \in SpeakerObject
  BY <1>1 DEF SpeakerShape
<1>4. \A s \in holds : /\ Stopping(holds)[s].name = speaker[s].name
                       /\ Stopping(holds)[s].ver = speaker[s].ver
                       /\ Stopping(holds)[s].phase = "stopping"
  BY <1>1, <1>2, <1>3 DEF SpeakerObject
<1>5. \A s \in Speakers : Stopping(holds)[s] \in SpeakerObject
  BY <1>2, <1>3 DEF SpeakerObject
<1>6. Stopping(holds) = [s \in Speakers |-> Stopping(holds)[s]]
  BY DEF Stopping
<1>7. Stopping(holds) \in [Speakers ->
         SpeakerObject]
  BY <1>5, <1>6
<1>8. \A s \in Speakers :
         /\ Stopping(holds)[s].name = speaker[s].name /\ Stopping(holds)[s].ver = speaker[s].ver
         /\ Stopping(holds)[s].phase # speaker[s].phase =>
              speaker[s].phase # "unused" /\ Stopping(holds)[s].phase = "stopping"
  BY <1>1, <1>2, <1>4
<1> DEFINE f == Stopping(holds)
<1>9. Slowed(f)
  <2>1. f \in [Speakers -> SpeakerObject]
    BY <1>7
  <2> HIDE DEF f
  <2>2. QED
    BY <1>8, <2>1 DEF Slowed, f
<1>10. QED
  BY <1>2, <1>4, <1>9

\* The step starts new objects for the names, and the others become f.
Risen(names, f, version) ==
  LET H == {NewFor(names)[n] : n \in names}
  IN  /\ H \subseteq Speakers
      /\ \A s \in Speakers \ H : speaker'[s] = f[s]
      /\ \A s \in H : /\ speaker[s].phase = "unused" /\ s \notin Known
                      /\ speaker'[s].phase = "starting" /\ speaker'[s].name \in names
                      /\ speaker'[s].ver = version[speaker'[s].name]
                      /\ speaker'[s].link = "none"
      /\ \A x, y \in H : speaker'[x].name = speaker'[y].name => x = y

\* New objects for some names.
LEMMA RaiseShape ==
  ASSUME Shape, NEW names \in SUBSET Names, NEW f, Slowed(f), NEW version,
         \A n \in names : version[n] \in Version \ {0},
         Raised(names, f, version), speaker' = Starting(f, NewFor(names), version),
         UNCHANGED listed
  PROVE  SpeakerShape' /\ Risen(names, f, version)
<1> DEFINE H == {NewFor(names)[n] : n \in names}
<1>1. /\ H \subseteq Speakers /\ \A s \in H : speaker[s].phase = "unused"
      /\ DOMAIN speaker' = Speakers
      /\ \A s \in Speakers \ H : speaker'[s] = f[s]
      /\ \A s \in H : \E n \in names :
           speaker'[s] = [name |-> n, ver |-> version[n], phase |-> "starting", link |-> "none"]
      /\ \A x, y \in H : speaker'[x].name = speaker'[y].name => x = y
  BY DEF Raised
<1> HIDE DEF H
<1>2. \A s \in H : s \notin Known
  BY <1>1, KnownAreUsed
<1>3. \A s \in H : /\ speaker'[s].phase = "starting" /\ speaker'[s].link = "none"
                   /\ speaker'[s].name \in names
                   /\ speaker'[s].ver = version[speaker'[s].name]
  <2> TAKE s \in H
  <2>1. PICK n \in names : speaker'[s] =
          [name |-> n, ver |-> version[n], phase |-> "starting", link |-> "none"]
    BY <1>1
  <2>2. QED
    BY <2>1
<1>4. SpeakerShape
  BY DEF Shape
<1>5. SpeakerShape'
  <2>1. speaker' = [s \in Speakers |-> speaker'[s]]
    BY DEF Starting
  <2>2. \A s \in H : speaker'[s] \in SpeakerObject
    <3> TAKE s \in H
    <3>1. PICK n \in names : speaker'[s] =
            [name |-> n, ver |-> version[n], phase |-> "starting", link |-> "none"]
      BY <1>1
    <3>2. version[n] \in Version
      OBVIOUS
    <3>3. QED
      BY <3>1, <3>2 DEF SpeakerObject
  <2>3. \A s \in Speakers \ H : speaker'[s] \in SpeakerObject
    BY <1>1 DEF Slowed
  <2>4. speaker' \in [Speakers -> SpeakerObject]
    <3>1. \A s \in Speakers : speaker'[s] \in SpeakerObject
      BY <2>2, <2>3
    <3>2. QED
      BY <2>1, <3>1
  <2>5. \A s \in Speakers : speaker'[s].phase # "unused" =>
          speaker'[s].name \in Names /\ speaker'[s].ver # 0
    <3>1. \A s \in H : speaker'[s].name \in Names /\ speaker'[s].ver # 0
      BY <1>1, <1>3
    <3>2. \A s \in Speakers \ H : speaker'[s].phase # "unused" =>
            speaker'[s].name \in Names /\ speaker'[s].ver # 0
      BY <1>1, <1>4 DEF Slowed, SpeakerShape
    <3>3. QED
      BY <3>1, <3>2
  <2>6. \A s \in ToSet(listed) : speaker'[s].phase \in {"up", "stopping", "down"}
    <3>1. ToSet(listed) \subseteq Speakers /\ \A s \in ToSet(listed) : s \notin H
      BY <1>2, <1>4, KnownIs DEF ToSet, SpeakerShape
    <3>2. QED
      BY <1>1, <1>4, <3>1 DEF Slowed, SpeakerShape
  <2>7. QED
    BY <1>4, <2>4, <2>5, <2>6 DEF SpeakerShape
<1>6. QED
  BY <1>1, <1>2, <1>3, <1>5 DEF H, Risen

\* A handler, or a retry, that stays as it is, while what it holds changes in name only.
Alike(holds, f, g) ==
  \A s \in holds : /\ g[s].name = f[s].name /\ g[s].ver = f[s].ver
                   /\ g[s].phase = f[s].phase

\* A handler still fits when what it holds stays alike.
LEMMA RequestStays ==
  ASSUME NEW q, NEW f, NEW g, RequestFits(q, f), Alike(q.holds, f, g)
  PROVE  RequestFits(q, g)
BY DEF RequestFits, Alike

\* What it stops may be stopped again.
LEMMA RequestEnds ==
  ASSUME NEW q, NEW f, NEW g, RequestFits(q, f), q.pc = "stopping",
         \A s \in q.holds : g[s].phase \in {f[s].phase, "stopping"}
  PROVE  RequestFits(q, g)
BY DEF RequestFits, Ended

\* So does a retry.
LEMMA RetryStays ==
  ASSUME NEW q, NEW f, NEW g, RetryFits(q, f), Alike(q.holds, f, g)
  PROVE  RetryFits(q, g)
BY DEF RetryFits, Alike

\* So does the validation.
LEMMA ValidatorStays ==
  ASSUME ValidatorShape, UNCHANGED validator, Alike(validator.holds, speaker, speaker')
  PROVE  ValidatorShape'
BY DEF ValidatorShape, Alike

\* Everybody who holds something else keeps it as it is when only new objects start.
Undisturbed ==
  /\ Alike(validator.holds, speaker, speaker')
  /\ \A r \in Requests : Alike(request[r].holds, speaker, speaker')
  /\ \A t \in Retries : Alike(retrier[t].holds, speaker, speaker')

\* What is known is not among the new objects.
LEMMA OthersStay ==
  ASSUME Shape, NEW H, \A s \in H : s \notin Known,
         \A s \in Speakers \ H : speaker'[s] = speaker[s]
  PROVE  Undisturbed
<1>1. \A s \in Known : speaker'[s] = speaker[s]
  BY KnownAreUsed
<1>2. QED
  BY <1>1, KnownIs DEF Alike, Undisturbed

\* A retry task is over.
LEMMA EndsShape ==
  ASSUME Shape, NEW t \in Retries, Ends(t), retrier[t].pc # "idle",
         \A u \in Retries : u # t => Alike(retrier[u].holds, speaker, speaker')
  PROVE  /\ RetryShape'
         /\ \A u \in Retries : retrier'[u] = IF u = t THEN NoRetry ELSE retrier[u]
<1> DEFINE n == retrier[t].name
<1>1. RetryShape
  BY DEF Shape
<1>2. n \in Names
  BY <1>1 DEF RetryShape, RetryFits
<1>3. retrier' = [retrier EXCEPT ![t] = NoRetry] /\ retries' = [retries EXCEPT ![n] = None]
  BY DEF Ends
<1>4. NoRetry \in RetryRecord /\ NoRetry.holds = {} /\ NoRetry.pc = "idle"
  BY LifecycleAssumption DEF NoRetry, RetryRecord, Version
<1>5. \A u \in Retries : retrier'[u] = IF u = t THEN NoRetry ELSE retrier[u]
  BY <1>1, <1>3 DEF RetryShape
<1>6. \A u \in Retries : RetryFits(retrier'[u], speaker')
  <2>1. RetryFits(NoRetry, speaker')
    BY <1>4 DEF RetryFits
  <2>2. \A u \in Retries : u # t => RetryFits(retrier[u], speaker')
    BY <1>1, RetryStays DEF RetryShape
  <2>3. QED
    BY <1>5, <2>1, <2>2
<1>7. \A m \in Names : retries'[m] = IF m = n THEN None ELSE retries[m]
  BY <1>1, <1>3 DEF RetryShape
<1>8. \A m \in Names : retries'[m] # None =>
         retrier'[retries'[m]].name = m /\ retrier'[retries'[m]].pc \in {"sleep", "starting"}
  <2> SUFFICES ASSUME NEW m \in Names, retries'[m] # None
               PROVE  /\ retrier'[retries'[m]].name = m
                      /\ retrier'[retries'[m]].pc \in {"sleep", "starting"}
    OBVIOUS
  <2>1. m # n /\ retries'[m] = retries[m]
    BY <1>7
  <2>2. retries[m] \in Retries /\ retrier[retries[m]].name = m
    BY <1>1, <2>1 DEF RetryShape
  <2>3. retries[m] # t
    BY <2>1, <2>2
  <2>4. QED
    BY <1>1, <1>5, <2>1, <2>2, <2>3 DEF RetryShape
<1>9. retrier' \in [Retries -> RetryRecord] /\ retries' \in [Names -> Retries \cup {None}]
  BY <1>1, <1>3, <1>4 DEF RetryShape
<1>10. QED
  BY <1>5, <1>6, <1>8, <1>9 DEF RetryShape

\* The objects as they are.
LEMMA SpeakersSlow == ASSUME Shape PROVE Slowed(speaker)
BY DEF Shape, SpeakerShape, Slowed

\* ValidationSucceeds keeps the shape (app.py:_validate_saved_token).
LEMMA ValidationSucceedsShape == ASSUME Shape, Courses, ValidationSucceeds PROVE Shape'
<1> DEFINE H == {NewFor(ToStart)[n] : n \in ToStart}
<1>0. AppShape /\ SpeakerShape /\ ValidatorShape /\ RequestShape /\ RetryShape /\ Apart /\ Free
  BY DEF Shape
<1>1. ToStart \in SUBSET Names /\ \A n \in ToStart : config[n] \in Version \ {0}
  BY <1>0 DEF AppShape, ToStart, Configured
<1>2. Raised(ToStart, speaker, config) /\ Slowed(speaker)
  BY <1>1, NewSpeakers, SpeakersSlow DEF ValidationSucceeds
<1>3. /\ speaker' = Starting(speaker, NewFor(ToStart), config)
      /\ validator' = [validator EXCEPT !.pc = "starting", !.holds = H]
      /\ validator.pc = "asks" /\ api' = "saved"
      /\ UNCHANGED <<app, config, listed, request, retrier, retries, used, given>>
  BY DEF ValidationSucceeds, retryVars
<1>4. /\ SpeakerShape' /\ H \subseteq Speakers
      /\ \A s \in Speakers \ H : speaker'[s] = speaker[s]
      /\ \A s \in H : s \notin Known /\ speaker'[s].phase = "starting"
      /\ \A x, y \in H : speaker'[x].name = speaker'[y].name => x = y
  <2>1. SpeakerShape' /\ Risen(ToStart, speaker, config)
    BY <1>1, <1>2, <1>3, RaiseShape
  <2>2. QED
    BY <2>1 DEF Risen
<1> HIDE DEF H
<1>5. AppShape'
  BY <1>0, <1>3 DEF AppShape
<1>6. /\ validator'.pc = "starting" /\ validator'.holds = H /\ validator'.tracked = TRUE
      /\ validator' \in [pc : {"none", "asks", "sleep", "starting", "stopping", "done"},
                         holds : SUBSET Speakers, tracked : BOOLEAN, first : BOOLEAN]
  <2>1. validator.tracked = TRUE
    BY <1>0, <1>3 DEF ValidatorShape
  <2>2. QED
    BY <1>0, <1>3, <1>4, <2>1 DEF ValidatorShape
<1>7. ValidatorShape'
  BY <1>4, <1>6 DEF ValidatorShape, Begun
<1>8. /\ \A r \in Requests : Alike(request[r].holds, speaker, speaker')
      /\ \A t \in Retries : Alike(retrier[t].holds, speaker, speaker')
  BY <1>4, OthersStay DEF Undisturbed
<1>9. RequestShape'
  BY <1>0, <1>3, <1>8, RequestStays DEF RequestShape
<1>10. RetryShape'
  BY <1>0, <1>3, <1>8, RetryStays DEF RetryShape
<1>11. \A s \in H : /\ s \notin ToSet(listed)
                    /\ \A r \in Requests : s \notin request[r].holds
                    /\ \A t \in Retries : s \notin retrier[t].holds
  BY <1>4, KnownIs
<1>12. Apart'
  BY <1>0, <1>3, <1>6, <1>11 DEF Apart
<1>13. Free'
  BY <1>0, <1>3, <1>4, <1>6 DEF Free
<1>14. QED
  BY <1>4, <1>5, <1>7, <1>9, <1>10, <1>12, <1>13 DEF Shape

\* One speaker starts.
RisenOne(n, f, version) ==
  LET s == NewFor({n})[n]
  IN  /\ s \in Speakers /\ speaker[s].phase = "unused" /\ s \notin Known
      /\ \A o \in Speakers : o # s => speaker'[o] = f[o]
      /\ speaker'[s].phase = "starting" /\ speaker'[s].name = n
      /\ speaker'[s].ver = version[n] /\ speaker'[s].link = "none"

\* A new object for one name.
LEMMA RaiseOne ==
  ASSUME Shape, NEW n \in Names, Enough({n}), NEW f, Slowed(f), NEW version,
         version[n] \in Version \ {0},
         speaker' = Starting(f, NewFor({n}), version), UNCHANGED listed
  PROVE  SpeakerShape' /\ RisenOne(n, f, version)
<1>1. PICK names : names = {n}
  OBVIOUS
<1> DEFINE H == {NewFor(names)[m] : m \in names}
<1>2. Raised(names, f, version) /\ names \in SUBSET Names
  BY <1>1, NewSpeakers
<1>3. \A m \in names : version[m] \in Version \ {0}
  BY <1>1
<1>4. speaker' = Starting(f, NewFor(names), version)
  BY <1>1
<1>5. /\ SpeakerShape' /\ H \subseteq Speakers
      /\ \A s \in Speakers \ H : speaker'[s] = f[s]
      /\ \A s \in H : /\ speaker[s].phase = "unused" /\ s \notin Known
                      /\ speaker'[s].phase = "starting" /\ speaker'[s].name \in names
                      /\ speaker'[s].ver = version[speaker'[s].name]
                      /\ speaker'[s].link = "none"
  <2>1. SpeakerShape' /\ Risen(names, f, version)
    BY <1>2, <1>3, <1>4, RaiseShape
  <2>2. QED
    BY <2>1 DEF Risen
<1> DEFINE s == NewFor(names)[n]
<1>6. H = {s}
  BY <1>1
<1> HIDE DEF H, s
<1>7. /\ SpeakerShape' /\ s \in Speakers /\ speaker[s].phase = "unused" /\ s \notin Known
      /\ \A o \in Speakers : o # s => speaker'[o] = f[o]
      /\ speaker'[s].phase = "starting" /\ speaker'[s].name = n
      /\ speaker'[s].ver = version[n] /\ speaker'[s].link = "none"
  BY <1>1, <1>5, <1>6
<1>8. QED
  BY <1>1, <1>7 DEF s, RisenOne

\* RetryWakes keeps the shape (app.py:_retry_speaker).
LEMMA RetryWakesShape == ASSUME Shape, NEW t \in Retries, RetryWakes(t) PROVE Shape'
<1>0. AppShape /\ SpeakerShape /\ ValidatorShape /\ RequestShape /\ RetryShape /\ Apart /\ Free
  BY DEF Shape
<1> DEFINE n == retrier[t].name
           v == retrier[t].ver
<1>1. retrier[t].pc = "sleep" /\ n \in Names /\ v \in Version \ {0} /\ retrier[t].holds = {}
  BY <1>0 DEF RetryWakes, RetryShape, RetryFits, RetryRecord
<1>2. CASE api = "none"
  <2>1. Ends(t) /\ UNCHANGED <<app, config, api, validator, speaker, listed, request, used>>
    BY <1>2 DEF RetryWakes, authVars
  <2>2. NoRetry.holds = {}
    BY DEF NoRetry
  <2>3. /\ RetryShape'
        /\ \A u \in Retries : retrier'[u] = IF u = t THEN NoRetry ELSE retrier[u]
    BY <1>1, <2>1, EndsShape DEF Alike
  <2>5. Apart' /\ Free'
    BY <1>0, <2>1, <2>2, <2>3 DEF Apart, Free
  <2>6. QED
    BY <1>0, <2>1, <2>3, <2>5
       DEF Shape, AppShape, SpeakerShape, ValidatorShape, RequestShape
<1>3. CASE api # "none"
  <2> DEFINE new == NewFor({n})
             s == new[n]
             version == [m \in {n} |-> v]
  <2>1. /\ Enough({n}) /\ speaker' = Starting(speaker, new, version)
        /\ retrier' = [retrier EXCEPT ![t].pc = "starting", ![t].holds = {s}]
        /\ UNCHANGED <<app, config, api, validator, listed, request, retries, used>>
    BY <1>3 DEF RetryWakes, authVars
  <2>2. Slowed(speaker) /\ version[n] \in Version \ {0}
    BY <1>1, SpeakersSlow
  <2>3. /\ SpeakerShape' /\ s \in Speakers /\ speaker'[s].phase = "starting" /\ s \notin Known
        /\ \A o \in Speakers : o # s => speaker'[o] = speaker[o]
        /\ speaker'[s].name = n /\ speaker'[s].ver = version[n]
    <3> HIDE DEF version
    <3>1. SpeakerShape' /\ RisenOne(n, speaker, version)
      BY <1>1, <2>1, <2>2, RaiseOne
    <3>2. QED
      BY <3>1 DEF RisenOne
  <2>4. \A o \in Speakers \ {s} : speaker'[o] = speaker[o]
    BY <2>3
  <2>5. version[n] = v
    OBVIOUS
  <2>6. /\ s \in Speakers /\ speaker'[s].phase = "starting" /\ s \notin Known
        /\ speaker'[s].name = n /\ speaker'[s].ver = v
    BY <2>3, <2>5
  <2> HIDE DEF s, new, version
  <2>7. /\ \A r \in Requests : Alike(request[r].holds, speaker, speaker')
        /\ \A u \in Retries : Alike(retrier[u].holds, speaker, speaker')
        /\ Alike(validator.holds, speaker, speaker')
    <3>1. PICK H : H = {s}
      OBVIOUS
    <3>2. Undisturbed
      BY <2>4, <2>6, <3>1, OthersStay
    <3>3. QED
      BY <3>2 DEF Undisturbed
  <2>8. RequestShape' /\ ValidatorShape'
    BY <1>0, <2>1, <2>7, RequestStays, ValidatorStays DEF RequestShape
  <2>9. /\ retrier'[t].pc = "starting" /\ retrier'[t].holds = {s}
        /\ retrier'[t].name = n /\ retrier'[t].ver = v /\ retrier' \in [Retries -> RetryRecord]
        /\ \A u \in Retries : u # t => retrier'[u] = retrier[u]
    <3>1. /\ retrier'[t] = [retrier[t] EXCEPT !.pc = "starting", !.holds = {s}]
          /\ \A u \in Retries : u # t => retrier'[u] = retrier[u]
          /\ retrier' = [u \in Retries |-> retrier'[u]] /\ retrier[t] \in RetryRecord
      BY <1>0, <2>1 DEF RetryShape
    <3>2. /\ retrier'[t].pc = "starting" /\ retrier'[t].holds = {s} /\ retrier'[t] \in RetryRecord
          /\ retrier'[t].name = n /\ retrier'[t].ver = v
      BY <2>6, <3>1 DEF RetryRecord
    <3>3. retrier' \in [Retries -> RetryRecord]
      BY <1>0, <3>1, <3>2 DEF RetryShape
    <3>4. QED
      BY <3>1, <3>2, <3>3
  <2>10. RetryShape'
    <3>1. RetryFits(retrier'[t], speaker')
      BY <1>1, <2>6, <2>9 DEF RetryFits, Begun
    <3>2. \A u \in Retries : u # t => RetryFits(retrier'[u], speaker')
      BY <1>0, <2>7, <2>9, RetryStays DEF RetryShape
    <3>3. QED
      BY <1>0, <2>1, <2>9, <3>1, <3>2 DEF RetryShape
  <2>11. /\ s \notin ToSet(listed) /\ s \notin validator.holds
         /\ \A r \in Requests : s \notin request[r].holds
         /\ \A u \in Retries : s \notin retrier[u].holds
    BY <2>6, KnownIs
  <2>12. Apart'
    BY <1>0, <1>1, <2>1, <2>9, <2>11 DEF Apart
  <2>13. Free'
    BY <1>0, <2>1, <2>4, <2>6, <2>9, <2>11 DEF Free
  <2>14. QED
    BY <1>0, <2>1, <2>3, <2>8, <2>10, <2>12, <2>13 DEF Shape, AppShape
<1>4. QED
  BY <1>2, <1>3

\* What the end of a coroutine leaves to the others.
LEMMA OthersKeep ==
  ASSUME Shape, \A s \in Known' : speaker'[s] = speaker[s]
  PROVE  /\ Alike(validator'.holds, speaker, speaker')
         /\ \A r \in Requests : Alike(request'[r].holds, speaker, speaker')
         /\ \A t \in Retries : Alike(retrier'[t].holds, speaker, speaker')
BY KnownIsNext DEF Alike

\* RetryStopped keeps the shape (app.py:_retry_speaker, cancelled).
LEMMA RetryStoppedShape == ASSUME Shape, NEW t \in Retries, RetryStopped(t) PROVE Shape'
<1>0. AppShape /\ SpeakerShape /\ ValidatorShape /\ RequestShape /\ RetryShape /\ Apart /\ Free
  BY DEF Shape
<1>1. /\ retrier[t].pc = "stopping" /\ Ends(t) /\ speaker' = Dropped(speaker)
      /\ UNCHANGED <<app, config, api, validator, listed, request, used>>
  BY DEF RetryStopped, authVars
<1>2. \A u \in Retries : retrier'[u] = IF u = t THEN NoRetry ELSE retrier[u]
  BY <1>0, <1>1 DEF Ends, RetryShape
<1>3. NoRetry.holds = {}
  BY DEF NoRetry
<1>4. \A s \in Known' : s \in Known
  BY <1>1, <1>2, <1>3, KnownIs, KnownIsNext
<1>5. SpeakerShape' /\ Free' /\ \A s \in Known' : speaker'[s] = speaker[s]
  BY <1>0, <1>1, <1>4, DropShape DEF SpeakerShape
<1>6. /\ Alike(validator.holds, speaker, speaker')
      /\ \A r \in Requests : Alike(request[r].holds, speaker, speaker')
      /\ \A u \in Retries : u # t => Alike(retrier[u].holds, speaker, speaker')
  BY <1>1, <1>2, <1>5, OthersKeep
<1>7. RetryShape'
  BY <1>1, <1>6, EndsShape
<1>8. RequestShape' /\ ValidatorShape'
  BY <1>0, <1>1, <1>6, RequestStays, ValidatorStays DEF RequestShape
<1>9. Apart'
  BY <1>0, <1>1, <1>2, <1>3 DEF Apart
<1>10. QED
  BY <1>0, <1>1, <1>5, <1>7, <1>8, <1>9 DEF Shape, AppShape

\* RetryStarted keeps the shape (app.py:_retry_speaker).
LEMMA RetryStartedShape == ASSUME Shape, NEW t \in Retries, RetryStarted(t) PROVE Shape'
<1>0. AppShape /\ SpeakerShape /\ ValidatorShape /\ RequestShape /\ RetryShape /\ Apart /\ Free
  BY DEF Shape
<1>1. /\ retrier[t].pc = "starting" /\ Done(retrier[t].holds) /\ speaker' = Dropped(speaker)
      /\ UNCHANGED <<app, config, api, validator, request, used>>
  BY DEF RetryStarted, authVars
<1>2. PICK s \in Speakers : retrier[t].holds = {s}
  BY <1>0, <1>1 DEF RetryShape, RetryFits
<1>3. /\ s \in Known /\ s \notin ToSet(listed) /\ s \notin validator.holds
      /\ \A r \in Requests : s \notin request[r].holds
      /\ \A u \in Retries : u # t => s \notin retrier[u].holds
  BY <1>0, <1>2, KnownIs DEF Apart
<1>4. CASE Up(retrier[t].holds) # {}
  <2>1. listed' = listed \o SetToSeq({s}) /\ Ends(t) /\ speaker[s].phase = "up"
    BY <1>2, <1>4 DEF RetryStarted, Up
  <2>2. \A u \in Retries : retrier'[u] = IF u = t THEN NoRetry ELSE retrier[u]
    BY <1>0, <2>1 DEF Ends, RetryShape
  <2>3. NoRetry.holds = {}
    BY DEF NoRetry
  <2>4. /\ SetToSeq({s}) \in Seq({s}) /\ ToSet(SetToSeq({s})) = {s}
        /\ IsInjective(SetToSeq({s}))
    BY SetToSeqLists, FS_Singleton
  <2>5. SetToSeq({s}) \in Seq(Speakers)
    BY <2>4
  <2>6. /\ listed' \in Seq(Speakers) /\ ToSet(listed') = ToSet(listed) \cup {s}
        /\ IsInjective(listed')
    <3>1. PICK q : q = SetToSeq({s})
      OBVIOUS
    <3>2. /\ listed \in Seq(Speakers) /\ q \in Seq(Speakers) /\ IsInjective(listed)
          /\ IsInjective(q) /\ ToSet(listed) \cap ToSet(q) = {} /\ ToSet(q) = {s}
      BY <1>0, <1>3, <2>4, <2>5, <3>1 DEF SpeakerShape
    <3>3. QED
      <4>1. /\ listed \o q \in Seq(Speakers) /\ IsInjective(listed \o q)
            /\ ToSet(listed \o q) = ToSet(listed) \cup ToSet(q)
        BY <3>2, Joined
      <4>2. QED
        BY <2>1, <3>1, <3>2, <4>1
  <2>7. \A o \in Known' : o \in Known
    BY <1>1, <1>3, <2>2, <2>3, <2>6, KnownIs, KnownIsNext
  <2>8. SpeakerShape' /\ Free' /\ \A o \in Known' : speaker'[o] = speaker[o]
    BY <1>0, <1>1, <2>1, <2>6, <2>7, DropShape DEF SpeakerShape
  <2>9. /\ Alike(validator.holds, speaker, speaker')
        /\ \A r \in Requests : Alike(request[r].holds, speaker, speaker')
        /\ \A u \in Retries : u # t => Alike(retrier[u].holds, speaker, speaker')
    BY <1>1, <2>2, <2>8, OthersKeep
  <2>10. RetryShape'
    BY <1>1, <2>1, <2>9, EndsShape
  <2>11. RequestShape' /\ ValidatorShape'
    BY <1>0, <1>1, <2>9, RequestStays, ValidatorStays DEF RequestShape
  <2>12. Apart'
    BY <1>0, <1>1, <1>3, <2>2, <2>3, <2>6 DEF Apart
  <2>13. QED
    BY <1>0, <1>1, <2>8, <2>10, <2>11, <2>12 DEF Shape, AppShape
<1>5. CASE Up(retrier[t].holds) = {}
  <2>1. /\ retrier' = [retrier EXCEPT ![t].pc = "sleep", ![t].holds = {}]
        /\ UNCHANGED <<listed, retries>>
    BY <1>5 DEF RetryStarted
  <2>2. /\ retrier' \in [Retries -> RetryRecord]
        /\ \A u \in Retries : u # t => retrier'[u] = retrier[u]
        /\ retrier'[t].pc = "sleep" /\ retrier'[t].holds = {}
        /\ retrier'[t].name = retrier[t].name /\ retrier'[t].ver = retrier[t].ver
    <3>1. /\ retrier'[t] = [retrier[t] EXCEPT !.pc = "sleep", !.holds = {}]
          /\ \A u \in Retries : u # t => retrier'[u] = retrier[u]
          /\ retrier' = [u \in Retries |-> retrier'[u]] /\ retrier[t] \in RetryRecord
      BY <1>0, <2>1 DEF RetryShape
    <3>2. /\ retrier'[t].pc = "sleep" /\ retrier'[t].holds = {} /\ retrier'[t] \in RetryRecord
          /\ retrier'[t].name = retrier[t].name /\ retrier'[t].ver = retrier[t].ver
      BY <3>1 DEF RetryRecord
    <3>3. retrier' \in [Retries -> RetryRecord]
      BY <1>0, <3>1, <3>2 DEF RetryShape
    <3>4. QED
      BY <3>1, <3>2, <3>3
  <2>3. \A o \in Known' : o \in Known
    BY <1>1, <2>1, <2>2, KnownIs, KnownIsNext
  <2>4. SpeakerShape' /\ Free' /\ \A o \in Known' : speaker'[o] = speaker[o]
    BY <1>0, <1>1, <2>1, <2>3, DropShape DEF SpeakerShape
  <2>5. /\ Alike(validator.holds, speaker, speaker')
        /\ \A r \in Requests : Alike(request[r].holds, speaker, speaker')
        /\ \A u \in Retries : u # t => Alike(retrier[u].holds, speaker, speaker')
    BY <1>1, <2>2, <2>4, OthersKeep
  <2>6. RetryShape'
    <3>1. RetryFits(retrier'[t], speaker')
      BY <1>0, <1>1, <2>2 DEF RetryShape, RetryFits
    <3>2. \A u \in Retries : u # t => RetryFits(retrier'[u], speaker')
      BY <1>0, <2>2, <2>5, RetryStays DEF RetryShape
    <3>3. QED
      BY <1>0, <1>1, <2>1, <2>2, <3>1, <3>2 DEF RetryShape
  <2>7. RequestShape' /\ ValidatorShape'
    BY <1>0, <1>1, <2>5, RequestStays, ValidatorStays DEF RequestShape
  <2>8. Apart'
    BY <1>0, <1>1, <2>1, <2>2 DEF Apart
  <2>9. QED
    BY <1>0, <1>1, <2>4, <2>6, <2>7, <2>8 DEF Shape, AppShape
<1>6. QED
  BY <1>4, <1>5

\* ValidatorStopped keeps the shape (app.py:_start_speakers, cancelled).
LEMMA ValidatorStoppedShape == ASSUME Shape, ValidatorStopped PROVE Shape'
<1>0. AppShape /\ SpeakerShape /\ ValidatorShape /\ RequestShape /\ RetryShape /\ Apart /\ Free
  BY DEF Shape
<1>1. /\ validator' = Over /\ speaker' = Dropped(speaker)
      /\ UNCHANGED <<app, config, api, listed, request, retrier, retries, used>>
  BY DEF ValidatorStopped, retryVars
<1>2. validator'.holds = {}
  BY <1>1 DEF Over
<1>3. \A s \in Known' : s \in Known
  BY <1>1, <1>2, KnownIs, KnownIsNext
<1>4. SpeakerShape' /\ Free' /\ \A s \in Known' : speaker'[s] = speaker[s]
  BY <1>0, <1>1, <1>3, DropShape DEF SpeakerShape
<1>5. /\ \A r \in Requests : Alike(request[r].holds, speaker, speaker')
      /\ \A u \in Retries : Alike(retrier[u].holds, speaker, speaker')
  BY <1>1, <1>4, OthersKeep
<1>6. RequestShape' /\ RetryShape' /\ ValidatorShape'
  BY <1>0, <1>1, <1>5, RequestStays, RetryStays, OverShape DEF RequestShape, RetryShape
<1>7. Apart'
  BY <1>0, <1>1, <1>2 DEF Apart
<1>8. QED
  BY <1>0, <1>1, <1>4, <1>6, <1>7 DEF Shape, AppShape

\* New tasks hold nothing yet.
LEMMA ScheduleHolds ==
  ASSUME SpeakerShape, RetryShape, NEW failed \in SUBSET Speakers, Schedule(failed),
         \A s \in failed : speaker[s].phase # "unused",
         \A x, y \in failed : speaker[x].name = speaker[y].name => x = y
  PROVE  \A u \in Retries : retrier'[u].holds = retrier[u].holds
<1>1. \A s \in failed : speaker[s].name \in Names
  BY DEF SpeakerShape
<1>2. \A u \in Retries :
        \/ retrier'[u] = retrier[u]
        \/ /\ retrier[u].pc = "idle"
           /\ \E s \in failed : retrier'[u] = [name |-> speaker[s].name, ver |-> speaker[s].ver,
                                               pc |-> "sleep", holds |-> {}]
  <2>1. Rescheduled(failed)
    BY <1>1, Scheduled
  <2>2. QED
    BY <2>1 DEF Rescheduled
<1>3. \A u \in Retries : retrier[u].pc = "idle" => retrier[u].holds = {}
  BY DEF RetryShape, RetryFits
<1>4. ASSUME NEW u \in Retries PROVE retrier'[u].holds = retrier[u].holds
  <2>1. CASE retrier'[u] # retrier[u]
    <3>1. PICK s \in failed : retrier'[u] = [name |-> speaker[s].name, ver |-> speaker[s].ver,
                                             pc |-> "sleep", holds |-> {}]
      BY <1>2, <2>1
    <3>2. retrier'[u].holds = {}
      BY <3>1
    <3>3. QED
      BY <1>2, <1>3, <2>1, <3>2
  <2>2. QED
    BY <2>1
<1>5. QED
  BY <1>4

\* The starts of holds are over.
LEMMA CollectsShape ==
  ASSUME Shape, NEW holds \in SUBSET Speakers, Done(holds), Collects(holds),
         \A s \in holds : speaker[s].phase \in Begun /\ s \notin ToSet(listed),
         \A x, y \in holds : speaker[x].name = speaker[y].name => x = y,
         \A u \in Retries : Alike(retrier[u].holds, speaker, speaker')
  PROVE  /\ listed' \in Seq(Speakers) /\ ToSet(listed') = ToSet(listed) \cup Up(holds)
         /\ IsInjective(listed') /\ RetryShape'
         /\ \A u \in Retries : retrier'[u].holds = retrier[u].holds
         /\ \A i \in DOMAIN listed : i \in DOMAIN listed' /\ listed'[i] = listed[i]
<1>0. AppShape /\ SpeakerShape /\ RetryShape
  BY DEF Shape
<1> DEFINE failed == holds \ Up(holds)
<1>1. listed' = listed \o SetToSeq(Up(holds)) /\ Schedule(failed)
  BY DEF Collects
<1>2. Up(holds) \subseteq Speakers /\ IsFiniteSet(Up(holds))
  BY LifecycleAssumption, FS_Subset DEF Up
<1>3. /\ SetToSeq(Up(holds)) \in Seq(Up(holds)) /\ ToSet(SetToSeq(Up(holds))) = Up(holds)
      /\ IsInjective(SetToSeq(Up(holds)))
  BY <1>2, SetToSeqLists
<1>4. SetToSeq(Up(holds)) \in Seq(Speakers)
  BY <1>2, <1>3
<1>5. Up(holds) \subseteq holds
  BY DEF Up
<1>6. /\ listed' \in Seq(Speakers) /\ ToSet(listed') = ToSet(listed) \cup Up(holds)
      /\ IsInjective(listed')
      /\ \A i \in DOMAIN listed : i \in DOMAIN listed' /\ listed'[i] = listed[i]
  BY <1>0, <1>1, <1>3, <1>4, <1>5, Joined DEF SpeakerShape
<1>7. \A s \in failed : speaker[s].name \in Names /\ speaker[s].ver \in Version \ {0}
  BY <1>0 DEF SpeakerShape, SpeakerObject, Begun
<1>8. /\ retrier' = [t \in Retries |-> retrier'[t]] /\ retries' = [n \in Names |-> retries'[n]]
      /\ \A t \in Retries :
           \/ retrier'[t] = retrier[t]
           \/ /\ retrier[t].pc = "idle"
              /\ \E s \in failed :
                   /\ retries[speaker[s].name] = None /\ retries'[speaker[s].name] = t
                   /\ retrier'[t] = [name |-> speaker[s].name, ver |-> speaker[s].ver,
                                     pc |-> "sleep", holds |-> {}]
      /\ \A n \in Names :
           \/ retries'[n] = retries[n]
           \/ /\ retries[n] = None /\ retries'[n] \in Retries
              /\ retrier'[retries'[n]].name = n /\ retrier'[retries'[n]].pc = "sleep"
  <2>1. /\ failed \in SUBSET Speakers
        /\ \A x, y \in failed : speaker[x].name = speaker[y].name => x = y
    OBVIOUS
  <2> HIDE DEF failed
  <2>2. Rescheduled(failed)
    BY <1>1, <1>7, <2>1, Scheduled
  <2>3. QED
    BY <2>2 DEF Rescheduled
<1> HIDE DEF failed
<1>9. ASSUME NEW t \in Retries
      PROVE  /\ retrier'[t] \in RetryRecord /\ RetryFits(retrier'[t], speaker')
             /\ retrier'[t].holds = retrier[t].holds
  <2>1. CASE retrier'[t] = retrier[t]
    BY <1>0, <2>1, RetryStays DEF RetryShape
  <2>2. CASE retrier'[t] # retrier[t]
    <3>1. PICK s \in failed : retrier'[t] = [name |-> speaker[s].name, ver |-> speaker[s].ver,
                                             pc |-> "sleep", holds |-> {}]
      BY <1>8, <2>2
    <3>2. retrier[t].pc = "idle"
      BY <1>8, <2>2
    <3>3. retrier[t].holds = {}
      BY <1>0, <3>2 DEF RetryShape, RetryFits
    <3>4. /\ retrier'[t].pc = "sleep" /\ retrier'[t].holds = {}
          /\ retrier'[t].name = speaker[s].name /\ retrier'[t].ver = speaker[s].ver
      BY <3>1
    <3>5. RetryFits(retrier'[t], speaker')
      BY <1>7, <3>4 DEF RetryFits
    <3>6. retrier'[t] \in RetryRecord
      BY <1>7, <3>1 DEF RetryRecord
    <3>7. QED
      BY <3>3, <3>4, <3>5, <3>6
  <2>3. QED
    BY <2>1, <2>2
<1>10. retrier' \in [Retries -> RetryRecord]
  BY <1>8, <1>9
<1>11. retries' \in [Names -> Retries \cup {None}]
  <2>1. retries' = [n \in Names |-> retries'[n]]
    BY <1>8
  <2>2. \A n \in Names : retries'[n] \in Retries \cup {None}
    BY <1>0, <1>8 DEF RetryShape
  <2>3. QED
    BY <2>1, <2>2
<1>12. \A n \in Names : retries'[n] # None =>
         retrier'[retries'[n]].name = n /\ retrier'[retries'[n]].pc \in {"sleep", "starting"}
  <2> SUFFICES ASSUME NEW n \in Names, retries'[n] # None
               PROVE  /\ retrier'[retries'[n]].name = n
                      /\ retrier'[retries'[n]].pc \in {"sleep", "starting"}
    OBVIOUS
  <2>1. CASE retries'[n] = retries[n]
    <3>1. /\ retries[n] \in Retries /\ retrier[retries[n]].pc # "idle"
          /\ retrier[retries[n]].name = n /\ retrier[retries[n]].pc \in {"sleep", "starting"}
      BY <1>0, <2>1 DEF RetryShape
    <3>2. retrier'[retries[n]] = retrier[retries[n]]
      BY <1>8, <3>1
    <3>3. QED
      BY <2>1, <3>1, <3>2
  <2>2. CASE retries'[n] # retries[n]
    BY <1>8, <2>2
  <2>3. QED
    BY <2>1, <2>2
<1>13. RetryShape'
  BY <1>9, <1>10, <1>11, <1>12 DEF RetryShape
<1>14. QED
  BY <1>6, <1>9, <1>13

\* Without what happens to the speakers in the same step.
LEMMA CollectsLists ==
  ASSUME Shape, NEW holds \in SUBSET Speakers, Collects(holds),
         \A s \in holds : speaker[s].phase \in Begun /\ s \notin ToSet(listed),
         \A x, y \in holds : speaker[x].name = speaker[y].name => x = y
  PROVE  /\ listed' \in Seq(Speakers) /\ ToSet(listed') = ToSet(listed) \cup Up(holds)
         /\ IsInjective(listed')
         /\ \A u \in Retries : retrier'[u].holds = retrier[u].holds
         /\ \A i \in DOMAIN listed : i \in DOMAIN listed' /\ listed'[i] = listed[i]
<1>0. SpeakerShape /\ RetryShape
  BY DEF Shape
<1>1. listed' = listed \o SetToSeq(Up(holds)) /\ Schedule(holds \ Up(holds))
  BY DEF Collects
<1>2. Up(holds) \subseteq Speakers /\ IsFiniteSet(Up(holds)) /\ Up(holds) \subseteq holds
  BY LifecycleAssumption, FS_Subset DEF Up
<1>3. /\ SetToSeq(Up(holds)) \in Seq(Up(holds)) /\ ToSet(SetToSeq(Up(holds))) = Up(holds)
      /\ IsInjective(SetToSeq(Up(holds)))
  BY <1>2, SetToSeqLists
<1>4. SetToSeq(Up(holds)) \in Seq(Speakers)
  BY <1>2, <1>3
<1>5. /\ listed' \in Seq(Speakers) /\ ToSet(listed') = ToSet(listed) \cup Up(holds)
      /\ IsInjective(listed')
      /\ \A i \in DOMAIN listed : i \in DOMAIN listed' /\ listed'[i] = listed[i]
  BY <1>0, <1>1, <1>2, <1>3, <1>4, Joined DEF SpeakerShape
<1> DEFINE failed == holds \ Up(holds)
<1>6. /\ failed \in SUBSET Speakers /\ Schedule(failed)
      /\ \A s \in failed : speaker[s].phase # "unused"
      /\ \A x, y \in failed : speaker[x].name = speaker[y].name => x = y
  BY <1>1 DEF Begun
<1> HIDE DEF failed
<1>7. QED
  BY <1>0, <1>5, <1>6, ScheduleHolds

\* ValidatorStarted keeps the shape (app.py:_start_speakers).
LEMMA ValidatorStartedShape == ASSUME Shape, ValidatorStarted PROVE Shape'
<1>0. AppShape /\ SpeakerShape /\ ValidatorShape /\ RequestShape /\ RetryShape /\ Apart /\ Free
  BY DEF Shape
<1> DEFINE holds == validator.holds
<1>1. /\ validator.pc = "starting" /\ Done(holds) /\ Collects(holds)
      /\ validator' = Over /\ speaker' = Dropped(speaker)
      /\ UNCHANGED <<app, config, api, request, used>>
  BY DEF ValidatorStarted
<1>2. /\ holds \in SUBSET Speakers
      /\ \A s \in holds : speaker[s].phase \in Begun /\ s \notin ToSet(listed)
      /\ \A x, y \in holds : speaker[x].name = speaker[y].name => x = y
  BY <1>0, <1>1 DEF ValidatorShape, Apart
<1>3. /\ \A r \in Requests : \A s \in request[r].holds : s \notin holds
      /\ \A t \in Retries : \A s \in retrier[t].holds : s \notin holds
      /\ \A s \in holds : s \in Known
  BY <1>0, KnownIs DEF Apart
<1>4. validator'.holds = {}
  BY <1>1 DEF Over
<1>5. /\ \A s \in Speakers : speaker'[s] = speaker[s] \/ s \notin Known'
      /\ Up(holds) \subseteq holds
  BY <1>1 DEF Dropped, Up
<1> HIDE DEF holds
<1>6. /\ listed' = listed \o SetToSeq(Up(holds)) /\ Schedule(holds \ Up(holds))
  BY <1>1 DEF Collects
<1>7. \A u \in Retries : retrier'[u].holds = retrier[u].holds
  <2> DEFINE failed == holds \ Up(holds)
  <2>1. /\ failed \in SUBSET Speakers /\ Schedule(failed)
        /\ \A s \in failed : speaker[s].phase # "unused"
        /\ \A x, y \in failed : speaker[x].name = speaker[y].name => x = y
    BY <1>2, <1>6 DEF Begun
  <2> HIDE DEF failed
  <2>2. QED
    BY <1>0, <2>1, ScheduleHolds
<1>8. \A u \in Retries : Alike(retrier[u].holds, speaker, speaker')
  <2> SUFFICES ASSUME NEW u \in Retries, NEW s \in retrier[u].holds
               PROVE  speaker'[s] = speaker[s]
    BY DEF Alike
  <2>1. s \in Known' /\ s \in Speakers
    BY <1>0, <1>7, KnownIsNext DEF RetryShape, RetryRecord
  <2>2. QED
    BY <1>5, <2>1
<1>9. /\ listed' \in Seq(Speakers) /\ ToSet(listed') = ToSet(listed) \cup Up(holds)
      /\ IsInjective(listed') /\ RetryShape'
  BY <1>1, <1>2, <1>8, CollectsShape
<1>10. \A s \in Known' : s \in Known
  BY <1>1, <1>3, <1>4, <1>5, <1>7, <1>9, KnownIs, KnownIsNext
<1>11. \A s \in ToSet(listed') : speaker[s].phase \in {"up", "stopping", "down"}
  BY <1>0, <1>9 DEF SpeakerShape, Up
<1>12. SpeakerShape' /\ Free' /\ \A s \in Known' : speaker'[s] = speaker[s]
  BY <1>1, <1>9, <1>10, <1>11, DropShape
<1>13. \A r \in Requests : Alike(request[r].holds, speaker, speaker')
  BY <1>1, <1>12, OthersKeep
<1>14. RequestShape' /\ ValidatorShape'
  BY <1>0, <1>1, <1>13, RequestStays, OverShape DEF RequestShape
<1>15. Apart'
  BY <1>0, <1>1, <1>3, <1>4, <1>5, <1>7, <1>9 DEF Apart
<1>16. QED
  BY <1>0, <1>1, <1>9, <1>12, <1>14, <1>15 DEF Shape, AppShape

\* A free object is held by nobody as long as what is held is in use.
LEMMA FreeNext ==
  ASSUME \A s \in Known' : speaker'[s].phase # "unused" PROVE Free'
BY KnownIsNext DEF Free

\* One handler goes on as rec.
LEMMA RequestNext ==
  ASSUME RequestShape, NEW r \in Requests, NEW rec \in RequestRecord,
         request' = [request EXCEPT ![r] = rec], RequestFits(rec, speaker'),
         \A q \in Requests : q # r =>
           \/ Alike(request[q].holds, speaker, speaker')
           \/ /\ request[q].pc = "stopping"
              /\ \A s \in request[q].holds : speaker'[s].phase \in {speaker[s].phase, "stopping"}
  PROVE  RequestShape' /\ \A q \in Requests : request'[q] = IF q = r THEN rec ELSE request[q]
<1>1. /\ request' \in [Requests -> RequestRecord]
      /\ \A q \in Requests : request'[q] = IF q = r THEN rec ELSE request[q]
  BY DEF RequestShape
<1>2. \A q \in Requests : q # r => RequestFits(request[q], speaker')
  BY RequestStays, RequestEnds DEF RequestShape
<1>3. QED
  BY <1>1, <1>2 DEF RequestShape

\* A handler that is free fits any speakers.
LEMMA IdleFits ==
  ASSUME NEW f PROVE Idle \in RequestRecord /\ RequestFits(Idle, f) /\ Idle.holds = {}
                     /\ Idle.pc = "idle" /\ Idle.kind = "none" /\ Idle.at = 0
                     /\ Idle.ver = 0 /\ Idle.waits = FALSE /\ Idle.name = None
BY LifecycleAssumption DEF Idle, RequestRecord, RequestFits, Version, StopKinds

\* What a handler is after Handles.
HandlesSo(rec, kind, n, pc, holds) ==
  /\ rec \in RequestRecord /\ rec.kind = kind /\ rec.name = n /\ rec.pc = pc
  /\ rec.holds = holds /\ rec.at = 0 /\ rec.ver = 0 /\ rec.waits = FALSE

\* The record that Handles makes.
LEMMA HandlesAs ==
  ASSUME NEW kind \in {"none", "login", "logout", "shutdown", "add", "edit", "remove"},
         NEW n \in Names \cup {None}, NEW pc \in {"idle", "cancelling", "starting", "stopping"},
         NEW holds \in SUBSET Speakers,
         NEW rec, rec = [Idle EXCEPT !.kind = kind, !.name = n, !.pc = pc, !.holds = holds]
  PROVE  HandlesSo(rec, kind, n, pc, holds)
BY IdleFits DEF RequestRecord, HandlesSo

\* A handler that is free.
LEMMA AcceptsFree ==
  ASSUME Shape, NEW r \in Requests, NEW kind, Accepts(r, kind)
  PROVE  request[r].kind = "none" /\ request[r].pc = "idle" /\ request[r].holds = {}
<1>1. RequestShape /\ \E q \in Requests : request[q].kind = "none"
  BY DEF Shape, Accepts, Under
<1>2. request[r].kind = "none"
  BY <1>1 DEF Accepts
<1>3. QED
  BY <1>1, <1>2 DEF RequestShape, RequestFits

\* The version that a request configures.
LEMMA UsesRequest ==
  ASSUME AppShape, Uses("request", MaxRequests)
  PROVE  /\ used' \in [request : 0 .. MaxRequests, failure : Nat, selection : Nat]
         /\ used'.request + 1 \in Version \ {0}
BY LifecycleAssumption DEF AppShape, Uses, Version

\* The bounds after a request is accepted.
LEMMA AcceptsUses ==
  ASSUME AppShape, NEW r, NEW kind, Accepts(r, kind)
  PROVE  used' \in [request : 0 .. MaxRequests, failure : Nat, selection : Nat]
BY UsesRequest DEF Accepts, AppShape

\* What is stopped stays what it was otherwise.
LEMMA SlowShape ==
  ASSUME Shape, NEW all \in SUBSET Known, speaker' = Stopping(all),
         listed' \in Seq(Speakers), IsInjective(listed'), ToSet(listed') \subseteq ToSet(listed),
         \A s \in Known' : s \in Known
  PROVE  /\ SpeakerShape' /\ Free'
         /\ \A s \in Speakers : /\ s \notin all => speaker'[s] = speaker[s]
                                /\ s \in all => /\ speaker'[s].phase = "stopping"
                                                /\ speaker'[s].name = speaker[s].name
                                                /\ speaker'[s].ver = speaker[s].ver
<1>1. /\ Slowed(speaker')
      /\ \A s \in Speakers : /\ s \notin all => speaker'[s] = speaker[s]
                             /\ s \in all => speaker'[s].phase = "stopping"
  BY StoppingSlows
<1>2. SpeakerShape
  BY DEF Shape
<1>3. SpeakerShape'
  <2>1. ToSet(listed) \subseteq Speakers
    BY <1>2 DEF SpeakerShape, ToSet
  <2>2. \A s \in ToSet(listed') : speaker'[s].phase \in {"up", "stopping", "down"}
    BY <1>1, <1>2, <2>1 DEF SpeakerShape, Slowed
  <2>3. \A s \in Speakers : speaker'[s].phase # "unused" =>
          speaker'[s].name \in Names /\ speaker'[s].ver # 0
    BY <1>1, <1>2 DEF SpeakerShape, Slowed
  <2>4. QED
    BY <1>1, <2>2, <2>3 DEF SpeakerShape, Slowed
<1>4. \A s \in Known' : speaker'[s].phase # "unused"
  BY <1>1, KnownAreUsed DEF Slowed
<1>5. QED
  BY <1>1, <1>3, <1>4, FreeNext DEF Slowed

\* The cancelled validation keeps its speakers until they are stopped.
LEMMA CancelValidationShape ==
  ASSUME Shape, CancelValidation, UNCHANGED <<listed, retrier>>,
         \A r \in Requests : request'[r].holds = request[r].holds
  PROVE  /\ SpeakerShape' /\ ValidatorShape' /\ Free'
         /\ validator'.holds = validator.holds /\ validator'.tracked = FALSE
         /\ \A s \in Speakers : s \notin validator.holds => speaker'[s] = speaker[s]
<1>0. AppShape /\ SpeakerShape /\ ValidatorShape /\ RequestShape /\ RetryShape /\ Apart /\ Free
  BY DEF Shape
<1>1. CASE validator.tracked /\ validator.pc = "starting"
  <2>1. /\ speaker' = Stopping(validator.holds)
        /\ validator' = [validator EXCEPT !.pc = "stopping", !.tracked = FALSE]
    BY <1>1 DEF CancelValidation
  <2>2. /\ validator'.pc = "stopping" /\ validator'.holds = validator.holds
        /\ validator'.tracked = FALSE
        /\ validator' \in [pc : {"none", "asks", "sleep", "starting", "stopping", "done"},
                           holds : SUBSET Speakers, tracked : BOOLEAN, first : BOOLEAN]
    BY <1>0, <2>1 DEF ValidatorShape
  <2>3. \A s \in Known' : s \in Known
    BY <2>2, KnownIs, KnownIsNext
  <2>4. validator.holds \in SUBSET Known
    BY KnownIs
  <2>5. /\ SpeakerShape' /\ Free'
        /\ \A s \in Speakers : /\ s \notin validator.holds => speaker'[s] = speaker[s]
                               /\ s \in validator.holds => /\ speaker'[s].phase = "stopping"
                                                           /\ speaker'[s].name = speaker[s].name
                                                           /\ speaker'[s].ver = speaker[s].ver
    BY <1>0, <2>1, <2>3, <2>4, SlowShape DEF SpeakerShape
  <2>6. validator.holds \subseteq Speakers
    BY <1>0 DEF ValidatorShape
  <2>7. ValidatorShape'
    BY <1>0, <2>2, <2>5, <2>6 DEF ValidatorShape, Ended
  <2>8. QED
    BY <2>2, <2>5, <2>7
<1>2. CASE ~(validator.tracked /\ validator.pc = "starting")
  <2>1. validator' = (IF validator.tracked THEN Over ELSE validator) /\ UNCHANGED speaker
    BY <1>2 DEF CancelValidation
  <2>2. CASE validator.tracked
    <3>1. validator' = Over /\ validator.holds = {}
      BY <1>0, <1>2, <2>1, <2>2 DEF ValidatorShape
    <3>2. validator'.holds = {} /\ validator'.tracked = FALSE
      BY <3>1 DEF Over
    <3>3. Free' /\ SpeakerShape'
      BY <1>0, <2>1, <3>2 DEF Free, SpeakerShape
    <3>4. QED
      BY <2>1, <3>1, <3>2, <3>3, OverShape
  <2>3. CASE ~validator.tracked
    <3>1. validator' = validator /\ validator.tracked = FALSE
      BY <1>0, <2>1, <2>3 DEF ValidatorShape
    <3>2. QED
      BY <1>0, <2>1, <3>1 DEF Free, SpeakerShape, ValidatorShape
  <2>4. QED
    BY <2>2, <2>3
<1>3. QED
  BY <1>1, <1>2

\* CancelsFirst keeps the shape (app.py:_cancel_auth_retry).
LEMMA CancelsFirstShape ==
  ASSUME Shape, NEW r \in Requests, NEW kind \in {"login", "logout", "shutdown"},
         CancelsFirst(r, kind), app' \in {"new", "up", "stopping", "stopped"}
  PROVE  Shape'
<1>0. AppShape /\ SpeakerShape /\ ValidatorShape /\ RequestShape /\ RetryShape /\ Apart /\ Free
  BY DEF Shape
<1> DEFINE rec == [Idle EXCEPT !.kind = kind, !.pc = "cancelling", !.waits = validator.tracked]
<1>1. /\ Accepts(r, kind) /\ CancelValidation /\ request' = [request EXCEPT ![r] = rec]
      /\ UNCHANGED <<api, config, listed, retrier, retries>>
  BY DEF CancelsFirst, retryVars
<1>2. request[r].kind = "none" /\ request[r].pc = "idle" /\ request[r].holds = {}
  BY <1>1, AcceptsFree
<1>3. /\ rec.kind = kind /\ rec.pc = "cancelling" /\ rec.holds = {} /\ rec.at = 0
      /\ rec \in RequestRecord
  <2>1. validator.tracked \in BOOLEAN
    BY <1>0 DEF ValidatorShape
  <2>2. QED
    BY <2>1, IdleFits DEF RequestRecord
<1> HIDE DEF rec
<1>4. RequestFits(rec, speaker')
  BY <1>3 DEF RequestFits, StopKinds
<1>5. \A q \in Requests : request'[q] = IF q = r THEN rec ELSE request[q]
  BY <1>0, <1>1 DEF RequestShape
<1>6. \A q \in Requests : request'[q].holds = request[q].holds
  BY <1>2, <1>3, <1>5
<1>7. /\ SpeakerShape' /\ ValidatorShape' /\ Free' /\ validator'.holds = validator.holds
      /\ \A s \in Speakers : s \notin validator.holds => speaker'[s] = speaker[s]
  BY <1>1, <1>6, CancelValidationShape
<1>8. /\ \A q \in Requests : Alike(request[q].holds, speaker, speaker')
      /\ \A t \in Retries : Alike(retrier[t].holds, speaker, speaker')
  BY <1>0, <1>7 DEF Alike, Apart, RequestShape, RequestRecord, RetryShape, RetryRecord
<1>9. RequestShape'
  BY <1>0, <1>1, <1>3, <1>4, <1>8, RequestNext
<1>10. RetryShape'
  BY <1>0, <1>1, <1>8, RetryStays DEF RetryShape
<1>11. Apart'
  <2>1. \A q \in Requests : request'[q].pc = "starting" => request[q].pc = "starting"
    BY <1>3, <1>5
  <2>2. QED
    BY <1>0, <1>1, <1>6, <1>7, <2>1 DEF Apart
<1>12. AppShape'
  BY <1>0, <1>1, AcceptsUses DEF AppShape
<1>13. QED
  BY <1>7, <1>9, <1>10, <1>11, <1>12 DEF Shape

\* The tasks of these names are cancelled, and what they start is stopped.
LEMMA HaltedIs ==
  ASSUME NEW tasks, NEW s
  PROVE  s \in Halted(tasks) <=> \E t \in tasks : s \in retrier[t].holds
BY DEF Halted

\* Cancelled tasks leave the table and stop what they start.
LEMMA CancelShape ==
  ASSUME Shape, NEW names \in SUBSET Names, CancelRetries(names),
         \A t \in Retries : t \notin Cancelled(names) =>
           Alike(retrier[t].holds, speaker, speaker'),
         \A s \in Halted(Cancelled(names)) : /\ speaker'[s].phase = "stopping"
                                             /\ speaker'[s].name = speaker[s].name
                                             /\ speaker'[s].ver = speaker[s].ver
  PROVE  RetryShape' /\ \A t \in Retries : retrier'[t].holds = retrier[t].holds
<1> DEFINE C == Cancelled(names)
<1>0. RetryShape
  BY DEF Shape
<1>1. C \subseteq Retries /\ \A t \in C : \E n \in names : retries[n] = t /\ retries[n] # None
  BY <1>0 DEF Cancelled, RetryShape
<1>2. \A t \in C : retrier[t].pc \in {"sleep", "starting"}
  BY <1>0, <1>1 DEF RetryShape
<1>3. /\ retries' = [n \in Names |-> IF n \in names THEN None ELSE retries[n]]
      /\ retrier' = [t \in Retries |->
           IF t \notin C THEN retrier[t]
           ELSE IF retrier[t].pc = "sleep" THEN NoRetry ELSE [retrier[t] EXCEPT !.pc = "stopping"]]
  BY DEF CancelRetries
<1>4. \A t \in C : \A s \in retrier[t].holds : /\ speaker'[s].phase = "stopping"
                                               /\ speaker'[s].name = speaker[s].name
                                               /\ speaker'[s].ver = speaker[s].ver
  BY HaltedIs
<1>5. \A t \in Retries : t \notin C => Alike(retrier[t].holds, speaker, speaker')
  OBVIOUS
<1>6. \A n \in Names : retries[n] \in C => n \in names
  BY <1>0, <1>1 DEF RetryShape
<1> HIDE DEF C
<1>7. NoRetry \in RetryRecord /\ NoRetry.holds = {} /\ NoRetry.pc = "idle"
  BY LifecycleAssumption DEF NoRetry, RetryRecord, Version
<1>8. ASSUME NEW t \in Retries
      PROVE  /\ retrier'[t] \in RetryRecord /\ RetryFits(retrier'[t], speaker')
             /\ retrier'[t].holds = retrier[t].holds
  <2>0. retrier[t] \in RetryRecord /\ RetryFits(retrier[t], speaker)
    BY <1>0 DEF RetryShape
  <2>1. CASE t \notin C
    BY <1>3, <1>5, <2>0, <2>1, RetryStays
  <2>2. CASE t \in C /\ retrier[t].pc = "sleep"
    <3>1. retrier'[t] = NoRetry
      BY <1>3, <2>2
    <3>2. RetryFits(NoRetry, speaker') /\ retrier[t].holds = {}
      BY <1>7, <2>0, <2>2 DEF RetryFits
    <3>3. QED
      BY <1>7, <3>1, <3>2
  <2>3. CASE t \in C /\ retrier[t].pc = "starting"
    <3>1. retrier'[t] = [retrier[t] EXCEPT !.pc = "stopping"]
      BY <1>3, <2>3
    <3>2. /\ retrier'[t].pc = "stopping" /\ retrier'[t].holds = retrier[t].holds
          /\ retrier'[t].name = retrier[t].name /\ retrier'[t].ver = retrier[t].ver
          /\ retrier'[t] \in RetryRecord
      BY <2>0, <3>1 DEF RetryRecord
    <3>3. RetryFits(retrier'[t], speaker')
      BY <1>4, <2>0, <2>3, <3>2 DEF RetryFits, Ended
    <3>4. QED
      BY <3>2, <3>3
  <2>4. QED
    BY <1>2, <2>1, <2>2, <2>3
<1>9. retrier' \in [Retries -> RetryRecord] /\ retries' \in [Names -> Retries \cup {None}]
  <2>1. retrier' = [t \in Retries |-> retrier'[t]]
    BY <1>3
  <2>2. QED
    BY <1>0, <1>3, <1>8, <2>1 DEF RetryShape
<1>10. \A n \in Names : retries'[n] # None =>
         retrier'[retries'[n]].name = n /\ retrier'[retries'[n]].pc \in {"sleep", "starting"}
  <2> SUFFICES ASSUME NEW n \in Names, retries'[n] # None
               PROVE  /\ retrier'[retries'[n]].name = n
                      /\ retrier'[retries'[n]].pc \in {"sleep", "starting"}
    OBVIOUS
  <2>1. n \notin names /\ retries'[n] = retries[n]
    BY <1>3
  <2>2. retries[n] \notin C /\ retries[n] \in Retries
    BY <1>0, <1>6, <2>1 DEF RetryShape
  <2>3. QED
    BY <1>0, <1>3, <2>1, <2>2 DEF RetryShape
<1>11. QED
  BY <1>8, <1>9, <1>10 DEF RetryShape

\* Some of the list and what the cancelled tasks start is stopped, by a handler that goes on as
\* rec.
LEMMA SlowOthers ==
  ASSUME Shape, NEW r \in Requests, request[r].holds = {}, NEW rec \in RequestRecord,
         request' = [request EXCEPT ![r] = rec], rec.pc # "starting",
         NEW old \in SUBSET ToSet(listed), rec.holds \subseteq old,
         \A g : (\A s \in rec.holds : g[s].phase = "stopping") => RequestFits(rec, g),
         UNCHANGED validator, NEW names \in SUBSET Names, CancelRetries(names),
         speaker' = Stopping(old \cup Halted(Cancelled(names))),
         listed' \in Seq(Speakers), IsInjective(listed'), ToSet(listed') \subseteq ToSet(listed)
  PROVE  /\ SpeakerShape' /\ ValidatorShape' /\ RequestShape' /\ RetryShape' /\ Apart' /\ Free'
         /\ \A q \in Requests : request'[q] = IF q = r THEN rec ELSE request[q]
         /\ \A t \in Retries : retrier'[t].holds = retrier[t].holds
<1> DEFINE all == old \cup Halted(Cancelled(names))
<1>0. AppShape /\ SpeakerShape /\ ValidatorShape /\ RequestShape /\ RetryShape /\ Apart /\ Free
  BY DEF Shape
<1>1. Cancelled(names) \subseteq Retries
  BY <1>0 DEF Cancelled, RetryShape
<1>2. \A s \in all : s \in ToSet(listed) \/ \E t \in Cancelled(names) : s \in retrier[t].holds
  BY HaltedIs
<1>3. /\ all \in SUBSET Known
      /\ \A s \in Halted(Cancelled(names)) : s \in all
      /\ \A s \in rec.holds : s \in all
  BY <1>1, <1>2, KnownIs
<1>4. speaker' = Stopping(all)
  OBVIOUS
<1> HIDE DEF all
<1>5. /\ Slowed(speaker')
      /\ \A s \in Speakers : /\ s \notin all => speaker'[s] = speaker[s]
                             /\ s \in all => speaker'[s].phase = "stopping"
  BY <1>3, <1>4, StoppingSlows
<1>6. \A s \in all : s \in Speakers
  BY <1>3, KnownAreUsed
<1>7. \A t \in Retries : t \notin Cancelled(names) => \A s \in retrier[t].holds : s \notin all
  BY <1>0, <1>1, <1>2 DEF Apart
<1>8. \A t \in Retries : t \notin Cancelled(names) => Alike(retrier[t].holds, speaker, speaker')
  BY <1>0, <1>5, <1>7 DEF Alike, RetryShape, RetryRecord
<1>9. \A s \in Halted(Cancelled(names)) : /\ speaker'[s].phase = "stopping"
                                          /\ speaker'[s].name = speaker[s].name
                                          /\ speaker'[s].ver = speaker[s].ver
  BY <1>3, <1>5, <1>6 DEF Slowed
<1>10. RetryShape' /\ \A t \in Retries : retrier'[t].holds = retrier[t].holds
  BY <1>8, <1>9, CancelShape
<1>11. ValidatorShape'
  <2>1. \A s \in validator.holds : s \notin all /\ s \in Speakers
    BY <1>0, <1>1, <1>2 DEF Apart, ValidatorShape
  <2>2. Alike(validator.holds, speaker, speaker')
    BY <1>5, <2>1 DEF Alike
  <2>3. QED
    BY <1>0, <2>2, ValidatorStays
<1>12. RequestFits(rec, speaker')
  BY <1>3, <1>5, <1>6
<1>13. ASSUME NEW q \in Requests, q # r
       PROVE  \/ Alike(request[q].holds, speaker, speaker')
              \/ /\ request[q].pc = "stopping"
                 /\ \A s \in request[q].holds : speaker'[s].phase \in {speaker[s].phase, "stopping"}
  <2>0. request[q].holds \subseteq Speakers
    BY <1>0 DEF RequestShape, RequestRecord
  <2>1. CASE request[q].pc = "stopping"
    BY <1>5, <2>0, <2>1 DEF Slowed
  <2>2. CASE request[q].pc = "starting"
    <3>1. \A s \in request[q].holds : s \notin all
      BY <1>0, <1>1, <1>2, <2>2 DEF Apart
    <3>2. QED
      BY <1>5, <2>0, <3>1 DEF Alike
  <2>3. CASE request[q].pc \in {"idle", "cancelling"}
    <3>1. request[q].holds = {}
      BY <1>0, <2>3 DEF RequestShape, RequestFits
    <3>2. QED
      BY <3>1 DEF Alike
  <2>4. QED
    BY <1>0, <2>1, <2>2, <2>3 DEF RequestShape, RequestRecord
<1>14. RequestShape' /\ \A q \in Requests : request'[q] = IF q = r THEN rec ELSE request[q]
  BY <1>0, <1>12, <1>13, RequestNext
<1>15. \A s \in Known' : s \in Known
  BY <1>10, <1>14, KnownIs, KnownIsNext
<1>16. SpeakerShape' /\ Free'
  BY <1>3, <1>4, <1>15, SlowShape
<1>17. Apart'
  <2>1. \A s \in ToSet(listed') : s \in ToSet(listed)
    OBVIOUS
  <2>2. \A s \in rec.holds : s \in ToSet(listed)
    OBVIOUS
  <2>3. \A q \in Requests : \A s \in request'[q].holds :
          IF q = r THEN s \in ToSet(listed) ELSE s \in request[q].holds
    BY <1>14, <2>2
  <2>4. \A q \in Requests : request'[q].pc = "starting" => q # r /\ request[q].pc = "starting"
    BY <1>14
  <2>5. QED
    BY <1>0, <1>10, <2>1, <2>3, <2>4 DEF Apart
<1>18. QED
  BY <1>10, <1>11, <1>14, <1>16, <1>17

\* StopsAll keeps the shape (app.py:_stop_speakers).
LEMMA StopsAllShape == ASSUME Shape, NEW r \in Requests, StopsAll(r) PROVE Shape'
<1>0. AppShape /\ SpeakerShape /\ ValidatorShape /\ RequestShape /\ RetryShape /\ Apart /\ Free
  BY DEF Shape
<1> DEFINE old == ToSet(listed)
           rec == IF listed = <<>> THEN Idle
                  ELSE [request[r] EXCEPT !.pc = "stopping", !.holds = ToSet(listed)]
<1>1. PICK kind \in StopKinds : request[r].kind = kind /\ request[r].pc = "cancelling"
  BY DEF StopsAll, Resumes
<1>2. /\ CancelRetries(Names) /\ speaker' = Stopping(old \cup Halted(Cancelled(Names)))
      /\ UNCHANGED <<validator, config, listed, used>>
      /\ request' = [request EXCEPT ![r] = rec]
      /\ app' \in {app, "stopped"} /\ api' \in {api, "none"}
  <2>1. CASE listed = <<>>
    BY <2>1 DEF StopsAll, Finishes, Answered
  <2>2. CASE listed # <<>>
    BY <1>0, <2>2 DEF StopsAll, authVars, RequestShape
  <2>3. QED
    BY <2>1, <2>2
<1>3. request[r].holds = {} /\ request[r] \in RequestRecord /\ RequestFits(request[r], speaker)
  BY <1>0, <1>1 DEF RequestShape, RequestFits
<1>4. /\ rec \in RequestRecord /\ rec.pc # "starting" /\ rec.holds \subseteq old
      /\ \A g : (\A s \in rec.holds : g[s].phase = "stopping") => RequestFits(rec, g)
  <2>1. CASE listed = <<>>
    BY <2>1, IdleFits
  <2>2. CASE listed # <<>>
    <3>1. ToSet(listed) \in SUBSET Speakers
      BY <1>0 DEF SpeakerShape, ToSet
    <3>2. /\ rec \in RequestRecord /\ rec.pc = "stopping" /\ rec.holds = old
          /\ rec.kind = kind /\ rec.at = request[r].at
      BY <1>1, <1>3, <2>2, <3>1 DEF RequestRecord
    <3> HIDE DEF rec
    <3>3. rec.at = 0
      BY <1>1, <1>3, <3>2 DEF RequestFits, StopKinds
    <3>4. QED
      BY <1>1, <3>2, <3>3 DEF RequestFits, StopKinds, Ended
  <2>3. QED
    BY <2>1, <2>2
<1> HIDE DEF rec, old
<1>5. old \in SUBSET ToSet(listed)
  BY DEF old
<1>6. /\ listed' \in Seq(Speakers) /\ IsInjective(listed') /\ ToSet(listed') \subseteq ToSet(listed)
  BY <1>0, <1>2 DEF SpeakerShape
<1>7. SpeakerShape' /\ ValidatorShape' /\ RequestShape' /\ RetryShape' /\ Apart' /\ Free'
  BY <1>2, <1>3, <1>4, <1>5, <1>6, SlowOthers
<1>8. AppShape'
  BY <1>0, <1>2 DEF AppShape
<1>9. QED
  BY <1>7, <1>8 DEF Shape

\* The first place in the list.
LEMMA LeastExists ==
  ASSUME NEW S \in SUBSET Nat, S # {}
  PROVE  \E i \in S : \A j \in S : i <= j
<1> DEFINE R == OpToRel(<, Nat)
<1>1. IsWellFoundedOn(R, Nat)
  BY NatLessThanWellFounded
<1>2. \A x, y \in Nat : y < x => <<y, x>> \in R
  BY DEF OpToRel
<1> HIDE DEF R
<1>3. \E x \in S : \A y \in S : ~(<<y, x>> \in R)
  BY <1>1, WFMin
<1>4. PICK x \in S : \A y \in S : ~(<<y, x>> \in R)
  BY <1>3
<1>5. \A y \in S : x <= y
  <2> TAKE y \in S
  <2>1. x \in Nat /\ y \in Nat /\ ~(y < x)
    BY <1>2, <1>4
  <2>2. QED
    BY <2>1
<1>6. QED
  BY <1>5

\* PlaceOf finds the name when it is listed.
LEMMA PlaceIs ==
  ASSUME SpeakerShape, NEW n
  PROVE  /\ PlaceOf(n) # 0 =>
              PlaceOf(n) \in DOMAIN listed /\ speaker[listed[PlaceOf(n)]].name = n
         /\ PlaceOf(n) = 0 => \A i \in DOMAIN listed : speaker[listed[i]].name # n
<1> DEFINE places == {i \in DOMAIN listed : speaker[listed[i]].name = n}
<1>1. CASE places = {}
  BY <1>1 DEF PlaceOf
<1>2. CASE places # {}
  <2>1. PlaceOf(n) = CHOOSE i \in places : \A j \in places : i <= j
    BY <1>2 DEF PlaceOf
  <2>2. places \in SUBSET Nat
    BY DEF SpeakerShape
  <2> HIDE DEF places
  <2>3. \E i \in places : \A j \in places : i <= j
    BY <1>2, <2>2, LeastExists
  <2>4. PlaceOf(n) \in places
    BY <2>1, <2>3
  <2>5. PlaceOf(n) # 0
    BY <2>2, <2>4 DEF places, SpeakerShape
  <2>6. QED
    BY <2>4, <2>5 DEF places
<1>3. QED
  BY <1>1, <1>2

\* RemoveSpeaker keeps the shape (app.py:_on_remove_speaker).
LEMMA RemoveSpeakerShape ==
  ASSUME Shape, NEW r \in Requests, NEW n \in Names, RemoveSpeaker(r, n) PROVE Shape'
<1>0. AppShape /\ SpeakerShape /\ ValidatorShape /\ RequestShape /\ RetryShape /\ Apart /\ Free
  BY DEF Shape
<1> DEFINE at == PlaceOf(n)
           old == IF at = 0 THEN {} ELSE {listed[at]}
           rec == [Idle EXCEPT !.kind = "remove", !.name = n, !.pc = "stopping", !.holds = old]
<1>1. /\ Accepts(r, "remove") /\ config' = [config EXCEPT ![n] = 0] /\ CancelRetries({n})
      /\ listed' = (IF old = {} THEN listed ELSE RemoveAt(listed, at))
      /\ speaker' = Stopping(old \cup Halted(Cancelled({n})))
      /\ request' = [request EXCEPT ![r] = rec] /\ UNCHANGED <<app, api, validator>>
  BY DEF RemoveSpeaker, Handles, authVars
<1>2. at # 0 => at \in DOMAIN listed
  BY <1>0, PlaceIs
<1> HIDE DEF at
<1>3. old \in SUBSET ToSet(listed) /\ old \in SUBSET Speakers
  BY <1>0, <1>2 DEF ToSet, SpeakerShape
<1>4. /\ listed' \in Seq(Speakers) /\ IsInjective(listed') /\ ToSet(listed') \subseteq ToSet(listed)
  <2>1. CASE at = 0
    BY <1>0, <1>1, <2>1 DEF SpeakerShape
  <2>2. CASE at # 0
    <3>1. listed' = RemoveAt(listed, at)
      BY <1>1, <2>2
    <3>2. /\ RemoveAt(listed, at) \in Seq(Speakers) /\ IsInjective(RemoveAt(listed, at))
          /\ ToSet(RemoveAt(listed, at)) = ToSet(listed) \ {listed[at]}
      BY <1>0, <1>2, <2>2, Shortened DEF SpeakerShape
    <3>3. QED
      BY <3>1, <3>2
  <2>3. QED
    BY <2>1, <2>2
<1> HIDE DEF old
<1>5. /\ rec \in RequestRecord /\ rec.kind = "remove" /\ rec.name = n /\ rec.pc = "stopping"
      /\ rec.holds = old /\ rec.at = 0 /\ rec.ver = 0
  <2>1. n \in Names \cup {None} /\ old \in SUBSET Speakers
    BY <1>3
  <2>2. PICK q : q = rec
    OBVIOUS
  <2>3. HandlesSo(q, "remove", n, "stopping", old)
    BY <2>1, <2>2, HandlesAs
  <2>4. QED
    BY <2>2, <2>3 DEF HandlesSo
<1> HIDE DEF rec
<1>6. \A g : (\A s \in rec.holds : g[s].phase = "stopping") => RequestFits(rec, g)
  BY <1>5 DEF RequestFits, StopKinds, Ended
<1>7. request[r].holds = {}
  BY <1>1, AcceptsFree
<1>8. {n} \in SUBSET Names
  OBVIOUS
<1>9. SpeakerShape' /\ ValidatorShape' /\ RequestShape' /\ RetryShape' /\ Apart' /\ Free'
  BY <1>1, <1>3, <1>4, <1>5, <1>6, <1>7, <1>8, SlowOthers
<1>10. AppShape'
  <2>1. 0 \in Version
    BY LifecycleAssumption DEF Version
  <2>2. QED
    BY <1>0, <1>1, <2>1, AcceptsUses DEF AppShape
<1>11. QED
  BY <1>9, <1>10 DEF Shape

\* A handler answers: what nobody refers to is dropped, and what it brought up may be listed.
LEMMA AnswersShape ==
  ASSUME Shape, NEW r \in Requests, request' = [request EXCEPT ![r] = Idle],
         speaker' = Dropped(speaker), UNCHANGED validator,
         listed' \in Seq(Speakers), IsInjective(listed'),
         \A s \in ToSet(listed') :
           \/ s \in ToSet(listed)
           \/ /\ s \in request[r].holds /\ request[r].pc = "starting"
              /\ speaker[s].phase \in {"up", "down"},
         \A t \in Retries : retrier'[t].holds = retrier[t].holds
  PROVE  /\ SpeakerShape' /\ ValidatorShape' /\ RequestShape' /\ Apart' /\ Free'
         /\ \A t \in Retries : Alike(retrier[t].holds, speaker, speaker')
         /\ \A q \in Requests : request'[q] = IF q = r THEN Idle ELSE request[q]
         /\ \A s \in Known' : s \in Known /\ speaker'[s] = speaker[s]
<1>0. AppShape /\ SpeakerShape /\ ValidatorShape /\ RequestShape /\ RetryShape /\ Apart /\ Free
  BY DEF Shape
<1>1. /\ Idle \in RequestRecord /\ RequestFits(Idle, speaker') /\ Idle.holds = {}
      /\ Idle.pc = "idle"
  BY IdleFits
<1>2. \A q \in Requests : request'[q] = IF q = r THEN Idle ELSE request[q]
  BY <1>0 DEF RequestShape
<1>3. \A s \in Known' : s \in Known
  BY <1>1, <1>2, KnownIs, KnownIsNext
<1>4. \A s \in ToSet(listed') : speaker[s].phase \in {"up", "stopping", "down"}
  BY <1>0 DEF SpeakerShape
<1>5. SpeakerShape' /\ Free' /\ \A s \in Known' : speaker'[s] = speaker[s]
  BY <1>3, <1>4, DropShape
<1>6. /\ Alike(validator.holds, speaker, speaker')
      /\ \A q \in Requests : q # r => Alike(request[q].holds, speaker, speaker')
      /\ \A t \in Retries : Alike(retrier[t].holds, speaker, speaker')
  BY <1>2, <1>5, OthersKeep
<1>7. RequestShape' /\ ValidatorShape'
  BY <1>0, <1>1, <1>6, RequestNext, ValidatorStays
<1>8. Apart'
  <2>1. \A q \in Requests : \A s \in request'[q].holds : q # r /\ s \in request[q].holds
    BY <1>1, <1>2
  <2>2. \A q \in Requests : request'[q].pc = "starting" =>
          q # r /\ request[q].pc = "starting" /\ request'[q] = request[q]
    BY <1>1, <1>2
  <2>3. \A q \in Requests : q # r => request'[q] = request[q]
    BY <1>2
  <2>4. \A s \in ToSet(listed') :
          /\ s \notin validator.holds /\ \A t \in Retries : s \notin retrier[t].holds
          /\ \A q \in Requests \ {r} : request[q].pc = "starting" => s \notin request[q].holds
    BY <1>0 DEF Apart
  <2>5. \A q \in Requests : \A s \in request'[q].holds :
          /\ s \notin validator.holds /\ \A t \in Retries : s \notin retrier[t].holds
          /\ request'[q].pc = "starting" => \A o \in Requests : o # q => s \notin request'[o].holds
    BY <1>0, <2>1, <2>2 DEF Apart
  <2>6. QED
    BY <1>0, <2>2, <2>4, <2>5 DEF Apart
<1>9. QED
  BY <1>2, <1>3, <1>5, <1>6, <1>7, <1>8

\* StoppedAll keeps the shape (app.py:_stop_speakers).
LEMMA StoppedAllShape == ASSUME Shape, NEW r \in Requests, StoppedAll(r) PROVE Shape'
<1>0. AppShape /\ SpeakerShape /\ ValidatorShape /\ RequestShape /\ RetryShape /\ Apart /\ Free
  BY DEF Shape
<1>1. /\ request' = [request EXCEPT ![r] = Idle] /\ speaker' = Dropped(speaker)
      /\ listed' = <<>> /\ UNCHANGED <<validator, config, retrier, retries, used>>
      /\ app' \in {app, "stopped"} /\ api' \in {api, "none"}
  BY DEF StoppedAll, Finishes, Answered, retryVars
<1>2. listed' \in Seq(Speakers) /\ IsInjective(listed') /\ ToSet(listed') = {}
  BY <1>1 DEF ToSet, IsInjective
<1>3. /\ SpeakerShape' /\ ValidatorShape' /\ RequestShape' /\ Apart' /\ Free'
      /\ \A t \in Retries : Alike(retrier[t].holds, speaker, speaker')
  BY <1>1, <1>2, AnswersShape
<1>4. RetryShape'
  BY <1>0, <1>1, <1>3, RetryStays DEF RetryShape
<1>5. QED
  BY <1>0, <1>1, <1>3, <1>4 DEF Shape, AppShape

\* Removed keeps the shape (app.py:_on_remove_speaker).
LEMMA RemovedShape == ASSUME Shape, NEW r \in Requests, Removed(r) PROVE Shape'
<1>0. AppShape /\ SpeakerShape /\ ValidatorShape /\ RequestShape /\ RetryShape /\ Apart /\ Free
  BY DEF Shape
<1>1. /\ request' = [request EXCEPT ![r] = Idle] /\ speaker' = Dropped(speaker)
      /\ UNCHANGED <<app, api, listed, validator, config, retrier, retries, used>>
  BY DEF Removed, Answered, retryVars, authVars
<1>2. listed' \in Seq(Speakers) /\ IsInjective(listed')
  BY <1>0, <1>1 DEF SpeakerShape
<1>3. /\ SpeakerShape' /\ ValidatorShape' /\ RequestShape' /\ Apart' /\ Free'
      /\ \A t \in Retries : Alike(retrier[t].holds, speaker, speaker')
  BY <1>1, <1>2, AnswersShape
<1>4. RetryShape'
  BY <1>0, <1>1, <1>3, RetryStays DEF RetryShape
<1>5. QED
  BY <1>0, <1>1, <1>3, <1>4 DEF Shape, AppShape

\* What Edited puts where.
EditedIs(r, new) ==
  /\ request[r].holds = {new} /\ new \in Speakers /\ request[r].pc = "starting"
  /\ speaker[new].phase \in {"up", "down"} /\ speaker[new].name = request[r].name
  /\ new \notin ToSet(listed)
  /\ \/ /\ request[r].at = 0 /\ listed' = Append(listed, new)
        /\ ToSet(listed') = ToSet(listed) \cup {new}
        /\ \A i \in DOMAIN listed : i \in DOMAIN listed' /\ listed'[i] = listed[i]
     \/ /\ request[r].at # 0 /\ request[r].at \in DOMAIN listed
        /\ listed' = [listed EXCEPT ![request[r].at] = new]
        /\ ToSet(listed') = (ToSet(listed) \ {listed[request[r].at]}) \cup {new}
     \/ request[r].at # 0 /\ request[r].at \notin DOMAIN listed /\ listed' = listed

\* The new speaker of an edit is listed once, at its place or at the end.
LEMMA EditedPlaces ==
  ASSUME Shape, NEW r \in Requests, Edited(r)
  PROVE  /\ \E new \in Speakers : EditedIs(r, new)
         /\ listed' \in Seq(Speakers) /\ IsInjective(listed')
<1>0. AppShape /\ SpeakerShape /\ ValidatorShape /\ RequestShape /\ RetryShape /\ Apart /\ Free
  BY DEF Shape
<1>1. request[r].kind = "edit" /\ request[r].pc = "starting" /\ Done(request[r].holds)
  BY DEF Edited
<1>2. PICK new \in Speakers : request[r].holds = {new}
  BY <1>0, <1>1 DEF RequestShape, RequestFits
<1>3. new = CHOOSE s \in request[r].holds : TRUE
  BY <1>2
<1>4. speaker[new].phase \in {"up", "down"} /\ speaker[new].name = request[r].name
  BY <1>0, <1>1, <1>2 DEF RequestShape, RequestFits, Done, Begun
<1>5. new \notin ToSet(listed)
  BY <1>0, <1>1, <1>2 DEF Apart
<1> DEFINE at == request[r].at
<1>6. listed' = IF at = 0 THEN Append(listed, new)
                ELSE IF at \in DOMAIN listed THEN [listed EXCEPT ![at] = new] ELSE listed
  BY <1>3 DEF Edited
<1>7. listed \in Seq(Speakers) /\ IsInjective(listed)
  BY <1>0 DEF SpeakerShape
<1> HIDE DEF at
<1>8. CASE at = 0
  <2>1. /\ Append(listed, new) \in Seq(Speakers) /\ IsInjective(Append(listed, new))
        /\ ToSet(Append(listed, new)) = ToSet(listed) \cup {new}
        /\ \A i \in DOMAIN listed : /\ i \in DOMAIN Append(listed, new)
                                    /\ Append(listed, new)[i] = listed[i]
    BY <1>5, <1>7, Lengthened
  <2>2. listed' = Append(listed, new)
    BY <1>6, <1>8
  <2>3. QED
    BY <1>1, <1>2, <1>4, <1>5, <1>8, <2>1, <2>2 DEF EditedIs, at
<1>9. CASE at # 0 /\ at \in DOMAIN listed
  <2>1. listed' = [listed EXCEPT ![at] = new]
    BY <1>6, <1>9
  <2>2. /\ listed' \in Seq(Speakers) /\ IsInjective(listed')
        /\ ToSet(listed') = (ToSet(listed) \ {listed[at]}) \cup {new}
    <3>1. at \in DOMAIN listed /\ new \in Speakers
      BY <1>9
    <3>2. QED
      <4>1. Len(listed) \in Nat /\ DOMAIN listed = 1 .. Len(listed)
        BY <1>7
      <4>2. listed' \in Seq(Speakers)
        BY <1>7, <2>1, <3>1, <4>1
      <4>3. QED
        BY <1>5, <1>7, <2>1, <3>1, <4>1, <4>2 DEF ToSet, IsInjective
  <2>3. QED
    BY <1>1, <1>2, <1>4, <1>5, <1>9, <2>1, <2>2 DEF EditedIs, at
<1>10. CASE at # 0 /\ at \notin DOMAIN listed
  BY <1>1, <1>2, <1>4, <1>5, <1>6, <1>7, <1>10 DEF EditedIs, at
<1>11. QED
  BY <1>8, <1>9, <1>10

\* Edited keeps the shape (app.py:_on_edit_speaker).
LEMMA EditedShape == ASSUME Shape, NEW r \in Requests, Edited(r) PROVE Shape'
<1>0. AppShape /\ SpeakerShape /\ ValidatorShape /\ RequestShape /\ RetryShape /\ Apart /\ Free
  BY DEF Shape
<1>1. /\ request' = [request EXCEPT ![r] = Idle] /\ speaker' = Dropped(speaker)
      /\ UNCHANGED <<app, api, validator, config, retrier, retries, used>>
  BY DEF Edited, Answered, retryVars, authVars
<1>2. PICK new \in Speakers : EditedIs(r, new)
  BY EditedPlaces
<1>3. listed' \in Seq(Speakers) /\ IsInjective(listed')
  BY EditedPlaces
<1>4. \A s \in ToSet(listed') :
        \/ s \in ToSet(listed)
        \/ /\ s \in request[r].holds /\ request[r].pc = "starting"
           /\ speaker[s].phase \in {"up", "down"}
  BY <1>2 DEF EditedIs
<1>5. /\ SpeakerShape' /\ ValidatorShape' /\ RequestShape' /\ Apart' /\ Free'
      /\ \A t \in Retries : Alike(retrier[t].holds, speaker, speaker')
  BY <1>1, <1>3, <1>4, AnswersShape
<1>6. RetryShape'
  BY <1>0, <1>1, <1>5, RetryStays DEF RetryShape
<1>7. QED
  BY <1>0, <1>1, <1>5, <1>6 DEF Shape, AppShape

\* The starts of a handler are over.
LEMMA HandlerStartedShape ==
  ASSUME Shape, NEW r \in Requests, request[r].pc = "starting", Done(request[r].holds),
         Collects(request[r].holds), request' = [request EXCEPT ![r] = Idle],
         UNCHANGED <<app, api, validator, config, used>>, speaker' = Dropped(speaker)
  PROVE  Shape'
<1>0. AppShape /\ SpeakerShape /\ ValidatorShape /\ RequestShape /\ RetryShape /\ Apart /\ Free
  BY DEF Shape
<1> DEFINE holds == request[r].holds
<1>1. /\ holds \in SUBSET Speakers
      /\ \A s \in holds : speaker[s].phase \in Begun /\ s \notin ToSet(listed)
      /\ \A x, y \in holds : speaker[x].name = speaker[y].name => x = y
  BY <1>0 DEF RequestShape, RequestRecord, RequestFits, Apart
<1>2. Done(holds) /\ Collects(holds)
  OBVIOUS
<1>3. /\ \A s \in Speakers : speaker'[s] = speaker[s] \/ s \notin Known'
      /\ Up(holds) \subseteq holds /\ \A s \in Up(holds) : speaker[s].phase = "up"
  BY DEF Dropped, Up
<1>4. /\ listed' = listed \o SetToSeq(Up(holds)) /\ Schedule(holds \ Up(holds))
  BY <1>2 DEF Collects
<1>5. \A u \in Retries : retrier'[u].holds = retrier[u].holds
  <2> HIDE DEF holds
  <2> DEFINE failed == holds \ Up(holds)
  <2>1. /\ failed \in SUBSET Speakers /\ Schedule(failed)
        /\ \A s \in failed : speaker[s].phase # "unused"
        /\ \A x, y \in failed : speaker[x].name = speaker[y].name => x = y
    BY <1>1, <1>4 DEF Begun
  <2> HIDE DEF failed
  <2>2. QED
    BY <1>0, <2>1, ScheduleHolds
<1>6. \A u \in Retries : Alike(retrier[u].holds, speaker, speaker')
  <2> SUFFICES ASSUME NEW u \in Retries, NEW s \in retrier[u].holds
               PROVE  speaker'[s] = speaker[s]
    BY DEF Alike
  <2>1. s \in Known' /\ s \in Speakers
    BY <1>0, <1>5, KnownIsNext DEF RetryShape, RetryRecord
  <2>2. QED
    BY <1>3, <2>1
<1>7. /\ listed' \in Seq(Speakers) /\ ToSet(listed') = ToSet(listed) \cup Up(holds)
      /\ IsInjective(listed') /\ RetryShape'
  <2> HIDE DEF holds
  <2>1. QED
    BY <1>1, <1>2, <1>6, CollectsShape
<1>8. \A s \in ToSet(listed') :
        \/ s \in ToSet(listed)
        \/ /\ s \in request[r].holds /\ request[r].pc = "starting"
           /\ speaker[s].phase \in {"up", "down"}
  BY <1>3, <1>7
<1>9. SpeakerShape' /\ ValidatorShape' /\ RequestShape' /\ Apart' /\ Free'
  <2> HIDE DEF holds
  <2>1. QED
    BY <1>5, <1>7, <1>8, AnswersShape
<1>10. QED
  BY <1>0, <1>7, <1>9 DEF Shape, AppShape

\* LoginStarted keeps the shape (app.py:_on_auth_token).
LEMMA LoginStartedShape == ASSUME Shape, NEW r \in Requests, LoginStarted(r) PROVE Shape'
BY HandlerStartedShape DEF LoginStarted, Answered, authVars

\* Added keeps the shape (app.py:_on_add_speaker).
LEMMA AddedShape == ASSUME Shape, NEW r \in Requests, Added(r) PROVE Shape'
<1>1. request[r].pc = "starting"
  BY DEF Added, Shape, RequestShape, RequestFits
<1>2. QED
  BY <1>1, HandlerStartedShape DEF Added, Answered, authVars

\* A handler starts one speaker, or answers when nobody is logged in; the others become f.
LEMMA RestartsShape ==
  ASSUME Shape, NEW r \in Requests, NEW n \in Names, NEW ver \in Version \ {0}, NEW at \in Nat,
         NEW f, Slowed(f), Restarts(r, n, ver, at, f), UNCHANGED <<validator, listed>>,
         request[r].pc # "starting",
         Alike(validator.holds, speaker, f),
         \A q \in Requests : q # r => Alike(request[q].holds, speaker, f),
         \A t \in Retries : retrier'[t].holds = retrier[t].holds
  PROVE  /\ SpeakerShape' /\ ValidatorShape' /\ RequestShape' /\ Apart' /\ Free'
         /\ \A s \in Known : speaker'[s] = f[s]
<1>0. AppShape /\ SpeakerShape /\ ValidatorShape /\ RequestShape /\ RetryShape /\ Apart /\ Free
  BY DEF Shape
<1>1. CASE api = "none"
  <2>1. request' = [request EXCEPT ![r] = Idle] /\ speaker' = f
    BY <1>1 DEF Restarts, Answered
  <2>2. /\ Idle \in RequestRecord /\ RequestFits(Idle, speaker') /\ Idle.holds = {}
        /\ Idle.pc = "idle"
    BY IdleFits
  <2>3. RequestShape' /\ \A q \in Requests : request'[q] = IF q = r THEN Idle ELSE request[q]
    BY <1>0, <2>1, <2>2, RequestNext
  <2>4. ValidatorShape'
    BY <1>0, <2>1, ValidatorStays
  <2>5. \A s \in Known' : s \in Known
    BY <2>2, <2>3, KnownIs, KnownIsNext
  <2>6. Free'
    <3>1. \A s \in Known' : speaker'[s].phase # "unused"
      BY <2>1, <2>5, KnownAreUsed DEF Slowed
    <3>2. QED
      BY <3>1, FreeNext
  <2>7. SpeakerShape'
    <3>1. \A s \in ToSet(listed) : s \in Speakers
      BY <1>0 DEF SpeakerShape, ToSet
    <3>2. \A s \in ToSet(listed) : speaker'[s].phase \in {"up", "stopping", "down"}
      BY <1>0, <2>1, <3>1 DEF SpeakerShape, Slowed
    <3>3. \A s \in Speakers : speaker'[s].phase # "unused" =>
            speaker'[s].name \in Names /\ speaker'[s].ver # 0
      BY <1>0, <2>1 DEF SpeakerShape, Slowed
    <3>4. QED
      BY <1>0, <2>1, <3>2, <3>3 DEF SpeakerShape, Slowed
  <2>8. Apart'
    <3>1. \A q \in Requests : \A s \in request'[q].holds : q # r /\ s \in request[q].holds
      BY <2>2, <2>3
    <3>2. \A q \in Requests : request'[q].pc = "starting" =>
            request[q].pc = "starting" /\ request'[q] = request[q]
      BY <2>2, <2>3
    <3>3. QED
      BY <1>0, <3>1, <3>2 DEF Apart
  <2>9. QED
    BY <2>1, <2>3, <2>4, <2>6, <2>7, <2>8
<1>2. CASE api # "none"
  <2> DEFINE new == NewFor({n})
             s == new[n]
             version == [m \in {n} |-> ver]
             rec == [kind |-> "edit", pc |-> "starting", name |-> n, ver |-> ver,
                     holds |-> {s}, at |-> at, waits |-> FALSE]
  <2>1. /\ Enough({n}) /\ speaker' = Starting(f, new, version)
        /\ request' = [request EXCEPT ![r] = rec]
    BY <1>2 DEF Restarts
  <2>2. version[n] = ver
    OBVIOUS
  <2>3. /\ SpeakerShape' /\ s \in Speakers /\ speaker'[s].phase = "starting" /\ s \notin Known
        /\ \A o \in Speakers : o # s => speaker'[o] = f[o]
        /\ speaker'[s].name = n /\ speaker'[s].ver = version[n]
    <3>1. version[n] \in Version \ {0}
      BY <2>2
    <3> HIDE DEF version
    <3>2. SpeakerShape' /\ RisenOne(n, f, version)
      BY <2>1, <3>1, RaiseOne
    <3>3. QED
      BY <3>2 DEF RisenOne
  <2>4. /\ rec \in RequestRecord /\ rec.kind = "edit" /\ rec.pc = "starting" /\ rec.name = n
        /\ rec.ver = ver /\ rec.holds = {s} /\ rec.at = at
    <3>1. ver \in Version /\ {s} \in SUBSET Speakers
      BY <2>3
    <3> HIDE DEF s
    <3>2. QED
      BY <3>1 DEF RequestRecord
  <2> HIDE DEF s, new, version, rec
  <2>5. \A o \in Known : o \in Speakers /\ speaker'[o] = f[o]
    BY <2>3, KnownAreUsed
  <2>6. /\ Alike(validator.holds, speaker, speaker')
        /\ \A q \in Requests : q # r => Alike(request[q].holds, speaker, speaker')
    BY <2>5, KnownIs DEF Alike
  <2>7. RequestFits(rec, speaker')
    BY <2>3, <2>4 DEF RequestFits, StopKinds, Begun
  <2>8. RequestShape' /\ \A q \in Requests : request'[q] = IF q = r THEN rec ELSE request[q]
    BY <1>0, <2>1, <2>4, <2>6, <2>7, RequestNext
  <2>9. ValidatorShape'
    BY <1>0, <2>6, ValidatorStays
  <2>10. /\ s \notin ToSet(listed) /\ s \notin validator.holds
         /\ \A q \in Requests : s \notin request[q].holds
         /\ \A t \in Retries : s \notin retrier[t].holds
    BY <2>3, KnownIs
  <2>11. \A o \in Known' : o \in Known \/ o = s
    BY <2>4, <2>8, KnownIs, KnownIsNext
  <2>12. Free'
    <3>1. \A o \in Known' : speaker'[o].phase # "unused"
      BY <2>3, <2>5, <2>11, KnownAreUsed DEF Slowed
    <3>2. QED
      BY <3>1, FreeNext
  <2>13. Apart'
    <3>1. \A q \in Requests : q # r => request'[q] = request[q]
      BY <2>8
    <3>2. request'[r].holds = {s} /\ request'[r].pc = "starting"
      BY <2>4, <2>8
    <3>3. \A o \in ToSet(listed) :
            /\ o \notin validator.holds /\ o # s
            /\ \A t \in Retries : o \notin retrier[t].holds
            /\ \A q \in Requests : request'[q].pc = "starting" => o \notin request'[q].holds
      BY <1>0, <2>10, <3>1, <3>2 DEF Apart
    <3>4. \A q \in Requests : \A o \in request'[q].holds :
            /\ o \notin validator.holds /\ \A t \in Retries : o \notin retrier[t].holds
            /\ request'[q].pc = "starting" =>
                 \A p \in Requests : p # q => o \notin request'[p].holds
      BY <1>0, <2>10, <3>1, <3>2 DEF Apart
    <3>5. QED
      BY <1>0, <3>3, <3>4 DEF Apart
  <2>14. QED
    BY <2>3, <2>5, <2>8, <2>9, <2>12, <2>13
<1>3. QED
  BY <1>1, <1>2

\* EditStopped keeps the shape (app.py:_on_edit_speaker).
LEMMA EditStoppedShape == ASSUME Shape, NEW r \in Requests, EditStopped(r) PROVE Shape'
<1>0. AppShape /\ SpeakerShape /\ ValidatorShape /\ RequestShape /\ RetryShape /\ Apart /\ Free
  BY DEF Shape
<1> DEFINE n == request[r].name
           ver == request[r].ver
           at == request[r].at
<1>1. /\ request[r].kind = "edit" /\ request[r].pc = "stopping"
      /\ Restarts(r, n, ver, at, speaker)
      /\ UNCHANGED <<app, api, validator, config, listed, retrier, retries, used>>
  BY DEF EditStopped, authVars, retryVars
<1>2. n \in Names /\ ver \in Version \ {0} /\ at \in Nat
  BY <1>0, <1>1 DEF RequestShape, RequestRecord, RequestFits
<1>3. Slowed(speaker) /\ \A holds : Alike(holds, speaker, speaker)
  BY SpeakersSlow DEF Alike
<1> HIDE DEF n, ver, at
<1>4. /\ SpeakerShape' /\ ValidatorShape' /\ RequestShape' /\ Apart' /\ Free'
      /\ \A s \in Known : speaker'[s] = speaker[s]
  BY <1>1, <1>2, <1>3, RestartsShape
<1>5. \A t \in Retries : Alike(retrier[t].holds, speaker, speaker')
  BY <1>4, KnownIs DEF Alike
<1>6. RetryShape'
  BY <1>0, <1>1, <1>5, RetryStays DEF RetryShape
<1>7. QED
  BY <1>0, <1>1, <1>4, <1>6 DEF Shape, AppShape

\* LoggedIn keeps the shape (app.py:_on_auth_token).
LEMMA LoggedInShape == ASSUME Shape, NEW r \in Requests, LoggedIn(r) PROVE Shape'
<1>0. AppShape /\ SpeakerShape /\ ValidatorShape /\ RequestShape /\ RetryShape /\ Apart /\ Free
  BY DEF Shape
<1>1. /\ request[r].kind = "login" /\ request[r].pc = "cancelling" /\ api' = "web"
      /\ UNCHANGED <<app, validator, config, listed, retrier, retries, used>>
  BY DEF LoggedIn, Resumes, retryVars
<1>2. request[r].holds = {}
  BY <1>0, <1>1 DEF RequestShape, RequestFits
<1>3. CASE listed # <<>>
  <2>1. request' = [request EXCEPT ![r] = Idle] /\ UNCHANGED speaker
    BY <1>3 DEF LoggedIn, Answered
  <2>2. /\ Idle \in RequestRecord /\ RequestFits(Idle, speaker') /\ Idle.holds = {}
        /\ Idle.pc = "idle"
    BY IdleFits
  <2>3. RequestShape' /\ \A q \in Requests : request'[q] = IF q = r THEN Idle ELSE request[q]
    BY <1>0, <2>1, <2>2, RequestNext DEF Alike
  <2>4. /\ \A q \in Requests : request'[q].holds = request[q].holds
        /\ \A q \in Requests : request'[q].pc = "starting" => request[q].pc = "starting"
    BY <1>2, <2>2, <2>3
  <2>5. Apart' /\ Free'
    BY <1>0, <1>1, <2>1, <2>4 DEF Apart, Free
  <2>6. QED
    BY <1>0, <1>1, <2>1, <2>3, <2>5
       DEF Shape, AppShape, SpeakerShape, ValidatorShape, RetryShape
<1>4. CASE listed = <<>>
  <2> DEFINE H == {NewFor(ToStart)[n] : n \in ToStart}
             rec == [Idle EXCEPT !.kind = "login", !.name = None, !.pc = "starting", !.holds = H]
  <2>1. /\ Enough(ToStart) /\ speaker' = Starting(speaker, NewFor(ToStart), config)
        /\ request' = [request EXCEPT ![r] = rec]
    BY <1>4 DEF LoggedIn, Handles
  <2>2. ToStart \in SUBSET Names /\ \A n \in ToStart : config[n] \in Version \ {0}
    BY <1>0 DEF AppShape, ToStart, Configured
  <2>3. /\ SpeakerShape' /\ H \subseteq Speakers
        /\ \A s \in Speakers \ H : speaker'[s] = speaker[s]
        /\ \A s \in H : s \notin Known /\ speaker'[s].phase = "starting"
        /\ \A x, y \in H : speaker'[x].name = speaker'[y].name => x = y
    <3>1. Raised(ToStart, speaker, config) /\ Slowed(speaker)
      BY <2>1, <2>2, NewSpeakers, SpeakersSlow
    <3>2. SpeakerShape' /\ Risen(ToStart, speaker, config)
      BY <1>1, <2>1, <2>2, <3>1, RaiseShape
    <3>3. QED
      BY <3>2 DEF Risen
  <2> HIDE DEF H
  <2>4. /\ rec \in RequestRecord /\ rec.kind = "login" /\ rec.pc = "starting"
        /\ rec.holds = H /\ rec.at = 0
    <3>1. PICK q : q = rec
      OBVIOUS
    <3>2. None \in Names \cup {None} /\ H \in SUBSET Speakers
      BY <2>3
    <3>3. HandlesSo(q, "login", None, "starting", H)
      BY <3>1, <3>2, HandlesAs
    <3>4. QED
      BY <3>1, <3>3 DEF HandlesSo
  <2> HIDE DEF rec
  <2>5. /\ Alike(validator.holds, speaker, speaker')
        /\ \A q \in Requests : Alike(request[q].holds, speaker, speaker')
        /\ \A t \in Retries : Alike(retrier[t].holds, speaker, speaker')
    BY <2>3, OthersStay DEF Undisturbed
  <2>6. RequestFits(rec, speaker')
    BY <2>3, <2>4 DEF RequestFits, StopKinds, Begun
  <2>7. RequestShape' /\ \A q \in Requests : request'[q] = IF q = r THEN rec ELSE request[q]
    BY <1>0, <2>1, <2>4, <2>5, <2>6, RequestNext
  <2>8. ValidatorShape' /\ RetryShape'
    BY <1>0, <1>1, <2>5, ValidatorStays, RetryStays DEF RetryShape
  <2>9. \A s \in H : /\ s \notin ToSet(listed) /\ s \notin validator.holds
                     /\ \A q \in Requests : s \notin request[q].holds
                     /\ \A t \in Retries : s \notin retrier[t].holds
    BY <2>3, KnownIs
  <2>10. Apart'
    <3>1. \A q \in Requests : q # r => request'[q] = request[q]
      BY <2>7
    <3>2. request'[r].holds = H /\ request'[r].pc = "starting"
      BY <2>4, <2>7
    <3>3. \A o \in ToSet(listed) :
            /\ o \notin validator.holds /\ \A t \in Retries : o \notin retrier[t].holds
            /\ \A q \in Requests : request'[q].pc = "starting" => o \notin request'[q].holds
      BY <1>0, <2>9, <3>1, <3>2 DEF Apart
    <3>4. \A q \in Requests : \A o \in request'[q].holds :
            /\ o \notin validator.holds /\ \A t \in Retries : o \notin retrier[t].holds
            /\ request'[q].pc = "starting" =>
                 \A p \in Requests : p # q => o \notin request'[p].holds
      BY <1>0, <2>9, <3>1, <3>2 DEF Apart
    <3>5. QED
      BY <1>0, <1>1, <3>3, <3>4 DEF Apart
  <2>11. Free'
    <3>1. \A s \in Known' : s \in Known \/ s \in H
      BY <1>1, <2>4, <2>7, KnownIs, KnownIsNext
    <3>2. \A s \in Known' : speaker'[s].phase # "unused"
      BY <2>3, <3>1, KnownAreUsed
    <3>3. QED
      BY <3>2, FreeNext
  <2>12. AppShape'
    BY <1>0, <1>1 DEF AppShape
  <2>13. QED
    BY <2>3, <2>7, <2>8, <2>10, <2>11, <2>12 DEF Shape
<1>5. QED
  BY <1>3, <1>4

\* AddSpeaker keeps the shape (app.py:_on_add_speaker).
LEMMA AddSpeakerShape ==
  ASSUME Shape, NEW r \in Requests, NEW n \in Names, AddSpeaker(r, n) PROVE Shape'
<1>0. AppShape /\ SpeakerShape /\ ValidatorShape /\ RequestShape /\ RetryShape /\ Apart /\ Free
  BY DEF Shape
<1> DEFINE s == NewFor({n})[n]
           rec == [Idle EXCEPT !.kind = "add", !.name = n, !.pc = "starting", !.holds = {s}]
<1>1. /\ Accepts(r, "add") /\ Enough({n}) /\ config' = [config EXCEPT ![n] = used'.request + 1]
      /\ speaker' = Starting(speaker, NewFor({n}), config')
      /\ request' = [request EXCEPT ![r] = rec]
      /\ UNCHANGED <<app, api, validator, listed, retrier, retries>>
  BY DEF AddSpeaker, Handles, authVars, retryVars
<1>2. /\ used' \in [request : 0 .. MaxRequests, failure : Nat, selection : Nat]
      /\ used'.request + 1 \in Version \ {0}
  BY <1>0, <1>1, UsesRequest DEF Accepts
<1>3. /\ config' \in [Names -> Version] /\ config'[n] \in Version \ {0} /\ AppShape'
  BY <1>0, <1>1, <1>2 DEF AppShape
<1>4. /\ SpeakerShape' /\ s \in Speakers /\ speaker'[s].phase = "starting" /\ s \notin Known
      /\ \A o \in Speakers : o # s => speaker'[o] = speaker[o]
      /\ speaker'[s].name = n
  <2>1. SpeakerShape' /\ RisenOne(n, speaker, config')
    BY <1>1, <1>3, RaiseOne, SpeakersSlow
  <2>2. QED
    BY <2>1 DEF RisenOne
<1> HIDE DEF s
<1>5. HandlesSo(rec, "add", n, "starting", {s})
  <2>1. PICK q : q = rec
    OBVIOUS
  <2>2. PICK H : H = {s}
    OBVIOUS
  <2>3. n \in Names \cup {None} /\ H \in SUBSET Speakers
    BY <1>4, <2>2
  <2>4. q = [Idle EXCEPT !.kind = "add", !.name = n, !.pc = "starting", !.holds = H]
    BY <2>1, <2>2
  <2> HIDE DEF rec
  <2>5. HandlesSo(q, "add", n, "starting", H)
    BY <2>3, <2>4, HandlesAs
  <2>6. QED
    BY <2>1, <2>2, <2>5
<1> HIDE DEF rec
<1>6. /\ rec \in RequestRecord /\ rec.kind = "add" /\ rec.pc = "starting" /\ rec.name = n
      /\ rec.holds = {s} /\ rec.at = 0
  BY <1>5 DEF HandlesSo
<1>7. request[r].holds = {}
  BY <1>1, AcceptsFree
<1>8. \A o \in Known : o \in Speakers /\ speaker'[o] = speaker[o]
  BY <1>4, KnownAreUsed
<1>9. /\ Alike(validator.holds, speaker, speaker')
      /\ \A q \in Requests : Alike(request[q].holds, speaker, speaker')
      /\ \A t \in Retries : Alike(retrier[t].holds, speaker, speaker')
  BY <1>8, KnownIs DEF Alike
<1>10. RequestFits(rec, speaker')
  BY <1>4, <1>6 DEF RequestFits, StopKinds, Begun
<1>11. RequestShape' /\ \A q \in Requests : request'[q] = IF q = r THEN rec ELSE request[q]
  BY <1>0, <1>1, <1>6, <1>9, <1>10, RequestNext
<1>12. ValidatorShape' /\ RetryShape'
  BY <1>0, <1>1, <1>9, ValidatorStays, RetryStays DEF RetryShape
<1>13. /\ s \notin ToSet(listed) /\ s \notin validator.holds
       /\ \A q \in Requests : s \notin request[q].holds
       /\ \A t \in Retries : s \notin retrier[t].holds
  BY <1>4, KnownIs
<1>14. Free'
  <2>1. \A o \in Known' : o \in Known \/ o = s
    BY <1>1, <1>6, <1>11, KnownIs, KnownIsNext
  <2>2. \A o \in Known' : speaker'[o].phase # "unused"
    BY <1>4, <1>8, <2>1, KnownAreUsed
  <2>3. QED
    BY <2>2, FreeNext
<1>15. Apart'
  <2>1. \A q \in Requests : q # r => request'[q] = request[q]
    BY <1>11
  <2>2. request'[r].holds = {s} /\ request'[r].pc = "starting"
    BY <1>6, <1>11
  <2>3. \A o \in ToSet(listed) :
          /\ o \notin validator.holds /\ \A t \in Retries : o \notin retrier[t].holds
          /\ \A q \in Requests : request'[q].pc = "starting" => o \notin request'[q].holds
    BY <1>0, <1>13, <2>1, <2>2 DEF Apart
  <2>4. \A q \in Requests : \A o \in request'[q].holds :
          /\ o \notin validator.holds /\ \A t \in Retries : o \notin retrier[t].holds
          /\ request'[q].pc = "starting" =>
               \A p \in Requests : p # q => o \notin request'[p].holds
    BY <1>0, <1>13, <2>1, <2>2 DEF Apart
  <2>5. QED
    BY <1>0, <1>1, <2>3, <2>4 DEF Apart
<1>16. QED
  BY <1>3, <1>4, <1>11, <1>12, <1>14, <1>15 DEF Shape

\* The speaker of that name that is listed, or none.
OldOf(n) == IF PlaceOf(n) = 0 THEN {} ELSE {listed[PlaceOf(n)]}

\* The speaker that a change of the name stops.
LEMMA OldIs ==
  ASSUME Shape, NEW n
  PROVE  /\ OldOf(n) \in SUBSET ToSet(listed) /\ OldOf(n) \in SUBSET Speakers
         /\ OldOf(n) = {} <=> PlaceOf(n) = 0
         /\ PlaceOf(n) # 0 => /\ PlaceOf(n) \in DOMAIN listed
                              /\ OldOf(n) = {listed[PlaceOf(n)]}
                              /\ speaker[listed[PlaceOf(n)]].name = n
         /\ PlaceOf(n) \in Nat
<1>1. SpeakerShape
  BY DEF Shape
<1>2. PlaceOf(n) # 0 => PlaceOf(n) \in DOMAIN listed /\ speaker[listed[PlaceOf(n)]].name = n
  BY <1>1, PlaceIs
<1>3. DOMAIN listed \subseteq Nat /\ \A i \in DOMAIN listed : listed[i] \in Speakers
  BY <1>1 DEF SpeakerShape
<1>4. QED
  BY <1>2, <1>3 DEF OldOf, ToSet

\* What is cancelled for a name.
LEMMA HaltedApart ==
  ASSUME Shape, NEW names \in SUBSET Names
  PROVE  /\ Halted(Cancelled(names)) \in SUBSET Known
         /\ \A s \in Halted(Cancelled(names)) :
              /\ s \notin ToSet(listed) /\ s \notin validator.holds
              /\ \A q \in Requests : s \notin request[q].holds
              /\ \A t \in Retries : t \notin Cancelled(names) => s \notin retrier[t].holds
         /\ Cancelled(names) \subseteq {retries[n] : n \in names}
<1>1. Apart /\ RetryShape
  BY DEF Shape
<1>2. \A s \in Halted(Cancelled(names)) : \E t \in Cancelled(names) : s \in retrier[t].holds
  BY HaltedIs
<1>3. QED
  BY <1>1, <1>2, KnownIs DEF Apart, Cancelled, RetryShape

\* EditSpeaker keeps the shape (app.py:_on_edit_speaker).
LEMMA EditSpeakerShape ==
  ASSUME Shape, NEW r \in Requests, NEW n \in Names, EditSpeaker(r, n) PROVE Shape'
<1>0. AppShape /\ SpeakerShape /\ ValidatorShape /\ RequestShape /\ RetryShape /\ Apart /\ Free
  BY DEF Shape
<1> DEFINE at == PlaceOf(n)
           old == OldOf(n)
           halted == Halted(Cancelled({n}))
           ver == config'[n]
<1>1. /\ Accepts(r, "edit") /\ config' = [config EXCEPT ![n] = used'.request + 1]
      /\ CancelRetries({n}) /\ UNCHANGED <<app, api, validator, listed>>
      /\ old = {} => Restarts(r, n, ver, 0, Stopping(old \cup halted))
      /\ old # {} => /\ speaker' = Stopping(old \cup halted)
                     /\ request' = [request EXCEPT ![r] =
                          [kind |-> "edit", pc |-> "stopping", name |-> n, ver |-> ver,
                           holds |-> old, at |-> at, waits |-> FALSE]]
  BY DEF EditSpeaker, authVars, OldOf
<1>2. /\ used' \in [request : 0 .. MaxRequests, failure : Nat, selection : Nat]
      /\ used'.request + 1 \in Version \ {0}
  BY <1>0, <1>1, UsesRequest DEF Accepts
<1>3. AppShape' /\ ver \in Version \ {0}
  BY <1>0, <1>1, <1>2 DEF AppShape
<1>4. /\ old \in SUBSET ToSet(listed) /\ old \in SUBSET Speakers /\ (old = {} <=> at = 0)
      /\ at # 0 => old = {listed[at]} /\ at \in DOMAIN listed
      /\ at \in Nat
  BY OldIs
<1>5. request[r].holds = {} /\ request[r].pc = "idle"
  BY <1>1, AcceptsFree
<1>6. {n} \in SUBSET Names
  OBVIOUS
<1> HIDE DEF at, old, ver
<1>7. CASE old = {}
  <2> DEFINE f == Stopping(halted)
  <2>1. Restarts(r, n, ver, 0, f)
    <3>1. old \cup halted = halted
      BY <1>7
    <3>2. QED
      BY <1>1, <1>7, <3>1
  <2>2. /\ halted \in SUBSET Known
        /\ \A s \in halted :
             /\ s \notin ToSet(listed) /\ s \notin validator.holds
             /\ \A q \in Requests : s \notin request[q].holds
             /\ \A t \in Retries : t \notin Cancelled({n}) => s \notin retrier[t].holds
    BY <1>6, HaltedApart
  <2> HIDE DEF halted
  <2>3. /\ Slowed(f) /\ \A s \in Speakers : /\ s \notin halted => f[s] = speaker[s]
                                            /\ s \in halted => f[s].phase = "stopping"
    BY <2>2, StoppingSlows
  <2> HIDE DEF f
  <2>4. /\ Alike(validator.holds, speaker, f)
        /\ \A q \in Requests : Alike(request[q].holds, speaker, f)
    BY <1>0, <2>2, <2>3 DEF Alike, ValidatorShape, RequestShape, RequestRecord
  <2>5. \A t \in Retries : retrier'[t].holds = retrier[t].holds
    <3>1. \A t \in Retries : \/ retrier'[t] = retrier[t]
                             \/ retrier[t].pc = "sleep" /\ retrier'[t] = NoRetry
                             \/ retrier'[t] = [retrier[t] EXCEPT !.pc = "stopping"]
      BY <1>1 DEF CancelRetries
    <3>2. \A t \in Retries : /\ retrier[t].pc = "sleep" => retrier[t].holds = {}
                             /\ retrier[t] \in RetryRecord
      BY <1>0 DEF RetryShape, RetryFits
    <3>3. \A t \in Retries : [retrier[t] EXCEPT !.pc = "stopping"].holds = retrier[t].holds
      BY <3>2 DEF RetryRecord
    <3>4. NoRetry.holds = {}
      BY DEF NoRetry
    <3>5. QED
      BY <3>1, <3>2, <3>3, <3>4
  <2>6. /\ SpeakerShape' /\ ValidatorShape' /\ RequestShape' /\ Apart' /\ Free'
        /\ \A s \in Known : speaker'[s] = f[s]
    <3>1. 0 \in Nat
      OBVIOUS
    <3>2. QED
      BY <1>1, <1>3, <1>5, <2>1, <2>3, <2>4, <2>5, <3>1, RestartsShape
  <2>7. RetryShape'
    <3>1. \A t \in Retries : t \notin Cancelled({n}) => Alike(retrier[t].holds, speaker, speaker')
      <4>1. \A t \in Retries : \A s \in retrier[t].holds : s \in Known /\ s \in Speakers
        BY <1>0, KnownIs DEF RetryShape, RetryRecord
      <4>2. QED
        BY <2>2, <2>3, <2>6, <4>1 DEF Alike
    <3>2. \A s \in halted : /\ speaker'[s].phase = "stopping"
                            /\ speaker'[s].name = speaker[s].name
                            /\ speaker'[s].ver = speaker[s].ver
      <4>1. \A s \in halted : s \in Known /\ s \in Speakers
        BY <2>2, KnownAreUsed
      <4>2. QED
        BY <2>3, <2>6, <4>1 DEF Slowed
    <3>3. QED
      BY <1>1, <1>6, <3>1, <3>2, CancelShape DEF halted
  <2>8. QED
    BY <1>3, <2>6, <2>7 DEF Shape
<1>8. CASE old # {}
  <2> DEFINE rec == [kind |-> "edit", pc |-> "stopping", name |-> n, ver |-> ver,
                     holds |-> old, at |-> at, waits |-> FALSE]
  <2>1. speaker' = Stopping(old \cup halted) /\ request' = [request EXCEPT ![r] = rec]
    BY <1>1, <1>8
  <2>2. /\ rec \in RequestRecord /\ rec.kind = "edit" /\ rec.pc = "stopping" /\ rec.name = n
        /\ rec.ver = ver /\ rec.holds = old /\ rec.at = at
    BY <1>3, <1>4 DEF RequestRecord
  <2> HIDE DEF rec
  <2>3. at # 0 /\ \E s \in Speakers : old = {s}
    BY <1>4, <1>8
  <2>4. \A g : (\A s \in rec.holds : g[s].phase = "stopping") => RequestFits(rec, g)
    BY <1>3, <2>2, <2>3 DEF RequestFits, StopKinds, Ended
  <2>5. /\ listed' \in Seq(Speakers) /\ IsInjective(listed')
        /\ ToSet(listed') \subseteq ToSet(listed)
    BY <1>0, <1>1 DEF SpeakerShape
  <2>6. SpeakerShape' /\ ValidatorShape' /\ RequestShape' /\ RetryShape' /\ Apart' /\ Free'
    BY <1>1, <1>4, <1>5, <1>6, <2>1, <2>2, <2>4, <2>5, SlowOthers
  <2>7. QED
    BY <1>3, <2>6 DEF Shape
<1>9. QED
  BY <1>7, <1>8

\* The shape is kept by every step.
LEMMA AskedShape == ASSUME Shape, NEW r \in Requests, Asked(r) PROVE Shape'
<1>0. AppShape
  BY DEF Shape
<1>1. CASE Login(r)
  BY <1>0, <1>1, CancelsFirstShape DEF Login, AppShape
<1>2. CASE Logout(r)
  BY <1>0, <1>2, CancelsFirstShape DEF Logout, AppShape
<1>3. CASE Shutdown(r)
  BY <1>0, <1>3, CancelsFirstShape DEF Shutdown, AppShape
<1>4. CASE \E n \in Names : AddSpeaker(r, n) \/ EditSpeaker(r, n) \/ RemoveSpeaker(r, n)
  BY <1>4, AddSpeakerShape, EditSpeakerShape, RemoveSpeakerShape
<1>5. QED
  BY <1>1, <1>2, <1>3, <1>4 DEF Asked

\* The shape is kept by every step of a handler that goes on.
LEMMA ContinuesShape == ASSUME Shape, NEW r \in Requests, Continues(r) PROVE Shape'
BY LoggedInShape, LoginStartedShape, StopsAllShape, StoppedAllShape, AddedShape,
   EditStoppedShape, EditedShape, RemovedShape
   DEF Continues

-----------------------------------------------------------------------------
(***************************************************************************)
(* The courses of the program, of the validation and of the handlers.      *)
(***************************************************************************)

\* The kind of a handler after its step, and of the others.
LEMMA KindsNext ==
  ASSUME RequestShape, NEW r \in Requests, NEW rec, request' = [request EXCEPT ![r] = rec]
  PROVE  \A q \in Requests : request'[q] = IF q = r THEN rec ELSE request[q]
BY DEF RequestShape

\* The courses are kept by the validation.
LEMMA CoursesValidates == ASSUME Shape, Courses, Validates PROVE Courses'
<1>0. ValidatorShape
  BY DEF Shape
<1>1. CASE ValidationSucceeds
  <2>1. /\ validator'.pc = "starting" /\ validator'.tracked = validator.tracked
        /\ validator.pc = "asks" /\ UNCHANGED <<app, request>>
    BY <1>0, <1>1 DEF ValidationSucceeds, ValidatorShape
  <2>2. QED
    BY <1>0, <2>1 DEF Courses, ValidatorShape
<1>2. CASE ValidationFails
  <2>1. validator.pc = "asks" /\ UNCHANGED <<app, api, request>>
    BY <1>2 DEF ValidationFails
  <2>2. /\ validator'.pc \in {"done", "sleep"}
        /\ validator'.tracked \in {FALSE, validator.tracked}
    <3>1. \/ validator' = Over
          \/ validator' = [validator EXCEPT !.pc = "sleep", !.first = TRUE]
      BY <1>2 DEF ValidationFails
    <3>2. CASE validator' = Over
      BY <3>2 DEF Over
    <3>3. CASE validator' = [validator EXCEPT !.pc = "sleep", !.first = TRUE]
      BY <1>0, <3>3 DEF ValidatorShape
    <3>4. QED
      BY <3>1, <3>2, <3>3
  <2>3. QED
    BY <2>1, <2>2 DEF Courses
<1>3. CASE ValidationWakes
  <2>1. validator.pc = "sleep" /\ UNCHANGED <<app, api, request>>
    BY <1>3 DEF ValidationWakes
  <2>2. \/ validator'.pc = "done" /\ validator'.tracked = FALSE
        \/ validator'.pc = "asks" /\ validator'.tracked = validator.tracked /\ api = "none"
    BY <1>0, <1>3 DEF ValidationWakes, Over, ValidatorShape
  <2>3. QED
    BY <2>1, <2>2 DEF Courses
<1>4. CASE ValidatorStarted \/ ValidatorStopped
  <2>1. /\ validator.pc \in {"starting", "stopping"} /\ UNCHANGED <<app, api, request>>
        /\ validator' = Over
    BY <1>4 DEF ValidatorStarted, ValidatorStopped
  <2>2. validator'.pc = "done" /\ validator'.tracked = FALSE
    BY <2>1 DEF Over
  <2>3. QED
    BY <2>1, <2>2 DEF Courses
<1>5. QED
  BY <1>1, <1>2, <1>3, <1>4 DEF Validates

\* The courses are kept by a request that cancels the validation.
LEMMA CoursesCancels ==
  ASSUME Shape, Courses, NEW r \in Requests, NEW kind \in {"login", "logout", "shutdown"},
         CancelsFirst(r, kind),
         \/ kind # "shutdown" /\ UNCHANGED app
         \/ app = "up" /\ app' = "stopping"
  PROVE  Courses'
<1>0. ValidatorShape /\ RequestShape
  BY DEF Shape
<1> DEFINE rec == [Idle EXCEPT !.kind = kind, !.pc = "cancelling", !.waits = validator.tracked]
<1>1. /\ Accepts(r, kind) /\ CancelValidation /\ request' = [request EXCEPT ![r] = rec]
      /\ UNCHANGED api
  BY DEF CancelsFirst
<1>2. rec.kind = kind
  BY DEF Idle
<1> HIDE DEF rec
<1>3. \A q \in Requests : request'[q] = IF q = r THEN rec ELSE request[q]
  BY <1>0, <1>1, KindsNext
<1>4. validator'.tracked = FALSE /\ (validator'.pc = "asks" => validator.pc = "asks")
  <2>1. CASE validator.tracked /\ validator.pc = "starting"
    <3>1. validator' = [validator EXCEPT !.pc = "stopping", !.tracked = FALSE]
      BY <1>1, <2>1 DEF CancelValidation
    <3>2. validator'.pc = "stopping" /\ validator'.tracked = FALSE
      BY <1>0, <3>1 DEF ValidatorShape
    <3>3. QED
      BY <3>2
  <2>2. CASE validator.tracked /\ validator.pc # "starting"
    <3>1. validator' = Over
      BY <1>1, <2>2 DEF CancelValidation
    <3>2. validator'.pc = "done" /\ validator'.tracked = FALSE
      BY <3>1 DEF Over
    <3>3. QED
      BY <3>2
  <2>3. CASE ~validator.tracked
    <3>1. validator' = validator /\ validator.tracked = FALSE
      BY <1>0, <1>1, <2>3 DEF CancelValidation, ValidatorShape
    <3>2. QED
      BY <3>1
  <2>4. QED
    BY <2>1, <2>2, <2>3
<1>5. app \in {"up", "stopping"} /\ app' \in {"up", "stopping"}
  BY <1>1 DEF Accepts
<1>6. QED
  BY <1>1, <1>2, <1>3, <1>4, <1>5 DEF Courses

\* The courses are kept by a request for one speaker.
LEMMA CoursesAccepts ==
  ASSUME Shape, Courses, NEW r \in Requests, NEW kind \in {"add", "edit", "remove"},
         Accepts(r, kind), UNCHANGED <<app, api, validator>>,
         NEW rec, request' = [request EXCEPT ![r] = rec], rec.kind \in {kind, "none"}
  PROVE  Courses'
<1>0. RequestShape
  BY DEF Shape
<1>1. \A q \in Requests : request'[q] = IF q = r THEN rec ELSE request[q]
  BY <1>0, KindsNext
<1>2. app \in {"up", "stopping"}
  BY DEF Accepts
<1>3. QED
  BY <1>1, <1>2 DEF Courses, StopKinds

\* The courses are kept by every new request.
LEMMA CoursesAsked == ASSUME Shape, Courses, NEW r \in Requests, Asked(r) PROVE Courses'
<1>1. CASE Login(r)
  BY <1>1, CoursesCancels DEF Login
<1>2. CASE Logout(r)
  BY <1>2, CoursesCancels DEF Logout
<1>3. CASE Shutdown(r)
  BY <1>3, CoursesCancels DEF Shutdown
<1>4. ASSUME NEW n \in Names, AddSpeaker(r, n) PROVE Courses'
  <2> DEFINE rec == [Idle EXCEPT !.kind = "add", !.name = n, !.pc = "starting",
                                 !.holds = {NewFor({n})[n]}]
  <2>1. /\ Accepts(r, "add") /\ request' = [request EXCEPT ![r] = rec]
        /\ UNCHANGED <<app, api, validator>>
    BY <1>4 DEF AddSpeaker, Handles, authVars
  <2>2. rec.kind = "add"
    BY DEF Idle
  <2> HIDE DEF rec
  <2>3. QED
    BY <2>1, <2>2, CoursesAccepts
<1>5. ASSUME NEW n \in Names, EditSpeaker(r, n) PROVE Courses'
  <2>1. Accepts(r, "edit") /\ UNCHANGED <<app, api, validator>>
    BY <1>5 DEF EditSpeaker, authVars
  <2>2. Idle.kind = "none"
    BY DEF Idle
  <2>3. \E rec : request' = [request EXCEPT ![r] = rec] /\ rec.kind \in {"edit", "none"}
    BY <1>5, <2>2 DEF EditSpeaker, Restarts, Answered
  <2>4. QED
    BY <2>1, <2>3, CoursesAccepts
<1>6. ASSUME NEW n \in Names, RemoveSpeaker(r, n) PROVE Courses'
  <2> DEFINE rec == [Idle EXCEPT !.kind = "remove", !.name = n, !.pc = "stopping",
                                 !.holds = OldOf(n)]
  <2>1. /\ Accepts(r, "remove") /\ request' = [request EXCEPT ![r] = rec]
        /\ UNCHANGED <<app, api, validator>>
    BY <1>6 DEF RemoveSpeaker, Handles, authVars, OldOf
  <2>2. rec.kind = "remove"
    BY DEF Idle
  <2> HIDE DEF rec
  <2>3. QED
    BY <2>1, <2>2, CoursesAccepts
<1>7. QED
  BY <1>1, <1>2, <1>3, <1>4, <1>5, <1>6 DEF Asked

\* A handler goes on, or answers.
LEMMA CoursesGoesOn ==
  ASSUME Shape, Courses, NEW r \in Requests, UNCHANGED validator,
         NEW rec, request' = [request EXCEPT ![r] = rec], rec.kind \in {request[r].kind, "none"},
         request[r].kind # "none",
         app' = app \/ (app' = "stopped" /\ request[r].kind = "shutdown"),
         api' \in {api, "none"} \/ request[r].kind = "login"
  PROVE  Courses'
<1>0. RequestShape /\ ValidatorShape
  BY DEF Shape
<1>1. \A q \in Requests : request'[q] = IF q = r THEN rec ELSE request[q]
  BY <1>0, KindsNext
<1>2. app # "new"
  BY DEF Courses
<1>3. request[r].kind = "login" => validator.pc # "asks"
  BY <1>0 DEF Courses, ValidatorShape
<1>4. QED
  BY <1>1, <1>2, <1>3 DEF Courses, StopKinds

\* The courses are kept by every handler that goes on.
LEMMA CoursesContinues == ASSUME Shape, Courses, NEW r \in Requests, Continues(r) PROVE Courses'
<1>0. RequestShape /\ request[r] \in RequestRecord
  BY DEF Shape, RequestShape
<1>1. Idle.kind = "none"
  BY DEF Idle
<1>2. CASE LoggedIn(r)
  <2>1. request[r].kind = "login" /\ app' = app /\ validator' = validator
    BY <1>2 DEF LoggedIn, Resumes
  <2> DEFINE rec == [Idle EXCEPT !.kind = "login", !.name = None, !.pc = "starting",
                                 !.holds = {NewFor(ToStart)[n] : n \in ToStart}]
  <2>2. \/ request' = [request EXCEPT ![r] = Idle]
        \/ request' = [request EXCEPT ![r] = rec]
    BY <1>2 DEF LoggedIn, Answered, Handles
  <2>3. rec.kind = "login"
    BY DEF Idle
  <2> HIDE DEF rec
  <2>4. PICK q : request' = [request EXCEPT ![r] = q] /\ q.kind \in {"login", "none"}
    BY <1>1, <2>2, <2>3
  <2>5. QED
    BY <2>1, <2>4, CoursesGoesOn
<1>3. CASE LoginStarted(r) \/ Added(r) \/ Edited(r) \/ Removed(r)
  <2>1. /\ request[r].kind # "none" /\ app' = app /\ api' = api /\ validator' = validator
        /\ request' = [request EXCEPT ![r] = Idle]
    BY <1>0, <1>3
    DEF RequestShape, RequestFits, LoginStarted, Added, Edited, Removed, Answered, authVars
  <2>2. QED
    BY <1>1, <2>1, CoursesGoesOn
<1>4. CASE StopsAll(r)
  <2> DEFINE rec == IF listed = <<>> THEN Idle
                    ELSE [request[r] EXCEPT !.pc = "stopping", !.holds = ToSet(listed)]
  <2>1. PICK kind \in StopKinds : request[r].kind = kind
    BY <1>4 DEF StopsAll, Resumes
  <2>2. /\ request' = [request EXCEPT ![r] = rec] /\ UNCHANGED validator
        /\ app' = app \/ (app' = "stopped" /\ request[r].kind = "shutdown")
        /\ api' \in {api, "none"}
    <3>1. CASE listed = <<>>
      BY <1>4, <2>1, <3>1 DEF StopsAll, Finishes, Answered, StopKinds
    <3>2. CASE listed # <<>>
      BY <1>0, <1>4, <3>2 DEF StopsAll, authVars, RequestShape
    <3>3. QED
      BY <3>1, <3>2
  <2>3. rec.kind \in {request[r].kind, "none"}
    BY <1>0, <1>1 DEF RequestRecord
  <2> HIDE DEF rec
  <2>4. QED
    BY <2>1, <2>2, <2>3, CoursesGoesOn DEF StopKinds
<1>5. CASE StoppedAll(r)
  <2>1. /\ request' = [request EXCEPT ![r] = Idle] /\ UNCHANGED validator
        /\ app' = app \/ (app' = "stopped" /\ request[r].kind = "shutdown")
        /\ api' \in {api, "none"}
        /\ request[r].kind # "none"
    BY <1>5 DEF StoppedAll, Finishes, Answered, StopKinds
  <2>2. QED
    BY <1>1, <2>1, CoursesGoesOn
<1>6. CASE EditStopped(r)
  <2>1. /\ request[r].kind = "edit" /\ app' = app /\ api' = api
        /\ validator' = validator
    BY <1>6 DEF EditStopped, authVars
  <2>2. PICK rec : request' = [request EXCEPT ![r] = rec] /\ rec.kind \in {"edit", "none"}
    BY <1>1, <1>6 DEF EditStopped, Restarts, Answered
  <2>3. QED
    BY <2>1, <2>2, CoursesGoesOn
<1>7. QED
  BY <1>2, <1>3, <1>4, <1>5, <1>6 DEF Continues

\* The shape and the courses together are inductive.
Standing == Shape /\ Courses

\* At the start.
LEMMA InitStanding == Init => Standing
<1>1. Init => Courses
  BY DEF Init, Courses, Idle
<1>2. QED
  BY <1>1, InitShape DEF Standing

\* After every step.
LEMMA NextStanding == ASSUME Standing, [Next]_vars PROVE Standing'
<1>0. Shape /\ Courses
  BY DEF Standing
<1>1. ASSUME NEW token \in BOOLEAN, Boot(token) PROVE Standing'
  <2>1. Courses'
    <3>1. /\ app = "new" /\ app' = "up" /\ UNCHANGED <<api, request>>
      BY <1>1 DEF Boot
    <3>2. QED
      BY <1>0, <3>1 DEF Courses, StopKinds
  <2>2. QED
    BY <1>0, <1>1, <2>1, BootShape DEF Standing
<1>2. CASE Validates
  BY <1>0, <1>2, CoursesValidates, ValidationSucceedsShape, ValidationFailsShape,
     ValidationWakesShape, ValidatorStartedShape, ValidatorStoppedShape
     DEF Validates, Standing
<1>3. ASSUME NEW r \in Requests, Asked(r) \/ Continues(r) PROVE Standing'
  BY <1>0, <1>3, AskedShape, ContinuesShape, CoursesAsked, CoursesContinues DEF Standing
<1>4. ASSUME NEW t \in Retries, Retried(t) PROVE Standing'
  <2>1. UNCHANGED <<app, api, validator, request>>
    BY <1>4 DEF Retried, RetryWakes, RetryStarted, RetryStopped, authVars
  <2>2. Courses'
    BY <1>0, <2>1 DEF Courses
  <2>3. QED
    BY <1>0, <1>4, <2>2, RetryWakesShape, RetryStartedShape, RetryStoppedShape
       DEF Retried, Standing
<1>5. ASSUME NEW s \in Speakers, Settles(s) \/ AppConnects(s) \/ SetupEnds(s) PROVE Standing'
  <2>1. UNCHANGED <<app, api, validator, request>>
    BY <1>5 DEF Settles, StartSucceeds, StartFails, StopEnds, AppConnects, SetupEnds, authVars
  <2>2. Courses'
    BY <1>0, <2>1 DEF Courses
  <2>3. QED
    BY <1>0, <1>5, <2>2, StartSucceedsShape, StartFailsShape, StopEndsShape, AppConnectsShape,
       SetupEndsShape
       DEF Settles, Standing
<1>6. CASE UNCHANGED vars
  BY <1>0, <1>6 DEF vars, authVars, retryVars, Standing, Courses, Shape, AppShape, SpeakerShape,
     ValidatorShape, RequestShape, RetryShape, Apart, Free
<1>7. QED
  BY <1>1, <1>2, <1>3, <1>4, <1>5, <1>6 DEF Next

\* So it holds always.
LEMMA AlwaysStanding == Spec => []Standing
<1>1. Standing /\ [Next]_vars => Standing'
  BY NextStanding
<1>2. QED
  BY <1>1, InitStanding, PTL DEF Spec

-----------------------------------------------------------------------------
(***************************************************************************)
(* A login in the web UI, and what is off line.                            *)
(***************************************************************************)

\* Only the validation of the saved token makes the login the saved one, and only while it is
\* tracked and nobody is logged in.
LEMMA LoginIsSaved ==
  ASSUME Standing, [Next]_vars, api' = "saved", api # "saved"
  PROVE  api = "none" /\ validator.tracked
<1>0. ValidatorShape /\ Courses
  BY DEF Standing, Shape
<1>1. \A token \in BOOLEAN : ~Boot(token)
  BY DEF Boot
<1>2. Validates => ValidationSucceeds
  BY DEF Validates, ValidationFails, ValidationWakes, ValidatorStarted, ValidatorStopped
<1>3. \A r \in Requests : ~Asked(r)
  BY DEF Asked, Login, Logout, Shutdown, CancelsFirst, AddSpeaker, EditSpeaker, RemoveSpeaker,
         authVars
<1>4. \A r \in Requests : ~Continues(r)
  BY DEF Continues, LoggedIn, LoginStarted, StopsAll, StoppedAll, Finishes, Added, EditStopped,
         Edited, Removed, authVars
<1>5. \A t \in Retries : ~Retried(t)
  BY DEF Retried, RetryWakes, RetryStarted, RetryStopped, authVars
<1>6. \A s \in Speakers : ~(Settles(s) \/ AppConnects(s) \/ SetupEnds(s))
  BY DEF Settles, StartSucceeds, StartFails, StopEnds, AppConnects, SetupEnds, authVars
<1>7. ValidationSucceeds
  BY <1>1, <1>2, <1>3, <1>4, <1>5, <1>6 DEF Next, vars, authVars
<1>8. QED
  BY <1>0, <1>7 DEF ValidationSucceeds, ValidatorShape, Courses

Alive == {"starting", "up"}

\* A speaker is set up while it starts or is up, and is on line until its stop ends.
Links ==
  \A s \in Speakers :
    /\ speaker[s].link = "setting" => speaker[s].phase \in Alive
    /\ speaker[s].link # "none" => speaker[s].phase \in Alive \cup {"stopping"}

\* A step that leaves the link of a speaker right.
LinkKept(s) ==
  \/ speaker'[s] = speaker[s]
  \/ speaker'[s].link = "none"
  \/ speaker'[s].link = "setting" /\ speaker'[s].phase \in Alive
  \/ speaker'[s].link = "on" /\ speaker'[s].phase \in Alive \cup {"stopping"}

\* The links are right after a step that leaves each of them right.
LEMMA LinksKept == ASSUME Links, \A s \in Speakers : LinkKept(s) PROVE Links'
BY DEF Links, LinkKept, Alive

\* Stops that find no set-up under way.
LEMMA StoppingLinks ==
  ASSUME SpeakerShape, NEW holds, "late" \notin Late(holds)
  PROVE  \A s \in Speakers :
           \/ Stopping(holds)[s] = speaker[s]
           \/ /\ Stopping(holds)[s].link = speaker[s].link /\ speaker[s].link # "setting"
              /\ Stopping(holds)[s].phase = "stopping"
<1>1. \A s \in holds : speaker[s].link # "setting"
  BY DEF Late
<1> TAKE s \in Speakers
<1>2. speaker[s] \in SpeakerObject
  BY DEF SpeakerShape
<1>3. CASE s \in holds
  <2>1. Stopping(holds)[s] = [speaker[s] EXCEPT !.phase = "stopping"]
    BY <1>3 DEF Stopping
  <2>2. /\ Stopping(holds)[s].link = speaker[s].link
        /\ Stopping(holds)[s].phase = "stopping"
    BY <1>2, <2>1 DEF SpeakerObject
  <2>3. QED
    BY <1>1, <1>3, <2>2
<1>4. CASE s \notin holds
  BY <1>4 DEF Stopping
<1>5. QED
  BY <1>3, <1>4

\* A speaker that is new is off line.
LEMMA StartingLinks ==
  ASSUME NEW f, NEW new, NEW version
  PROVE  \A s \in Speakers : \/ Starting(f, new, version)[s] = f[s]
                             \/ Starting(f, new, version)[s].link = "none"
BY DEF Starting

\* A speaker that is dropped is off line.
LEMMA DroppedLinks ==
  ASSUME speaker' = Dropped(speaker)
  PROVE  \A s \in Speakers : speaker'[s] = speaker[s] \/ speaker'[s].link = "none"
BY DEF Dropped, Unused

\* given only grows, so what the code does not defend against has not happened before either.
LEMMA GivenGrows == ASSUME [Next]_vars PROVE given \subseteq given'
<1>1. \A token \in BOOLEAN : Boot(token) => given' = given
  BY DEF Boot
<1>2. Validates => given \subseteq given'
  BY DEF Validates, ValidationSucceeds, ValidationFails, ValidationWakes, ValidatorStarted,
         ValidatorStopped, Collects
<1>3. \A r \in Requests : Asked(r) => given \subseteq given'
  BY DEF Asked, Login, Logout, Shutdown, CancelsFirst, AddSpeaker, EditSpeaker, RemoveSpeaker
<1>4. \A r \in Requests : Continues(r) => given \subseteq given'
  BY DEF Continues, LoggedIn, LoginStarted, StopsAll, StoppedAll, Added, EditStopped,
         Edited, Removed, Collects
<1>5. \A t \in Retries : Retried(t) => given \subseteq given'
  BY DEF Retried, RetryWakes, RetryStarted, RetryStopped, Ends
<1>6. \A s \in Speakers : Settles(s) \/ AppConnects(s) \/ SetupEnds(s) => given \subseteq given'
  BY DEF Settles, StartSucceeds, StartFails, StopEnds, AppConnects, SetupEnds
<1>7. QED
  BY <1>1, <1>2, <1>3, <1>4, <1>5, <1>6 DEF Next, vars

\* The links stay right as long as no stop misses a set-up.
LEMMA NextLinks ==
  ASSUME Standing, Links, [Next]_vars, "late" \notin given' PROVE Links'
<1>0. SpeakerShape
  BY DEF Standing, Shape
<1>1. ASSUME NEW token \in BOOLEAN, Boot(token) PROVE Links'
  BY <1>1 DEF Boot, Links
<1>2. CASE Validates
  <2>1. CASE ValidationSucceeds
    <3>1. PICK new : speaker' = Starting(speaker, new, config)
      BY <2>1 DEF ValidationSucceeds
    <3>2. QED
      BY <3>1, StartingLinks, LinksKept DEF LinkKept
  <2>2. CASE ValidationFails \/ ValidationWakes
    BY <2>2 DEF ValidationFails, ValidationWakes, Links
  <2>3. CASE ValidatorStarted \/ ValidatorStopped
    <3>1. speaker' = Dropped(speaker)
      BY <2>3 DEF ValidatorStarted, ValidatorStopped
    <3>2. QED
      BY <3>1, DroppedLinks, LinksKept DEF LinkKept
  <2>4. QED
    BY <1>2, <2>1, <2>2, <2>3 DEF Validates
  \* What is stopped, while the others become as they were.
<1>3. ASSUME NEW holds, "late" \notin Late(holds), NEW f, f = Stopping(holds),
             \A s \in Speakers : speaker'[s] = f[s] \/ speaker'[s].link = "none"
      PROVE  Links'
  <2>1. \A s \in Speakers : \/ f[s] = speaker[s]
                            \/ /\ f[s].link = speaker[s].link /\ speaker[s].link # "setting"
                               /\ f[s].phase = "stopping"
    BY <1>0, <1>3, StoppingLinks
  <2>2. \A s \in Speakers : speaker[s].link \in {"none", "setting", "on"}
    BY <1>0 DEF SpeakerShape, SpeakerObject
  <2>3. \A s \in Speakers : LinkKept(s)
    BY <1>3, <2>1, <2>2 DEF LinkKept
  <2>4. QED
    BY <2>3, LinksKept
<1>4. ASSUME NEW r \in Requests, Asked(r) PROVE Links'
  <2>1. ASSUME NEW kind, CancelsFirst(r, kind) PROVE Links'
    <3>1. CASE validator.tracked /\ validator.pc = "starting"
      <4>1. /\ speaker' = Stopping(validator.holds) /\ "late" \notin Late(validator.holds)
        BY <2>1, <3>1 DEF CancelsFirst, CancelValidation
      <4>2. QED
        BY <1>3, <4>1
    <3>2. CASE ~(validator.tracked /\ validator.pc = "starting")
      <4>1. speaker' = speaker
        BY <2>1, <3>2 DEF CancelsFirst, CancelValidation
      <4>2. QED
        BY <4>1 DEF Links
    <3>3. QED
      BY <3>1, <3>2
  <2>2. ASSUME NEW n \in Names, AddSpeaker(r, n) PROVE Links'
    <3>1. PICK new : speaker' = Starting(speaker, new, config')
      BY <2>2 DEF AddSpeaker
    <3>2. QED
      BY <3>1, StartingLinks, LinksKept DEF LinkKept
  <2>3. ASSUME NEW n \in Names, EditSpeaker(r, n) PROVE Links'
    <3> DEFINE all == OldOf(n) \cup Halted(Cancelled({n}))
    <3>1. /\ "late" \notin Late(all)
          /\ \/ speaker' = Stopping(all)
             \/ Restarts(r, n, config'[n], 0, Stopping(all))
      BY <2>3 DEF EditSpeaker, OldOf
    <3> HIDE DEF all
    <3>2. PICK f : f = Stopping(all)
      OBVIOUS
    <3>3. \/ speaker' = f
          \/ \E new, version : speaker' = Starting(f, new, version)
      BY <3>1, <3>2 DEF Restarts
    <3>4. \A s \in Speakers : speaker'[s] = f[s] \/ speaker'[s].link = "none"
      BY <3>3, StartingLinks
    <3>5. QED
      BY <1>3, <3>1, <3>2, <3>4
  <2>4. ASSUME NEW n \in Names, RemoveSpeaker(r, n) PROVE Links'
    <3> DEFINE all == OldOf(n) \cup Halted(Cancelled({n}))
    <3>1. "late" \notin Late(all) /\ speaker' = Stopping(all)
      BY <2>4 DEF RemoveSpeaker, OldOf
    <3> HIDE DEF all
    <3>2. QED
      BY <1>3, <3>1
  <2>5. QED
    BY <1>4, <2>1, <2>2, <2>3, <2>4 DEF Asked, Login, Logout, Shutdown
<1>5. ASSUME NEW r \in Requests, Continues(r) PROVE Links'
  <2>1. CASE LoggedIn(r) \/ EditStopped(r)
    <3>1. speaker' = speaker \/ \E new, version : speaker' = Starting(speaker, new, version)
      BY <2>1 DEF LoggedIn, EditStopped, Restarts
    <3>2. QED
      BY <3>1, StartingLinks, LinksKept DEF LinkKept
  <2>2. CASE LoginStarted(r) \/ StoppedAll(r) \/ Added(r) \/ Edited(r) \/ Removed(r)
    <3>1. speaker' = Dropped(speaker)
      BY <2>2 DEF LoginStarted, StoppedAll, Added, Edited, Removed
    <3>2. QED
      BY <3>1, DroppedLinks, LinksKept DEF LinkKept
  <2>3. CASE StopsAll(r)
    <3> DEFINE all == ToSet(listed) \cup Halted(Cancelled(Names))
    <3>1. "late" \notin Late(all) /\ speaker' = Stopping(all)
      BY <2>3 DEF StopsAll
    <3> HIDE DEF all
    <3>2. QED
      BY <1>3, <3>1
  <2>4. QED
    BY <1>5, <2>1, <2>2, <2>3 DEF Continues
<1>6. ASSUME NEW t \in Retries, Retried(t) PROVE Links'
  <2>1. \/ speaker' = speaker \/ speaker' = Dropped(speaker)
        \/ \E new, version : speaker' = Starting(speaker, new, version)
    BY <1>6 DEF Retried, RetryWakes, RetryStarted, RetryStopped
  <2>2. QED
    BY <2>1, StartingLinks, DroppedLinks, LinksKept DEF LinkKept
<1>7. ASSUME NEW s \in Speakers, Settles(s) \/ AppConnects(s) \/ SetupEnds(s) PROVE Links'
  <2>1. speaker \in [Speakers -> SpeakerObject]
    BY <1>0 DEF SpeakerShape
  <2>2. \A o \in Speakers : o # s => speaker'[o] = speaker[o]
    BY <1>7, <2>1 DEF Settles, StartSucceeds, StartFails, StopEnds, AppConnects, SetupEnds
  <2>3. LinkKept(s)
    <3>1. CASE StartSucceeds(s)
      BY <2>1, <3>1 DEF StartSucceeds, LinkKept, Links, Alive, SpeakerObject
    <3>2. CASE StartFails(s)
      BY <2>1, <3>2 DEF StartFails, Left, LinkKept, Links, Alive, SpeakerObject
    <3>3. CASE StopEnds(s)
      BY <2>1, <3>3 DEF StopEnds, Left, LinkKept, Links, Alive, SpeakerObject
    <3>4. CASE AppConnects(s)
      BY <2>1, <3>4 DEF AppConnects, LinkKept, Links, Alive, SpeakerObject
    <3>5. CASE SetupEnds(s)
      BY <2>1, <3>5 DEF SetupEnds, LinkKept, Links, Alive, SpeakerObject
    <3>6. QED
      BY <1>7, <3>1, <3>2, <3>3, <3>4, <3>5 DEF Settles
  <2>4. QED
    BY <2>2, <2>3, LinksKept DEF LinkKept
<1>8. CASE UNCHANGED vars
  BY <1>8 DEF vars, Links
<1>9. QED
  BY <1>1, <1>2, <1>4, <1>5, <1>6, <1>7, <1>8 DEF Next

-----------------------------------------------------------------------------
(***************************************************************************)
(* What holds while no request crosses another one.                        *)
(***************************************************************************)
\* While all speakers are stopped none is started, and they are stopped once.
Uncrossed ==
  \A r, q \in Requests :
    request[r].kind \in StopKinds /\ request[q].kind \in StartKinds \cup StopKinds => q = r

\* A name is listed once.
Unique == \A x, y \in ToSet(listed) : speaker[x].name = speaker[y].name => x = y

\* A task that goes on is the one in the table, and has the newest configuration.
Tracked ==
  \A t \in Retries : retrier[t].pc \in {"sleep", "starting"} =>
    retries[retrier[t].name] = t /\ retrier[t].ver = config[retrier[t].name]

\* What runs is known and configured so.
Newest ==
  \A s \in Speakers : speaker[s].phase \in Alive =>
    s \in Known /\ speaker[s].ver = config[speaker[s].name]

\* Who is about to be listed is configured so, whether it is up or not.
Brought ==
  /\ validator.pc = "starting" =>
       \A s \in validator.holds : speaker[s].ver = config[speaker[s].name]
  /\ \A r \in Requests : request[r].pc = "starting" =>
       \A s \in request[r].holds : speaker[s].ver = config[speaker[s].name]

\* An edit has the newest configuration, and is the only one of its name.
Edits ==
  \A r \in Requests : request[r].kind = "edit" =>
    /\ request[r].ver = config[request[r].name]
    /\ \A q \in Requests : request[q].kind = "edit" /\ request[q].name = request[r].name => q = r

\* Its place is still the one of the speaker it stopped.
Places ==
  \A r \in Requests : request[r].at # 0 =>
    /\ request[r].at \in DOMAIN listed
    /\ speaker[listed[request[r].at]].name = request[r].name
    /\ speaker[listed[request[r].at]].phase \in Ended

NoRetries == \A t \in Retries : retrier[t].pc \in {"idle", "stopping"}

\* Who stops all speakers stops all that are listed, and no retry goes on.
Stopped ==
  \A r \in Requests : request[r].kind \in StopKinds /\ request[r].pc = "stopping" =>
    ToSet(listed) \subseteq request[r].holds /\ NoRetries

\* While nobody is logged in, and after the end, nothing is listed or started.
Silent ==
  api = "none" \/ app = "stopped" =>
    /\ listed = <<>> /\ NoRetries /\ validator.pc # "starting"
    /\ \A r \in Requests : request[r].kind \in StartKinds =>
         request[r].pc = "cancelling" /\ app # "stopped"

Orders ==
  /\ Uncrossed /\ Unique /\ Tracked /\ Newest /\ Brought /\ Edits /\ Places /\ Stopped /\ Silent

\* What Orderly excludes, now and after the step.
LEMMA OrderlyIs ==
  Orderly <=> /\ "crossed" \notin given /\ "shifted" \notin given /\ "doubled" \notin given
              /\ "untracked" \notin given
BY DEF Orderly

\* After the step.
LEMMA OrderlyNextIs ==
  Orderly' <=> /\ "crossed" \notin given' /\ "shifted" \notin given' /\ "doubled" \notin given'
               /\ "untracked" \notin given'
BY DEF Orderly

\* At the start.
LEMMA InitOrders == Init => Orders
<1> SUFFICES ASSUME Init PROVE Orders
  OBVIOUS
<1>1. ToSet(<<>>) = {}
  BY DEF ToSet
<1>2. QED
  BY <1>1
  DEF Init, Orders, Uncrossed, Unique, Tracked, Newest, Brought, Edits, Places, Stopped, Silent,
     NoRetries, Idle, NoRetry, Unused, StartKinds, StopKinds, Alive

\* What Newest' takes: nobody comes alive without a holder and the newest configuration, and who
\* is alive stays known.
LEMMA NewestNext ==
  ASSUME \A s \in Speakers : speaker'[s].phase \in Alive =>
           /\ s \in Known'
           /\ \/ speaker'[s].ver = config'[speaker'[s].name]
              \/ /\ speaker[s].phase \in Alive /\ Newest
                 /\ speaker'[s].name = speaker[s].name /\ speaker'[s].ver = speaker[s].ver
                 /\ config'[speaker[s].name] = config[speaker[s].name]
  PROVE  Newest'
BY DEF Newest

\* A step of the speakers alone, that brings up none.
LEMMA SpeakersOrders ==
  ASSUME Standing, Orders,
         UNCHANGED <<app, api, validator, config, listed, request, retrier, retries>>,
         \A s \in Speakers :
           /\ speaker'[s].name = speaker[s].name /\ speaker'[s].ver = speaker[s].ver
           /\ speaker'[s].phase \in Alive => speaker[s].phase \in Alive
           /\ speaker[s].phase \in Ended => speaker'[s].phase \in Ended
  PROVE  Orders'
<1>0. SpeakerShape
  BY DEF Standing, Shape
<1>1. /\ \A s \in ToSet(listed) : s \in Speakers
      /\ \A i \in DOMAIN listed : listed[i] \in Speakers
  BY <1>0 DEF SpeakerShape, ToSet
<1>2. \A s : s \in Known => s \in Known'
  BY KnownIs, KnownIsNext
<1>3. Uncrossed' /\ Tracked' /\ Edits'
  BY DEF Orders, Uncrossed, Tracked, Edits
<1>4. Unique'
  BY <1>1 DEF Orders, Unique
<1>5. Places'
  BY <1>1 DEF Orders, Places
<1>6. Newest'
  BY <1>2, NewestNext DEF Orders, Newest
<1>7. Stopped' /\ Silent'
  BY DEF Orders, Stopped, Silent, NoRetries
<1>8. Brought'
  <2>1. /\ validator.holds \subseteq Speakers
        /\ \A r \in Requests : request[r].holds \subseteq Speakers
    BY DEF Standing, Shape, ValidatorShape, RequestShape, RequestRecord
  <2>2. QED
    BY <2>1 DEF Orders, Brought
<1>9. QED
  BY <1>3, <1>4, <1>5, <1>6, <1>7, <1>8 DEF Orders

\* Settles keeps the order (speaker.py:start, stop).
LEMMA SettlesOrders ==
  ASSUME Standing, Orders, NEW s \in Speakers, Settles(s) \/ AppConnects(s) \/ SetupEnds(s)
  PROVE  Orders'
<1>0. speaker \in [Speakers -> SpeakerObject]
  BY DEF Standing, Shape, SpeakerShape
<1>1. UNCHANGED <<app, api, validator, config, listed, request, retrier, retries>>
  BY DEF Settles, StartSucceeds, StartFails, StopEnds, AppConnects, SetupEnds, authVars, retryVars
<1>2. \A o \in Speakers : o # s => speaker'[o] = speaker[o]
  BY <1>0 DEF Settles, StartSucceeds, StartFails, StopEnds, AppConnects, SetupEnds
<1>3. /\ speaker'[s].name = speaker[s].name /\ speaker'[s].ver = speaker[s].ver
      /\ speaker'[s].phase \in Alive => speaker[s].phase \in Alive
      /\ speaker[s].phase \in Ended => speaker'[s].phase \in Ended
  <2>1. CASE StartSucceeds(s)
    BY <1>0, <2>1 DEF StartSucceeds, SpeakerObject, Alive, Ended
  <2>2. CASE StartFails(s)
    BY <1>0, <2>2 DEF StartFails, SpeakerObject, Alive, Ended
  <2>3. CASE StopEnds(s)
    BY <1>0, <2>3 DEF StopEnds, SpeakerObject, Alive, Ended
  <2>4. CASE AppConnects(s)
    BY <1>0, <2>4 DEF AppConnects, SpeakerObject, Alive, Ended
  <2>5. CASE SetupEnds(s)
    BY <1>0, <2>5 DEF SetupEnds, SpeakerObject, Alive, Ended
  <2>6. QED
    BY <2>1, <2>2, <2>3, <2>4, <2>5 DEF Settles
<1>4. QED
  BY <1>1, <1>2, <1>3, SpeakersOrders

\* Boot keeps the order (app.py:start).
LEMMA BootOrders ==
  ASSUME Standing, Orders, NEW token \in BOOLEAN, Boot(token) PROVE Orders'
<1>0. validator.holds = {} /\ app = "new"
  BY DEF Standing, Shape, Courses, ValidatorShape, Boot
<1>1. /\ validator'.pc # "starting" /\ validator'.holds = {} /\ app' = "up"
      /\ UNCHANGED <<api, config, speaker, listed, request, retrier, retries>>
  <2>1. validator' = Over \/ validator' = [validator EXCEPT !.pc = "asks", !.tracked = TRUE]
    BY DEF Boot
  <2>2. validator' = Over => validator'.pc = "done" /\ validator'.holds = {}
    BY DEF Over
  <2>3. validator' = [validator EXCEPT !.pc = "asks", !.tracked = TRUE] =>
          validator'.pc = "asks" /\ validator'.holds = {}
    BY <1>0 DEF Standing, Shape, ValidatorShape
  <2>4. QED
    BY <2>1, <2>2, <2>3 DEF Boot, retryVars
<1>2. \A s : s \in Known => s \in Known'
  BY <1>0, <1>1, KnownIs, KnownIsNext
<1>3. Uncrossed' /\ Tracked' /\ Edits' /\ Unique' /\ Places' /\ Stopped' /\ Brought'
  BY <1>1 DEF Orders, Uncrossed, Tracked, Edits, Unique, Places, Stopped, NoRetries, Brought
<1>4. Newest'
  BY <1>1, <1>2, NewestNext DEF Orders, Newest
<1>5. Silent'
  BY <1>0, <1>1 DEF Orders, Silent, NoRetries
<1>6. QED
  BY <1>3, <1>4, <1>5 DEF Orders

\* Validation keeps the order (app.py:_validate_saved_token).
LEMMA ValidationOrders ==
  ASSUME Standing, Orders, ValidationFails \/ ValidationWakes PROVE Orders'
<1>0. validator.holds = {}
  BY DEF Standing, Shape, ValidatorShape, ValidationFails, ValidationWakes
<1>1. /\ validator'.pc # "starting" /\ validator'.holds = {}
      /\ UNCHANGED <<app, api, config, speaker, listed, request, retrier, retries>>
  <2>1. \/ validator' = Over \/ validator' = [validator EXCEPT !.pc = "sleep", !.first = TRUE]
        \/ validator' = [validator EXCEPT !.pc = "asks"]
    BY DEF ValidationFails, ValidationWakes
  <2>2. validator' = Over => validator'.pc = "done" /\ validator'.holds = {}
    BY DEF Over
  <2>3. validator' = [validator EXCEPT !.pc = "sleep", !.first = TRUE] =>
          validator'.pc = "sleep" /\ validator'.holds = {}
    BY <1>0 DEF Standing, Shape, ValidatorShape
  <2>4. validator' = [validator EXCEPT !.pc = "asks"] =>
          validator'.pc = "asks" /\ validator'.holds = {}
    BY <1>0 DEF Standing, Shape, ValidatorShape
  <2>5. QED
    BY <2>1, <2>2, <2>3, <2>4 DEF ValidationFails, ValidationWakes, retryVars
<1>2. \A s : s \in Known => s \in Known'
  BY <1>0, <1>1, KnownIs, KnownIsNext
<1>3. Uncrossed' /\ Tracked' /\ Edits' /\ Unique' /\ Places' /\ Stopped' /\ Brought'
  BY <1>1 DEF Orders, Uncrossed, Tracked, Edits, Unique, Places, Stopped, NoRetries, Brought
<1>4. Newest'
  BY <1>1, <1>2, NewestNext DEF Orders, Newest
<1>5. Silent'
  BY <1>1 DEF Orders, Silent, NoRetries
<1>6. QED
  BY <1>3, <1>4, <1>5 DEF Orders

\* New objects start, with the newest configuration and a holder; the others stay as they are.
LEMMA RisesOrders ==
  ASSUME Standing, Orders, UNCHANGED listed, NEW H,
         \A s \in H : /\ s \notin Known /\ s \in Known'
                      /\ speaker'[s].ver = config'[speaker'[s].name],
         \A s \in Speakers \ H : speaker'[s] = speaker[s],
         \A s \in Known : speaker[s].phase \in Alive => s \in Known',
         \A s \in Speakers : speaker[s].phase \in Alive =>
           config'[speaker[s].name] = config[speaker[s].name]
  PROVE  /\ Newest' /\ Unique'
         /\ \A s \in Known : speaker'[s] = speaker[s]
         /\ \A i \in DOMAIN listed : speaker'[listed[i]] = speaker[listed[i]]
<1>0. Shape /\ SpeakerShape
  BY DEF Standing, Shape
<1>1. \A s \in Known : s \in Speakers /\ speaker'[s] = speaker[s]
  BY <1>0, KnownAreUsed
<1>2. /\ \A s \in ToSet(listed) : s \in Known
      /\ \A i \in DOMAIN listed : listed[i] \in Known
  BY KnownIs DEF ToSet
<1>3. Newest'
  BY NewestNext DEF Orders, Newest
<1>4. Unique'
  BY <1>1, <1>2 DEF Orders, Unique
<1>5. QED
  BY <1>1, <1>2, <1>3, <1>4

\* ValidationSucceeds keeps the order (app.py:_validate_saved_token).
LEMMA ValidationSucceedsOrders == ASSUME Standing, Orders, ValidationSucceeds PROVE Orders'
<1> DEFINE H == {NewFor(ToStart)[n] : n \in ToStart}
<1>0. Shape /\ AppShape /\ SpeakerShape /\ ValidatorShape /\ Courses
  BY DEF Standing, Shape
<1>1. /\ speaker' = Starting(speaker, NewFor(ToStart), config)
      /\ validator' = [validator EXCEPT !.pc = "starting", !.holds = H]
      /\ validator.pc = "asks" /\ api' = "saved" /\ Enough(ToStart)
      /\ UNCHANGED <<app, config, listed, request, retrier, retries>>
  BY DEF ValidationSucceeds, retryVars
<1>2. ToStart \in SUBSET Names /\ \A n \in ToStart : config[n] \in Version \ {0}
  BY <1>0 DEF AppShape, ToStart, Configured
<1>3. /\ \A s \in Speakers \ H : speaker'[s] = speaker[s]
      /\ \A s \in H : s \notin Known /\ speaker'[s].ver = config[speaker'[s].name]
  <2>1. Raised(ToStart, speaker, config) /\ Slowed(speaker)
    BY <1>0, <1>1, <1>2, NewSpeakers, SpeakersSlow
  <2>2. Risen(ToStart, speaker, config)
    BY <1>0, <1>1, <1>2, <2>1, RaiseShape
  <2>3. QED
    BY <2>2 DEF Risen
<1> HIDE DEF H
<1>4. validator.holds = {} /\ validator'.holds = H
  BY <1>0, <1>1 DEF ValidatorShape
<1>5. \A s : s \in H \/ s \in Known => s \in Known'
  BY <1>1, <1>4, KnownIs, KnownIsNext
<1>6. /\ Newest' /\ Unique'
      /\ \A s \in Known : speaker'[s] = speaker[s]
      /\ \A i \in DOMAIN listed : speaker'[listed[i]] = speaker[listed[i]]
  BY <1>1, <1>3, <1>5, RisesOrders
<1>7. Uncrossed' /\ Tracked' /\ Edits' /\ Places' /\ Stopped'
  BY <1>1, <1>6 DEF Orders, Uncrossed, Tracked, Edits, Places, Stopped, NoRetries
<1>8. Silent'
  <2>1. validator.tracked /\ app # "stopped"
    BY <1>0, <1>1 DEF ValidatorShape, Courses
  <2>2. QED
    BY <1>1, <2>1 DEF Silent
<1>9. Brought'
  <2>1. \A r \in Requests : \A s \in request[r].holds : speaker'[s] = speaker[s]
    BY <1>6, KnownIs
  <2>2. QED
    BY <1>1, <1>3, <1>4, <2>1 DEF Orders, Brought
<1>10. QED
  BY <1>6, <1>7, <1>8, <1>9 DEF Orders

\* Starts are over: what is up is listed, the others are retried, and nobody who is listed or
\* retried already had the name.
LEMMA CollectsOrders ==
  ASSUME Standing, Orders, Orderly', NEW holds \in SUBSET Speakers, Done(holds), Collects(holds),
         \A s \in holds : /\ speaker[s].phase \in Begun
                          /\ speaker[s].ver = config[speaker[s].name],
         \A x, y \in holds : speaker[x].name = speaker[y].name => x = y,
         UNCHANGED config, \A s \in Known' : speaker'[s] = speaker[s],
         ToSet(listed') = ToSet(listed) \cup Up(holds)
  PROVE  Unique' /\ Tracked'
<1>0. Shape /\ SpeakerShape /\ RetryShape /\ \A s \in ToSet(listed) : s \in Speakers
  BY DEF Standing, Shape, SpeakerShape, ToSet
<1>1. /\ Schedule(holds \ Up(holds)) /\ given' = given \cup Doubled(Up(holds))
      /\ Up(holds) \subseteq holds
  BY DEF Collects, Up
<1>2. \A s \in Up(holds) : \A o \in ToSet(listed) : speaker[s].name # speaker[o].name
  BY <1>1, OrderlyNextIs DEF Doubled, NamesOf
<1>3. \A s \in ToSet(listed') : speaker'[s] = speaker[s]
  BY KnownIsNext
<1>4. Unique'
  <2>1. \A x, y \in ToSet(listed') : speaker[x].name = speaker[y].name => x = y
    BY <1>1, <1>2 DEF Orders, Unique
  <2>2. QED
    BY <1>3, <2>1 DEF Unique
<1> DEFINE failed == holds \ Up(holds)
<1>5. /\ failed \in SUBSET Speakers /\ Schedule(failed)
      /\ \A s \in failed : speaker[s].phase = "down" /\ speaker[s].ver = config[speaker[s].name]
      /\ \A x, y \in failed : speaker[x].name = speaker[y].name => x = y
  BY <1>1 DEF Begun, Up, Done
<1> HIDE DEF failed
<1>6. \A s \in failed : speaker[s].name \in Names
  BY <1>0, <1>5 DEF SpeakerShape
<1>7. /\ \A t \in Retries :
           \/ retrier'[t] = retrier[t]
           \/ \E s \in failed :
                /\ retries[speaker[s].name] = None /\ retries'[speaker[s].name] = t
                /\ retrier'[t] = [name |-> speaker[s].name, ver |-> speaker[s].ver,
                                  pc |-> "sleep", holds |-> {}]
      /\ \A n \in Names : retries'[n] = retries[n] \/ retries[n] = None
  <2>1. Rescheduled(failed)
    BY <1>5, <1>6, Scheduled
  <2>2. QED
    BY <2>1 DEF Rescheduled
<1>8. Tracked'
  <2> SUFFICES ASSUME NEW t \in Retries, retrier'[t].pc \in {"sleep", "starting"}
               PROVE  /\ retries'[retrier'[t].name] = t
                      /\ retrier'[t].ver = config[retrier'[t].name]
    BY DEF Tracked
  <2>1. CASE retrier'[t] = retrier[t]
    <3>1. /\ retries[retrier[t].name] = t /\ retrier[t].ver = config[retrier[t].name]
          /\ retrier[t].name \in Names
      BY <1>0, <2>1 DEF Orders, Tracked, RetryShape, RetryFits
    <3>2. t # None
      BY LifecycleAssumption
    <3>3. QED
      BY <1>7, <2>1, <3>1, <3>2
  <2>2. CASE retrier'[t] # retrier[t]
    <3>1. PICK s \in failed :
            /\ retries[speaker[s].name] = None /\ retries'[speaker[s].name] = t
            /\ retrier'[t] = [name |-> speaker[s].name, ver |-> speaker[s].ver,
                              pc |-> "sleep", holds |-> {}]
      BY <1>7, <2>2
    <3>2. retrier'[t].name = speaker[s].name /\ retrier'[t].ver = speaker[s].ver
      BY <3>1
    <3>3. QED
      BY <1>5, <3>1, <3>2
  <2>3. QED
    BY <2>1, <2>2
<1>9. QED
  BY <1>4, <1>8

\* A coroutine of the validation ends: its speakers that run are listed.
LEMMA ValidatorEndsOrders ==
  ASSUME Standing, Orders, validator' = Over, speaker' = Dropped(speaker),
         UNCHANGED <<config, request>>, \A t \in Retries : retrier'[t].holds = retrier[t].holds,
         listed' \in Seq(Speakers), IsInjective(listed'), \A s \in ToSet(listed') : s \in Known,
         \A s \in ToSet(listed') : speaker[s].phase \in {"up", "stopping", "down"},
         \A i \in DOMAIN listed : i \in DOMAIN listed' /\ listed'[i] = listed[i],
         \A s \in validator.holds : speaker[s].phase \in Alive => s \in ToSet(listed')
  PROVE  /\ Newest' /\ Brought' /\ Places' /\ Uncrossed' /\ Edits'
         /\ \A s \in Known' : speaker'[s] = speaker[s]
<1>0. Shape
  BY DEF Standing
<1>1. validator'.holds = {} /\ validator'.pc = "done"
  BY DEF Over
<1>2. \A s \in ToSet(listed) : s \in ToSet(listed')
  BY DEF ToSet
<1>3. /\ \A s \in Known' : s \in Known
      /\ \A s \in Known : s \in Known' \/ speaker[s].phase \notin Alive
  BY <1>1, <1>2, KnownIs, KnownIsNext
<1>4. /\ \A s \in Known' : speaker'[s] = speaker[s]
      /\ \A s \in Speakers : \/ speaker'[s] = speaker[s]
                             \/ speaker[s].phase = "down" /\ speaker'[s] = Unused
  BY <1>0, <1>3, DropShape
<1>5. Newest'
  <2>1. \A s \in Speakers : speaker'[s].phase \in Alive => speaker'[s] = speaker[s]
    BY <1>4 DEF Alive, Unused
  <2>2. QED
    BY <1>3, <2>1, NewestNext DEF Orders, Newest
<1>6. Brought'
  <2>1. \A r \in Requests : \A s \in request[r].holds : speaker'[s] = speaker[s]
    BY <1>4, KnownIsNext
  <2>2. QED
    BY <1>1, <2>1 DEF Orders, Brought
<1>7. Places'
  <2>1. \A i \in DOMAIN listed : speaker'[listed[i]] = speaker[listed[i]]
    BY <1>2, <1>4, KnownIsNext DEF ToSet
  <2>2. QED
    BY <2>1 DEF Orders, Places
<1>8. QED
  BY <1>4, <1>5, <1>6, <1>7 DEF Orders, Uncrossed, Edits

\* ValidatorStopped keeps the order (app.py:_start_speakers, cancelled).
LEMMA ValidatorStoppedOrders == ASSUME Standing, Orders, ValidatorStopped PROVE Orders'
<1>0. Shape /\ SpeakerShape /\ ValidatorShape
  BY DEF Standing, Shape
<1>1. /\ validator.pc = "stopping" /\ Done(validator.holds)
      /\ validator' = Over /\ speaker' = Dropped(speaker)
      /\ UNCHANGED <<app, api, config, listed, request, retrier, retries>>
  BY DEF ValidatorStopped, retryVars
<1>2. \A s \in validator.holds : speaker[s].phase \notin Alive
  BY <1>0, <1>1 DEF ValidatorShape, Done, Alive, Ended
<1>3. \A s \in ToSet(listed) : s \in Known
  BY KnownIs
<1>4. /\ Newest' /\ Brought' /\ Places' /\ Uncrossed' /\ Edits'
      /\ \A s \in Known' : speaker'[s] = speaker[s]
  BY <1>0, <1>1, <1>2, <1>3, ValidatorEndsOrders DEF SpeakerShape
<1>5. Unique'
  <2>1. \A s \in ToSet(listed) : speaker'[s] = speaker[s]
    BY <1>1, <1>4, KnownIsNext
  <2>2. QED
    BY <1>1, <2>1 DEF Orders, Unique
<1>6. Tracked' /\ Stopped' /\ Silent'
  <2>1. validator'.pc # "starting"
    BY <1>1 DEF Over
  <2>2. QED
    BY <1>1, <2>1 DEF Orders, Tracked, Stopped, Silent, NoRetries
<1>7. QED
  BY <1>4, <1>5, <1>6 DEF Orders

\* ValidatorStarted keeps the order (app.py:_start_speakers).
LEMMA ValidatorStartedOrders ==
  ASSUME Standing, Orders, Orderly', ValidatorStarted PROVE Orders'
<1>0. Shape /\ SpeakerShape /\ ValidatorShape /\ RetryShape /\ Courses /\ Apart
  BY DEF Standing, Shape
<1> DEFINE holds == validator.holds
<1>1. /\ validator.pc = "starting" /\ Done(holds) /\ Collects(holds)
      /\ validator' = Over /\ speaker' = Dropped(speaker)
      /\ UNCHANGED <<app, api, config, request, used>>
  BY DEF ValidatorStarted
<1>2. /\ holds \in SUBSET Speakers
      /\ \A s \in holds : speaker[s].phase \in Begun /\ s \notin ToSet(listed) /\ s \in Known
      /\ \A x, y \in holds : speaker[x].name = speaker[y].name => x = y
      /\ \A s \in holds : speaker[s].ver = config[speaker[s].name]
  BY <1>0, <1>1, KnownIs DEF ValidatorShape, Apart, Orders, Brought
<1>3. \A s \in holds : speaker[s].phase \in Alive => s \in Up(holds)
  BY <1>1 DEF Done, Alive, Up
<1> HIDE DEF holds
<1>4. /\ listed' \in Seq(Speakers) /\ ToSet(listed') = ToSet(listed) \cup Up(holds)
      /\ IsInjective(listed')
      /\ \A u \in Retries : retrier'[u].holds = retrier[u].holds
      /\ \A i \in DOMAIN listed : i \in DOMAIN listed' /\ listed'[i] = listed[i]
  BY <1>0, <1>1, <1>2, CollectsLists
<1>5. /\ \A s \in ToSet(listed') : s \in Known
      /\ \A s \in ToSet(listed') : speaker[s].phase \in {"up", "stopping", "down"}
  BY <1>0, <1>2, <1>4, KnownIs DEF Up, SpeakerShape
<1>6. /\ Newest' /\ Brought' /\ Places' /\ Uncrossed' /\ Edits'
      /\ \A s \in Known' : speaker'[s] = speaker[s]
  <2>1. \A s \in validator.holds : speaker[s].phase \in Alive => s \in ToSet(listed')
    BY <1>3, <1>4 DEF holds
  <2>2. QED
    BY <1>1, <1>4, <1>5, <2>1, ValidatorEndsOrders
<1>7. Unique' /\ Tracked'
  BY <1>1, <1>2, <1>4, <1>6, CollectsOrders
<1>8. Stopped' /\ Silent'
  <2>1. validator.tracked /\ api # "none" /\ app # "stopped"
    BY <1>0, <1>1 DEF ValidatorShape, Courses, Orders, Silent
  <2>2. \A r \in Requests : request[r].kind \notin StopKinds
    BY <1>0, <2>1 DEF Courses
  <2>3. QED
    BY <1>1, <2>1, <2>2 DEF Stopped, Silent
<1>9. QED
  BY <1>6, <1>7, <1>8 DEF Orders

\* A task that ends takes no other one out of the table.
LEMMA EndsOrders ==
  ASSUME Standing, Orders, Orderly', NEW t \in Retries, Ends(t), retrier[t].pc # "idle",
         UNCHANGED config
  PROVE  /\ Tracked' /\ (NoRetries => NoRetries')
         /\ \A u \in Retries : retrier'[u] = IF u = t THEN NoRetry ELSE retrier[u]
<1> DEFINE n == retrier[t].name
<1>0. RetryShape
  BY DEF Standing, Shape
<1>1. n \in Names /\ retries[n] \in {t, None}
  BY <1>0, OrderlyNextIs DEF RetryShape, RetryFits, Ends
<1>2. /\ retrier' = [retrier EXCEPT ![t] = NoRetry] /\ retries' = [retries EXCEPT ![n] = None]
  BY DEF Ends
<1>3. /\ \A u \in Retries : retrier'[u] = IF u = t THEN NoRetry ELSE retrier[u]
      /\ \A m \in Names : retries'[m] = IF m = n THEN None ELSE retries[m]
  BY <1>0, <1>2 DEF RetryShape
<1>4. NoRetry.pc = "idle"
  BY DEF NoRetry
<1>5. ASSUME NEW u \in Retries, retrier'[u].pc \in {"sleep", "starting"}
      PROVE  /\ retries'[retrier'[u].name] = u /\ retrier'[u].ver = config'[retrier'[u].name]
  <2>1. u # t /\ retrier'[u] = retrier[u]
    BY <1>3, <1>4, <1>5
  <2>2. /\ retries[retrier[u].name] = u /\ retrier[u].ver = config[retrier[u].name]
        /\ retrier[u].name \in Names /\ u # None
    BY <1>0, <1>5, <2>1, LifecycleAssumption DEF Orders, Tracked, RetryShape, RetryFits
  <2>3. retrier[u].name # n
    BY <1>1, <2>1, <2>2
  <2>4. QED
    BY <1>3, <2>1, <2>2, <2>3
<1>6. NoRetries => NoRetries'
  BY <1>3, <1>4 DEF NoRetries
<1>7. QED
  BY <1>3, <1>5, <1>6 DEF Tracked

\* The end of what a task held leaves the rest as it is.
LEMMA RetryEndsOrders ==
  ASSUME Standing, Orders, NEW t \in Retries, speaker' = Dropped(speaker),
         UNCHANGED <<config, request, validator>>,
         \A u \in Retries : u # t => retrier'[u].holds = retrier[u].holds,
         retrier'[t].holds = {},
         listed' \in Seq(Speakers), IsInjective(listed'), \A s \in ToSet(listed') : s \in Known,
         \A s \in ToSet(listed') : speaker[s].phase \in {"up", "stopping", "down"},
         \A i \in DOMAIN listed : i \in DOMAIN listed' /\ listed'[i] = listed[i],
         \A s \in retrier[t].holds : speaker[s].phase \in Alive => s \in ToSet(listed')
  PROVE  /\ Newest' /\ Brought' /\ Places' /\ Uncrossed' /\ Edits'
         /\ \A s \in Known' : speaker'[s] = speaker[s]
<1>0. Shape
  BY DEF Standing
<1>1. \A s \in ToSet(listed) : s \in ToSet(listed')
  BY DEF ToSet
<1>2. \A s \in Known' : s \in Known
  BY KnownIs, KnownIsNext
<1>3. \A s \in Known : s \in Known' \/ speaker[s].phase \notin Alive
  BY <1>1, KnownIs, KnownIsNext
<1>4. /\ \A s \in Known' : speaker'[s] = speaker[s]
      /\ \A s \in Speakers : \/ speaker'[s] = speaker[s]
                             \/ speaker[s].phase = "down" /\ speaker'[s] = Unused
  BY <1>0, <1>2, DropShape
<1>5. Newest'
  <2>1. \A s \in Speakers : speaker'[s].phase \in Alive => speaker'[s] = speaker[s]
    BY <1>4 DEF Alive, Unused
  <2>2. QED
    BY <1>3, <2>1, NewestNext DEF Orders, Newest
<1>6. Brought'
  <2>1. /\ \A r \in Requests : \A s \in request[r].holds : speaker'[s] = speaker[s]
        /\ \A s \in validator.holds : speaker'[s] = speaker[s]
    BY <1>4, KnownIsNext
  <2>2. QED
    BY <2>1 DEF Orders, Brought
<1>7. Places'
  <2>1. \A i \in DOMAIN listed : speaker'[listed[i]] = speaker[listed[i]]
    BY <1>1, <1>4, KnownIsNext DEF ToSet
  <2>2. QED
    BY <2>1 DEF Orders, Places
<1>8. QED
  BY <1>4, <1>5, <1>6, <1>7 DEF Orders, Uncrossed, Edits

\* RetryStopped keeps the order (app.py:_retry_speaker, cancelled).
LEMMA RetryStoppedOrders ==
  ASSUME Standing, Orders, Orderly', NEW t \in Retries, RetryStopped(t) PROVE Orders'
<1>0. Shape /\ SpeakerShape /\ RetryShape
  BY DEF Standing, Shape
<1>1. /\ retrier[t].pc = "stopping" /\ Done(retrier[t].holds) /\ Ends(t)
      /\ speaker' = Dropped(speaker)
      /\ UNCHANGED <<app, api, validator, config, listed, request>>
  BY DEF RetryStopped, authVars
<1>2. /\ Tracked' /\ (NoRetries => NoRetries')
      /\ \A u \in Retries : retrier'[u] = IF u = t THEN NoRetry ELSE retrier[u]
  BY <1>1, EndsOrders
<1>3. \A s \in retrier[t].holds : speaker[s].phase \notin Alive
  BY <1>0, <1>1 DEF RetryShape, RetryFits, Done, Alive, Ended
<1>4. /\ \A u \in Retries : u # t => retrier'[u].holds = retrier[u].holds
      /\ retrier'[t].holds = {}
  BY <1>2 DEF NoRetry
<1>5. \A s \in ToSet(listed) : s \in Known
  BY KnownIs
<1>6. /\ Newest' /\ Brought' /\ Places' /\ Uncrossed' /\ Edits'
      /\ \A s \in Known' : speaker'[s] = speaker[s]
  BY <1>0, <1>1, <1>3, <1>4, <1>5, RetryEndsOrders DEF SpeakerShape
<1>7. Unique'
  <2>1. \A s \in ToSet(listed) : speaker'[s] = speaker[s]
    BY <1>1, <1>6, KnownIsNext
  <2>2. QED
    BY <1>1, <2>1 DEF Orders, Unique
<1>8. Stopped' /\ Silent'
  BY <1>1, <1>2 DEF Orders, Stopped, Silent
<1>9. QED
  BY <1>2, <1>6, <1>7, <1>8 DEF Orders

\* While a task goes on somebody is logged in, and nobody stops all speakers.
LEMMA RetryGoesOn ==
  ASSUME Orders, NEW t \in Retries, retrier[t].pc \in {"sleep", "starting"}
  PROVE  /\ api # "none" /\ app # "stopped"
         /\ \A r \in Requests : ~(request[r].kind \in StopKinds /\ request[r].pc = "stopping")
BY DEF Orders, Silent, Stopped, NoRetries

\* RetryStarted keeps the order (app.py:_retry_speaker).
LEMMA RetryStartedOrders ==
  ASSUME Standing, Orders, Orderly', NEW t \in Retries, RetryStarted(t) PROVE Orders'
<1>0. Shape /\ SpeakerShape /\ RetryShape /\ Apart
  BY DEF Standing, Shape
<1>1. /\ retrier[t].pc = "starting" /\ Done(retrier[t].holds) /\ speaker' = Dropped(speaker)
      /\ UNCHANGED <<app, api, validator, config, request>>
  BY DEF RetryStarted, authVars
<1>2. PICK s \in Speakers : retrier[t].holds = {s}
  BY <1>0, <1>1 DEF RetryShape, RetryFits
<1>3. s \in Known /\ s \notin ToSet(listed) /\ speaker[s].phase \in {"up", "down"}
  BY <1>0, <1>1, <1>2, KnownIs DEF Apart, RetryShape, RetryFits, Done, Begun
<1>4. /\ api # "none" /\ app # "stopped"
      /\ \A r \in Requests : ~(request[r].kind \in StopKinds /\ request[r].pc = "stopping")
  BY <1>1, RetryGoesOn
<1>5. Stopped' /\ Silent'
  BY <1>1, <1>4 DEF Stopped, Silent
<1>6. CASE Up(retrier[t].holds) # {}
  <2>1. /\ listed' = listed \o SetToSeq({s}) /\ Ends(t) /\ speaker[s].phase = "up"
    BY <1>2, <1>6 DEF RetryStarted, Up
  <2>2. \A o \in ToSet(listed) : speaker[o].name # speaker[s].name
    <3>1. "doubled" \notin Doubled({s})
      BY <1>1, <1>2, <2>1, OrderlyNextIs DEF Ends
    <3>2. QED
      BY <3>1 DEF Doubled, NamesOf
  <2>3. /\ Tracked' /\ (NoRetries => NoRetries')
        /\ \A u \in Retries : retrier'[u] = IF u = t THEN NoRetry ELSE retrier[u]
    BY <1>1, <2>1, EndsOrders
  <2>4. /\ SetToSeq({s}) \in Seq({s}) /\ ToSet(SetToSeq({s})) = {s}
        /\ IsInjective(SetToSeq({s}))
    BY SetToSeqLists, FS_Singleton
  <2>5. /\ listed' \in Seq(Speakers) /\ ToSet(listed') = ToSet(listed) \cup {s}
        /\ IsInjective(listed')
        /\ \A i \in DOMAIN listed : i \in DOMAIN listed' /\ listed'[i] = listed[i]
    <3>1. PICK q : q = SetToSeq({s})
      OBVIOUS
    <3>2. SetToSeq({s}) \in Seq(Speakers)
      BY <2>4
    <3>3. /\ listed \in Seq(Speakers) /\ q \in Seq(Speakers) /\ IsInjective(listed)
          /\ IsInjective(q) /\ ToSet(listed) \cap ToSet(q) = {} /\ ToSet(q) = {s}
      BY <1>0, <1>3, <2>4, <3>1, <3>2 DEF SpeakerShape
    <3>4. /\ listed \o q \in Seq(Speakers) /\ IsInjective(listed \o q)
          /\ ToSet(listed \o q) = ToSet(listed) \cup ToSet(q)
          /\ \A i \in DOMAIN listed : i \in DOMAIN (listed \o q) /\ (listed \o q)[i] = listed[i]
      BY <3>3, Joined
    <3>5. QED
      BY <2>1, <3>1, <3>3, <3>4
  <2>6. /\ \A u \in Retries : u # t => retrier'[u].holds = retrier[u].holds
        /\ retrier'[t].holds = {}
    BY <2>3 DEF NoRetry
  <2>7. /\ \A o \in ToSet(listed') : o \in Known
        /\ \A o \in ToSet(listed') : speaker[o].phase \in {"up", "stopping", "down"}
    BY <1>0, <1>3, <2>5, KnownIs DEF SpeakerShape
  <2>8. /\ Newest' /\ Brought' /\ Places' /\ Uncrossed' /\ Edits'
        /\ \A o \in Known' : speaker'[o] = speaker[o]
    BY <1>1, <1>2, <2>5, <2>6, <2>7, RetryEndsOrders
  <2>9. Unique'
    <3>1. \A o \in ToSet(listed') : speaker'[o] = speaker[o]
      BY <2>8, KnownIsNext
    <3>2. QED
      BY <2>2, <2>5, <3>1 DEF Orders, Unique
  <2>10. QED
    BY <1>5, <2>3, <2>8, <2>9 DEF Orders
<1>7. CASE Up(retrier[t].holds) = {}
  <2>1. /\ retrier' = [retrier EXCEPT ![t].pc = "sleep", ![t].holds = {}]
        /\ UNCHANGED <<listed, retries>>
    BY <1>7 DEF RetryStarted
  <2>2. speaker[s].phase = "down"
    BY <1>2, <1>3, <1>7 DEF Up
  <2>3. /\ \A u \in Retries : u # t => retrier'[u] = retrier[u]
        /\ retrier'[t].pc = "sleep" /\ retrier'[t].holds = {}
        /\ retrier'[t].name = retrier[t].name /\ retrier'[t].ver = retrier[t].ver
    <3>1. /\ retrier'[t] = [retrier[t] EXCEPT !.pc = "sleep", !.holds = {}]
          /\ \A u \in Retries : u # t => retrier'[u] = retrier[u]
          /\ retrier[t] \in RetryRecord
      BY <1>0, <2>1 DEF RetryShape
    <3>2. QED
      BY <3>1 DEF RetryRecord
  <2>4. \A o \in ToSet(listed) : o \in Known
    BY KnownIs
  <2>5. /\ Newest' /\ Brought' /\ Places' /\ Uncrossed' /\ Edits'
        /\ \A o \in Known' : speaker'[o] = speaker[o]
    BY <1>0, <1>1, <1>2, <2>1, <2>2, <2>3, <2>4, RetryEndsOrders DEF SpeakerShape, Alive
  <2>6. Tracked'
    <3>1. retries[retrier[t].name] = t /\ retrier[t].ver = config[retrier[t].name]
      BY <1>1 DEF Orders, Tracked
    <3>2. retries' = retries /\ config' = config
      BY <1>1, <2>1
    <3>3. \A u \in Retries : u # t /\ retrier[u].pc \in {"sleep", "starting"} =>
            retries[retrier[u].name] = u /\ retrier[u].ver = config[retrier[u].name]
      BY DEF Orders, Tracked
    <3>4. QED
      BY <2>3, <3>1, <3>2, <3>3 DEF Tracked
  <2>7. Unique'
    <3>1. \A o \in ToSet(listed) : speaker'[o] = speaker[o]
      BY <2>1, <2>5, KnownIsNext
    <3>2. QED
      BY <2>1, <3>1 DEF Orders, Unique
  <2>8. QED
    BY <1>5, <2>5, <2>6, <2>7 DEF Orders
<1>8. QED
  BY <1>6, <1>7

\* RetryWakes keeps the order (app.py:_retry_speaker).
LEMMA RetryWakesOrders ==
  ASSUME Standing, Orders, NEW t \in Retries, RetryWakes(t) PROVE Orders'
<1> DEFINE n == retrier[t].name
           v == retrier[t].ver
           new == NewFor({n})
           s == new[n]
           version == [m \in {n} |-> v]
<1>0. Shape /\ SpeakerShape /\ RetryShape
  BY DEF Standing, Shape
<1>1. retrier[t].pc = "sleep" /\ retrier[t].holds = {}
  BY <1>0 DEF RetryWakes, RetryShape, RetryFits
<1>2. /\ api # "none" /\ app # "stopped"
      /\ \A r \in Requests : ~(request[r].kind \in StopKinds /\ request[r].pc = "stopping")
  BY <1>1, RetryGoesOn
<1>3. /\ Enough({n}) /\ speaker' = Starting(speaker, new, version)
      /\ retrier' = [retrier EXCEPT ![t].pc = "starting", ![t].holds = {s}]
      /\ UNCHANGED <<app, api, validator, config, listed, request, retries>>
  BY <1>2 DEF RetryWakes, authVars
<1>4. n \in Names /\ v \in Version \ {0} /\ v = config[n] /\ retries[n] = t
  BY <1>0, <1>1 DEF RetryShape, RetryFits, RetryRecord, Orders, Tracked
<1>5. version[n] = v
  OBVIOUS
<1>6. /\ s \in Speakers /\ s \notin Known /\ \A o \in Speakers : o # s => speaker'[o] = speaker[o]
      /\ speaker'[s].name = n /\ speaker'[s].ver = v
  <2>1. version[n] \in Version \ {0} /\ Slowed(speaker)
    BY <1>0, <1>4, <1>5, SpeakersSlow
  <2> HIDE DEF version, new
  <2>2. RisenOne(n, speaker, version)
    BY <1>0, <1>3, <1>4, <2>1, RaiseOne DEF new
  <2>3. QED
    BY <1>5, <2>2 DEF RisenOne, new
<1> HIDE DEF s, new, version
<1>7. /\ retrier'[t].pc = "starting" /\ retrier'[t].holds = {s}
      /\ retrier'[t].name = n /\ retrier'[t].ver = v
      /\ \A u \in Retries : u # t => retrier'[u] = retrier[u]
  <2>1. /\ retrier'[t] = [retrier[t] EXCEPT !.pc = "starting", !.holds = {s}]
        /\ \A u \in Retries : u # t => retrier'[u] = retrier[u]
        /\ retrier[t] \in RetryRecord
    BY <1>0, <1>3 DEF RetryShape
  <2>2. QED
    BY <2>1 DEF RetryRecord
<1>8. \A o : o = s \/ o \in Known => o \in Known'
  BY <1>1, <1>3, <1>7, KnownIs, KnownIsNext
<1>9. PICK H : H = {s}
  OBVIOUS
<1>10. /\ Newest' /\ Unique'
       /\ \A o \in Known : speaker'[o] = speaker[o]
       /\ \A i \in DOMAIN listed : speaker'[listed[i]] = speaker[listed[i]]
  <2>1. \A o \in H : /\ o \notin Known /\ o \in Known'
                     /\ speaker'[o].ver = config'[speaker'[o].name]
    BY <1>3, <1>4, <1>6, <1>8, <1>9
  <2>2. \A o \in Speakers \ H : speaker'[o] = speaker[o]
    BY <1>6, <1>9
  <2>3. QED
    BY <1>3, <1>8, <2>1, <2>2, RisesOrders
<1>11. Tracked'
  BY <1>3, <1>4, <1>7 DEF Orders, Tracked
<1>12. Uncrossed' /\ Edits' /\ Places'
  BY <1>3, <1>10 DEF Orders, Uncrossed, Edits, Places
<1>13. Stopped' /\ Silent'
  BY <1>2, <1>3 DEF Stopped, Silent
<1>14. Brought'
  <2>1. /\ \A r \in Requests : \A o \in request[r].holds : speaker'[o] = speaker[o]
        /\ \A o \in validator.holds : speaker'[o] = speaker[o]
    BY <1>10, KnownIs
  <2>2. QED
    BY <1>3, <2>1 DEF Orders, Brought
<1>15. QED
  BY <1>10, <1>11, <1>12, <1>13, <1>14 DEF Orders

\* What a request does not cross.
LEMMA CrossesNot ==
  ASSUME NEW kind, NEW n, "crossed" \notin Crosses(kind, n)
  PROVE  /\ kind \in StartKinds => \A q \in Requests : request[q].kind \notin StopKinds
         /\ kind \in StopKinds =>
              \A q \in Requests : request[q].kind \notin StartKinds \cup StopKinds
         /\ kind \in {"edit", "remove"} => ~Awaited(n)
<1>1. /\ ~(kind \in StartKinds /\ Under(StopKinds) # {})
      /\ ~(kind \in StopKinds /\ Under(StartKinds \cup StopKinds) # {})
      /\ ~(kind \in {"edit", "remove"} /\ Awaited(n))
  BY DEF Crosses
<1>2. QED
  BY <1>1 DEF Under

\* A handler that crosses nothing, or that answers.
LEMMA UncrossedNext ==
  ASSUME Uncrossed, NEW r \in Requests, NEW rec,
         \A q \in Requests : request'[q] = IF q = r THEN rec ELSE request[q],
         \/ rec.kind \in {"none", "remove", request[r].kind}
         \/ rec.kind \in StartKinds /\ \A q \in Requests : request[q].kind \notin StopKinds
         \/ /\ rec.kind \in StopKinds
            /\ \A q \in Requests : request[q].kind \notin StartKinds \cup StopKinds
  PROVE  Uncrossed'
BY DEF Uncrossed, StartKinds, StopKinds

\* CancelsFirst keeps the order (app.py:_cancel_auth_retry).
LEMMA CancelsFirstOrders ==
  ASSUME Standing, Orders, Orderly', NEW r \in Requests,
         NEW kind \in {"login", "logout", "shutdown"}, CancelsFirst(r, kind),
         app' \in {"up", "stopping"}
  PROVE  Orders'
<1> DEFINE rec == [Idle EXCEPT !.kind = kind, !.pc = "cancelling", !.waits = validator.tracked]
<1>0. Shape /\ SpeakerShape /\ ValidatorShape /\ RequestShape /\ RetryShape /\ Apart
  BY DEF Standing, Shape
<1>1. /\ Accepts(r, kind) /\ CancelValidation /\ request' = [request EXCEPT ![r] = rec]
      /\ UNCHANGED <<api, config, listed, retrier, retries>> /\ "crossed" \notin Crosses(kind, None)
  BY OrderlyNextIs DEF CancelsFirst, retryVars
<1>2. request[r].holds = {}
  BY <1>0, <1>1, AcceptsFree
<1>3. rec.kind = kind /\ rec.pc = "cancelling" /\ rec.holds = {} /\ rec.at = 0
  BY DEF Idle
<1> HIDE DEF rec
<1>4. \A q \in Requests : request'[q] = IF q = r THEN rec ELSE request[q]
  BY <1>0, <1>1, KindsNext
<1>5. /\ \A q \in Requests : request'[q].holds = request[q].holds
      /\ \A q \in Requests : request'[q].pc \in {"starting", "stopping"} => request'[q] = request[q]
  BY <1>2, <1>3, <1>4
<1>6. /\ validator'.holds = validator.holds /\ validator'.tracked = FALSE /\ ValidatorShape'
      /\ \A s \in Speakers : s \notin validator.holds => speaker'[s] = speaker[s]
  BY <1>0, <1>1, <1>5, CancelValidationShape
<1>7. validator'.pc # "starting"
  BY <1>6 DEF ValidatorShape
<1>8. \A s \in validator.holds : /\ speaker'[s].name = speaker[s].name
                                 /\ speaker'[s].ver = speaker[s].ver
                                 /\ speaker'[s].phase \in {speaker[s].phase, "stopping"}
  <2>1. CASE validator.tracked /\ validator.pc = "starting"
    <3>1. speaker' = Stopping(validator.holds) /\ validator.holds \in SUBSET Known
      BY <1>1, <2>1, KnownIs DEF CancelValidation
    <3>2. /\ Slowed(speaker')
          /\ \A s \in Speakers : s \in validator.holds => speaker'[s].phase = "stopping"
      BY <1>0, <3>1, StoppingSlows
    <3>3. QED
      BY <1>0, <3>2 DEF Slowed, ValidatorShape
  <2>2. CASE ~(validator.tracked /\ validator.pc = "starting")
    BY <1>1, <2>2 DEF CancelValidation
  <2>3. QED
    BY <2>1, <2>2
<1>9. /\ \A s \in ToSet(listed) : speaker'[s] = speaker[s]
      /\ \A i \in DOMAIN listed : speaker'[listed[i]] = speaker[listed[i]]
  <2>1. \A s \in ToSet(listed) : s \in Speakers /\ s \notin validator.holds
    BY <1>0 DEF SpeakerShape, Apart, ToSet
  <2>2. \A i \in DOMAIN listed : listed[i] \in ToSet(listed)
    BY DEF ToSet
  <2>3. QED
    BY <1>6, <2>1, <2>2
<1>10. \A s : s \in Known => s \in Known'
  BY <1>1, <1>5, <1>6, KnownIs, KnownIsNext
<1>11. Newest'
  <2>1. \A s \in Speakers : /\ speaker'[s].name = speaker[s].name
                            /\ speaker'[s].ver = speaker[s].ver
                            /\ speaker'[s].phase \in {speaker[s].phase, "stopping"}
    BY <1>6, <1>8
  <2>2. QED
    BY <1>1, <1>10, <2>1, NewestNext DEF Orders, Newest, Alive
<1>12. Brought'
  <2>1. \A q \in Requests : request[q].pc = "starting" =>
          \A s \in request[q].holds : speaker'[s] = speaker[s]
    BY <1>0, <1>6 DEF Apart, RequestShape, RequestRecord
  <2>2. QED
    BY <1>1, <1>5, <1>7, <2>1 DEF Orders, Brought
<1>13. Uncrossed'
  BY <1>1, <1>3, <1>4, CrossesNot, UncrossedNext DEF Orders, StartKinds, StopKinds
<1>14. Unique' /\ Tracked'
  BY <1>1, <1>9 DEF Orders, Unique, Tracked
<1>15. Edits' /\ Places'
  BY <1>1, <1>3, <1>4, <1>9 DEF Orders, Edits, Places
<1>16. Stopped'
  BY <1>1, <1>5 DEF Orders, Stopped, NoRetries
<1>17. Silent'
  <2>1. app # "stopped" /\ app' # "stopped"
    BY <1>1 DEF Accepts
  <2>2. \A q \in Requests : request'[q].kind \in StartKinds /\ q # r =>
          request[q].kind \in StartKinds /\ request'[q].pc = request[q].pc
    BY <1>4
  <2>3. QED
    BY <1>1, <1>3, <1>4, <1>7, <2>1, <2>2 DEF Orders, Silent, NoRetries
<1>18. QED
  BY <1>11, <1>12, <1>13, <1>14, <1>15, <1>16, <1>17 DEF Orders

\* LoggedIn keeps the order (app.py:_on_auth_token).
LEMMA LoggedInOrders == ASSUME Standing, Orders, NEW r \in Requests, LoggedIn(r) PROVE Orders'
<1>0. Shape /\ AppShape /\ SpeakerShape /\ ValidatorShape /\ RequestShape /\ RetryShape
  BY DEF Standing, Shape
<1>1. /\ request[r].kind = "login" /\ request[r].pc = "cancelling" /\ api' = "web"
      /\ UNCHANGED <<app, validator, config, listed, retrier, retries, used>>
  BY DEF LoggedIn, Resumes, retryVars
<1>2. request[r].holds = {}
  BY <1>0, <1>1 DEF RequestShape, RequestFits
<1>3. app # "stopped"
  BY <1>1 DEF Orders, Silent, StartKinds
<1>4. Silent'
  BY <1>1, <1>3 DEF Silent
<1>5. CASE listed # <<>>
  <2>1. request' = [request EXCEPT ![r] = Idle] /\ UNCHANGED speaker
    BY <1>5 DEF LoggedIn, Answered
  <2>2. Idle.holds = {} /\ Idle.pc = "idle" /\ Idle.kind = "none" /\ Idle.at = 0
    BY IdleFits
  <2>3. \A q \in Requests : request'[q] = IF q = r THEN Idle ELSE request[q]
    BY <1>0, <2>1, KindsNext
  <2>4. \A s : s \in Known => s \in Known'
    BY <1>1, <1>2, <2>3, KnownIs, KnownIsNext
  <2>5. Newest'
    BY <1>1, <2>1, <2>4, NewestNext DEF Orders, Newest
  <2>6. Uncrossed'
    BY <2>2, <2>3, UncrossedNext DEF Orders
  <2>7. Unique' /\ Tracked'
    BY <1>1, <2>1 DEF Orders, Unique, Tracked
  <2>8. Edits' /\ Places' /\ Brought' /\ Stopped'
    BY <1>1, <2>1, <2>2, <2>3 DEF Orders, Edits, Places, Brought, Stopped, NoRetries, StopKinds
  <2>9. QED
    BY <1>4, <2>5, <2>6, <2>7, <2>8 DEF Orders
<1>6. CASE listed = <<>>
  <2> DEFINE H == {NewFor(ToStart)[n] : n \in ToStart}
             rec == [Idle EXCEPT !.kind = "login", !.name = None, !.pc = "starting", !.holds = H]
  <2>1. /\ Enough(ToStart) /\ speaker' = Starting(speaker, NewFor(ToStart), config)
        /\ request' = [request EXCEPT ![r] = rec]
    BY <1>6 DEF LoggedIn, Handles
  <2>2. ToStart \in SUBSET Names /\ \A n \in ToStart : config[n] \in Version \ {0}
    BY <1>0 DEF AppShape, ToStart, Configured
  <2>3. /\ \A s \in Speakers \ H : speaker'[s] = speaker[s]
        /\ \A s \in H : s \notin Known /\ speaker'[s].ver = config[speaker'[s].name]
    <3>1. Raised(ToStart, speaker, config) /\ Slowed(speaker)
      BY <1>0, <2>1, <2>2, NewSpeakers, SpeakersSlow
    <3>2. Risen(ToStart, speaker, config)
      BY <1>0, <1>1, <2>1, <2>2, <3>1, RaiseShape
    <3>3. QED
      BY <3>2 DEF Risen
  <2> HIDE DEF H
  <2>4. rec.kind = "login" /\ rec.pc = "starting" /\ rec.holds = H /\ rec.at = 0
    BY DEF Idle
  <2> HIDE DEF rec
  <2>5. \A q \in Requests : request'[q] = IF q = r THEN rec ELSE request[q]
    BY <1>0, <2>1, KindsNext
  <2>6. \A s : s \in H \/ s \in Known => s \in Known'
    BY <1>1, <1>2, <2>4, <2>5, KnownIs, KnownIsNext
  <2>7. /\ Newest' /\ Unique'
        /\ \A s \in Known : speaker'[s] = speaker[s]
        /\ \A i \in DOMAIN listed : speaker'[listed[i]] = speaker[listed[i]]
    BY <1>1, <2>3, <2>6, RisesOrders
  <2>8. Uncrossed'
    BY <1>1, <2>4, <2>5, UncrossedNext DEF Orders
  <2>9. Tracked'
    BY <1>1 DEF Orders, Tracked
  <2>10. Edits' /\ Places' /\ Stopped'
    BY <1>1, <2>4, <2>5, <2>7 DEF Orders, Edits, Places, Stopped, NoRetries
  <2>11. Brought'
    <3>1. /\ \A q \in Requests : \A s \in request[q].holds : speaker'[s] = speaker[s]
          /\ \A s \in validator.holds : speaker'[s] = speaker[s]
      BY <2>7, KnownIs
    <3>2. QED
      BY <1>1, <2>3, <2>4, <2>5, <3>1 DEF Orders, Brought
  <2>12. QED
    BY <1>4, <2>7, <2>8, <2>9, <2>10, <2>11 DEF Orders
<1>7. QED
  BY <1>5, <1>6

\* AddSpeaker keeps the order (app.py:_on_add_speaker).
LEMMA AddSpeakerOrders ==
  ASSUME Standing, Orders, Orderly', NEW r \in Requests, NEW n \in Names, AddSpeaker(r, n)
  PROVE  Orders'
<1> DEFINE s == NewFor({n})[n]
           rec == [Idle EXCEPT !.kind = "add", !.name = n, !.pc = "starting", !.holds = {s}]
<1>0. Shape /\ AppShape /\ SpeakerShape /\ ValidatorShape /\ RequestShape /\ RetryShape
  BY DEF Standing, Shape
<1>1. /\ Accepts(r, "add") /\ Enough({n}) /\ config' = [config EXCEPT ![n] = used'.request + 1]
      /\ speaker' = Starting(speaker, NewFor({n}), config') /\ config[n] = 0 /\ api # "none"
      /\ request' = [request EXCEPT ![r] = rec] /\ "crossed" \notin Crosses("add", n)
      /\ UNCHANGED <<app, api, validator, listed, retrier, retries>>
  BY OrderlyNextIs DEF AddSpeaker, Handles, authVars, retryVars
<1>2. used'.request + 1 \in Version \ {0}
  BY <1>0, <1>1, UsesRequest DEF Accepts
<1>3. config'[n] \in Version \ {0} /\ \A m \in Names : m # n => config'[m] = config[m]
  BY <1>0, <1>1, <1>2 DEF AppShape
<1>4. /\ s \notin Known /\ \A o \in Speakers : o # s => speaker'[o] = speaker[o]
      /\ speaker'[s].name = n /\ speaker'[s].ver = config'[n]
  <2>1. RisenOne(n, speaker, config')
    BY <1>0, <1>1, <1>3, RaiseOne, SpeakersSlow
  <2>2. QED
    BY <2>1 DEF RisenOne
<1> HIDE DEF s
<1>5. rec.kind = "add" /\ rec.pc = "starting" /\ rec.holds = {s} /\ rec.at = 0
  BY DEF Idle
<1> HIDE DEF rec
<1>6. request[r].holds = {}
  BY <1>0, <1>1, AcceptsFree
<1>7. \A q \in Requests : request'[q] = IF q = r THEN rec ELSE request[q]
  BY <1>0, <1>1, KindsNext
<1>8. \A o : o = s \/ o \in Known => o \in Known'
  BY <1>1, <1>5, <1>6, <1>7, KnownIs, KnownIsNext
  \* Nothing of that name has been started: it was not configured.
<1>9. \A o \in Known : speaker[o].ver = config[speaker[o].name] =>
        config'[speaker[o].name] = config[speaker[o].name]
  <2>1. \A o \in Known : speaker[o].name \in Names /\ speaker[o].ver # 0
    BY <1>0, KnownAreUsed DEF SpeakerShape
  <2>2. QED
    BY <1>1, <1>3, <2>1
<1>10. PICK H : H = {s}
  OBVIOUS
<1>11. /\ Newest' /\ Unique'
       /\ \A o \in Known : speaker'[o] = speaker[o]
       /\ \A i \in DOMAIN listed : speaker'[listed[i]] = speaker[listed[i]]
  <2>1. \A o \in H : /\ o \notin Known /\ o \in Known'
                     /\ speaker'[o].ver = config'[speaker'[o].name]
    BY <1>4, <1>8, <1>10
  <2>2. \A o \in Speakers \ H : speaker'[o] = speaker[o]
    BY <1>4, <1>10
  <2>3. \A o \in Speakers : speaker[o].phase \in Alive =>
          config'[speaker[o].name] = config[speaker[o].name]
    BY <1>9 DEF Orders, Newest
  <2>4. QED
    BY <1>1, <1>8, <2>1, <2>2, <2>3, RisesOrders
<1>12. Tracked'
  <2> SUFFICES ASSUME NEW t \in Retries, retrier'[t].pc \in {"sleep", "starting"}
               PROVE  /\ retries'[retrier'[t].name] = t
                      /\ retrier'[t].ver = config'[retrier'[t].name]
    BY DEF Tracked
  <2>1. /\ retries[retrier[t].name] = t /\ retrier[t].ver = config[retrier[t].name]
        /\ retrier[t].name \in Names /\ retrier[t].ver # 0
    BY <1>0, <1>1 DEF Orders, Tracked, RetryShape, RetryFits
  <2>2. QED
    BY <1>1, <1>3, <2>1
<1>13. Brought'
  <2>1. /\ \A q \in Requests : \A o \in request[q].holds : o \in Known
        /\ \A o \in validator.holds : o \in Known
    BY KnownIs
  <2>2. /\ validator.pc = "starting" =>
             \A o \in validator.holds : speaker'[o].ver = config'[speaker'[o].name]
        /\ \A q \in Requests : request[q].pc = "starting" =>
             \A o \in request[q].holds : speaker'[o].ver = config'[speaker'[o].name]
    BY <1>9, <1>11, <2>1 DEF Orders, Brought
  <2>3. \A o \in request'[r].holds : speaker'[o].ver = config'[speaker'[o].name]
    BY <1>4, <1>5, <1>7
  <2>4. \A q \in Requests : q # r => request'[q] = request[q]
    BY <1>7
  <2>5. QED
    BY <1>1, <2>2, <2>3, <2>4 DEF Brought
<1>14. Edits'
  <2>1. \A q \in Requests : request[q].kind = "edit" =>
          request[q].name \in Names /\ request[q].ver # 0
    BY <1>0 DEF RequestShape, RequestFits
  <2>2. \A q \in Requests : request[q].kind = "edit" =>
          config'[request[q].name] = config[request[q].name]
    BY <1>1, <1>3, <2>1 DEF Orders, Edits
  <2>3. QED
    BY <1>5, <1>7, <2>2 DEF Orders, Edits
<1>15. Uncrossed'
  BY <1>1, <1>5, <1>7, CrossesNot, UncrossedNext DEF Orders, StartKinds
<1>16. Places'
  <2> SUFFICES ASSUME NEW q \in Requests, request'[q].at # 0
               PROVE  /\ request'[q].at \in DOMAIN listed'
                      /\ speaker'[listed'[request'[q].at]].name = request'[q].name
                      /\ speaker'[listed'[request'[q].at]].phase \in Ended
    BY DEF Places
  <2>1. request'[q] = request[q]
    BY <1>5, <1>7
  <2>2. /\ request[q].at \in DOMAIN listed
        /\ speaker[listed[request[q].at]].name = request[q].name
        /\ speaker[listed[request[q].at]].phase \in Ended
    BY <2>1 DEF Orders, Places
  <2>3. speaker'[listed[request[q].at]] = speaker[listed[request[q].at]] /\ listed' = listed
    BY <1>1, <1>11, <2>2
  <2>4. QED
    BY <2>1, <2>2, <2>3
<1>17. Stopped'
  BY <1>1, <1>5, <1>7 DEF Orders, Stopped, NoRetries
<1>18. Silent'
  BY <1>1 DEF Silent, Accepts
<1>19. QED
  BY <1>11, <1>12, <1>13, <1>14, <1>15, <1>16, <1>17, <1>18 DEF Orders

\* A handler answers: whoever runs in its hands is listed before.
LEMMA AnswersOrders ==
  ASSUME Standing, Orders, NEW r \in Requests, request' = [request EXCEPT ![r] = Idle],
         speaker' = Dropped(speaker), UNCHANGED <<validator, config>>,
         listed' \in Seq(Speakers), IsInjective(listed'),
         \A s \in ToSet(listed') :
           \/ s \in ToSet(listed)
           \/ /\ s \in request[r].holds /\ request[r].pc = "starting"
              /\ speaker[s].phase \in {"up", "down"},
         \A t \in Retries : retrier'[t].holds = retrier[t].holds,
         \A s \in Speakers :
           speaker[s].phase \in Alive /\ (s \in request[r].holds \/ s \in ToSet(listed)) =>
             s \in ToSet(listed')
  PROVE  /\ Newest' /\ Brought' /\ Uncrossed' /\ Edits'
         /\ \A q \in Requests : request'[q] = IF q = r THEN Idle ELSE request[q]
         /\ \A s \in Known' : s \in Speakers /\ speaker'[s] = speaker[s]
<1>0. Shape
  BY DEF Standing
<1>1. Idle.holds = {} /\ Idle.pc = "idle" /\ Idle.kind = "none"
  BY IdleFits
<1>2. /\ \A q \in Requests : request'[q] = IF q = r THEN Idle ELSE request[q]
      /\ \A s \in Known' : s \in Known /\ speaker'[s] = speaker[s]
  BY <1>0, AnswersShape
<1>3. \A s \in Known' : s \in Speakers
  BY <1>0, <1>2, KnownAreUsed
<1>4. \A s \in Speakers : speaker[s].phase \in Alive /\ s \in Known => s \in Known'
  BY <1>2, KnownIs, KnownIsNext
<1>5. Newest'
  <2>1. \A s \in Speakers : speaker'[s] = speaker[s] \/ speaker'[s] = Unused
    BY DEF Dropped
  <2>2. \A s \in Speakers : speaker'[s].phase \in Alive => speaker'[s] = speaker[s]
    BY <2>1 DEF Alive, Unused
  <2>3. QED
    BY <1>4, <2>2, NewestNext DEF Orders, Newest
<1>6. Brought'
  <2>1. \A q \in Requests : request'[q].pc = "starting" => q # r /\ request'[q] = request[q]
    BY <1>1, <1>2
  <2>2. /\ \A q \in Requests : \A s \in request'[q].holds : speaker'[s] = speaker[s]
        /\ \A s \in validator.holds : speaker'[s] = speaker[s]
    BY <1>2, KnownIsNext
  <2>3. QED
    BY <2>1, <2>2 DEF Orders, Brought
<1>7. Uncrossed'
  BY <1>1, <1>2, UncrossedNext DEF Orders
<1>8. Edits'
  BY <1>1, <1>2 DEF Orders, Edits
<1>9. QED
  BY <1>2, <1>3, <1>5, <1>6, <1>7, <1>8

\* What was listed stays at its place.
LEMMA PlacesKept ==
  ASSUME Places, NEW r \in Requests,
         \A q \in Requests : request'[q] = IF q = r THEN Idle ELSE request[q],
         \A i \in DOMAIN listed : i \in DOMAIN listed' /\ listed'[i] = listed[i],
         \A s \in ToSet(listed') : speaker'[s] = speaker[s]
  PROVE  Places'
<1> SUFFICES ASSUME NEW q \in Requests, request'[q].at # 0
             PROVE  /\ request'[q].at \in DOMAIN listed'
                    /\ speaker'[listed'[request'[q].at]].name = request'[q].name
                    /\ speaker'[listed'[request'[q].at]].phase \in Ended
  BY DEF Places
<1>1. request'[q] = request[q]
  BY DEF Idle
<1>2. /\ request[q].at \in DOMAIN listed
      /\ speaker[listed[request[q].at]].name = request[q].name
      /\ speaker[listed[request[q].at]].phase \in Ended
  BY <1>1 DEF Places
<1>3. /\ request[q].at \in DOMAIN listed' /\ listed'[request[q].at] = listed[request[q].at]
      /\ listed'[request[q].at] \in ToSet(listed')
  BY <1>2 DEF ToSet
<1>4. QED
  BY <1>1, <1>2, <1>3

\* HandlerStarted keeps the order (app.py:_start_speakers).
LEMMA HandlerStartedOrders ==
  ASSUME Standing, Orders, Orderly', NEW r \in Requests, request[r].kind \in {"login", "add"},
         request[r].pc = "starting", Done(request[r].holds), Collects(request[r].holds),
         request' = [request EXCEPT ![r] = Idle], UNCHANGED <<app, api, validator, config, used>>,
         speaker' = Dropped(speaker)
  PROVE  Orders'
<1> DEFINE holds == request[r].holds
<1>0. Shape /\ SpeakerShape /\ ValidatorShape /\ RequestShape /\ RetryShape /\ Courses /\ Apart
  BY DEF Standing, Shape
<1>1. /\ holds \in SUBSET Speakers
      /\ \A s \in holds : speaker[s].phase \in Begun /\ s \notin ToSet(listed)
      /\ \A x, y \in holds : speaker[x].name = speaker[y].name => x = y
      /\ \A s \in holds : speaker[s].ver = config[speaker[s].name]
  BY <1>0 DEF RequestShape, RequestRecord, RequestFits, Apart, Orders, Brought
<1>2. /\ \A s \in holds : speaker[s].phase \in Alive => s \in Up(holds)
      /\ \A s \in Up(holds) : s \in holds /\ speaker[s].phase = "up"
  BY DEF Done, Alive, Up
<1>3. Done(holds) /\ Collects(holds)
  OBVIOUS
<1>4. holds = request[r].holds
  OBVIOUS
<1> HIDE DEF holds
<1>5. /\ listed' \in Seq(Speakers) /\ ToSet(listed') = ToSet(listed) \cup Up(holds)
      /\ IsInjective(listed')
      /\ \A u \in Retries : retrier'[u].holds = retrier[u].holds
      /\ \A i \in DOMAIN listed : i \in DOMAIN listed' /\ listed'[i] = listed[i]
  BY <1>0, <1>1, <1>3, CollectsLists
<1>6. /\ Newest' /\ Brought' /\ Uncrossed' /\ Edits'
      /\ \A q \in Requests : request'[q] = IF q = r THEN Idle ELSE request[q]
      /\ \A s \in Known' : s \in Speakers /\ speaker'[s] = speaker[s]
  BY <1>2, <1>4, <1>5, AnswersOrders
<1>7. Unique' /\ Tracked'
  BY <1>1, <1>3, <1>5, <1>6, CollectsOrders
<1>8. Places'
  <2>1. \A s \in ToSet(listed') : speaker'[s] = speaker[s]
    BY <1>6, KnownIsNext
  <2>2. QED
    BY <1>5, <1>6, <2>1, PlacesKept DEF Orders
<1>9. Stopped' /\ Silent'
  <2>1. api # "none" /\ app # "stopped"
    BY DEF Orders, Silent, StartKinds
  <2>2. \A q \in Requests : request[q].kind \notin StopKinds
    BY DEF Orders, Uncrossed, StartKinds, StopKinds
  <2>3. \A q \in Requests : request'[q].kind \notin StopKinds
    BY <1>6, <2>2, IdleFits DEF StopKinds
  <2>4. QED
    BY <2>1, <2>3 DEF Stopped, Silent
<1>10. QED
  BY <1>6, <1>7, <1>8, <1>9 DEF Orders

\* Removed keeps the order (app.py:_on_remove_speaker).
LEMMA RemovedOrders == ASSUME Standing, Orders, NEW r \in Requests, Removed(r) PROVE Orders'
<1>0. Shape /\ SpeakerShape /\ RequestShape
  BY DEF Standing, Shape
<1>1. /\ request' = [request EXCEPT ![r] = Idle] /\ speaker' = Dropped(speaker)
      /\ UNCHANGED <<app, api, listed, validator, config, retrier, retries, used>>
      /\ request[r].kind = "remove" /\ Done(request[r].holds)
  BY DEF Removed, Answered, retryVars, authVars
<1>2. \A s \in request[r].holds : speaker[s].phase \notin Alive
  BY <1>0, <1>1 DEF RequestShape, RequestFits, Done, Alive, Ended
<1>3. /\ Newest' /\ Brought' /\ Uncrossed' /\ Edits'
      /\ \A q \in Requests : request'[q] = IF q = r THEN Idle ELSE request[q]
      /\ \A s \in Known' : s \in Speakers /\ speaker'[s] = speaker[s]
  BY <1>0, <1>1, <1>2, AnswersOrders DEF SpeakerShape
<1>4. \A s \in ToSet(listed) : speaker'[s] = speaker[s]
  BY <1>1, <1>3, KnownIsNext
<1>5. Unique' /\ Tracked'
  BY <1>1, <1>4 DEF Orders, Unique, Tracked
<1>6. Places'
  BY <1>1, <1>3, <1>4, PlacesKept DEF Orders
<1>7. \A q \in Requests : \/ request'[q] = request[q]
                          \/ request'[q].kind = "none"
  BY <1>3, IdleFits
<1>8. Stopped' /\ Silent'
  BY <1>1, <1>7 DEF Orders, Stopped, Silent, NoRetries, StartKinds, StopKinds
<1>9. QED
  BY <1>3, <1>5, <1>6, <1>8 DEF Orders

\* StoppedAll keeps the order (app.py:_stop_speakers).
LEMMA StoppedAllOrders == ASSUME Standing, Orders, NEW r \in Requests, StoppedAll(r) PROVE Orders'
<1>0. Shape /\ SpeakerShape /\ ValidatorShape /\ RequestShape /\ Courses
  BY DEF Standing, Shape
<1>1. /\ request' = [request EXCEPT ![r] = Idle] /\ speaker' = Dropped(speaker)
      /\ listed' = <<>> /\ UNCHANGED <<validator, config, retrier, retries, used>>
      /\ request[r].kind \in StopKinds /\ request[r].pc = "stopping" /\ Done(request[r].holds)
  BY DEF StoppedAll, Finishes, Answered, retryVars
<1>2. listed' \in Seq(Speakers) /\ IsInjective(listed') /\ ToSet(listed') = {}
  BY <1>1 DEF ToSet, IsInjective
<1>3. ToSet(listed) \subseteq request[r].holds /\ NoRetries
  BY <1>1 DEF Orders, Stopped
<1>4. \A s \in request[r].holds : speaker[s].phase \notin Alive
  BY <1>0, <1>1 DEF RequestShape, RequestFits, Done, Alive, Ended
<1>5. /\ Newest' /\ Brought' /\ Uncrossed' /\ Edits'
      /\ \A q \in Requests : request'[q] = IF q = r THEN Idle ELSE request[q]
  BY <1>0, <1>1, <1>2, <1>3, <1>4, AnswersOrders
<1>6. \A q \in Requests : request'[q].kind \notin StartKinds \cup StopKinds
  BY <1>1, <1>5, IdleFits DEF Orders, Uncrossed, StartKinds, StopKinds
<1>7. Unique' /\ Tracked'
  BY <1>1, <1>2 DEF Orders, Unique, Tracked
<1>8. Places'
  <2>1. \A q \in Requests : request'[q].at # 0 =>
          q # r /\ request[q].at # 0 /\ request'[q] = request[q]
    BY <1>5, IdleFits
  <2>2. \A q \in Requests : request[q].at # 0 => request[q].kind = "edit"
    BY <1>0 DEF RequestShape, RequestFits
  <2>3. QED
    BY <1>6, <2>1, <2>2 DEF Places, StartKinds
<1>9. Stopped' /\ Silent'
  <2>1. validator.pc # "starting"
    BY <1>0, <1>1 DEF Courses, ValidatorShape
  <2>2. QED
    BY <1>1, <1>3, <1>6, <2>1 DEF Stopped, Silent, NoRetries
<1>10. QED
  BY <1>5, <1>7, <1>8, <1>9 DEF Orders

\* Edited keeps the order (app.py:_on_edit_speaker).
LEMMA EditedOrders ==
  ASSUME Standing, Orders, Orderly', NEW r \in Requests, Edited(r) PROVE Orders'
<1>0. Shape /\ SpeakerShape /\ RequestShape
  BY DEF Standing, Shape
<1>1. /\ request' = [request EXCEPT ![r] = Idle] /\ speaker' = Dropped(speaker)
      /\ UNCHANGED <<app, api, validator, config, retrier, retries, used>>
      /\ request[r].kind = "edit" /\ request[r].pc = "starting"
  BY DEF Edited, Answered, retryVars, authVars
<1>2. PICK new \in Speakers : EditedIs(r, new)
  BY <1>0, EditedPlaces
<1>3. listed' \in Seq(Speakers) /\ IsInjective(listed')
  BY <1>0, EditedPlaces
<1>4. /\ request[r].holds = {new} /\ speaker[new].phase \in {"up", "down"}
      /\ speaker[new].name = request[r].name /\ new \notin ToSet(listed)
  BY <1>2 DEF EditedIs
<1> DEFINE at == request[r].at
<1>5. \/ /\ at = 0 /\ ToSet(listed') = ToSet(listed) \cup {new}
         /\ \A i \in DOMAIN listed : i \in DOMAIN listed' /\ listed'[i] = listed[i]
         /\ \A s \in ToSet(listed) : speaker[s].name # request[r].name
      \/ /\ at # 0 /\ at \in DOMAIN listed /\ listed' = [listed EXCEPT ![at] = new]
         /\ ToSet(listed') = (ToSet(listed) \ {listed[at]}) \cup {new}
         /\ speaker[listed[at]].name = request[r].name /\ speaker[listed[at]].phase \in Ended
  <2>1. CASE at = 0
    <3>1. new = CHOOSE s \in request[r].holds : TRUE
      BY <1>4
    <3>2. "doubled" \notin Doubled({new})
      BY <2>1, <3>1, OrderlyNextIs DEF Edited
    <3>3. \A s \in ToSet(listed) : speaker[s].name # speaker[new].name
      BY <3>2 DEF Doubled, NamesOf
    <3>4. QED
      BY <1>2, <1>4, <2>1, <3>3 DEF EditedIs
  <2>2. CASE at # 0
    <3>1. /\ at \in DOMAIN listed /\ speaker[listed[at]].name = request[r].name
          /\ speaker[listed[at]].phase \in Ended
      BY <2>2 DEF Orders, Places
    <3>2. QED
      BY <1>2, <2>2, <3>1 DEF EditedIs
  <2>3. QED
    BY <2>1, <2>2
<1>6. /\ Newest' /\ Brought' /\ Uncrossed' /\ Edits'
      /\ \A q \in Requests : request'[q] = IF q = r THEN Idle ELSE request[q]
      /\ \A s \in Known' : s \in Speakers /\ speaker'[s] = speaker[s]
  <2>1. \A s \in Speakers :
          speaker[s].phase \in Alive /\ (s \in request[r].holds \/ s \in ToSet(listed)) =>
            s \in ToSet(listed')
    BY <1>4, <1>5 DEF Alive, Ended
  <2>2. \A s \in ToSet(listed') :
          \/ s \in ToSet(listed)
          \/ /\ s \in request[r].holds /\ request[r].pc = "starting"
             /\ speaker[s].phase \in {"up", "down"}
    BY <1>1, <1>4, <1>5
  <2>3. QED
    BY <1>1, <1>3, <2>1, <2>2, AnswersOrders
<1>7. \A s \in ToSet(listed') : speaker'[s] = speaker[s]
  BY <1>6, KnownIsNext
<1>8. Unique'
  <2>1. \A x, y \in ToSet(listed') : speaker[x].name = speaker[y].name => x = y
    <3>1. CASE at = 0
      BY <1>4, <1>5, <3>1 DEF Orders, Unique
    <3>2. CASE at # 0
      <4>1. \A x \in ToSet(listed) \ {listed[at]} : speaker[x].name # request[r].name
        BY <1>5, <3>2 DEF Orders, Unique, ToSet
      <4>2. QED
        BY <1>4, <1>5, <3>2, <4>1 DEF Orders, Unique
    <3>3. QED
      BY <3>1, <3>2
  <2>2. QED
    BY <1>7, <2>1 DEF Unique
<1>9. Tracked'
  BY <1>1 DEF Orders, Tracked
<1>10. Places'
  <2>1. CASE at = 0
    BY <1>5, <1>6, <1>7, <2>1, PlacesKept DEF Orders
  <2>2. CASE at # 0
    <3> SUFFICES ASSUME NEW q \in Requests, request'[q].at # 0
                 PROVE  /\ request'[q].at \in DOMAIN listed'
                        /\ speaker'[listed'[request'[q].at]].name = request'[q].name
                        /\ speaker'[listed'[request'[q].at]].phase \in Ended
      BY DEF Places
    <3>1. q # r /\ request'[q] = request[q]
      BY <1>6, IdleFits
    <3>2. /\ request[q].at \in DOMAIN listed
          /\ speaker[listed[request[q].at]].name = request[q].name
          /\ speaker[listed[request[q].at]].phase \in Ended
      BY <3>1 DEF Orders, Places
    <3>3. request[q].kind = "edit"
      BY <1>0, <3>1 DEF RequestShape, RequestFits
    <3>4. request[q].name # request[r].name
      BY <1>1, <3>1, <3>3 DEF Orders, Edits
    <3>5. request[q].at # at
      BY <1>5, <2>2, <3>2, <3>4
    <3>6. /\ request[q].at \in DOMAIN listed' /\ listed'[request[q].at] = listed[request[q].at]
          /\ listed'[request[q].at] \in ToSet(listed')
      BY <1>5, <2>2, <3>2, <3>5 DEF ToSet
    <3>7. QED
      BY <1>7, <3>1, <3>2, <3>6
  <2>3. QED
    BY <2>1, <2>2
<1>11. Stopped' /\ Silent'
  <2>1. api # "none" /\ app # "stopped"
    BY <1>1 DEF Orders, Silent, StartKinds
  <2>2. \A q \in Requests : request[q].kind \notin StopKinds
    BY <1>1 DEF Orders, Uncrossed, StartKinds, StopKinds
  <2>3. \A q \in Requests : request'[q].kind \notin StopKinds
    BY <1>6, <2>2, IdleFits DEF StopKinds
  <2>4. QED
    BY <1>1, <2>1, <2>3 DEF Stopped, Silent
<1>12. QED
  BY <1>6, <1>8, <1>9, <1>10, <1>11 DEF Orders

\* Cancelled tasks hold what they held, and those that go on are the others.
LEMMA CancelTracks ==
  ASSUME Standing, Orders, NEW names \in SUBSET Names, CancelRetries(names)
  PROVE  /\ \A t \in Retries : retrier'[t].holds = retrier[t].holds
         /\ \A t \in Retries : retrier'[t].pc \in {"sleep", "starting"} =>
              /\ retrier'[t] = retrier[t] /\ retrier[t].name \notin names
              /\ retries'[retrier[t].name] = t
         /\ NoRetries \/ names = Names => NoRetries'
         /\ \A t \in Retries : retrier[t].pc = "starting" /\ retrier[t].name \in names =>
              t \in Cancelled(names)
<1>0. RetryShape
  BY DEF Standing, Shape
<1>1. /\ retries' = [n \in Names |-> IF n \in names THEN None ELSE retries[n]]
      /\ retrier' = [t \in Retries |->
           IF t \notin Cancelled(names) THEN retrier[t]
           ELSE IF retrier[t].pc = "sleep" THEN NoRetry ELSE [retrier[t] EXCEPT !.pc = "stopping"]]
  BY DEF CancelRetries
<1>2. NoRetry.holds = {} /\ NoRetry.pc = "idle"
  BY DEF NoRetry
<1>3. \A t \in Retries : /\ retrier[t].pc = "sleep" => retrier[t].holds = {}
                         /\ retrier[t] \in RetryRecord
                         /\ retrier[t].pc # "idle" => retrier[t].name \in Names
  BY <1>0 DEF RetryShape, RetryFits
<1>4. \A t \in Retries : /\ [retrier[t] EXCEPT !.pc = "stopping"].holds = retrier[t].holds
                         /\ [retrier[t] EXCEPT !.pc = "stopping"].pc = "stopping"
  BY <1>3 DEF RetryRecord
<1>5. \A t \in Retries :
        \/ t \notin Cancelled(names) /\ retrier'[t] = retrier[t]
        \/ retrier[t].pc = "sleep" /\ retrier'[t].holds = {} /\ retrier'[t].pc = "idle"
        \/ retrier'[t].holds = retrier[t].holds /\ retrier'[t].pc = "stopping"
  BY <1>1, <1>2, <1>4
<1>6. \A t \in Retries : retrier[t].pc \in {"sleep", "starting"} /\ retrier[t].name \in names =>
        t \in Cancelled(names)
  BY LifecycleAssumption DEF Orders, Tracked, Cancelled
<1>7. \A t \in Retries : retrier'[t].pc \in {"sleep", "starting"} =>
        /\ retrier'[t] = retrier[t] /\ retrier[t].name \notin names
        /\ retries'[retrier[t].name] = t
  <2> SUFFICES ASSUME NEW t \in Retries, retrier'[t].pc \in {"sleep", "starting"}
               PROVE  /\ retrier'[t] = retrier[t] /\ retrier[t].name \notin names
                      /\ retries'[retrier[t].name] = t
    OBVIOUS
  <2>1. t \notin Cancelled(names) /\ retrier'[t] = retrier[t]
    BY <1>5
  <2>2. retrier[t].name \in Names \ names /\ retries[retrier[t].name] = t
    BY <1>3, <1>6, <2>1 DEF Orders, Tracked
  <2>3. QED
    BY <1>1, <2>1, <2>2
<1>8. NoRetries \/ names = Names => NoRetries'
  <2>1. \A t \in Retries : retrier'[t].pc \in {"idle", "sleep", "starting", "stopping"}
    BY <1>3, <1>5 DEF RetryRecord
  <2>2. QED
    BY <1>3, <1>7, <2>1 DEF NoRetries
<1>9. QED
  BY <1>3, <1>5, <1>6, <1>7, <1>8

\* Speakers that are told to stop keep their names and versions.
LEMMA StoppingKeeps ==
  ASSUME Shape, NEW all \in SUBSET Known
  PROVE  \A s \in Speakers :
           /\ s \notin all => Stopping(all)[s] = speaker[s]
           /\ s \in all => Stopping(all)[s].phase = "stopping"
           /\ Stopping(all)[s].name = speaker[s].name /\ Stopping(all)[s].ver = speaker[s].ver
           /\ speaker[s].phase \in Ended => Stopping(all)[s].phase \in Ended
<1>1. /\ Slowed(Stopping(all))
      /\ \A s \in Speakers : /\ s \notin all => Stopping(all)[s] = speaker[s]
                             /\ s \in all => Stopping(all)[s].phase = "stopping"
  BY StoppingSlows
<1>2. PICK f : f = Stopping(all)
  OBVIOUS
<1>3. \A s \in Speakers : f[s].name = speaker[s].name /\ f[s].ver = speaker[s].ver
  BY <1>1, <1>2 DEF Slowed
<1>4. \A s \in Speakers : speaker[s].phase \in Ended => f[s].phase \in Ended
  BY <1>1, <1>2 DEF Ended
<1>5. QED
  BY <1>1, <1>2, <1>3, <1>4

\* StopsAll keeps the order (app.py:_stop_speakers).
LEMMA StopsAllOrders == ASSUME Standing, Orders, NEW r \in Requests, StopsAll(r) PROVE Orders'
<1>0. Shape /\ SpeakerShape /\ ValidatorShape /\ RequestShape /\ RetryShape /\ Apart /\ Courses
  BY DEF Standing, Shape
<1> DEFINE old == ToSet(listed)
           all == old \cup Halted(Cancelled(Names))
           rec == IF listed = <<>> THEN Idle
                  ELSE [request[r] EXCEPT !.pc = "stopping", !.holds = ToSet(listed)]
<1>1. request[r].kind \in StopKinds /\ request[r].pc = "cancelling"
  BY DEF StopsAll, Resumes
<1>2. /\ CancelRetries(Names) /\ speaker' = Stopping(all)
      /\ UNCHANGED <<validator, config, listed, used>>
      /\ request' = [request EXCEPT ![r] = rec]
      /\ listed # <<>> => UNCHANGED <<app, api>>
  <2>1. CASE listed = <<>>
    BY <2>1 DEF StopsAll, Finishes, Answered
  <2>2. CASE listed # <<>>
    BY <1>0, <2>2 DEF StopsAll, authVars, RequestShape
  <2>3. QED
    BY <2>1, <2>2
<1>3. request[r].holds = {} /\ request[r] \in RequestRecord /\ request[r].at = 0
  BY <1>0, <1>1 DEF RequestShape, RequestFits, StopKinds
<1>4. /\ rec.pc \in {"idle", "stopping"} /\ rec.kind \in {"none", request[r].kind} /\ rec.at = 0
      /\ rec.kind # "none" => rec.holds = ToSet(listed)
  <2>1. CASE listed = <<>>
    BY <2>1, IdleFits
  <2>2. CASE listed # <<>>
    BY <1>3, <2>2 DEF RequestRecord
  <2>3. QED
    BY <2>1, <2>2
<1> HIDE DEF rec
<1>5. \A q \in Requests : request'[q] = IF q = r THEN rec ELSE request[q]
  BY <1>0, <1>2, KindsNext
<1>6. Names \in SUBSET Names /\ Halted(Cancelled(Names)) \in SUBSET Known /\ old \in SUBSET Known
  BY <1>0, HaltedApart, KnownIs
<1>7. all \in SUBSET Known
  BY <1>6
<1> HIDE DEF all, old
<1>8. \A s \in Speakers :
        /\ s \notin all => speaker'[s] = speaker[s]
        /\ s \in all => speaker'[s].phase = "stopping"
        /\ speaker'[s].name = speaker[s].name /\ speaker'[s].ver = speaker[s].ver
  BY <1>0, <1>2, <1>7, StoppingKeeps
<1>9. /\ \A t \in Retries : retrier'[t].holds = retrier[t].holds
      /\ \A t \in Retries : retrier'[t].pc \in {"sleep", "starting"} =>
           retrier'[t] = retrier[t] /\ retries'[retrier[t].name] = t
      /\ NoRetries'
  BY <1>2, <1>6, CancelTracks
<1>10. \A s : s \in Known => s \in Known'
  BY <1>2, <1>3, <1>5, <1>9, KnownIs, KnownIsNext
<1>11. Newest'
  <2>1. \A s \in Speakers : speaker'[s].phase \in Alive => speaker[s].phase \in Alive
    BY <1>8 DEF Alive
  <2>2. QED
    BY <1>2, <1>8, <1>10, <2>1, NewestNext DEF Orders, Newest
<1>12. Unique'
  <2>1. \A s \in ToSet(listed) : s \in Speakers
    BY <1>0 DEF SpeakerShape, ToSet
  <2>2. QED
    BY <1>2, <1>8, <2>1 DEF Orders, Unique
<1>13. Tracked'
  BY <1>2, <1>9 DEF Orders, Tracked
<1>14. Brought'
  <2>1. /\ \A s \in validator.holds : s \in Speakers
        /\ \A q \in Requests : \A s \in request[q].holds : s \in Speakers
    BY <1>0 DEF ValidatorShape, RequestShape, RequestRecord
  <2>2. \A q \in Requests : request'[q].pc = "starting" => request'[q] = request[q]
    BY <1>4, <1>5
  <2>3. QED
    BY <1>2, <1>8, <2>1, <2>2 DEF Orders, Brought
<1>15. Uncrossed'
  BY <1>4, <1>5, UncrossedNext DEF Orders
<1>16. \A q \in Requests : /\ request'[q].kind \notin StartKinds
                           /\ request'[q].kind \in StopKinds => q = r
  BY <1>1, <1>4, <1>5 DEF Orders, Uncrossed, StartKinds, StopKinds
<1>17. Edits'
  BY <1>16 DEF Edits, StartKinds
<1>18. Places'
  <2>1. \A q \in Requests : request[q].at # 0 => request[q].kind = "edit"
    BY <1>0 DEF RequestShape, RequestFits
  <2>2. \A q \in Requests : request'[q].at # 0 => request'[q].kind = "edit"
    BY <1>4, <1>5, <2>1
  <2>3. QED
    BY <1>16, <2>2 DEF Places, StartKinds
<1>19. Stopped'
  <2>1. request'[r].kind \in StopKinds => request'[r].holds = ToSet(listed)
    BY <1>4, <1>5 DEF StopKinds
  <2>2. QED
    BY <1>2, <1>9, <1>16, <2>1 DEF Stopped
<1>20. Silent'
  <2>1. validator.pc # "starting"
    BY <1>0, <1>1 DEF Courses, ValidatorShape
  <2>2. CASE listed = <<>>
    BY <1>2, <1>9, <1>16, <2>1, <2>2 DEF Silent
  <2>3. CASE listed # <<>>
    <3>1. api # "none" /\ app # "stopped"
      BY <2>3 DEF Orders, Silent
    <3>2. QED
      BY <1>2, <2>3, <3>1 DEF Silent
  <2>4. QED
    BY <2>2, <2>3
<1>21. QED
  BY <1>11, <1>12, <1>13, <1>14, <1>15, <1>17, <1>18, <1>19, <1>20 DEF Orders

\* Nobody starts a speaker of the name n but a retry, so all of that name that run are those
\* that the change stops.
LEMMA ChangeStops ==
  ASSUME Standing, Orders, NEW n \in Names, ~Awaited(n)
  PROVE  /\ \A s \in Speakers : speaker[s].phase \in Alive /\ speaker[s].name = n =>
              s \in OldOf(n) \/ s \in Halted(Cancelled({n}))
         /\ \A s \in validator.holds : speaker[s].name # n
         /\ \A q \in Requests : request[q].pc = "starting" =>
              \A s \in request[q].holds : speaker[s].name # n
         /\ \A q \in Requests : request[q].kind \in StartKinds => request[q].name # n
         /\ OldOf(n) \cup Halted(Cancelled({n})) \in SUBSET Known
<1>0. Shape /\ SpeakerShape /\ ValidatorShape /\ RequestShape /\ RetryShape
  BY DEF Standing, Shape
<1>1. {n} \in SUBSET Names
  OBVIOUS
<1>2. /\ \A q \in Requests : request[q].kind \in StartKinds => request[q].name # n
      /\ \A s \in validator.holds : speaker[s].name # n
      /\ \A q \in Requests : request[q].kind \in StartKinds =>
           \A s \in request[q].holds : speaker[s].name # n
  BY DEF Awaited, Under
<1>3. \A q \in Requests : request[q].pc = "starting" => request[q].kind \in StartKinds
  BY <1>0 DEF RequestShape, RequestRecord, RequestFits, StartKinds, StopKinds
<1>4. /\ OldOf(n) \in SUBSET ToSet(listed) /\ Halted(Cancelled({n})) \in SUBSET Known
      /\ OldOf(n) = {} <=> PlaceOf(n) = 0
      /\ PlaceOf(n) # 0 => /\ PlaceOf(n) \in DOMAIN listed
                           /\ OldOf(n) = {listed[PlaceOf(n)]}
                           /\ speaker[listed[PlaceOf(n)]].name = n
      /\ PlaceOf(n) = 0 => \A i \in DOMAIN listed : speaker[listed[i]].name # n
  BY <1>0, <1>1, OldIs, PlaceIs, HaltedApart
<1>5. \A s \in ToSet(listed) : speaker[s].name = n => s \in OldOf(n)
  BY <1>4 DEF Orders, Unique, ToSet
<1>6. \A t \in Retries : retrier[t].pc = "starting" /\ retrier[t].name = n =>
        t \in Cancelled({n})
  BY LifecycleAssumption DEF Orders, Tracked, Cancelled
<1>7. ASSUME NEW s \in Speakers, speaker[s].phase \in Alive, speaker[s].name = n
      PROVE  s \in OldOf(n) \/ s \in Halted(Cancelled({n}))
  <2>1. s \in Known
    BY <1>7 DEF Orders, Newest
  <2>2. CASE s \in ToSet(listed)
    BY <1>5, <1>7, <2>2
  <2>3. s \notin validator.holds
    BY <1>2, <1>7
  <2>4. \A q \in Requests : s \notin request[q].holds
    <3> SUFFICES ASSUME NEW q \in Requests, s \in request[q].holds PROVE FALSE
      OBVIOUS
    <3>1. request[q].pc = "starting"
      BY <1>0, <1>7 DEF RequestShape, RequestRecord, RequestFits, Alive, Ended
    <3>2. QED
      BY <1>2, <1>3, <1>7, <3>1
  <2>5. CASE \E t \in Retries : s \in retrier[t].holds
    <3>1. PICK t \in Retries : s \in retrier[t].holds
      BY <2>5
    <3>2. retrier[t].pc = "starting" /\ retrier[t].name = n
      BY <1>0, <1>7, <3>1 DEF RetryShape, RetryRecord, RetryFits, Alive, Ended
    <3>3. QED
      BY <1>6, <3>1, <3>2, HaltedIs
  <2>6. QED
    BY <2>1, <2>2, <2>3, <2>4, <2>5, KnownIs
<1>8. OldOf(n) \cup Halted(Cancelled({n})) \in SUBSET Known
  BY <1>4, KnownIs
<1>9. QED
  BY <1>2, <1>3, <1>7, <1>8

\* A handler changes what is configured for a name: the speakers that go on have other names.
LEMMA ChangeOrders ==
  ASSUME Standing, Orders, NEW n \in Names, ~Awaited(n), CancelRetries({n}),
         UNCHANGED <<app, api, validator>>, NEW r \in Requests, request[r].kind = "none",
         NEW rec, \A q \in Requests : request'[q] = IF q = r THEN rec ELSE request[q],
         \A m \in Names : m # n => config'[m] = config[m],
         \A s \in Speakers : s \in Known =>
           /\ speaker'[s] = Stopping(OldOf(n) \cup Halted(Cancelled({n})))[s]
           /\ speaker[s].phase \in Alive => s \in Known',
         \A s \in Speakers : s \notin Known =>
           \/ speaker'[s] = speaker[s]
           \/ s \in Known' /\ speaker'[s].ver = config'[speaker'[s].name],
         ToSet(listed') \subseteq ToSet(listed),
         rec.pc = "starting" =>
           \A s \in rec.holds : speaker'[s].ver = config'[speaker'[s].name]
  PROVE  /\ Newest' /\ Unique' /\ Tracked' /\ Brought' /\ (NoRetries => NoRetries')
         /\ \A q \in Requests : request[q].kind = "edit" =>
              /\ q # r /\ request'[q] = request[q] /\ request[q].name # n
              /\ request[q].ver = config'[request[q].name]
         /\ \A s \in Known :
              /\ s \in Speakers /\ speaker'[s].name = speaker[s].name
              /\ speaker[s].phase \in Ended => speaker'[s].phase \in Ended
              /\ s \in OldOf(n) => speaker'[s].phase = "stopping"
<1> DEFINE all == OldOf(n) \cup Halted(Cancelled({n}))
<1>0. Shape /\ SpeakerShape /\ ValidatorShape /\ RequestShape /\ RetryShape
  BY DEF Standing, Shape
<1>1. /\ \A s \in Speakers : speaker[s].phase \in Alive /\ speaker[s].name = n => s \in all
      /\ \A s \in validator.holds : speaker[s].name # n
      /\ \A q \in Requests : request[q].pc = "starting" =>
           \A s \in request[q].holds : speaker[s].name # n
      /\ \A q \in Requests : request[q].kind \in StartKinds => request[q].name # n
      /\ all \in SUBSET Known
  BY ChangeStops
<1>2. \A s \in OldOf(n) : s \in all
  OBVIOUS
<1>3. \A s \in Speakers : s \in Known => speaker'[s] = Stopping(all)[s]
  OBVIOUS
<1> HIDE DEF all
<1>4. \A s \in Speakers :
        /\ s \notin all => Stopping(all)[s] = speaker[s]
        /\ s \in all => Stopping(all)[s].phase = "stopping"
        /\ Stopping(all)[s].name = speaker[s].name /\ Stopping(all)[s].ver = speaker[s].ver
        /\ speaker[s].phase \in Ended => Stopping(all)[s].phase \in Ended
  BY <1>0, <1>1, StoppingKeeps
<1>5. \A s \in Known :
        /\ s \in Speakers /\ speaker'[s].name = speaker[s].name /\ speaker'[s].ver = speaker[s].ver
        /\ speaker[s].phase \in Ended => speaker'[s].phase \in Ended
        /\ s \in all => speaker'[s].phase = "stopping"
        /\ s \notin all => speaker'[s] = speaker[s]
        /\ speaker[s].phase # "unused" /\ speaker[s].name \in Names
  <2>1. \A s \in Known : s \in Speakers /\ speaker[s].phase # "unused"
    BY <1>0, KnownAreUsed
  <2>2. QED
    BY <1>0, <1>3, <1>4, <2>1 DEF SpeakerShape
<1>6. Newest'
  <2> SUFFICES ASSUME NEW s \in Speakers, speaker'[s].phase \in Alive
               PROVE  s \in Known' /\ speaker'[s].ver = config'[speaker'[s].name]
    BY DEF Newest
  <2>1. CASE s \notin Known
    <3>1. speaker'[s] # speaker[s]
      BY <2>1 DEF Orders, Newest
    <3>2. QED
      BY <2>1, <3>1
  <2>2. CASE s \in Known
    <3>1. s \notin all /\ speaker'[s] = speaker[s] /\ speaker[s].phase \in Alive
      BY <1>5, <2>2 DEF Alive
    <3>2. speaker[s].name \in Names /\ speaker[s].name # n
      BY <1>1, <1>5, <2>2, <3>1
    <3>3. config'[speaker[s].name] = config[speaker[s].name]
      BY <3>2
    <3>4. QED
      BY <2>2, <3>1, <3>3 DEF Orders, Newest
  <2>3. QED
    BY <2>1, <2>2
<1>7. Unique'
  <2>1. \A s \in ToSet(listed) : s \in Known
    BY KnownIs
  <2>2. QED
    BY <1>5, <2>1 DEF Orders, Unique
<1>8. /\ \A t \in Retries : retrier'[t].pc \in {"sleep", "starting"} =>
           /\ retrier'[t] = retrier[t] /\ retrier[t].name # n
           /\ retries'[retrier[t].name] = t
      /\ NoRetries => NoRetries'
  <2>1. {n} \in SUBSET Names
    OBVIOUS
  <2>2. QED
    BY <2>1, CancelTracks
<1>9. Tracked'
  <2> SUFFICES ASSUME NEW t \in Retries, retrier'[t].pc \in {"sleep", "starting"}
               PROVE  /\ retries'[retrier'[t].name] = t
                      /\ retrier'[t].ver = config'[retrier'[t].name]
    BY DEF Tracked
  <2>1. retrier'[t] = retrier[t] /\ retrier[t].name # n /\ retries'[retrier[t].name] = t
    BY <1>8
  <2>2. retrier[t].name \in Names
    BY <1>0, <2>1 DEF RetryShape, RetryFits
  <2>3. QED
    BY <2>1, <2>2 DEF Orders, Tracked
<1>10. Brought'
  <2>1. /\ \A s \in validator.holds : s \in Known
        /\ \A q \in Requests : \A s \in request[q].holds : s \in Known
    BY KnownIs
  <2>2. validator.pc = "starting" =>
          \A s \in validator.holds : speaker'[s].ver = config'[speaker'[s].name]
    BY <1>1, <1>5, <2>1 DEF Orders, Brought
  <2>3. \A q \in Requests : q # r /\ request[q].pc = "starting" =>
          \A s \in request[q].holds : speaker'[s].ver = config'[speaker'[s].name]
    BY <1>1, <1>5, <2>1 DEF Orders, Brought
  <2>4. QED
    BY <2>2, <2>3 DEF Brought
<1>11. \A q \in Requests : request[q].kind = "edit" =>
         /\ q # r /\ request'[q] = request[q] /\ request[q].name # n
         /\ request[q].ver = config'[request[q].name]
  <2> SUFFICES ASSUME NEW q \in Requests, request[q].kind = "edit"
               PROVE  /\ q # r /\ request'[q] = request[q] /\ request[q].name # n
                      /\ request[q].ver = config'[request[q].name]
    OBVIOUS
  <2>1. q # r /\ request'[q] = request[q] /\ request[q].name # n
    BY <1>1 DEF StartKinds
  <2>2. request[q].name \in Names
    BY <1>0 DEF RequestShape, RequestFits
  <2>3. QED
    BY <2>1, <2>2 DEF Orders, Edits
<1>12. QED
  BY <1>2, <1>5, <1>6, <1>7, <1>8, <1>9, <1>10, <1>11

\* RemoveSpeaker keeps the order (app.py:_on_remove_speaker).
LEMMA RemoveSpeakerOrders ==
  ASSUME Standing, Orders, Orderly', NEW r \in Requests, NEW n \in Names, RemoveSpeaker(r, n)
  PROVE  Orders'
<1>0. Shape /\ SpeakerShape /\ ValidatorShape /\ RequestShape /\ RetryShape
  BY DEF Standing, Shape
<1> DEFINE old == OldOf(n)
           all == old \cup Halted(Cancelled({n}))
           rec == [Idle EXCEPT !.kind = "remove", !.name = n, !.pc = "stopping", !.holds = old]
<1>1. /\ Accepts(r, "remove") /\ config' = [config EXCEPT ![n] = 0] /\ CancelRetries({n})
      /\ listed' = (IF old = {} THEN listed ELSE RemoveAt(listed, PlaceOf(n)))
      /\ speaker' = Stopping(all)
      /\ request' = [request EXCEPT ![r] = rec] /\ UNCHANGED <<app, api, validator>>
      /\ "crossed" \notin Crosses("remove", n)
      /\ old # {} => \A o \in Requests : request[o].at = 0
  BY OrderlyNextIs DEF RemoveSpeaker, Handles, authVars, OldOf
<1>2. ~Awaited(n)
  BY <1>1, CrossesNot
<1>3. /\ old \in SUBSET ToSet(listed) /\ (old = {} <=> PlaceOf(n) = 0)
      /\ PlaceOf(n) # 0 => PlaceOf(n) \in DOMAIN listed /\ old = {listed[PlaceOf(n)]}
  BY <1>0, OldIs
<1>4. ToSet(listed') \subseteq ToSet(listed) /\ ToSet(listed) \subseteq ToSet(listed') \cup old
  <2>1. CASE old = {}
    BY <1>1, <2>1
  <2>2. CASE old # {}
    <3>1. ToSet(RemoveAt(listed, PlaceOf(n))) = ToSet(listed) \ {listed[PlaceOf(n)]}
      BY <1>0, <1>3, <2>2, Shortened DEF SpeakerShape
    <3>2. QED
      BY <1>1, <1>3, <2>2, <3>1
  <2>3. QED
    BY <2>1, <2>2
<1>5. rec.kind = "remove" /\ rec.pc = "stopping" /\ rec.holds = old /\ rec.at = 0
  BY DEF Idle
<1> HIDE DEF rec
<1>6. \A q \in Requests : request'[q] = IF q = r THEN rec ELSE request[q]
  BY <1>0, <1>1, KindsNext
<1>7. request[r].kind = "none" /\ request[r].holds = {}
  BY <1>0, <1>1, AcceptsFree
<1>8. \A s \in Known : s \in Known'
  <2>1. {n} \in SUBSET Names
    OBVIOUS
  <2>2. \A t \in Retries : retrier'[t].holds = retrier[t].holds
    BY <1>1, <2>1, CancelTracks
  <2>3. QED
    BY <1>1, <1>4, <1>5, <1>6, <1>7, <2>2, KnownIs, KnownIsNext
<1>9. \A s \in Speakers : s \notin Known => speaker'[s] = speaker[s]
  BY <1>0, <1>1, <1>2, ChangeStops, StoppingKeeps
<1>10. \A m \in Names : m # n => config'[m] = config[m]
  BY <1>0, <1>1 DEF AppShape
<1>11. /\ Newest' /\ Unique' /\ Tracked' /\ Brought' /\ (NoRetries => NoRetries')
       /\ \A q \in Requests : request[q].kind = "edit" =>
            /\ q # r /\ request'[q] = request[q] /\ request[q].name # n
            /\ request[q].ver = config'[request[q].name]
       /\ \A s \in Known :
            /\ s \in Speakers /\ speaker'[s].name = speaker[s].name
            /\ speaker[s].phase \in Ended => speaker'[s].phase \in Ended
            /\ s \in old => speaker'[s].phase = "stopping"
  <2>1. \A s \in Speakers : s \in Known =>
          /\ speaker'[s] = Stopping(OldOf(n) \cup Halted(Cancelled({n})))[s]
          /\ speaker[s].phase \in Alive => s \in Known'
    BY <1>1, <1>8
  <2>2. \A s \in Speakers : s \notin Known =>
          \/ speaker'[s] = speaker[s]
          \/ s \in Known' /\ speaker'[s].ver = config'[speaker'[s].name]
    BY <1>9
  <2>3. rec.pc # "starting"
    BY <1>5
  <2>4. CancelRetries({n}) /\ UNCHANGED <<app, api, validator>>
    BY <1>1
  <2>5. QED
    BY <1>2, <1>4, <1>6, <1>7, <1>10, <2>1, <2>2, <2>3, <2>4, ChangeOrders
<1>12. Uncrossed'
  BY <1>5, <1>6, UncrossedNext DEF Orders
<1>13. Edits'
  <2>1. \A q \in Requests : request'[q].kind = "edit" => request[q].kind = "edit"
    BY <1>5, <1>6
  <2>2. QED
    BY <1>11, <2>1 DEF Orders, Edits
<1>14. Places'
  <2> SUFFICES ASSUME NEW q \in Requests, request'[q].at # 0
               PROVE  /\ request'[q].at \in DOMAIN listed'
                      /\ speaker'[listed'[request'[q].at]].name = request'[q].name
                      /\ speaker'[listed'[request'[q].at]].phase \in Ended
    BY DEF Places
  <2>1. request'[q] = request[q]
    BY <1>5, <1>6
  <2>2. listed' = listed
    BY <1>1, <2>1
  <2>3. /\ request[q].at \in DOMAIN listed
        /\ speaker[listed[request[q].at]].name = request[q].name
        /\ speaker[listed[request[q].at]].phase \in Ended
    BY <2>1 DEF Orders, Places
  <2>4. listed[request[q].at] \in Known
    BY <2>3, KnownIs DEF ToSet
  <2>5. QED
    BY <1>11, <2>1, <2>2, <2>3, <2>4
<1>15. Stopped'
  <2>1. \A q \in Requests : request'[q].kind \in StopKinds => request'[q] = request[q]
    BY <1>5, <1>6 DEF StopKinds
  <2>2. QED
    BY <1>4, <1>11, <2>1 DEF Orders, Stopped
<1>16. Silent'
  <2>1. listed = <<>> => listed' = <<>>
    BY <1>1, <1>3
  <2>2. \A q \in Requests : request'[q].kind \in StartKinds => request'[q] = request[q]
    BY <1>5, <1>6 DEF StartKinds
  <2>3. QED
    BY <1>1, <1>11, <2>1, <2>2 DEF Orders, Silent
<1>17. QED
  BY <1>11, <1>12, <1>13, <1>14, <1>15, <1>16 DEF Orders

\* An edit starts one speaker, from the configuration that is the newest.
LEMMA RestartsIs ==
  ASSUME Shape, NEW r \in Requests, NEW n \in Names, NEW ver \in Version \ {0}, NEW at \in Nat,
         NEW f, Slowed(f), Restarts(r, n, ver, at, f), api # "none", UNCHANGED listed
  PROVE  \E s \in Speakers, rec \in RequestRecord :
           /\ rec.kind = "edit" /\ rec.pc = "starting" /\ rec.name = n /\ rec.ver = ver
           /\ rec.holds = {s} /\ rec.at = at
           /\ \A q \in Requests : request'[q] = IF q = r THEN rec ELSE request[q]
           /\ s \notin Known /\ \A o \in Speakers : o # s => speaker'[o] = f[o]
           /\ speaker'[s].name = n /\ speaker'[s].ver = ver
<1> DEFINE s == NewFor({n})[n]
           version == [m \in {n} |-> ver]
           rec == [kind |-> "edit", pc |-> "starting", name |-> n, ver |-> ver,
                   holds |-> {s}, at |-> at, waits |-> FALSE]
<1>1. /\ Enough({n}) /\ speaker' = Starting(f, NewFor({n}), version)
      /\ request' = [request EXCEPT ![r] = rec]
  BY DEF Restarts
<1>2. version[n] = ver
  OBVIOUS
<1> HIDE DEF version
<1>3. RisenOne(n, f, version)
  BY <1>1, <1>2, RaiseOne
<1>4. /\ s \in Speakers /\ s \notin Known /\ \A o \in Speakers : o # s => speaker'[o] = f[o]
      /\ speaker'[s].name = n /\ speaker'[s].ver = ver
  BY <1>2, <1>3 DEF RisenOne
<1> HIDE DEF s
<1>5. /\ rec.kind = "edit" /\ rec.pc = "starting" /\ rec.name = n /\ rec.ver = ver
      /\ rec.holds = {s} /\ rec.at = at
  OBVIOUS
<1>6. rec \in RequestRecord
  <2>1. {s} \in SUBSET Speakers /\ ver \in Version
    BY <1>4
  <2>2. QED
    BY <2>1 DEF RequestRecord
<1> HIDE DEF rec
<1>7. \A q \in Requests : request'[q] = IF q = r THEN rec ELSE request[q]
  BY <1>1, KindsNext DEF Shape
<1>8. QED
  BY <1>4, <1>5, <1>6, <1>7

\* EditStopped keeps the order (app.py:_on_edit_speaker).
LEMMA EditStoppedOrders == ASSUME Standing, Orders, NEW r \in Requests, EditStopped(r) PROVE Orders'
<1>0. Shape /\ SpeakerShape /\ RequestShape
  BY DEF Standing, Shape
<1> DEFINE n == request[r].name
           ver == request[r].ver
           at == request[r].at
<1>1. /\ request[r].kind = "edit" /\ request[r].pc = "stopping" /\ Done(request[r].holds)
      /\ Restarts(r, n, ver, at, speaker)
      /\ UNCHANGED <<app, api, validator, config, listed, retrier, retries, used>>
  BY DEF EditStopped, authVars, retryVars
<1>2. n \in Names /\ ver \in Version \ {0} /\ at \in Nat
  BY <1>0, <1>1 DEF RequestShape, RequestRecord, RequestFits
<1>3. api # "none" /\ app # "stopped"
  BY <1>1 DEF Orders, Silent, StartKinds
<1>4. ver = config[n]
  BY <1>1 DEF Orders, Edits
<1>5. Slowed(speaker)
  BY <1>0, SpeakersSlow
<1> HIDE DEF n, ver, at
<1>6. PICK s \in Speakers, rec \in RequestRecord :
        /\ rec.kind = "edit" /\ rec.pc = "starting" /\ rec.name = n /\ rec.ver = ver
        /\ rec.holds = {s} /\ rec.at = at
        /\ \A q \in Requests : request'[q] = IF q = r THEN rec ELSE request[q]
        /\ s \notin Known /\ \A o \in Speakers : o # s => speaker'[o] = speaker[o]
        /\ speaker'[s].name = n /\ speaker'[s].ver = ver
  BY <1>0, <1>1, <1>2, <1>3, <1>5, RestartsIs
<1>7. PICK H : H = {s}
  OBVIOUS
<1>8. \A o \in request[r].holds : speaker[o].phase \notin Alive
  BY <1>0, <1>1 DEF RequestShape, RequestFits, Done, Alive, Ended
<1>9. s \in Known' /\ \A o \in Known : speaker[o].phase \in Alive => o \in Known'
  BY <1>1, <1>6, <1>8, KnownIs, KnownIsNext
<1>10. /\ Newest' /\ Unique'
       /\ \A o \in Known : speaker'[o] = speaker[o]
       /\ \A i \in DOMAIN listed : speaker'[listed[i]] = speaker[listed[i]]
  <2>1. \A o \in H : /\ o \notin Known /\ o \in Known'
                     /\ speaker'[o].ver = config'[speaker'[o].name]
    BY <1>1, <1>4, <1>6, <1>7, <1>9
  <2>2. \A o \in Speakers \ H : speaker'[o] = speaker[o]
    BY <1>6, <1>7
  <2>3. QED
    BY <1>1, <1>9, <2>1, <2>2, RisesOrders
<1>11. Tracked'
  BY <1>1 DEF Orders, Tracked
<1>12. Brought'
  <2>1. /\ \A q \in Requests : \A o \in request[q].holds : o \in Known
        /\ \A o \in validator.holds : o \in Known
    BY KnownIs
  <2>2. \A q \in Requests : q # r /\ request'[q].pc = "starting" =>
          \A o \in request'[q].holds : speaker'[o].ver = config'[speaker'[o].name]
    BY <1>1, <1>6, <1>10, <2>1 DEF Orders, Brought
  <2>3. \A o \in request'[r].holds : speaker'[o].ver = config'[speaker'[o].name]
    BY <1>1, <1>4, <1>6
  <2>4. QED
    BY <1>1, <1>10, <2>1, <2>2, <2>3 DEF Orders, Brought
<1>13. Uncrossed'
  BY <1>1, <1>6, UncrossedNext DEF Orders
<1>14. \A q \in Requests : /\ request'[q].kind = request[q].kind /\ request'[q].at = request[q].at
                           /\ request'[q].kind = "edit" \/ q = r =>
                                /\ request'[q].ver = request[q].ver
                                /\ request'[q].name = request[q].name
                           /\ q # r => request'[q] = request[q]
  BY <1>1, <1>6 DEF n, ver, at
<1>15. Edits'
  <2>1. \A q \in Requests : request'[q].kind = "edit" =>
          /\ request[q].kind = "edit" /\ request'[q].ver = request[q].ver
          /\ request'[q].name = request[q].name
    BY <1>14
  <2>2. QED
    BY <1>1, <2>1 DEF Orders, Edits
<1>16. Places'
  <2> SUFFICES ASSUME NEW q \in Requests, request'[q].at # 0
               PROVE  /\ request'[q].at \in DOMAIN listed'
                      /\ speaker'[listed'[request'[q].at]].name = request'[q].name
                      /\ speaker'[listed'[request'[q].at]].phase \in Ended
    BY DEF Places
  <2>1. request'[q].at = request[q].at /\ request'[q].name = request[q].name
    BY <1>14
  <2>2. /\ request[q].at \in DOMAIN listed
        /\ speaker[listed[request[q].at]].name = request[q].name
        /\ speaker[listed[request[q].at]].phase \in Ended
    BY <2>1 DEF Orders, Places
  <2>3. QED
    BY <1>1, <1>10, <2>1, <2>2
<1>17. Stopped'
  <2>1. \A q \in Requests : request'[q].kind \in StopKinds => q # r /\ request'[q] = request[q]
    BY <1>1, <1>14 DEF StopKinds
  <2>2. QED
    BY <1>1, <2>1 DEF Orders, Stopped, NoRetries
<1>18. Silent'
  BY <1>1, <1>3 DEF Silent
<1>19. QED
  BY <1>10, <1>11, <1>12, <1>13, <1>15, <1>16, <1>17, <1>18 DEF Orders

\* What an edit leaves as it was, once its handler is rec.
LEMMA EditOrders ==
  ASSUME Standing, Orders, NEW r \in Requests, NEW n \in Names, NEW rec, NEW ver,
         Newest', Unique', Tracked', Brought', UNCHANGED <<app, api, validator, listed>>,
         NoRetries => NoRetries', request[r].kind = "none",
         \A q \in Requests : request'[q] = IF q = r THEN rec ELSE request[q],
         \A q \in Requests : request[q].kind \notin StopKinds,
         \A q \in Requests : request[q].kind = "edit" =>
           /\ q # r /\ request'[q] = request[q] /\ request[q].name # n
           /\ request[q].ver = config'[request[q].name],
         \A s \in Known :
           /\ s \in Speakers /\ speaker'[s].name = speaker[s].name
           /\ speaker[s].phase \in Ended => speaker'[s].phase \in Ended,
         \/ rec.kind = "none" /\ rec.at = 0
         \/ /\ rec.kind = "edit" /\ rec.name = n /\ rec.ver = config'[n]
            /\ api # "none" /\ app # "stopped"
            /\ rec.at # 0 => /\ rec.at \in DOMAIN listed
                             /\ speaker'[listed[rec.at]].name = n
                             /\ speaker'[listed[rec.at]].phase \in Ended
  PROVE  Orders'
<1>0. RequestShape
  BY DEF Standing, Shape
<1>1. Uncrossed'
  BY UncrossedNext DEF Orders, StartKinds
<1>2. Edits'
  BY DEF Orders, Edits
<1>3. Places'
  <2> SUFFICES ASSUME NEW q \in Requests, request'[q].at # 0
               PROVE  /\ request'[q].at \in DOMAIN listed'
                      /\ speaker'[listed'[request'[q].at]].name = request'[q].name
                      /\ speaker'[listed'[request'[q].at]].phase \in Ended
    BY DEF Places
  <2>1. CASE q = r
    BY <2>1
  <2>2. CASE q # r
    <3>1. request'[q] = request[q]
      BY <2>2
    <3>2. /\ request[q].at \in DOMAIN listed
          /\ speaker[listed[request[q].at]].name = request[q].name
          /\ speaker[listed[request[q].at]].phase \in Ended
      BY <3>1 DEF Orders, Places
    <3>3. listed[request[q].at] \in Known
      BY <3>2, KnownIs DEF ToSet
    <3>4. QED
      BY <3>1, <3>2, <3>3
  <2>3. QED
    BY <2>1, <2>2
<1>4. Stopped'
  <2>1. \A q \in Requests : request'[q].kind \notin StopKinds
    BY DEF StopKinds
  <2>2. QED
    BY <2>1 DEF Stopped
<1>5. Silent'
  <2>1. CASE rec.kind = "none"
    BY <2>1 DEF Orders, Silent, StartKinds
  <2>2. CASE api # "none" /\ app # "stopped"
    BY <2>2 DEF Silent
  <2>3. QED
    BY <2>1, <2>2
<1>6. QED
  BY <1>1, <1>2, <1>3, <1>4, <1>5 DEF Orders

\* EditSpeaker keeps the order (app.py:_on_edit_speaker).
LEMMA EditSpeakerOrders ==
  ASSUME Standing, Orders, Orderly', NEW r \in Requests, NEW n \in Names, EditSpeaker(r, n)
  PROVE  Orders'
<1>0. Shape /\ AppShape /\ SpeakerShape /\ ValidatorShape /\ RequestShape /\ RetryShape
  BY DEF Standing, Shape
<1> DEFINE at == PlaceOf(n)
           old == OldOf(n)
           halted == Halted(Cancelled({n}))
           ver == config'[n]
           all == old \cup halted
<1>1. /\ Accepts(r, "edit") /\ config' = [config EXCEPT ![n] = used'.request + 1]
      /\ CancelRetries({n}) /\ UNCHANGED <<app, api, validator, listed>>
      /\ old = {} => Restarts(r, n, ver, 0, Stopping(all))
      /\ old # {} => /\ speaker' = Stopping(all)
                     /\ request' = [request EXCEPT ![r] =
                          [kind |-> "edit", pc |-> "stopping", name |-> n, ver |-> ver,
                           holds |-> old, at |-> at, waits |-> FALSE]]
      /\ "crossed" \notin Crosses("edit", n)
  BY OrderlyNextIs DEF EditSpeaker, authVars, OldOf
<1>2. ~Awaited(n) /\ \A q \in Requests : request[q].kind \notin StopKinds
  BY <1>1, CrossesNot DEF StartKinds
<1>3. ver \in Version \ {0} /\ \A m \in Names : m # n => config'[m] = config[m]
  <2>1. used'.request + 1 \in Version \ {0}
    BY <1>0, <1>1, UsesRequest DEF Accepts
  <2>2. QED
    BY <1>0, <1>1, <2>1 DEF AppShape
<1>4. /\ old = {} <=> at = 0
      /\ at # 0 => /\ old = {listed[at]} /\ at \in DOMAIN listed /\ speaker[listed[at]].name = n
      /\ old \in SUBSET ToSet(listed)
  BY <1>0, OldIs
<1>5. request[r].holds = {} /\ request[r].kind = "none" /\ app # "stopped"
  BY <1>0, <1>1, AcceptsFree DEF Accepts
<1>6. all \in SUBSET Known
  BY <1>2, ChangeStops
<1>7. \A t \in Retries : retrier'[t].holds = retrier[t].holds
  <2>1. {n} \in SUBSET Names
    OBVIOUS
  <2>2. QED
    BY <1>1, <2>1, CancelTracks
<1>8. CASE old = {} /\ api = "none"
  <2>1. request' = [request EXCEPT ![r] = Idle] /\ speaker' = Stopping(all)
    BY <1>1, <1>8 DEF Restarts, Answered
  <2>2. PICK rec : rec = Idle
    OBVIOUS
  <2>3. rec.kind = "none" /\ rec.at = 0 /\ rec.holds = {} /\ rec.pc = "idle"
    BY <2>2, IdleFits
  <2>4. \A q \in Requests : request'[q] = IF q = r THEN rec ELSE request[q]
    <3>1. request' = [request EXCEPT ![r] = rec]
      BY <2>1, <2>2
    <3>2. QED
      BY <1>0, <3>1, KindsNext
  <2>5. \A s \in Known : s \in Known'
    BY <1>1, <1>5, <1>7, <2>3, <2>4, KnownIs, KnownIsNext
  <2>6. /\ Newest' /\ Unique' /\ Tracked' /\ Brought' /\ (NoRetries => NoRetries')
        /\ \A q \in Requests : request[q].kind = "edit" =>
             /\ q # r /\ request'[q] = request[q] /\ request[q].name # n
             /\ request[q].ver = config'[request[q].name]
        /\ \A s \in Known :
             /\ s \in Speakers /\ speaker'[s].name = speaker[s].name
             /\ speaker[s].phase \in Ended => speaker'[s].phase \in Ended
    <3>1. \A s \in Speakers : s \in Known =>
            /\ speaker'[s] = Stopping(OldOf(n) \cup Halted(Cancelled({n})))[s]
            /\ speaker[s].phase \in Alive => s \in Known'
      BY <2>1, <2>5
    <3>2. \A s \in Speakers : s \notin Known =>
            \/ speaker'[s] = speaker[s]
            \/ s \in Known' /\ speaker'[s].ver = config'[speaker'[s].name]
      BY <1>0, <1>6, <2>1, StoppingKeeps
    <3>3. CancelRetries({n}) /\ UNCHANGED <<app, api, validator>> /\ rec.pc # "starting"
          /\ ToSet(listed') \subseteq ToSet(listed)
      BY <1>1, <2>3
    <3>4. QED
      BY <1>2, <1>3, <1>5, <2>4, <3>1, <3>2, <3>3, ChangeOrders
  <2>7. QED
    BY <1>1, <1>2, <1>5, <2>3, <2>4, <2>6, EditOrders
<1>9. CASE old # {}
  <2> DEFINE rec == [kind |-> "edit", pc |-> "stopping", name |-> n, ver |-> ver,
                     holds |-> old, at |-> at, waits |-> FALSE]
  <2>1. speaker' = Stopping(all) /\ request' = [request EXCEPT ![r] = rec]
    BY <1>1, <1>9
  <2>2. /\ rec.kind = "edit" /\ rec.pc = "stopping" /\ rec.name = n
        /\ rec.ver = config'[n] /\ rec.holds = old /\ rec.at = at
    OBVIOUS
  <2> HIDE DEF rec
  <2>3. \A q \in Requests : request'[q] = IF q = r THEN rec ELSE request[q]
    BY <1>0, <2>1, KindsNext
  <2>4. \A s \in Known : s \in Known'
    BY <1>1, <1>5, <1>7, <2>3, KnownIs, KnownIsNext
  <2>5. /\ Newest' /\ Unique' /\ Tracked' /\ Brought' /\ (NoRetries => NoRetries')
        /\ \A q \in Requests : request[q].kind = "edit" =>
             /\ q # r /\ request'[q] = request[q] /\ request[q].name # n
             /\ request[q].ver = config'[request[q].name]
        /\ \A s \in Known :
             /\ s \in Speakers /\ speaker'[s].name = speaker[s].name
             /\ speaker[s].phase \in Ended => speaker'[s].phase \in Ended
             /\ s \in old => speaker'[s].phase = "stopping"
    <3>1. \A s \in Speakers : s \in Known =>
            /\ speaker'[s] = Stopping(OldOf(n) \cup Halted(Cancelled({n})))[s]
            /\ speaker[s].phase \in Alive => s \in Known'
      BY <2>1, <2>4
    <3>2. \A s \in Speakers : s \notin Known =>
            \/ speaker'[s] = speaker[s]
            \/ s \in Known' /\ speaker'[s].ver = config'[speaker'[s].name]
      BY <1>0, <1>6, <2>1, StoppingKeeps
    <3>3. CancelRetries({n}) /\ UNCHANGED <<app, api, validator>> /\ rec.pc # "starting"
          /\ ToSet(listed') \subseteq ToSet(listed)
      BY <1>1, <2>2
    <3>4. QED
      BY <1>2, <1>3, <1>5, <2>3, <3>1, <3>2, <3>3, ChangeOrders
  <2>6. api # "none"
    BY <1>4, <1>9 DEF Orders, Silent
  <2>7. /\ rec.at \in DOMAIN listed /\ speaker'[listed[rec.at]].name = n
        /\ speaker'[listed[rec.at]].phase \in Ended
    <3>1. listed[at] \in old /\ listed[at] \in Known
      BY <1>4, <1>9, KnownIs
    <3>2. QED
      BY <1>4, <1>9, <2>2, <2>5, <3>1 DEF Ended
  <2>8. QED
    BY <1>1, <1>2, <1>5, <2>2, <2>3, <2>5, <2>6, <2>7, EditOrders
<1>10. CASE old = {} /\ api # "none"
  <2> DEFINE f == Stopping(all)
  <2>1. Restarts(r, n, ver, 0, f) /\ Slowed(f) /\ 0 \in Nat
    BY <1>0, <1>1, <1>6, <1>10, StoppingSlows
  <2>2. \A s \in Speakers : s \notin Known => f[s] = speaker[s]
    BY <1>0, <1>6, StoppingKeeps
  <2>3. f = Stopping(OldOf(n) \cup Halted(Cancelled({n})))
    OBVIOUS
  <2> HIDE DEF f, ver
  <2>4. PICK s \in Speakers, rec \in RequestRecord :
          /\ rec.kind = "edit" /\ rec.pc = "starting" /\ rec.name = n /\ rec.ver = ver
          /\ rec.holds = {s} /\ rec.at = 0
          /\ \A q \in Requests : request'[q] = IF q = r THEN rec ELSE request[q]
          /\ s \notin Known /\ \A o \in Speakers : o # s => speaker'[o] = f[o]
          /\ speaker'[s].name = n /\ speaker'[s].ver = ver
    BY <1>0, <1>1, <1>3, <1>10, <2>1, RestartsIs
  <2>5. s \in Known' /\ \A o \in Known : o \in Known'
    BY <1>1, <1>5, <1>7, <2>4, KnownIs, KnownIsNext
  <2>6. /\ Newest' /\ Unique' /\ Tracked' /\ Brought' /\ (NoRetries => NoRetries')
        /\ \A q \in Requests : request[q].kind = "edit" =>
             /\ q # r /\ request'[q] = request[q] /\ request[q].name # n
             /\ request[q].ver = config'[request[q].name]
        /\ \A o \in Known :
             /\ o \in Speakers /\ speaker'[o].name = speaker[o].name
             /\ speaker[o].phase \in Ended => speaker'[o].phase \in Ended
    <3>1. \A o \in Speakers : o \in Known =>
            /\ speaker'[o] = Stopping(OldOf(n) \cup Halted(Cancelled({n})))[o]
            /\ speaker[o].phase \in Alive => o \in Known'
      BY <2>3, <2>4, <2>5
    <3>2. \A o \in Speakers : o \notin Known =>
            \/ speaker'[o] = speaker[o]
            \/ o \in Known' /\ speaker'[o].ver = config'[speaker'[o].name]
      BY <2>2, <2>4, <2>5 DEF ver
    <3>3. CancelRetries({n}) /\ UNCHANGED <<app, api, validator>>
          /\ ToSet(listed') \subseteq ToSet(listed)
      BY <1>1
    <3>4. rec.pc = "starting" =>
            \A o \in rec.holds : speaker'[o].ver = config'[speaker'[o].name]
      BY <2>4 DEF ver
    <3>5. \A q \in Requests : request'[q] = IF q = r THEN rec ELSE request[q]
      BY <2>4
    <3>6. QED
      BY <1>2, <1>3, <1>5, <3>1, <3>2, <3>3, <3>4, <3>5, ChangeOrders
  <2>7. /\ rec.kind = "edit" /\ rec.name = n /\ rec.ver = config'[n] /\ rec.at = 0
        /\ \A q \in Requests : request'[q] = IF q = r THEN rec ELSE request[q]
    BY <2>4 DEF ver
  <2>8. QED
    BY <1>1, <1>2, <1>5, <1>10, <2>6, <2>7, EditOrders
<1>11. QED
  BY <1>8, <1>9, <1>10

\* The order is kept by every step that nothing crosses.
LEMMA AskedOrders ==
  ASSUME Standing, Orders, Orderly', NEW r \in Requests, Asked(r) PROVE Orders'
<1>1. CASE Login(r)
  <2>1. CancelsFirst(r, "login") /\ app' \in {"up", "stopping"}
    BY <1>1 DEF Login, CancelsFirst, Accepts
  <2>2. QED
    BY <2>1, CancelsFirstOrders
<1>2. CASE Logout(r)
  <2>1. CancelsFirst(r, "logout") /\ app' \in {"up", "stopping"}
    BY <1>2 DEF Logout, CancelsFirst, Accepts
  <2>2. QED
    BY <2>1, CancelsFirstOrders
<1>3. CASE Shutdown(r)
  <2>1. CancelsFirst(r, "shutdown") /\ app' \in {"up", "stopping"}
    BY <1>3 DEF Shutdown
  <2>2. QED
    BY <2>1, CancelsFirstOrders
<1>4. CASE \E n \in Names : AddSpeaker(r, n) \/ EditSpeaker(r, n) \/ RemoveSpeaker(r, n)
  BY <1>4, AddSpeakerOrders, EditSpeakerOrders, RemoveSpeakerOrders
<1>5. QED
  BY <1>1, <1>2, <1>3, <1>4 DEF Asked

\* Every handler that goes on keeps the order.
LEMMA ContinuesOrders ==
  ASSUME Standing, Orders, Orderly', NEW r \in Requests, Continues(r) PROVE Orders'
<1>1. CASE LoginStarted(r)
  BY <1>1, HandlerStartedOrders DEF LoginStarted, Answered, authVars
<1>2. CASE Added(r)
  <2>1. request[r].pc = "starting"
    BY <1>2 DEF Added, Standing, Shape, RequestShape, RequestFits
  <2>2. QED
    BY <1>2, <2>1, HandlerStartedOrders DEF Added, Answered, authVars
<1>3. CASE \/ LoggedIn(r) \/ StopsAll(r) \/ StoppedAll(r) \/ EditStopped(r) \/ Edited(r)
           \/ Removed(r)
  BY <1>3, LoggedInOrders, StopsAllOrders, StoppedAllOrders, EditStoppedOrders, EditedOrders,
     RemovedOrders
<1>4. QED
  BY <1>1, <1>2, <1>3 DEF Continues

\* Every step keeps the order.
LEMMA NextOrders == ASSUME Standing, Orders, Orderly', [Next]_vars PROVE Orders'
<1>1. CASE Validates
  BY <1>1, ValidationSucceedsOrders, ValidationOrders, ValidatorStartedOrders,
     ValidatorStoppedOrders DEF Validates
<1>2. CASE \E token \in BOOLEAN : Boot(token)
  BY <1>2, BootOrders
<1>3. CASE \E r \in Requests : Asked(r) \/ Continues(r)
  BY <1>3, AskedOrders, ContinuesOrders
<1>4. CASE \E t \in Retries : Retried(t)
  BY <1>4, RetryWakesOrders, RetryStartedOrders, RetryStoppedOrders DEF Retried
<1>5. CASE \E s \in Speakers : Settles(s) \/ AppConnects(s) \/ SetupEnds(s)
  BY <1>5, SettlesOrders
<1>6. CASE UNCHANGED vars
  <2>1. UNCHANGED <<app, api, validator, config, speaker, listed, request, retrier, retries>>
    BY <1>6 DEF vars, authVars, retryVars
  <2>2. QED
    BY <2>1, SpeakersOrders
<1>7. QED
  BY <1>1, <1>2, <1>3, <1>4, <1>5, <1>6 DEF Next

-----------------------------------------------------------------------------
(***************************************************************************)
(* The invariant, and what follows from it.                                *)
(***************************************************************************)
\* The shape holds whatever the requests cross; speakers are off line unless a stop missed a set-up;
\* and the order holds unless something crossed, shifted, doubled or was not tracked.
LifecycleInv ==
  /\ Standing
  /\ "late" \notin given => Links
  /\ Orderly => Orders

\* At the start.
LEMMA InitLifecycleInv == Init => LifecycleInv
<1>1. Init => Links
  BY DEF Init, Links, Unused
<1>2. QED
  BY <1>1, InitStanding, InitOrders DEF LifecycleInv

\* After every step.
LEMMA NextLifecycleInv == LifecycleInv /\ [Next]_vars => LifecycleInv'
<1> SUFFICES ASSUME LifecycleInv, [Next]_vars PROVE LifecycleInv'
  OBVIOUS
<1>1. Standing'
  BY NextStanding DEF LifecycleInv
<1>2. given \subseteq given'
  BY GivenGrows
<1>3. "late" \notin given' => Links'
  BY <1>2, NextLinks DEF LifecycleInv
<1>4. Orderly' => Orders'
  <2> SUFFICES ASSUME Orderly' PROVE Orders'
    OBVIOUS
  <2>1. Orderly
    BY <1>2, OrderlyIs, OrderlyNextIs
  <2>2. QED
    BY <2>1, NextOrders DEF LifecycleInv
<1>5. QED
  BY <1>1, <1>3, <1>4 DEF LifecycleInv

\* The invariant that the theorems below rest on holds in every run: which coroutine holds which
\* Speaker object, what is listed, and which request may go on with which (app.py:
\* _start_speakers, _stop_speakers, _on_edit_speaker, _on_remove_speaker, _retry_speaker).
THEOREM LifecycleHolds == Spec => []LifecycleInv
<1>1. QED
  BY InitLifecycleInv, NextLifecycleInv, PTL DEF Spec

\* The shape says of which type the state is.
LEMMA ShapeIsTyped == ASSUME Shape PROVE TypeOK
<1>0. AppShape /\ SpeakerShape /\ ValidatorShape /\ RequestShape /\ RetryShape
  BY DEF Shape
<1>1. ToSet(listed) \subseteq Speakers
  BY <1>0 DEF SpeakerShape, ToSet
<1>2. Holds \subseteq Speakers
  BY <1>0 DEF Holds, ValidatorShape, RequestShape, RequestRecord, RetryShape, RetryRecord
<1>3. QED
  BY <1>0, <1>1, <1>2 DEF TypeOK, AppShape, SpeakerShape, SpeakerObject, Version, ValidatorShape,
     RequestShape, RequestRecord, RetryShape, RetryRecord

\* Nobody is logged in and no request is under way: nothing runs that is not being stopped.
LEMMA SilentLogout == ASSUME Standing, Orders PROVE LogoutSilences
<1> SUFFICES ASSUME api = "none" \/ app = "stopped",
                    \A r \in Requests : request[r].kind = "none",
                    NEW s \in Speakers \ (validator.holds \cup Halted(Retries)),
                    speaker[s].phase \in Alive
             PROVE  FALSE
  BY DEF LogoutSilences, Alive
<1>1. s \in Known
  BY DEF Orders, Newest
<1>2. s \notin ToSet(listed)
  BY DEF Orders, Silent, ToSet
<1>3. \A r \in Requests : s \notin request[r].holds
  BY DEF Standing, Shape, RequestShape, RequestFits
<1>4. \A t \in Retries : s \notin retrier[t].holds
  BY HaltedIs
<1>5. QED
  BY <1>1, <1>2, <1>3, <1>4, KnownIs

\* Every speaker that runs or starts is listed or in the hands of a coroutine that lists or stops
\* it, and what is listed and runs has the newest configuration of its name, however starts,
\* retries, edits and removals interleave (app.py:_start_speakers, _on_edit_speaker,
\* _retry_speaker).
THEOREM SpeakersKnown == Spec => []SpeakersAreKnown
<1>1. ASSUME LifecycleInv PROVE SpeakersAreKnown
  <2>1. TypeOK
    BY <1>1, ShapeIsTyped DEF LifecycleInv, Standing
  <2>2. NothingIsLost
    BY <1>1 DEF LifecycleInv, Orders, Newest, NothingIsLost, Alive
  <2>3. NewestConfiguration
    BY <1>1, <2>1 DEF LifecycleInv, Orders, Newest, NewestConfiguration, Alive, TypeOK
  <2>4. QED
    BY <2>1, <2>2, <2>3 DEF SpeakersAreKnown
<1>2. QED
  BY <1>1, LifecycleHolds, PTL

\* Once a logout or the shutdown is done no speaker runs, and one that is stopped, or whose start
\* failed, is off line unless its set-up was under way or the app connected meanwhile, which
\* discovery lets it do (app.py:_on_logout, _stop_speakers, speaker.py:start, stop).
THEOREM StoppedAreSilent == Spec => []StoppedIsSilent
<1>1. ASSUME LifecycleInv PROVE StoppedIsSilent
  <2>1. LogoutSilences
    BY <1>1, SilentLogout DEF LifecycleInv, LogoutSilences
  <2>2. OfflineWhenStopped
    BY <1>1 DEF LifecycleInv, Links, Alive, OfflineWhenStopped
  <2>3. QED
    BY <2>1, <2>2 DEF StoppedIsSilent
<1>2. QED
  BY <1>1, LifecycleHolds, PTL

\* The validation of the saved token never replaces a login made in the web UI, nor undoes a
\* logout (app.py:_cancel_auth_retry, _validate_saved_token).
THEOREM WebLoginStays == Spec => WebLoginWins
<1> DEFINE Replaces == api' = "saved" /\ api # "saved" => api = "none" /\ validator.tracked
<1>1. Standing /\ [Next]_vars => [Replaces]_vars
  BY LoginIsSaved
<1>2. QED
  BY <1>1, AlwaysStanding, PTL DEF Spec, WebLoginWins
=============================================================================
