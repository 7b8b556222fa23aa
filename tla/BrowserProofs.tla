----------------------------- MODULE BrowserProofs -----------------------------
(***************************************************************************)
(* Lemmas about the callbacks of a tab (Browser): what the handler of the  *)
(* websocket's messages makes of any list of channels and messages, though *)
(* it removes elements from a list while it iterates over it.  FormsProofs *)
(* and ChatProofs rest on them.                                            *)
(*                                                                         *)
(* The iterations are folds, and what a fold computes is defined by        *)
(* recursion over sets.  Here the intermediate results are a function, and *)
(* a property of all of them is the set of numbers for which it holds, so  *)
(* that induction needs no operator as a parameter.                        *)
(***************************************************************************)
EXTENDS Browser, WellFoundedInduction, TLAPS

-----------------------------------------------------------------------------
(* Folds.                                                                    *)

\* Induction over the numbers in a set.
LEMMA NatSetInduction ==
  ASSUME NEW S, 0 \in S, \A n \in Nat : n \in S => n + 1 \in S
  PROVE  \A n \in Nat : n \in S
<1>. DEFINE T == Nat \ S
<1>. SUFFICES ASSUME T # {} PROVE FALSE
  OBVIOUS
<1>1. IsWellFoundedOn(OpToRel(<, Nat), Nat)
  BY NatLessThanWellFounded
<1>2. PICK x \in T : \A y \in T : ~ (<<y, x>> \in OpToRel(<, Nat))
  BY <1>1, WFMin
<1>3. x \in Nat /\ x # 0 /\ x - 1 \in Nat
  OBVIOUS
<1>4. <<x - 1, x>> \in OpToRel(<, Nat)
  BY <1>3 DEF OpToRel
<1>5. x - 1 \in S
  BY <1>2, <1>3, <1>4
<1>6. (x - 1) + 1 \in S
  BY <1>5, <1>3
<1>. QED
  BY <1>6, <1>3

\* Some numbers up to n have a largest one, and Max() is it.
LEMMA MaxOf ==
  ASSUME NEW n \in Nat, NEW s \in SUBSET (1..n), s # {}
  PROVE  Max(s) \in s /\ Max(s) \in 1..n /\ \A y \in s : Max(s) >= y
<1>. DEFINE S == {k \in Nat : \A t \in SUBSET (1..k) :
                    t # {} => \E x \in t : \A y \in t : x >= y}
<1>1. 0 \in S
  <2>1. ASSUME NEW t \in SUBSET (1..0) PROVE t = {}
    OBVIOUS
  <2>. QED
    BY <2>1
<1>2. ASSUME NEW k \in Nat, k \in S PROVE k + 1 \in S
  <2>. SUFFICES ASSUME NEW t \in SUBSET (1..k + 1), t # {}
                PROVE  \E x \in t : \A y \in t : x >= y
    OBVIOUS
  <2>1. CASE k + 1 \in t
    BY <2>1
  <2>2. CASE k + 1 \notin t
    <3>1. t \in SUBSET (1..k)
      BY <2>2
    <3>. QED
      BY <3>1, <1>2
  <2>. QED
    BY <2>1, <2>2
<1>3. n \in S
  <2>. HIDE DEF S
  <2>. QED
    BY <1>1, <1>2, NatSetInduction
<1>. QED
  BY <1>3 DEF Max

\* it is the result of folding step over each set of numbers up to n.
Folds(it, n, base, step) ==
  \A s \in SUBSET (1..n) :
    it[s] = IF s = {} THEN base ELSE step[Max(s)][it[s \ {Max(s)}]]

\* There is such a function for every step.
LEMMA Folding ==
  ASSUME NEW n \in Nat, NEW X, NEW base \in X,
         NEW step \in [1..n -> [X -> X]]
  PROVE  \E it \in [SUBSET (1..n) -> X] : Folds(it, n, base, step)
<1>. USE DEF Folds
<1>. DEFINE Is(it, k) == Folds(it, k, base, step)
            Has(k) == \E it \in [SUBSET (1..k) -> X] : Is(it, k)
            S == {k \in Nat : k <= n => Has(k)}
<1>1. Has(0)
  <2>. DEFINE it == [s \in SUBSET (1..0) |-> base]
  <2>1. ASSUME NEW s \in SUBSET (1..0) PROVE s = {} /\ it[s] = base
    OBVIOUS
  <2>2. it \in [SUBSET (1..0) -> X]
    OBVIOUS
  <2>. HIDE DEF it
  <2>3. Is(it, 0)
    BY <2>1
  <2>. QED
    BY <2>2, <2>3
<1>2. ASSUME NEW k \in Nat, Has(k), k + 1 \in 1..n PROVE Has(k + 1)
  <2>1. PICK old \in [SUBSET (1..k) -> X] : Is(old, k)
    BY <1>2
  <2>. DEFINE it == [s \in SUBSET (1..k + 1) |->
                       IF k + 1 \in s THEN step[k + 1][old[s \ {k + 1}]]
                       ELSE old[s]]
  <2>2. ASSUME NEW s \in SUBSET (1..k + 1), k + 1 \in s
        PROVE  /\ Max(s) = k + 1 /\ s \ {k + 1} \in SUBSET (1..k)
               /\ it[s] = step[k + 1][old[s \ {k + 1}]]
               /\ it[s \ {k + 1}] = old[s \ {k + 1}]
    <3>1. Max(s) = k + 1
      BY <2>2, MaxOf
    <3>2. s \ {k + 1} \in SUBSET (1..k) /\ s \ {k + 1} \in SUBSET (1..k + 1)
      OBVIOUS
    <3>. QED
      BY <2>2, <3>1, <3>2
  <2>3. ASSUME NEW s \in SUBSET (1..k + 1), k + 1 \notin s
        PROVE  s \in SUBSET (1..k) /\ it[s] = old[s]
    BY <2>3
  <2>4. ASSUME NEW s \in SUBSET (1..k) PROVE it[s] = old[s]
    BY <2>4
  <2>5. it \in [SUBSET (1..k + 1) -> X]
    <3>. SUFFICES ASSUME NEW s \in SUBSET (1..k + 1) PROVE it[s] \in X
      OBVIOUS
    <3>. HIDE DEF it
    <3>1. CASE k + 1 \in s
      <4>1. step[k + 1] \in [X -> X] /\ old[s \ {k + 1}] \in X
        BY <3>1, <1>2, <2>2
      <4>. QED
        BY <4>1, <3>1, <2>2
    <3>2. CASE k + 1 \notin s
      BY <3>2, <2>3
    <3>. QED
      BY <3>1, <3>2
  <2>. HIDE DEF it
  <2>6. Is(it, k + 1)
    <3>. SUFFICES ASSUME NEW s \in SUBSET (1..k + 1)
                  PROVE  it[s] = IF s = {} THEN base
                                 ELSE step[Max(s)][it[s \ {Max(s)}]]
      OBVIOUS
    <3>1. CASE k + 1 \in s
      BY <3>1, <2>2
    <3>2. CASE k + 1 \notin s
      <4>1. s \in SUBSET (1..k) /\ it[s] = old[s]
        BY <3>2, <2>3
      <4>2. s # {} => it[s \ {Max(s)}] = old[s \ {Max(s)}]
        BY <4>1, <2>4
      <4>. QED
        BY <4>1, <4>2, <2>1
    <3>. QED
      BY <3>1, <3>2
  <2>. QED
    BY <2>5, <2>6
<1>3. Has(n)
  <2>. HIDE DEF Has
  <2>1. 0 \in S
    BY <1>1
  <2>2. \A k \in Nat : k \in S => k + 1 \in S
    BY <1>2
  <2>3. n \in S
    <3>. HIDE DEF S
    <3>. QED
      BY <2>1, <2>2, NatSetInduction
  <2>. QED
    BY <2>3
<1>. QED
  BY <1>3

\* The numbers up to i, without the last.
LEMMA LastOf ==
  ASSUME NEW n \in Nat, NEW i \in 1..n
  PROVE  /\ 1..i \in SUBSET (1..n) /\ 1..i # {} /\ Max(1..i) = i
         /\ (1..i) \ {i} = 1..(i - 1)
<1>1. 1..i \in SUBSET (1..n) /\ i \in 1..i
  OBVIOUS
<1>2. Max(1..i) = i
  BY <1>1, MaxOf
<1>3. (1..i) \ {i} = 1..(i - 1)
  OBVIOUS
<1>. QED
  BY <1>1, <1>2, <1>3

\* it[s] is what becomes of the value of s without its last number.
Continues(it, n, X, base, step) ==
  /\ it[{}] = base
  /\ \A s \in SUBSET (1..n) :
       s # {} /\ it[s \ {Max(s)}] \in X =>
         it[s] = step[Max(s)][it[s \ {Max(s)}]]

\* f goes from base to result, one step after the other.
Goes(f, n, base, result, step) ==
  /\ f[0] = base /\ f[n] = result
  /\ \A i \in 1..n : f[i] = step[i][f[i - 1]]

\* A fold goes through the numbers one after the other.
LEMMA FoldSteps ==
  ASSUME NEW n \in Nat, NEW X, NEW base \in X,
         NEW step \in [1..n -> [X -> X]], NEW it,
         Continues(it, n, X, base, step)
  PROVE  \E f \in [0..n -> X] : Goes(f, n, base, it[1..n], step)
<1>. USE DEF Continues, Goes
<1>. DEFINE f == [i \in 0..n |-> it[1..i]]
            S == {k \in Nat : k \in 0..n => f[k] \in X}
<1>1. f[0] = base /\ f[n] = it[1..n]
  <2>1. 1..0 = {} /\ 0 \in 0..n
    OBVIOUS
  <2>. QED
    BY <2>1
<1>2. ASSUME NEW i \in 1..n, f[i - 1] \in X PROVE f[i] = step[i][f[i - 1]]
  <2>1. f[i] = it[1..i] /\ f[i - 1] = it[1..(i - 1)]
    OBVIOUS
  <2>2. /\ 1..i \in SUBSET (1..n) /\ 1..i # {} /\ Max(1..i) = i
        /\ (1..i) \ {i} = 1..(i - 1)
    BY LastOf
  <2>. QED
    BY <1>2, <2>1, <2>2
<1>. HIDE DEF f
<1>3. 0 \in S
  BY <1>1
<1>4. ASSUME NEW k \in Nat, k \in S PROVE k + 1 \in S
  <2>. SUFFICES ASSUME k + 1 \in 0..n PROVE f[k + 1] \in X
    OBVIOUS
  <2>1. f[k] \in X /\ k + 1 \in 1..n /\ (k + 1) - 1 = k
    BY <1>4
  <2>2. f[k + 1] = step[k + 1][f[k]]
    BY <1>2, <2>1
  <2>. QED
    BY <2>1, <2>2
<1>5. \A k \in Nat : k \in S
  <2>. HIDE DEF S
  <2>. QED
    BY <1>3, <1>4, NatSetInduction
<1>6. \A k \in 0..n : f[k] \in X
  BY <1>5
<1>7. f \in [0..n -> X]
  BY <1>6 DEF f
<1>8. ASSUME NEW i \in 1..n PROVE f[i] = step[i][f[i - 1]]
  <2>1. i - 1 \in 0..n
    OBVIOUS
  <2>. QED
    BY <1>2, <1>6, <2>1
<1>. QED
  BY <1>1, <1>7, <1>8

\* What Spliced() does, one index after the other.
LEMMA SplicedSteps ==
  ASSUME NEW E, NEW entries \in Seq(E), NEW id
  PROVE  \E f \in [0..Len(entries) -> Seq(E)] :
           /\ f[0] = entries /\ f[Len(entries)] = Spliced(entries, id)
           /\ \A i \in 1..Len(entries) :
                f[i] = IF i <= Len(f[i - 1]) /\ f[i - 1][i].id = id
                       THEN RemoveAt(f[i - 1], i) ELSE f[i - 1]
<1>. DEFINE n == Len(entries)
            X == Seq(E)
            ns == [i \in 1..n |-> i]
            visit(rest, i) ==
              IF i <= Len(rest) /\ rest[i].id = id THEN RemoveAt(rest, i)
              ELSE rest
            Is(g) == g = [s \in SUBSET (DOMAIN ns) |->
                            IF s = {} THEN entries
                            ELSE visit(g[s \ {Max(s)}], ns[Max(s)])]
            it == CHOOSE g : Is(g)
<1>1. Spliced(entries, id) = it[DOMAIN ns]
  BY DEF Spliced, FoldLeft, MapThenFoldSet
<1>2. n \in Nat /\ DOMAIN ns = 1..n /\ \A i \in 1..n : ns[i] = i
  OBVIOUS
<1>3. ASSUME NEW rest \in X, NEW i \in 1..n PROVE visit(rest, i) \in X
  BY DEF RemoveAt
<1>. HIDE DEF visit, X, n
<1>. DEFINE step == [i \in 1..n |-> [rest \in X |-> visit(rest, i)]]
<1>4. /\ step \in [1..n -> [X -> X]] /\ entries \in X
      /\ \A i \in 1..n, x \in X : step[i][x] = visit(x, i)
  BY <1>3 DEF X
<1>. HIDE DEF step, ns
<1>5. PICK g \in [SUBSET (1..n) -> X] : Folds(g, n, entries, step)
  <2>1. n \in Nat
    BY <1>2
  <2>2. step \in [1..n -> [X -> X]] /\ entries \in X
    BY <1>4
  <2>. QED
    BY <2>1, <2>2, Folding
<1>6. ASSUME NEW s \in SUBSET (1..n), s # {}
      PROVE  Max(s) \in 1..n /\ s \ {Max(s)} \in SUBSET (1..n)
  BY <1>2, <1>6, MaxOf
<1>7. Is(g)
  <2>1. ASSUME NEW s \in SUBSET (1..n)
        PROVE  g[s] = IF s = {} THEN entries
                      ELSE visit(g[s \ {Max(s)}], ns[Max(s)])
    <3>1. CASE s = {}
      BY <3>1, <1>5 DEF Folds
    <3>2. CASE s # {}
      <4>1. Max(s) \in 1..n /\ g[s \ {Max(s)}] \in X
        BY <1>6, <3>2
      <4>2. ns[Max(s)] = Max(s)
        BY <1>2, <4>1
      <4>. QED
        BY <1>4, <1>5, <3>2, <4>1, <4>2 DEF Folds
    <3>. QED
      BY <3>1, <3>2
  <2>. QED
    BY <2>1, <1>2
<1>8. Is(it)
  <2>. HIDE DEF Is
  <2>. QED
    BY <1>7
<1>9. \A s \in SUBSET (1..n) :
        it[s] = IF s = {} THEN entries
                ELSE visit(it[s \ {Max(s)}], ns[Max(s)])
  <2>. HIDE DEF it
  <2>. QED
    BY <1>8, <1>2
<1>. HIDE DEF it
<1>10. Continues(it, n, X, entries, step)
  <2>1. it[{}] = entries
    BY <1>9
  <2>2. ASSUME NEW s \in SUBSET (1..n), s # {}, it[s \ {Max(s)}] \in X
        PROVE  it[s] = step[Max(s)][it[s \ {Max(s)}]]
    <3>1. it[s] = visit(it[s \ {Max(s)}], ns[Max(s)])
      BY <1>9, <2>2
    <3>2. Max(s) \in 1..n /\ ns[Max(s)] = Max(s)
      BY <1>2, <1>6, <2>2
    <3>. QED
      BY <1>4, <2>2, <3>1, <3>2
  <2>. QED
    BY <2>1, <2>2 DEF Continues
<1>11. PICK f \in [0..n -> X] : Goes(f, n, entries, it[1..n], step)
  <2>1. n \in Nat
    BY <1>2
  <2>2. step \in [1..n -> [X -> X]] /\ entries \in X
    BY <1>4
  <2>. QED
    BY <2>1, <2>2, <1>10, FoldSteps
<1>12. ASSUME NEW i \in 1..n PROVE f[i] = visit(f[i - 1], i)
  <2>1. i - 1 \in 0..n
    BY <1>2
  <2>. QED
    BY <1>4, <1>11, <2>1 DEF Goes
<1>13. f[n] = Spliced(entries, id)
  BY <1>1, <1>2, <1>11 DEF Goes
<1>. QED
  BY <1>11, <1>12, <1>13 DEF visit, X, n, Goes

\* What a tab may hold: channels in E, lists of messages in L.
Views(E, C, L) ==
  [channels : Seq(E), current : E \cup {Null},
   messages : UNION {[S -> L] : S \in SUBSET C}]

\* The view without its i-th channel.
Without(w, i, e) ==
  [channels |-> RemoveAt(w.channels, i),
   current  |-> IF Displays(w, e.id) THEN w.channels[1] ELSE w.current,
   messages |-> [c \in Cached(w) \ {e.id} |-> w.messages[c]]]

\* The handler of channel-delete goes from v through the views f.
Deletes(f, v, e) ==
  /\ f[0] = v /\ f[Len(v.channels)] = ChannelDelete(v, e)
  /\ \A i \in 1..Len(v.channels) :
       f[i] = IF \/ i > Len(f[i - 1].channels)
                 \/ f[i - 1].channels[i].id # e.id
              THEN f[i - 1] ELSE Without(f[i - 1], i, e)

\* What its loop does, one index after the other.
LEMMA ChannelDeleteSteps ==
  ASSUME NEW E, NEW C, NEW L, NEW v \in Views(E, C, L), NEW e
  PROVE  \E f \in [0..Len(v.channels) -> Views(E, C, L)] : Deletes(f, v, e)
<1>. DEFINE n == Len(v.channels)
            X == Views(E, C, L)
            ns == [i \in 1..n |-> i]
            visit(w, i) ==
              IF i > Len(w.channels) \/ w.channels[i].id # e.id THEN w
              ELSE Without(w, i, e)
            Is(g) == g = [s \in SUBSET (DOMAIN ns) |->
                            IF s = {} THEN v
                            ELSE visit(g[s \ {Max(s)}], ns[Max(s)])]
            it == CHOOSE g : Is(g)
<1>1. ChannelDelete(v, e) = it[DOMAIN ns]
  BY DEF ChannelDelete, FoldLeft, MapThenFoldSet, Without
<1>2. n \in Nat /\ DOMAIN ns = 1..n /\ \A i \in 1..n : ns[i] = i
  BY DEF Views
<1>3. ASSUME NEW w \in X, NEW i \in 1..n PROVE visit(w, i) \in X
  <2>1. CASE i > Len(w.channels) \/ w.channels[i].id # e.id
    BY <2>1
  <2>2. CASE ~(i > Len(w.channels) \/ w.channels[i].id # e.id)
    <3>1. w.channels \in Seq(E) /\ i \in 1..Len(w.channels)
      BY <1>2, <2>2 DEF Views
    <3>2. RemoveAt(w.channels, i) \in Seq(E) /\ w.channels[1] \in E
      BY <3>1 DEF RemoveAt
    <3>3. PICK S \in SUBSET C : w.messages \in [S -> L]
      BY DEF Views
    <3>4. [c \in Cached(w) \ {e.id} |-> w.messages[c]] \in [S \ {e.id} -> L]
      BY <3>3 DEF Cached
    <3>5. S \ {e.id} \in SUBSET C
      OBVIOUS
    <3>6. w.current \in E \cup {Null}
      BY DEF Views
    <3>. QED
      BY <2>2, <3>2, <3>4, <3>5, <3>6 DEF Views, Without
  <2>. QED
    BY <2>1, <2>2
<1>. HIDE DEF visit, X, n
<1>. DEFINE step == [i \in 1..n |-> [w \in X |-> visit(w, i)]]
<1>4. /\ step \in [1..n -> [X -> X]] /\ v \in X
      /\ \A i \in 1..n, x \in X : step[i][x] = visit(x, i)
  BY <1>3 DEF X
<1>. HIDE DEF step, ns
<1>5. PICK g \in [SUBSET (1..n) -> X] : Folds(g, n, v, step)
  <2>1. n \in Nat
    BY <1>2
  <2>2. step \in [1..n -> [X -> X]] /\ v \in X
    BY <1>4
  <2>. QED
    BY <2>1, <2>2, Folding
<1>6. ASSUME NEW s \in SUBSET (1..n), s # {}
      PROVE  Max(s) \in 1..n /\ s \ {Max(s)} \in SUBSET (1..n)
  BY <1>2, <1>6, MaxOf
<1>7. Is(g)
  <2>1. ASSUME NEW s \in SUBSET (1..n)
        PROVE  g[s] = IF s = {} THEN v
                      ELSE visit(g[s \ {Max(s)}], ns[Max(s)])
    <3>1. CASE s = {}
      BY <3>1, <1>5 DEF Folds
    <3>2. CASE s # {}
      <4>1. Max(s) \in 1..n /\ g[s \ {Max(s)}] \in X
        BY <1>6, <3>2
      <4>2. ns[Max(s)] = Max(s)
        BY <1>2, <4>1
      <4>. QED
        BY <1>4, <1>5, <3>2, <4>1, <4>2 DEF Folds
    <3>. QED
      BY <3>1, <3>2
  <2>. QED
    BY <2>1, <1>2
<1>8. Is(it)
  <2>. HIDE DEF Is
  <2>. QED
    BY <1>7
<1>9. \A s \in SUBSET (1..n) :
        it[s] = IF s = {} THEN v
                ELSE visit(it[s \ {Max(s)}], ns[Max(s)])
  <2>. HIDE DEF it
  <2>. QED
    BY <1>8, <1>2
<1>. HIDE DEF it
<1>10. Continues(it, n, X, v, step)
  <2>1. it[{}] = v
    BY <1>9
  <2>2. ASSUME NEW s \in SUBSET (1..n), s # {}, it[s \ {Max(s)}] \in X
        PROVE  it[s] = step[Max(s)][it[s \ {Max(s)}]]
    <3>1. it[s] = visit(it[s \ {Max(s)}], ns[Max(s)])
      BY <1>9, <2>2
    <3>2. Max(s) \in 1..n /\ ns[Max(s)] = Max(s)
      BY <1>2, <1>6, <2>2
    <3>. QED
      BY <1>4, <2>2, <3>1, <3>2
  <2>. QED
    BY <2>1, <2>2 DEF Continues
<1>11. PICK f \in [0..n -> X] : Goes(f, n, v, it[1..n], step)
  <2>1. n \in Nat
    BY <1>2
  <2>2. step \in [1..n -> [X -> X]] /\ v \in X
    BY <1>4
  <2>. QED
    BY <2>1, <2>2, <1>10, FoldSteps
<1>12. ASSUME NEW i \in 1..n PROVE f[i] = visit(f[i - 1], i)
  <2>1. i - 1 \in 0..n
    BY <1>2
  <2>. QED
    BY <1>4, <1>11, <2>1 DEF Goes
<1>13. f[n] = ChannelDelete(v, e)
  BY <1>1, <1>2, <1>11 DEF Goes
<1>. QED
  BY <1>11, <1>12, <1>13 DEF visit, X, n, Goes, Deletes

-----------------------------------------------------------------------------
(* What is left of the lists. *)

ElementsOf(seq) == {seq[i] : i \in 1..Len(seq)}

\* Every identifier is listed once.
ListedOnce(entries) ==
  \A i, j \in 1..Len(entries) : entries[i].id = entries[j].id => i = j

\* RemoveAt() moves the elements after the k-th one place forward.
LEMMA Removed ==
  ASSUME NEW E, NEW seq \in Seq(E), NEW k \in 1..Len(seq)
  PROVE  /\ RemoveAt(seq, k) \in Seq(E)
         /\ Len(RemoveAt(seq, k)) = Len(seq) - 1
         /\ \A j \in 1..Len(seq) - 1 :
              RemoveAt(seq, k)[j] = IF j < k THEN seq[j] ELSE seq[j + 1]
         /\ ElementsOf(RemoveAt(seq, k)) \subseteq ElementsOf(seq)
<1>. DEFINE before == SubSeq(seq, 1, k - 1)
            after  == SubSeq(seq, k + 1, Len(seq))
<1>1. /\ before \in Seq(E) /\ Len(before) = k - 1
      /\ \A j \in 1..k - 1 : before[j] = seq[j]
  OBVIOUS
<1>2. /\ after \in Seq(E) /\ Len(after) = Len(seq) - k
      /\ \A j \in 1..Len(seq) - k : after[j] = seq[j + k]
  OBVIOUS
<1>. HIDE DEF before, after
<1>3. RemoveAt(seq, k) = before \o after
  BY DEF RemoveAt, before, after
<1>4. before \o after \in Seq(E) /\ Len(before \o after) = Len(seq) - 1
  BY <1>1, <1>2
<1>5. ASSUME NEW j \in 1..Len(seq) - 1
      PROVE  (before \o after)[j] = IF j < k THEN seq[j] ELSE seq[j + 1]
  <2>1. CASE j < k
    BY <1>1, <1>2, <2>1
  <2>2. CASE ~(j < k)
    <3>1. (before \o after)[j] = after[j - (k - 1)]
      BY <1>1, <1>2, <2>2
    <3>2. j - (k - 1) \in 1..Len(seq) - k /\ (j - (k - 1)) + k = j + 1
      BY <2>2
    <3>. QED
      BY <1>2, <2>2, <3>1, <3>2
  <2>. QED
    BY <2>1, <2>2
<1>. DEFINE rest == before \o after
<1>6. Len(rest) = Len(seq) - 1
  BY <1>4
<1>7. \A j \in 1..Len(seq) - 1 :
        rest[j] = IF j < k THEN seq[j] ELSE seq[j + 1]
  BY <1>5
<1>. HIDE DEF rest
<1>8. ElementsOf(rest) \subseteq ElementsOf(seq)
  <2>. SUFFICES ASSUME NEW j \in 1..Len(rest) PROVE rest[j] \in ElementsOf(seq)
    BY DEF ElementsOf
  <2>1. j \in 1..Len(seq) /\ j + 1 \in 1..Len(seq)
    BY <1>6
  <2>2. rest[j] = IF j < k THEN seq[j] ELSE seq[j + 1]
    BY <1>6, <1>7
  <2>. QED
    BY <2>1, <2>2 DEF ElementsOf
<1>. QED
  BY <1>3, <1>4, <1>5, <1>8 DEF rest

\* What is left after splice() was there.
LEMMA SplicedSome ==
  ASSUME NEW E, NEW entries \in Seq(E), NEW id
  PROVE  /\ Spliced(entries, id) \in Seq(E)
         /\ ElementsOf(Spliced(entries, id)) \subseteq ElementsOf(entries)
<1>. DEFINE n == Len(entries)
<1>1. PICK f \in [0..n -> Seq(E)] :
        /\ f[0] = entries /\ f[n] = Spliced(entries, id)
        /\ \A i \in 1..n :
             f[i] = IF i <= Len(f[i - 1]) /\ f[i - 1][i].id = id
                    THEN RemoveAt(f[i - 1], i) ELSE f[i - 1]
  BY SplicedSteps
<1>. DEFINE S ==
  {k \in Nat :
     k \in 0..n => ElementsOf(f[k]) \subseteq ElementsOf(entries)}
<1>2. n \in Nat
  OBVIOUS
<1>. HIDE DEF n
<1>3. 0 \in S
  BY <1>1
<1>4. ASSUME NEW k \in Nat, k \in S PROVE k + 1 \in S
  <2>. SUFFICES ASSUME k + 1 \in 0..n
                PROVE  ElementsOf(f[k + 1]) \subseteq ElementsOf(entries)
    OBVIOUS
  <2>1. /\ k + 1 \in 1..n /\ (k + 1) - 1 = k /\ k \in 0..n
        /\ ElementsOf(f[k]) \subseteq ElementsOf(entries) /\ f[k] \in Seq(E)
    BY <1>2, <1>4
  <2>2. CASE k + 1 <= Len(f[k]) /\ f[k][k + 1].id = id
    <3>1. k + 1 \in 1..Len(f[k]) /\ f[k + 1] = RemoveAt(f[k], k + 1)
      BY <1>1, <2>1, <2>2
    <3>. QED
      BY <2>1, <3>1, Removed
  <2>3. CASE ~(k + 1 <= Len(f[k]) /\ f[k][k + 1].id = id)
    <3>1. f[k + 1] = f[k]
      BY <1>1, <2>1, <2>3
    <3>. QED
      BY <2>1, <3>1
  <2>. QED
    BY <2>2, <2>3
<1>5. n \in S
  <2>. HIDE DEF S
  <2>. QED
    BY <1>2, <1>3, <1>4, NatSetInduction
<1>. QED
  BY <1>1, <1>2, <1>5

\* An identifier that is listed once is removed, and nothing else.
LEMMA SplicedOnce ==
  ASSUME NEW E, NEW entries \in Seq(E), ListedOnce(entries), NEW id
  PROVE  /\ id \notin IdsOf(entries) => Spliced(entries, id) = entries
         /\ \A k \in 1..Len(entries) :
              entries[k].id = id => Spliced(entries, id) = RemoveAt(entries, k)
<1>. DEFINE n == Len(entries)
<1>1. PICK f \in [0..n -> Seq(E)] :
        /\ f[0] = entries /\ f[n] = Spliced(entries, id)
        /\ \A i \in 1..n :
             f[i] = IF i <= Len(f[i - 1]) /\ f[i - 1][i].id = id
                    THEN RemoveAt(f[i - 1], i) ELSE f[i - 1]
  BY SplicedSteps
<1>2. n \in Nat
  OBVIOUS
<1>3. ASSUME NEW m \in 0..n, \A i \in 1..m : entries[i].id # id
      PROVE  f[m] = entries
  <2>. DEFINE S == {k \in Nat : k \in 0..m => f[k] = entries}
  <2>1. 0 \in S
    BY <1>1
  <2>2. ASSUME NEW k \in Nat, k \in S PROVE k + 1 \in S
    <3>. SUFFICES ASSUME k + 1 \in 0..m PROVE f[k + 1] = entries
      OBVIOUS
    <3>1. /\ k + 1 \in 1..n /\ (k + 1) - 1 = k /\ f[k] = entries
          /\ entries[k + 1].id # id
      BY <1>2, <1>3, <2>2
    <3>. QED
      BY <1>1, <3>1
  <2>3. m \in S
    <3>. HIDE DEF S
    <3>. QED
      BY <1>2, <2>1, <2>2, NatSetInduction
  <2>. QED
    BY <2>3
<1>4. ASSUME NEW k \in 1..n, entries[k].id = id
      PROVE  f[n] = RemoveAt(entries, k)
  <2>. DEFINE rest == RemoveAt(entries, k)
              S == {i \in Nat : i \in k..n => f[i] = rest}
  <2>1. \A i \in 1..n : i # k => entries[i].id # id
    BY <1>4 DEF ListedOnce
  <2>2. f[k] = rest
    <3>1. k - 1 \in 0..n /\ f[k - 1] = entries
      BY <1>2, <1>3, <2>1
    <3>. QED
      BY <1>1, <1>4, <3>1
  <2>3. ASSUME NEW i \in 1..Len(rest) PROVE rest[i].id # id
    <3>1. /\ Len(rest) = n - 1
          /\ \A j \in 1..n - 1 :
               rest[j] = IF j < k THEN entries[j] ELSE entries[j + 1]
      BY Removed
    <3>2. i \in 1..n - 1 /\ i \in 1..n /\ i + 1 \in 1..n
      BY <1>2, <3>1
    <3>. QED
      BY <2>1, <3>1, <3>2
  <2>. HIDE DEF rest
  <2>4. 0 \in S
    BY <1>2
  <2>5. ASSUME NEW i \in Nat, i \in S PROVE i + 1 \in S
    <3>. SUFFICES ASSUME i + 1 \in k..n PROVE f[i + 1] = rest
      OBVIOUS
    <3>1. CASE i + 1 = k
      BY <2>2, <3>1
    <3>2. CASE i + 1 # k
      <4>1. i + 1 \in 1..n /\ (i + 1) - 1 = i /\ f[i] = rest
        BY <1>2, <2>5, <3>2
      <4>2. i + 1 <= Len(rest) => i + 1 \in 1..Len(rest)
        OBVIOUS
      <4>. QED
        BY <1>1, <2>3, <4>1, <4>2
    <3>. QED
      BY <3>1, <3>2
  <2>6. n \in S
    <3>. HIDE DEF S
    <3>. QED
      BY <1>2, <2>4, <2>5, NatSetInduction
  <2>. QED
    BY <1>2, <2>6 DEF rest
<1>5. id \notin IdsOf(entries) => f[n] = entries
  BY <1>2, <1>3 DEF IdsOf
<1>. QED
  BY <1>1, <1>4, <1>5

\* Whatever the list is like, what is listed and displayed after a deletion was
\* listed or displayed before.
KeepsTo(w, v, id) ==
  /\ ElementsOf(w.channels) \subseteq ElementsOf(v.channels)
  /\ \/ w.current = v.current
     \/ Displays(v, id) /\ w.current \in ElementsOf(v.channels)

\* The handler of a deletion keeps to the list, and the types.
LEMMA DeletedSome ==
  ASSUME NEW E, NEW C, NEW L, NEW v \in Views(E, C, L), NEW e
  PROVE  ChannelDelete(v, e) \in Views(E, C, L)
         /\ KeepsTo(ChannelDelete(v, e), v, e.id)
<1>. DEFINE n == Len(v.channels)
            X == Views(E, C, L)
<1>0. PICK f \in [0..n -> X] : Deletes(f, v, e)
  BY ChannelDeleteSteps
<1>1. /\ f[0] = v /\ f[n] = ChannelDelete(v, e)
      /\ \A i \in 1..n :
           f[i] = IF \/ i > Len(f[i - 1].channels)
                     \/ f[i - 1].channels[i].id # e.id
                  THEN f[i - 1] ELSE Without(f[i - 1], i, e)
  BY <1>0 DEF Deletes
<1>. DEFINE S == {k \in Nat : k \in 0..n => KeepsTo(f[k], v, e.id)}
<1>2. n \in Nat
  BY DEF Views
<1>. HIDE DEF n
<1>3. 0 \in S
  BY <1>1 DEF KeepsTo
<1>4. ASSUME NEW w \in X, NEW i \in 1..Len(w.channels), KeepsTo(w, v, e.id)
      PROVE  KeepsTo(Without(w, i, e), v, e.id)
  <2>1. /\ w.channels \in Seq(E)
        /\ w.channels[1] \in ElementsOf(w.channels)
    BY DEF Views, ElementsOf
  <2>2. ElementsOf(RemoveAt(w.channels, i)) \subseteq ElementsOf(w.channels)
    BY <2>1, Removed
  <2>3. Displays(w, e.id) => \/ Displays(v, e.id)
                             \/ w.current # v.current
    BY DEF Displays
  <2>. QED
    BY <1>4, <2>1, <2>2, <2>3 DEF KeepsTo, Without
<1>5. ASSUME NEW k \in Nat, k \in S PROVE k + 1 \in S
  <2>. SUFFICES ASSUME k + 1 \in 0..n PROVE KeepsTo(f[k + 1], v, e.id)
    OBVIOUS
  <2>1. /\ k + 1 \in 1..n /\ (k + 1) - 1 = k /\ k \in 0..n
        /\ KeepsTo(f[k], v, e.id) /\ f[k] \in X
    BY <1>2, <1>5
  <2>. HIDE DEF X
  <2>2. CASE k + 1 > Len(f[k].channels) \/ f[k].channels[k + 1].id # e.id
    <3>1. f[k + 1] = f[k]
      BY <1>1, <2>1, <2>2
    <3>. QED
      BY <2>1, <3>1
  <2>3. CASE ~(k + 1 > Len(f[k].channels) \/ f[k].channels[k + 1].id # e.id)
    <3>1. f[k + 1] = Without(f[k], k + 1, e)
      BY <1>1, <2>1, <2>3
    <3>2. k + 1 \in 1..Len(f[k].channels)
      BY <2>1, <2>3 DEF X, Views
    <3>. QED
      BY <1>4, <2>1, <3>1, <3>2
  <2>. QED
    BY <2>2, <2>3
<1>6. n \in S
  <2>. HIDE DEF S
  <2>. QED
    BY <1>2, <1>3, <1>5, NatSetInduction
<1>. QED
  BY <1>1, <1>2, <1>6

\* A channel that is listed once is removed once; the one displayed instead is
\* the first of the list as it was.
LEMMA DeletedOnce ==
  ASSUME NEW E, NEW C, NEW L, NEW v \in Views(E, C, L),
         ListedOnce(v.channels), NEW e
  PROVE  /\ e.id \notin IdsOf(v.channels) => ChannelDelete(v, e) = v
         /\ \A k \in 1..Len(v.channels) :
              v.channels[k].id = e.id =>
                ChannelDelete(v, e) = Without(v, k, e)
<1>. DEFINE n == Len(v.channels)
            X == Views(E, C, L)
<1>0. PICK f \in [0..n -> X] : Deletes(f, v, e)
  BY ChannelDeleteSteps
<1>1. /\ f[0] = v /\ f[n] = ChannelDelete(v, e)
      /\ \A i \in 1..n :
           f[i] = IF \/ i > Len(f[i - 1].channels)
                     \/ f[i - 1].channels[i].id # e.id
                  THEN f[i - 1] ELSE Without(f[i - 1], i, e)
  BY <1>0 DEF Deletes
<1>2. n \in Nat /\ v.channels \in Seq(E)
  BY DEF Views
<1>. HIDE DEF X
<1>3. ASSUME NEW m \in 0..n, \A i \in 1..m : v.channels[i].id # e.id
      PROVE  f[m] = v
  <2>. DEFINE S == {k \in Nat : k \in 0..m => f[k] = v}
  <2>1. 0 \in S
    BY <1>1
  <2>2. ASSUME NEW k \in Nat, k \in S PROVE k + 1 \in S
    <3>. SUFFICES ASSUME k + 1 \in 0..m PROVE f[k + 1] = v
      OBVIOUS
    <3>1. /\ k + 1 \in 1..n /\ (k + 1) - 1 = k /\ f[k] = v
          /\ v.channels[k + 1].id # e.id
      BY <1>2, <1>3, <2>2
    <3>. QED
      BY <1>1, <3>1
  <2>3. m \in S
    <3>. HIDE DEF S
    <3>. QED
      BY <1>2, <2>1, <2>2, NatSetInduction
  <2>. QED
    BY <2>3
<1>4. ASSUME NEW k \in 1..n, v.channels[k].id = e.id
      PROVE  f[n] = Without(v, k, e)
  <2>. DEFINE rest == RemoveAt(v.channels, k)
              w == Without(v, k, e)
              S == {i \in Nat : i \in k..n => f[i] = w}
  <2>1. \A i \in 1..n : i # k => v.channels[i].id # e.id
    BY <1>4 DEF ListedOnce
  <2>2. f[k] = w
    <3>1. k - 1 \in 0..n /\ f[k - 1] = v
      BY <1>2, <1>3, <2>1
    <3>2. ~(k > Len(v.channels) \/ v.channels[k].id # e.id)
      BY <1>2, <1>4
    <3>. QED
      BY <1>1, <3>1, <3>2
  <2>3. ASSUME NEW i \in 1..Len(rest) PROVE rest[i].id # e.id
    <3>1. /\ Len(rest) = n - 1
          /\ \A j \in 1..n - 1 :
               rest[j] = IF j < k THEN v.channels[j] ELSE v.channels[j + 1]
      BY <1>2, Removed
    <3>2. i \in 1..n - 1 /\ i \in 1..n /\ i + 1 \in 1..n
      BY <1>2, <3>1
    <3>3. rest[i] = IF i < k THEN v.channels[i] ELSE v.channels[i + 1]
      BY <3>1, <3>2
    <3>. QED
      BY <2>1, <3>2, <3>3
  <2>4. w.channels = rest
    BY DEF Without
  <2>5. Len(rest) \in Nat
    BY <1>2, Removed
  <2>. HIDE DEF rest, w
  <2>6. 0 \in S
    BY <1>2
  <2>7. ASSUME NEW i \in Nat, i \in S PROVE i + 1 \in S
    <3>. SUFFICES ASSUME i + 1 \in k..n PROVE f[i + 1] = w
      OBVIOUS
    <3>1. CASE i + 1 = k
      BY <2>2, <3>1
    <3>2. CASE i + 1 # k
      <4>1. i + 1 \in 1..n /\ (i + 1) - 1 = i /\ f[i] = w
        BY <1>2, <2>7, <3>2
      <4>2. i + 1 > Len(w.channels) \/ w.channels[i + 1].id # e.id
        BY <2>3, <2>4, <2>5
      <4>. QED
        BY <1>1, <4>1, <4>2
    <3>. QED
      BY <3>1, <3>2
  <2>8. n \in S
    <3>. HIDE DEF S
    <3>. QED
      BY <1>2, <2>6, <2>7, NatSetInduction
  <2>. QED
    BY <1>2, <2>8 DEF w
<1>5. e.id \notin IdsOf(v.channels) => f[n] = v
  BY <1>2, <1>3 DEF IdsOf
<1>. QED
  BY <1>1, <1>4, <1>5

-----------------------------------------------------------------------------
(* The handler as a whole. *)

\* What a tab holds of channels C with documents D and messages M with MD.
TabViews(C, D, M, MD) ==
  Views([id : C, doc : D], C, Seq([id : M, doc : MD]))

Types == {"channel-new", "channel-update", "channel-delete",
          "message-new", "message-update", "message-delete"}

\* An event with documents of the kinds its type is about.
Fits(e, C, D, M, MD) ==
  /\ e.type = "channel-new" => e.id \in C /\ e.doc \in D
  /\ e.type = "channel-update" /\ e.doc # Null => e.id \in C /\ e.doc \in D
  /\ e.type = "message-new" => e.id \in M /\ e.doc \in MD
  /\ e.type = "message-update" /\ e.doc # Null => e.id \in M /\ e.doc \in MD

\* The parts of a view.
LEMMA InViews ==
  ASSUME NEW E, NEW C, NEW L, NEW v \in Views(E, C, L)
  PROVE  /\ v.channels \in Seq(E) /\ v.current \in E \cup {Null}
         /\ Cached(v) \in SUBSET C /\ v.messages \in [Cached(v) -> L]
         /\ \A c \in Cached(v) : v.messages[c] \in L
<1>1. PICK S \in SUBSET C : v.messages \in [S -> L]
  BY DEF Views
<1>2. S = Cached(v)
  BY <1>1 DEF Cached
<1>3. v.channels \in Seq(E) /\ v.current \in E \cup {Null}
  BY DEF Views
<1>. QED
  BY <1>1, <1>2, <1>3

\* Its list of channels and the channel displayed may be replaced.
LEMMA WithChannels ==
  ASSUME NEW E, NEW C, NEW L, NEW v \in Views(E, C, L),
         NEW channels \in Seq(E), NEW current \in E \cup {Null}
  PROVE  /\ [v EXCEPT !.channels = channels] \in Views(E, C, L)
         /\ [v EXCEPT !.current = current] \in Views(E, C, L)
         /\ [v EXCEPT !.channels = channels, !.current = current]
              \in Views(E, C, L)
  BY DEF Views

\* A channel's messages may be replaced, or added.
LEMMA CachedView ==
  ASSUME NEW E, NEW C, NEW L, NEW v \in Views(E, C, L), NEW c \in C,
         NEW ms \in L
  PROVE  Cache(v, c, ms) \in Views(E, C, L)
<1>. DEFINE S == Cached(v) \cup {c}
            messages == [k \in S |-> IF k = c THEN ms ELSE v.messages[k]]
<1>1. messages \in [S -> L]
  BY InViews
<1>2. S \in SUBSET C
  BY InViews
<1>3. Cache(v, c, ms) = [v EXCEPT !.messages = messages]
  BY DEF Cache
<1>. HIDE DEF messages, S
<1>4. messages \in UNION {[T -> L] : T \in SUBSET C}
  BY <1>1, <1>2
<1>. QED
  BY <1>3, <1>4 DEF Views

\* A new channel is added to the list.
LEMMA ChannelNewView ==
  ASSUME NEW E, NEW C, NEW L, NEW v \in Views(E, C, L), <<>> \in L, NEW e,
         NEW me, e.id \in C, Entry(e.id, e.doc) \in E
  PROVE  /\ ChannelNew(v, e, me) \in Views(E, C, L)
         /\ ChannelNew(v, e, me).channels =
              Append(v.channels, Entry(e.id, e.doc))
         /\ ChannelNew(v, e, me).current =
              IF e.doc.creator = me THEN Entry(e.id, e.doc) ELSE v.current
<1>. DEFINE n == Entry(e.id, e.doc)
            w == [v EXCEPT !.channels = Append(@, n)]
            l == Cache(w, e.id, <<>>)
<1>1. ChannelNew(v, e, me) =
        IF e.doc.creator = me THEN [l EXCEPT !.current = n] ELSE l
  BY DEF ChannelNew
<1>2. Append(v.channels, n) \in Seq(E)
  BY InViews
<1>. HIDE DEF n
<1>3. /\ w \in Views(E, C, L) /\ w.channels = Append(v.channels, n)
      /\ w.current = v.current
  BY <1>2, WithChannels DEF Views
<1>. HIDE DEF w
<1>4. /\ l \in Views(E, C, L)
      /\ l.channels = w.channels /\ l.current = w.current
  <2>1. l \in Views(E, C, L)
    BY <1>3, CachedView
  <2>2. l.channels = w.channels /\ l.current = w.current
    BY <1>3 DEF Cache, Views
  <2>. QED
    BY <2>1, <2>2
<1>. HIDE DEF l
<1>5. /\ [l EXCEPT !.current = n] \in Views(E, C, L)
      /\ [l EXCEPT !.current = n].channels = l.channels
      /\ [l EXCEPT !.current = n].current = n
  BY <1>4, WithChannels DEF n, Views
<1>. QED
  BY <1>1, <1>3, <1>4, <1>5 DEF n

\* An update replaces entries of the same identifier.
LEMMA ReplacedEntries ==
  ASSUME NEW E, NEW entries \in Seq(E), NEW e,
         e.id \in IdsOf(entries) => Entry(e.id, e.doc) \in E
  PROVE  /\ Replaced(entries, e) \in Seq(E)
         /\ Len(Replaced(entries, e)) = Len(entries)
         /\ \A i \in 1..Len(entries) :
              Replaced(entries, e)[i] =
                IF entries[i].id = e.id THEN Entry(e.id, e.doc)
                ELSE entries[i]
<1>1. ASSUME NEW i \in 1..Len(entries)
      PROVE  (IF entries[i].id = e.id THEN Entry(e.id, e.doc) ELSE entries[i])
               \in E
  BY DEF IdsOf
<1>. QED
  BY <1>1 DEF Replaced

\* The handler of an update keeps the types.
LEMMA ChannelUpdateView ==
  ASSUME NEW E, NEW C, NEW L, NEW v \in Views(E, C, L), NEW e,
         e.doc # Null => Entry(e.id, e.doc) \in E,
         e.doc # Null => \A x \in E : [x EXCEPT !.doc.text = e.doc.text] \in E
  PROVE  ChannelUpdate(v, e) \in Views(E, C, L)
<1>1. CASE e.doc = Null \/ v.channels = <<>>
  BY <1>1 DEF ChannelUpdate
<1>2. CASE ~(e.doc = Null \/ v.channels = <<>>)
  <2>. DEFINE current == IF Displays(v, e.id)
                         THEN [v.current EXCEPT !.doc.text = e.doc.text]
                         ELSE v.current
              channels == Replaced(v.channels, e)
  <2>1. channels \in Seq(E)
    BY <1>2, InViews, ReplacedEntries
  <2>2. current \in E \cup {Null}
    BY <1>2, InViews DEF Displays
  <2>3. ChannelUpdate(v, e) = [v EXCEPT !.channels = channels,
                                        !.current = current]
    BY <1>2 DEF ChannelUpdate
  <2>. HIDE DEF current, channels
  <2>. QED
    BY <2>1, <2>2, <2>3 DEF Views
<1>. QED
  BY <1>1, <1>2

\* The events about messages leave the list of channels alone.
MessageStep(w, v, E, C, L) ==
  /\ w \in Views(E, C, L)
  /\ w.channels = v.channels /\ w.current = v.current

\* So do the handlers of the events about messages.
LEMMA MessageViews ==
  ASSUME NEW E, NEW C, NEW F, NEW v \in Views(E, C, Seq(F)), NEW e
  PROVE  /\ Entry(e.id, e.doc) \in F =>
              MessageStep(MessageNew(v, e), v, E, C, Seq(F))
         /\ (e.doc # Null => Entry(e.id, e.doc) \in F) =>
              MessageStep(MessageUpdate(v, e), v, E, C, Seq(F))
         /\ MessageStep(MessageDelete(v, e), v, E, C, Seq(F))
<1>1. MessageStep(v, v, E, C, Seq(F))
  BY DEF MessageStep
<1>2. ASSUME NEW c \in Cached(v), NEW ms \in Seq(F)
      PROVE  MessageStep(Cache(v, c, ms), v, E, C, Seq(F))
  <2>1. c \in C
    BY InViews
  <2>2. Cache(v, c, ms) \in Views(E, C, Seq(F))
    BY <2>1, CachedView
  <2>3. Cache(v, c, ms).channels = v.channels
        /\ Cache(v, c, ms).current = v.current
    BY DEF Cache, Views
  <2>. QED
    BY <2>2, <2>3 DEF MessageStep
<1>3. \A c \in Cached(v) : v.messages[c] \in Seq(F)
  BY InViews
<1>4. ASSUME Entry(e.id, e.doc) \in F
      PROVE  MessageStep(MessageNew(v, e), v, E, C, Seq(F))
  <2>. DEFINE c == e.doc.channel
  <2>1. c \in Cached(v) =>
          Append(v.messages[c], Entry(e.id, e.doc)) \in Seq(F)
    BY <1>3, <1>4
  <2>. QED
    BY <1>1, <1>2, <2>1 DEF MessageNew
<1>5. ASSUME e.doc # Null => Entry(e.id, e.doc) \in F
      PROVE  MessageStep(MessageUpdate(v, e), v, E, C, Seq(F))
  <2>. DEFINE c == e.doc.channel
  <2>1. e.doc # Null /\ c \in Cached(v) =>
          Replaced(v.messages[c], e) \in Seq(F)
    BY <1>3, <1>5, ReplacedEntries
  <2>. QED
    BY <1>1, <1>2, <2>1 DEF MessageUpdate
<1>6. MessageStep(MessageDelete(v, e), v, E, C, Seq(F))
  <2>. DEFINE c == v.current.id
  <2>1. c \in Cached(v) => Spliced(v.messages[c], e.id) \in Seq(F)
    BY <1>3, SplicedSome
  <2>. QED
    BY <1>1, <1>2, <2>1 DEF MessageDelete
<1>. QED
  BY <1>4, <1>5, <1>6

\* Every event that fits leaves the tab with lists of the same types.
LEMMA HandledViews ==
  ASSUME NEW C, NEW D, NEW M, NEW MD, NEW v \in TabViews(C, D, M, MD),
         NEW me, NEW e, e.type \in Types, Fits(e, C, D, M, MD),
         \A d, n \in D : [d EXCEPT !.text = n.text] \in D
  PROVE  Handle(v, e, me) \in TabViews(C, D, M, MD)
<1>. DEFINE E == [id : C, doc : D]
            F == [id : M, doc : MD]
<1>0. v \in Views(E, C, Seq(F)) /\ <<>> \in Seq(F)
  BY DEF TabViews
<1>1. CASE e.type = "channel-new"
  <2>1. e.id \in C /\ Entry(e.id, e.doc) \in E
    BY <1>1 DEF Fits, Entry
  <2>. HIDE DEF E, F
  <2>2. ChannelNew(v, e, me) \in Views(E, C, Seq(F))
    BY <1>0, <2>1, ChannelNewView
  <2>. QED
    BY <1>1, <2>2 DEF Handle, TabViews, E, F
<1>2. CASE e.type = "channel-delete"
  BY <1>2, DeletedSome DEF Handle, TabViews
<1>3. CASE e.type = "channel-update"
  <2>1. ASSUME e.doc # Null
        PROVE  /\ Entry(e.id, e.doc) \in E
               /\ \A x \in E : [x EXCEPT !.doc.text = e.doc.text] \in E
    BY <1>3, <2>1 DEF Fits, Entry
  <2>. HIDE DEF E, F
  <2>2. ChannelUpdate(v, e) \in Views(E, C, Seq(F))
    BY <1>0, <2>1, ChannelUpdateView
  <2>. QED
    BY <1>3, <2>2 DEF Handle, TabViews, E, F
<1>4. CASE e.type \in {"message-new", "message-update", "message-delete"}
  <2>1. /\ e.type = "message-new" => Entry(e.id, e.doc) \in F
        /\ e.type = "message-update" /\ e.doc # Null =>
             Entry(e.id, e.doc) \in F
    BY DEF Fits, Entry
  <2>. HIDE DEF E, F
  <2>2. MessageStep(Handle(v, e, me), v, E, C, Seq(F))
    BY <1>0, <1>4, <2>1, MessageViews DEF Handle
  <2>. QED
    BY <2>2 DEF MessageStep, TabViews, E, F
<1>. QED
  BY <1>1, <1>2, <1>3, <1>4 DEF Types

-----------------------------------------------------------------------------
(* The channels a tab knows. *)

\* Removing an entry that is listed once removes its identifier.
LEMMA RemovedOnce ==
  ASSUME NEW E, NEW entries \in Seq(E), ListedOnce(entries),
         NEW k \in 1..Len(entries)
  PROVE  /\ ListedOnce(RemoveAt(entries, k))
         /\ IdsOf(RemoveAt(entries, k)) = IdsOf(entries) \ {entries[k].id}
<1>. DEFINE n == Len(entries)
            rest == RemoveAt(entries, k)
            from(j) == IF j < k THEN j ELSE j + 1
<1>1. /\ n \in Nat /\ Len(rest) = n - 1
      /\ \A j \in 1..n - 1 : /\ rest[j] = entries[from(j)]
                             /\ from(j) \in 1..n /\ from(j) # k
  BY Removed
<1>2. \A i, j \in 1..n - 1 : from(i) = from(j) => i = j
  OBVIOUS
<1>3. ASSUME NEW i \in 1..n, i # k
      PROVE  \E j \in 1..n - 1 : i = from(j)
  <2>1. CASE i < k
    BY <2>1, <1>1
  <2>2. CASE i > k
    <3>1. i - 1 \in 1..n - 1 /\ i = from(i - 1)
      BY <2>2, <1>1
    <3>. QED
      BY <3>1
  <2>. QED
    BY <2>1, <2>2, <1>3
<1>. HIDE DEF rest, from
<1>4. ListedOnce(rest)
  BY <1>1, <1>2 DEF ListedOnce
<1>5. \A i \in 1..n : i # k => entries[i].id # entries[k].id
  BY DEF ListedOnce
<1>6. IdsOf(rest) \subseteq IdsOf(entries) \ {entries[k].id}
  BY <1>1, <1>5 DEF IdsOf
<1>7. ASSUME NEW i \in 1..n, i # k PROVE entries[i].id \in IdsOf(rest)
  BY <1>1, <1>3, <1>7 DEF IdsOf
<1>8. IdsOf(entries) \ {entries[k].id} \subseteq IdsOf(rest)
  BY <1>7 DEF IdsOf
<1>. QED
  BY <1>4, <1>6, <1>8 DEF rest

\* Adding an entry whose identifier was not listed.
LEMMA AddedOnce ==
  ASSUME NEW E, NEW entries \in Seq(E), NEW x \in E
  PROVE  /\ IdsOf(Append(entries, x)) = IdsOf(entries) \cup {x.id}
         /\ ListedOnce(entries) /\ x.id \notin IdsOf(entries) =>
              ListedOnce(Append(entries, x))
<1>. DEFINE n == Len(entries)
            more == Append(entries, x)
<1>1. /\ n \in Nat /\ Len(more) = n + 1 /\ more[n + 1] = x
      /\ \A i \in 1..n : more[i] = entries[i]
  OBVIOUS
<1>2. 1..n + 1 = 1..n \cup {n + 1} /\ n + 1 \notin 1..n
  BY <1>1
<1>. HIDE DEF more, n
<1>3. IdsOf(more) = {more[i].id : i \in 1..n} \cup {more[n + 1].id}
  BY <1>1, <1>2 DEF IdsOf
<1>4. {more[i].id : i \in 1..n} = IdsOf(entries)
  BY <1>1 DEF IdsOf, n
<1>5. ASSUME ListedOnce(entries), x.id \notin IdsOf(entries),
             NEW i \in 1..n + 1, NEW j \in 1..n + 1, more[i].id = more[j].id
      PROVE  i = j
  <2>1. \A k \in 1..n : more[k].id # x.id
    BY <1>1, <1>5 DEF IdsOf, n
  <2>2. i \in 1..n /\ j \in 1..n => i = j
    BY <1>1, <1>5 DEF ListedOnce, n
  <2>. QED
    BY <1>1, <1>2, <1>5, <2>1, <2>2
<1>. QED
  BY <1>1, <1>3, <1>4, <1>5 DEF more, ListedOnce

\* Deleting a channel that is listed once takes it off the list, and what is
\* displayed instead was listed.
LEMMA DeletedIds ==
  ASSUME NEW E, NEW C, NEW L, NEW v \in Views(E, C, L),
         ListedOnce(v.channels), NEW e
  PROVE  LET w == ChannelDelete(v, e) IN
         /\ ListedOnce(w.channels)
         /\ IdsOf(w.channels) = IdsOf(v.channels) \ {e.id}
<1>1. CASE e.id \notin IdsOf(v.channels)
  BY <1>1, DeletedOnce
<1>2. ASSUME NEW k \in 1..Len(v.channels), v.channels[k].id = e.id
      PROVE  LET w == ChannelDelete(v, e) IN
             /\ ListedOnce(w.channels)
             /\ IdsOf(w.channels) = IdsOf(v.channels) \ {e.id}
  <2>0. ChannelDelete(v, e) = Without(v, k, e)
    BY <1>2, DeletedOnce
  <2>1. ChannelDelete(v, e).channels = RemoveAt(v.channels, k)
    BY <2>0 DEF Without
  <2>2. v.channels \in Seq(E)
    BY InViews
  <2>. QED
    BY <1>2, <2>1, <2>2, RemovedOnce
<1>. QED
  BY <1>1, <1>2 DEF IdsOf

\* The channels w lists when v has heard of e, and the one it displays.
Relists(w, v, e, me) ==
  /\ ListedOnce(w.channels)
  /\ IdsOf(w.channels) =
       CASE e.type = "channel-new" -> IdsOf(v.channels) \cup {e.id}
         [] e.type = "channel-delete" -> IdsOf(v.channels) \ {e.id}
         [] OTHER -> IdsOf(v.channels)
  /\ \/ w.current = v.current
     \/ /\ e.type = "channel-new" /\ e.doc.creator = me
        /\ w.current = Entry(e.id, e.doc)
     \/ /\ e.type = "channel-delete" /\ Displays(v, e.id)
        /\ w.current \in ElementsOf(v.channels)
     \/ /\ e.type = "channel-update" /\ e.doc # Null /\ Displays(v, e.id)
        /\ w.current = [v.current EXCEPT !.doc.text = e.doc.text]

\* An event adds its channel to the list or removes it, and what is displayed
\* instead is a channel of the list.
LEMMA HandledIds ==
  ASSUME NEW C, NEW D, NEW M, NEW MD, NEW v \in TabViews(C, D, M, MD),
         NEW me, NEW e, e.type \in Types, Fits(e, C, D, M, MD),
         ListedOnce(v.channels),
         e.type = "channel-new" => e.id \notin IdsOf(v.channels)
  PROVE  Relists(Handle(v, e, me), v, e, me)
<1>. USE DEF Relists
<1>. DEFINE E == [id : C, doc : D]
            F == [id : M, doc : MD]
            w == Handle(v, e, me)
<1>0. v \in Views(E, C, Seq(F)) /\ <<>> \in Seq(F)
  BY DEF TabViews
<1>a. v.channels \in Seq(E)
  BY <1>0, InViews
<1>1. CASE e.type = "channel-new"
  <2>1. e.id \in C /\ Entry(e.id, e.doc) \in E
    BY <1>1 DEF Fits, Entry
  <2>. HIDE DEF E, F
  <2>2. w = ChannelNew(v, e, me)
    BY <1>1 DEF Handle
  <2>3. /\ w.channels = Append(v.channels, Entry(e.id, e.doc))
        /\ w.current = IF e.doc.creator = me THEN Entry(e.id, e.doc)
                       ELSE v.current
    <3>. DEFINE L == Seq(F)
    <3>1. v \in Views(E, C, L) /\ <<>> \in L
      BY <1>0
    <3>. HIDE DEF L, w
    <3>. QED
      BY <2>1, <2>2, <3>1, ChannelNewView
  <2>. HIDE DEF w
  <2>4. Entry(e.id, e.doc).id = e.id
    BY DEF Entry
  <2>5. /\ ListedOnce(w.channels)
        /\ IdsOf(w.channels) = IdsOf(v.channels) \cup {e.id}
    BY <1>1, <1>a, <2>1, <2>3, <2>4, AddedOnce
  <2>. QED
    BY <1>1, <2>3, <2>5 DEF w
<1>2. CASE e.type = "channel-delete"
  <2>. HIDE DEF E, F
  <2>1. w = ChannelDelete(v, e)
    BY <1>2 DEF Handle
  <2>. HIDE DEF w
  <2>2. /\ ListedOnce(w.channels)
        /\ IdsOf(w.channels) = IdsOf(v.channels) \ {e.id}
    BY <1>0, <2>1, DeletedIds
  <2>3. \/ w.current = v.current
        \/ Displays(v, e.id) /\ w.current \in ElementsOf(v.channels)
    BY <1>0, <2>1, DeletedSome DEF KeepsTo
  <2>. QED
    BY <1>2, <2>2, <2>3 DEF w
<1>3. CASE e.type = "channel-update"
  <2>1. w = ChannelUpdate(v, e)
    BY <1>3 DEF Handle
  <2>2. CASE e.doc = Null \/ v.channels = <<>>
    BY <1>3, <2>1, <2>2 DEF ChannelUpdate
  <2>3. CASE ~(e.doc = Null \/ v.channels = <<>>)
    <3>1. /\ w.channels = Replaced(v.channels, e)
          /\ w.current = IF Displays(v, e.id)
                         THEN [v.current EXCEPT !.doc.text = e.doc.text]
                         ELSE v.current
      BY <1>0, <2>1, <2>3 DEF ChannelUpdate, Views
    <3>2. Entry(e.id, e.doc) \in E
      BY <1>3, <2>3 DEF Fits, Entry
    <3>. HIDE DEF E, F, w
    <3>3. /\ Len(w.channels) = Len(v.channels)
          /\ \A i \in 1..Len(v.channels) : w.channels[i].id = v.channels[i].id
      BY <1>a, <3>1, <3>2, ReplacedEntries DEF Entry
    <3>4. ListedOnce(w.channels) /\ IdsOf(w.channels) = IdsOf(v.channels)
      BY <3>3 DEF ListedOnce, IdsOf
    <3>. QED
      BY <1>3, <2>3, <3>1, <3>4 DEF w
  <2>. QED
    BY <2>2, <2>3
<1>4. CASE e.type \in {"message-new", "message-update", "message-delete"}
  <2>1. /\ e.type = "message-new" => Entry(e.id, e.doc) \in F
        /\ e.type = "message-update" /\ e.doc # Null =>
             Entry(e.id, e.doc) \in F
    BY DEF Fits, Entry
  <2>. HIDE DEF E, F
  <2>2. MessageStep(w, v, E, C, Seq(F))
    BY <1>0, <1>4, <2>1, MessageViews DEF Handle
  <2>. HIDE DEF w
  <2>. QED
    BY <1>4, <2>2 DEF MessageStep, w
<1>. QED
  BY <1>1, <1>2, <1>3, <1>4 DEF Types

\* e changes a channel that still exists.
Updates(e) == e.type = "channel-update" /\ e.doc # Null

\* What w has for each channel is what v had, or what e carries.
Renames(w, v, e) ==
  /\ \A x \in ElementsOf(w.channels) :
       \/ x \in ElementsOf(v.channels) /\ (Updates(e) => x.id # e.id)
       \/ (e.type = "channel-new" \/ Updates(e)) /\ x = Entry(e.id, e.doc)
  /\ Updates(e) /\ v.channels # <<>> =>
       w.current = IF Displays(v, e.id)
                   THEN [v.current EXCEPT !.doc.text = e.doc.text]
                   ELSE v.current

\* An event changes the entries of its own channel only, and an update all of
\* them.
LEMMA HandledEntries ==
  ASSUME NEW C, NEW D, NEW M, NEW MD, NEW v \in TabViews(C, D, M, MD),
         NEW me, NEW e, e.type \in Types, Fits(e, C, D, M, MD)
  PROVE  Renames(Handle(v, e, me), v, e)
<1>. DEFINE E       == [id : C, doc : D]
            F       == [id : M, doc : MD]
            w       == Handle(v, e, me)
            updates == e.type = "channel-update" /\ e.doc # Null
            new     == Entry(e.id, e.doc)
            Right(u) ==
              /\ \A x \in ElementsOf(u.channels) :
                   \/ x \in ElementsOf(v.channels) /\ (updates => x.id # e.id)
                   \/ (e.type = "channel-new" \/ updates) /\ x = new
              /\ updates /\ v.channels # <<>> =>
                   u.current = IF Displays(v, e.id)
                               THEN [v.current EXCEPT !.doc.text = e.doc.text]
                               ELSE v.current
<1>. SUFFICES Right(w)
  BY DEF Renames, Updates
<1>0. v \in Views(E, C, Seq(F)) /\ <<>> \in Seq(F)
  BY DEF TabViews
<1>a. v.channels \in Seq(E)
  BY <1>0, InViews
<1>1. CASE e.type = "channel-new"
  <2>1. e.id \in C /\ new \in E
    BY <1>1 DEF Fits, Entry
  <2>. HIDE DEF E, F, new
  <2>2. w.channels = Append(v.channels, new)
    <3>. DEFINE L == Seq(F)
    <3>1. v \in Views(E, C, L) /\ <<>> \in L
      BY <1>0
    <3>2. w = ChannelNew(v, e, me)
      BY <1>1 DEF Handle
    <3>. HIDE DEF L, w
    <3>. QED
      BY <2>1, <3>1, <3>2, ChannelNewView DEF new
  <2>. HIDE DEF w
  <2>3. \A x \in ElementsOf(w.channels) :
          x \in ElementsOf(v.channels) \/ x = new
    BY <1>a, <2>1, <2>2 DEF ElementsOf
  <2>. QED
    BY <1>1, <2>3
<1>2. CASE e.type = "channel-delete"
  <2>. HIDE DEF E, F
  <2>1. w = ChannelDelete(v, e)
    BY <1>2 DEF Handle
  <2>. HIDE DEF w
  <2>2. ElementsOf(w.channels) \subseteq ElementsOf(v.channels)
    BY <1>0, <2>1, DeletedSome DEF KeepsTo
  <2>. QED
    BY <1>2, <2>2
<1>3. CASE e.type = "channel-update"
  <2>1. w = ChannelUpdate(v, e)
    BY <1>3 DEF Handle
  <2>2. CASE e.doc = Null \/ v.channels = <<>>
    <3>1. w = v
      BY <2>1, <2>2 DEF ChannelUpdate
    <3>2. v.channels = <<>> => ElementsOf(v.channels) = {}
      BY DEF ElementsOf
    <3>. HIDE DEF w, new
    <3>. QED
      BY <2>2, <3>1, <3>2
  <2>3. CASE ~(e.doc = Null \/ v.channels = <<>>)
    <3>1. /\ w.channels = Replaced(v.channels, e)
          /\ w.current = IF Displays(v, e.id)
                         THEN [v.current EXCEPT !.doc.text = e.doc.text]
                         ELSE v.current
      BY <1>0, <2>1, <2>3 DEF ChannelUpdate, Views
    <3>2. new \in E
      BY <1>3, <2>3 DEF Fits, Entry
    <3>. HIDE DEF E, F, w
    <3>3. /\ Len(w.channels) = Len(v.channels)
          /\ \A i \in 1..Len(v.channels) :
               w.channels[i] = IF v.channels[i].id = e.id THEN new
                               ELSE v.channels[i]
      BY <1>a, <3>1, <3>2, ReplacedEntries
    <3>. HIDE DEF new
    <3>4. \A x \in ElementsOf(w.channels) :
            \/ x \in ElementsOf(v.channels) /\ x.id # e.id
            \/ x = new
      BY <3>3 DEF ElementsOf
    <3>. QED
      BY <1>3, <2>3, <3>1, <3>4
  <2>. QED
    BY <2>2, <2>3
<1>4. CASE e.type \in {"message-new", "message-update", "message-delete"}
  <2>1. /\ e.type = "message-new" => Entry(e.id, e.doc) \in F
        /\ e.type = "message-update" /\ e.doc # Null =>
             Entry(e.id, e.doc) \in F
    BY DEF Fits, Entry
  <2>. HIDE DEF E, F
  <2>2. MessageStep(w, v, E, C, Seq(F))
    BY <1>0, <1>4, <2>1, MessageViews DEF Handle
  <2>. HIDE DEF w
  <2>. QED
    BY <1>4, <2>2 DEF MessageStep
<1>. QED
  BY <1>1, <1>2, <1>3, <1>4 DEF Types

\* The channels w lists were listed in this order by v, or e adds the last; and
\* when a listed channel that is displayed is deleted, the first is displayed.
Follows(w, v, e) ==
  /\ \A i, j \in 1..Len(w.channels) : i < j =>
       \/ \E a, b \in 1..Len(v.channels) :
            /\ a < b /\ w.channels[i].id = v.channels[a].id
            /\ w.channels[j].id = v.channels[b].id
       \/ /\ e.type = "channel-new" /\ w.channels[j].id = e.id
          /\ w.channels[i].id \in IdsOf(v.channels)
  /\ (/\ e.type = "channel-delete" /\ Displays(v, e.id)
      /\ e.id \in IdsOf(v.channels))
     => w.current = v.channels[1]

\* An event leaves the channels in their order, and adds to the end.
LEMMA HandledOrder ==
  ASSUME NEW C, NEW D, NEW M, NEW MD, NEW v \in TabViews(C, D, M, MD),
         NEW me, NEW e, e.type \in Types, Fits(e, C, D, M, MD),
         ListedOnce(v.channels)
  PROVE  Follows(Handle(v, e, me), v, e)
<1>. DEFINE E == [id : C, doc : D]
            F == [id : M, doc : MD]
            w == Handle(v, e, me)
<1>0. v \in Views(E, C, Seq(F)) /\ <<>> \in Seq(F)
  BY DEF TabViews
<1>a. v.channels \in Seq(E)
  BY <1>0, InViews
<1>b. PICK n \in Nat : n = Len(v.channels)
  BY <1>a
<1>1. CASE e.type = "channel-new"
  <2>1. e.id \in C /\ Entry(e.id, e.doc) \in E
    BY <1>1 DEF Fits, Entry
  <2>2. w = ChannelNew(v, e, me)
    BY <1>1 DEF Handle
  <2>3. w.channels = Append(v.channels, Entry(e.id, e.doc))
    <3>. DEFINE L == Seq(F)
    <3>1. v \in Views(E, C, L) /\ <<>> \in L
      BY <1>0
    <3>. HIDE DEF L, w, E
    <3>. QED
      BY <2>1, <2>2, <3>1, ChannelNewView
  <2>. HIDE DEF w, E
  <2>4. Entry(e.id, e.doc).id = e.id
    BY DEF Entry
  <2>5. /\ Len(w.channels) = n + 1 /\ w.channels[n + 1].id = e.id
        /\ \A i \in 1..n : w.channels[i] = v.channels[i]
    BY <1>a, <1>b, <2>1, <2>3, <2>4
  <2>6. ASSUME NEW i \in 1..Len(w.channels), NEW j \in 1..Len(w.channels),
               i < j
        PROVE  \/ \E a, b \in 1..Len(v.channels) :
                    /\ a < b /\ w.channels[i].id = v.channels[a].id
                    /\ w.channels[j].id = v.channels[b].id
               \/ /\ w.channels[j].id = e.id
                  /\ w.channels[i].id \in IdsOf(v.channels)
    <3>1. i \in 1..n /\ w.channels[i].id = v.channels[i].id
      BY <1>b, <2>5, <2>6
    <3>2. CASE j = n + 1
      BY <1>b, <2>5, <3>1, <3>2 DEF IdsOf
    <3>3. CASE j # n + 1
      <4>1. j \in 1..n /\ w.channels[j].id = v.channels[j].id
        BY <1>b, <2>5, <3>3
      <4>. QED
        BY <1>b, <2>6, <3>1, <4>1
    <3>. QED
      BY <3>2, <3>3
  <2>7. Follows(w, v, e)
    BY <1>1, <2>6 DEF Follows
  <2>. QED
    BY <2>7 DEF w
<1>2. CASE e.type = "channel-delete"
  <2>. HIDE DEF E, F
  <2>1. w = ChannelDelete(v, e)
    BY <1>2 DEF Handle
  <2>. HIDE DEF w
  <2>2. CASE e.id \notin IdsOf(v.channels)
    <3>1. w = v
      BY <1>0, <2>1, <2>2, DeletedOnce
    <3>2. Follows(w, v, e)
      BY <2>2, <3>1 DEF Follows
    <3>. QED
      BY <3>2 DEF w
  <2>3. ASSUME NEW k \in 1..Len(v.channels), v.channels[k].id = e.id
        PROVE  Follows(w, v, e)
    <3>1. w = Without(v, k, e)
      BY <1>0, <2>1, <2>3, DeletedOnce
    <3>2. /\ w.channels = RemoveAt(v.channels, k)
          /\ Displays(v, e.id) => w.current = v.channels[1]
      BY <3>1 DEF Without
    <3>3. /\ Len(w.channels) = n - 1
          /\ \A i \in 1..n - 1 :
               w.channels[i] = IF i < k THEN v.channels[i]
                               ELSE v.channels[i + 1]
      BY <1>a, <1>b, <2>3, <3>2, Removed
    <3>4. ASSUME NEW i \in 1..Len(w.channels), NEW j \in 1..Len(w.channels),
                 i < j
          PROVE  \E a, b \in 1..Len(v.channels) :
                   /\ a < b /\ w.channels[i].id = v.channels[a].id
                   /\ w.channels[j].id = v.channels[b].id
      <4>. DEFINE from(x) == IF x < k THEN x ELSE x + 1
      <4>1. /\ i \in 1..n - 1 /\ j \in 1..n - 1
            /\ from(i) \in 1..n /\ from(j) \in 1..n /\ from(i) < from(j)
        BY <1>b, <2>3, <3>3, <3>4
      <4>2. /\ w.channels[i] = v.channels[from(i)]
            /\ w.channels[j] = v.channels[from(j)]
        BY <3>3, <4>1
      <4>. HIDE DEF from
      <4>. QED
        BY <1>b, <4>1, <4>2
    <3>. QED
      BY <1>2, <3>2, <3>4 DEF Follows
  <2>. QED
    BY <2>2, <2>3 DEF IdsOf, w
<1>3. ASSUME /\ Len(w.channels) = n /\ e.type # "channel-delete"
             /\ \A i \in 1..n : w.channels[i].id = v.channels[i].id
      PROVE  Follows(w, v, e)
  <2>. HIDE DEF w
  <2>1. Follows(w, v, e)
    BY <1>b, <1>3 DEF Follows
  <2>. QED
    BY <2>1 DEF w
<1>4. CASE e.type = "channel-update"
  <2>1. w = ChannelUpdate(v, e)
    BY <1>4 DEF Handle
  <2>2. CASE e.doc = Null \/ v.channels = <<>>
    BY <1>b, <1>3, <1>4, <2>1, <2>2 DEF ChannelUpdate
  <2>3. CASE ~(e.doc = Null \/ v.channels = <<>>)
    <3>1. w.channels = Replaced(v.channels, e)
      BY <1>0, <2>1, <2>3 DEF ChannelUpdate, Views
    <3>2. Entry(e.id, e.doc) \in E
      BY <1>4, <2>3 DEF Fits, Entry
    <3>3. /\ Len(w.channels) = n
          /\ \A i \in 1..n : w.channels[i].id = v.channels[i].id
      <4>. HIDE DEF E, F, w
      <4>. QED
        BY <1>a, <1>b, <3>1, <3>2, ReplacedEntries DEF Entry
    <3>. QED
      BY <1>3, <1>4, <3>3
  <2>. QED
    BY <2>2, <2>3
<1>5. CASE e.type \in {"message-new", "message-update", "message-delete"}
  <2>1. /\ e.type = "message-new" => Entry(e.id, e.doc) \in F
        /\ e.type = "message-update" /\ e.doc # Null =>
             Entry(e.id, e.doc) \in F
    BY <1>5 DEF Fits, Entry
  <2>2. MessageStep(w, v, E, C, Seq(F))
    <3>. HIDE DEF E, F
    <3>. QED
      BY <1>0, <1>5, <2>1, MessageViews DEF Handle
  <2>3. w.channels = v.channels
    BY <2>2 DEF MessageStep
  <2>. QED
    BY <1>b, <1>3, <1>5, <2>3
<1>. QED
  BY <1>1, <1>2, <1>4, <1>5 DEF Types

-----------------------------------------------------------------------------
(* Selecting elements of a sequence.                                         *)

\* The elements of s that are in S, in their order.
Those(s, S) ==
  LET keep(found, x) == IF x \in S THEN Append(found, x) ELSE found
  IN FoldLeft(keep, <<>>, s)

\* f selects the elements of S from s, one after the other.
Selects(f, s, S) ==
  /\ f[0] = <<>> /\ f[Len(s)] = Those(s, S)
  /\ \A i \in 1..Len(s) :
       f[i] = IF s[i] \in S THEN Append(f[i - 1], s[i]) ELSE f[i - 1]

\* What Those() does, one element after the other.
LEMMA ThoseSteps ==
  ASSUME NEW E, NEW s \in Seq(E), NEW S
  PROVE  \E f \in [0..Len(s) -> Seq(E)] : Selects(f, s, S)
<1>. DEFINE n == Len(s)
            X == Seq(E)
            keep(found, x) == IF x \in S THEN Append(found, x) ELSE found
            Is(g) == g = [t \in SUBSET (DOMAIN s) |->
                            IF t = {} THEN <<>>
                            ELSE keep(g[t \ {Max(t)}], s[Max(t)])]
            it == CHOOSE g : Is(g)
<1>1. Those(s, S) = it[DOMAIN s]
  BY DEF Those, FoldLeft, MapThenFoldSet
<1>2. n \in Nat /\ DOMAIN s = 1..n /\ <<>> \in X
  OBVIOUS
<1>3. ASSUME NEW found \in X, NEW i \in 1..n PROVE keep(found, s[i]) \in X
  OBVIOUS
<1>. HIDE DEF keep, X, n
<1>. DEFINE step == [i \in 1..n |-> [found \in X |-> keep(found, s[i])]]
<1>4. /\ step \in [1..n -> [X -> X]]
      /\ \A i \in 1..n, x \in X : step[i][x] = keep(x, s[i])
  BY <1>3
<1>. HIDE DEF step
<1>5. PICK g \in [SUBSET (1..n) -> X] : Folds(g, n, <<>>, step)
  BY <1>2, <1>4, Folding
<1>6. ASSUME NEW t \in SUBSET (1..n), t # {}
      PROVE  Max(t) \in 1..n /\ t \ {Max(t)} \in SUBSET (1..n)
  BY <1>2, <1>6, MaxOf
<1>7. Is(g)
  <2>1. ASSUME NEW t \in SUBSET (1..n)
        PROVE  g[t] = IF t = {} THEN <<>>
                      ELSE keep(g[t \ {Max(t)}], s[Max(t)])
    <3>1. CASE t = {}
      BY <3>1, <1>5 DEF Folds
    <3>2. CASE t # {}
      <4>1. Max(t) \in 1..n /\ g[t \ {Max(t)}] \in X
        BY <1>6, <3>2
      <4>. QED
        BY <1>4, <1>5, <3>2, <4>1 DEF Folds
    <3>. QED
      BY <3>1, <3>2
  <2>. QED
    BY <2>1, <1>2
<1>8. Is(it)
  <2>. HIDE DEF Is
  <2>. QED
    BY <1>7
<1>9. \A t \in SUBSET (1..n) :
        it[t] = IF t = {} THEN <<>>
                ELSE keep(it[t \ {Max(t)}], s[Max(t)])
  <2>. HIDE DEF it
  <2>. QED
    BY <1>8, <1>2
<1>. HIDE DEF it
<1>10. Continues(it, n, X, <<>>, step)
  <2>1. it[{}] = <<>>
    BY <1>9
  <2>2. ASSUME NEW t \in SUBSET (1..n), t # {}, it[t \ {Max(t)}] \in X
        PROVE  it[t] = step[Max(t)][it[t \ {Max(t)}]]
    <3>1. it[t] = keep(it[t \ {Max(t)}], s[Max(t)])
      BY <1>9, <2>2
    <3>2. Max(t) \in 1..n
      BY <1>6, <2>2
    <3>. QED
      BY <1>4, <2>2, <3>1, <3>2
  <2>. QED
    BY <2>1, <2>2 DEF Continues
<1>11. PICK f \in [0..n -> X] : Goes(f, n, <<>>, it[1..n], step)
  BY <1>2, <1>4, <1>10, FoldSteps
<1>12. ASSUME NEW i \in 1..n PROVE f[i] = keep(f[i - 1], s[i])
  <2>1. i - 1 \in 0..n
    BY <1>2
  <2>. QED
    BY <1>4, <1>11, <2>1 DEF Goes
<1>13. f[n] = Those(s, S)
  BY <1>1, <1>2, <1>11 DEF Goes
<1>. QED
  BY <1>11, <1>12, <1>13 DEF keep, X, n, Goes, Selects

\* s has a at an earlier place than b.
Before(a, b, s) ==
  \E i, j \in 1..Len(s) : i < j /\ s[i] = a /\ s[j] = b

\* The elements of t are in the order they have in s.
Ordered(t, s) ==
  \A i, j \in 1..Len(t) : i < j => Before(t[i], t[j], s)

\* Those() finds every element of the set, and keeps their order.
LEMMA ThoseAre ==
  ASSUME NEW E, NEW s \in Seq(E), NEW S
  PROVE  /\ Those(s, S) \in Seq(E)
         /\ ElementsOf(Those(s, S)) = ElementsOf(s) \cap S
         /\ Ordered(Those(s, S), s)
<1>. PICK n \in Nat : n = Len(s)
  OBVIOUS
<1>1. PICK f \in [0..n -> Seq(E)] : Selects(f, s, S)
  BY ThoseSteps
<1>. DEFINE
  Has(t, k) ==
    /\ ElementsOf(t) = {s[a] : a \in 1..k} \cap S
    /\ \A i, j \in 1..Len(t) : i < j =>
         \E a, b \in 1..k : a < b /\ s[a] = t[i] /\ s[b] = t[j]
  T == {k \in Nat : k \in 0..n => Has(f[k], k)}
<1>2. Has(f[0], 0)
  <2>1. f[0] = <<>> /\ Len(<<>>) = 0 /\ 1..0 = {}
    BY <1>1 DEF Selects
  <2>. QED
    BY <2>1 DEF ElementsOf
<1>3. ASSUME NEW k \in Nat, NEW t \in Seq(E), Has(t, k), k + 1 \in 1..n,
             NEW u, u = IF s[k + 1] \in S THEN Append(t, s[k + 1]) ELSE t
      PROVE  Has(u, k + 1)
  <2>0. 1..k + 1 = (1..k) \cup {k + 1}
    OBVIOUS
  <2>1. {s[a] : a \in 1..k + 1} = {s[a] : a \in 1..k} \cup {s[k + 1]}
    BY <2>0
  <2>2. CASE s[k + 1] \notin S
    <3>1. u = t
      BY <1>3, <2>2
    <3>2. ElementsOf(u) = {s[a] : a \in 1..k + 1} \cap S
      BY <1>3, <2>1, <2>2, <3>1
    <3>3. ASSUME NEW i \in 1..Len(u), NEW j \in 1..Len(u), i < j
          PROVE  \E a, b \in 1..k + 1 : a < b /\ s[a] = u[i] /\ s[b] = u[j]
      BY <1>3, <2>0, <3>1, <3>3
    <3>. QED
      BY <3>2, <3>3
  <2>3. CASE s[k + 1] \in S
    <3>1. /\ Len(u) = Len(t) + 1 /\ u[Len(t) + 1] = s[k + 1]
          /\ \A i \in 1..Len(t) : u[i] = t[i]
      BY <1>3, <2>3
    <3>. HIDE DEF Has
    <3>2. ElementsOf(u) = ElementsOf(t) \cup {s[k + 1]}
      <4>1. 1..Len(u) = (1..Len(t)) \cup {Len(t) + 1}
        BY <3>1
      <4>. QED
        BY <3>1, <4>1 DEF ElementsOf
    <3>3. ElementsOf(u) = {s[a] : a \in 1..k + 1} \cap S
      BY <1>3, <2>1, <2>3, <3>2 DEF Has
    <3>4. ASSUME NEW i \in 1..Len(u), NEW j \in 1..Len(u), i < j
          PROVE  \E a, b \in 1..k + 1 : a < b /\ s[a] = u[i] /\ s[b] = u[j]
      <4>1. CASE j \in 1..Len(t)
        <5>1. i \in 1..Len(t)
          BY <3>4, <4>1
        <5>. QED
          BY <1>3, <3>1, <3>4, <4>1, <5>1 DEF Has
      <4>2. CASE j = Len(t) + 1
        <5>1. i \in 1..Len(t)
          BY <3>4, <4>2
        <5>2. u[i] \in {s[a] : a \in 1..k}
          BY <1>3, <3>1, <5>1 DEF Has, ElementsOf
        <5>. QED
          BY <3>1, <4>2, <5>2
      <4>. QED
        BY <3>1, <4>1, <4>2
    <3>. QED
      BY <3>3, <3>4 DEF Has
  <2>. QED
    BY <2>2, <2>3
<1>4. 0 \in T
  BY <1>2
<1>5. ASSUME NEW k \in Nat, k \in T PROVE k + 1 \in T
  <2>. SUFFICES ASSUME k + 1 \in 0..n PROVE Has(f[k + 1], k + 1)
    OBVIOUS
  <2>1. k + 1 \in 1..n /\ (k + 1) - 1 = k /\ k \in 0..n /\ f[k] \in Seq(E)
    OBVIOUS
  <2>2. f[k + 1] = IF s[k + 1] \in S THEN Append(f[k], s[k + 1]) ELSE f[k]
    BY <1>1, <2>1 DEF Selects
  <2>3. Has(f[k], k)
    BY <1>5, <2>1
  <2>. HIDE DEF Has
  <2>. QED
    BY <1>3, <2>1, <2>2, <2>3
<1>6. n \in T
  <2>. HIDE DEF T
  <2>. QED
    BY <1>4, <1>5, NatSetInduction
<1>7. Has(f[n], n) /\ f[n] = Those(s, S) /\ f[n] \in Seq(E)
  BY <1>1, <1>6 DEF Selects
<1>8. {s[a] : a \in 1..n} = ElementsOf(s)
  BY DEF ElementsOf
<1>. PICK t : t = Those(s, S)
  OBVIOUS
<1>9. t \in Seq(E) /\ ElementsOf(t) = ElementsOf(s) \cap S /\ Has(t, n)
  BY <1>7, <1>8
<1>10. Ordered(t, s)
  BY <1>9 DEF Ordered, Before
<1>. QED
  BY <1>9, <1>10

\* No element is at two places.
Distinct(s) == \A i, j \in 1..Len(s) : s[i] = s[j] => i = j

\* An order determines the sequence of given elements.
LEMMA SameOrder ==
  ASSUME NEW E, NEW s \in Seq(E), Distinct(s),
         NEW t \in Seq(E), NEW u \in Seq(E), Ordered(t, s), Ordered(u, s),
         ElementsOf(t) = ElementsOf(u)
  PROVE  t = u
<1>1. ASSUME NEW a, NEW b, Before(a, b, s), Before(b, a, s) PROVE FALSE
  BY <1>1 DEF Before, Distinct
<1>2. /\ \A i, j \in 1..Len(t) : t[i] = t[j] => i = j
      /\ \A i, j \in 1..Len(u) : u[i] = u[j] => i = j
  <2>1. \A i, j \in 1..Len(t) : i < j \/ j < i \/ i = j
    OBVIOUS
  <2>2. \A i, j \in 1..Len(u) : i < j \/ j < i \/ i = j
    OBVIOUS
  <2>. QED
    BY <1>1, <2>1, <2>2 DEF Ordered
<1>3. /\ \A i \in 1..Len(t) : \E j \in 1..Len(u) : t[i] = u[j]
      /\ \A i \in 1..Len(u) : \E j \in 1..Len(t) : u[i] = t[j]
  <2>1. /\ \A i \in 1..Len(t) : t[i] \in ElementsOf(t)
        /\ \A i \in 1..Len(u) : u[i] \in ElementsOf(u)
    BY DEF ElementsOf
  <2>. QED
    BY <2>1 DEF ElementsOf
<1>. PICK m \in Nat, n \in Nat : m = Len(t) /\ n = Len(u)
  OBVIOUS
<1>. DEFINE
  T == {k \in Nat : k <= m \/ k <= n =>
          /\ k <= m /\ k <= n /\ \A i \in 1..k : t[i] = u[i]}
<1>4. 0 \in T
  OBVIOUS
<1>5. ASSUME NEW k \in Nat, k \in T PROVE k + 1 \in T
  <2>. SUFFICES ASSUME k + 1 <= m \/ k + 1 <= n
                PROVE  k + 1 <= m /\ k + 1 <= n /\ t[k + 1] = u[k + 1]
    BY <1>5
  <2>1. k <= m /\ k <= n /\ \A i \in 1..k : t[i] = u[i]
    BY <1>5
  <2>2. k + 1 <= m => k + 1 <= n
    <3>. SUFFICES ASSUME k + 1 <= m, n = k PROVE FALSE
      BY <2>1
    <3>1. PICK j \in 1..n : t[k + 1] = u[j]
      BY <1>3
    <3>2. t[k + 1] = t[j] /\ j \in 1..m /\ k + 1 \in 1..m /\ j # k + 1
      BY <2>1, <3>1
    <3>. QED
      BY <1>2, <3>2
  <2>3. k + 1 <= n => k + 1 <= m
    <3>. SUFFICES ASSUME k + 1 <= n, m = k PROVE FALSE
      BY <2>1
    <3>1. PICK j \in 1..m : u[k + 1] = t[j]
      BY <1>3
    <3>2. u[k + 1] = u[j] /\ j \in 1..n /\ k + 1 \in 1..n /\ j # k + 1
      BY <2>1, <3>1
    <3>. QED
      BY <1>2, <3>2
  <2>4. k + 1 \in 1..m /\ k + 1 \in 1..n
    BY <2>2, <2>3
  <2>5. PICK j \in 1..n : t[k + 1] = u[j]
    BY <1>3, <2>4
  <2>6. PICK i \in 1..m : u[k + 1] = t[i]
    BY <1>3, <2>4
  <2>7. j >= k + 1
    <3>. SUFFICES ASSUME j \in 1..k PROVE FALSE
      OBVIOUS
    <3>1. t[k + 1] = t[j] /\ j \in 1..m /\ j # k + 1
      BY <2>1, <2>5
    <3>. QED
      BY <1>2, <2>4, <3>1
  <2>8. i >= k + 1
    <3>. SUFFICES ASSUME i \in 1..k PROVE FALSE
      OBVIOUS
    <3>1. u[k + 1] = u[i] /\ i \in 1..n /\ i # k + 1
      BY <2>1, <2>6
    <3>. QED
      BY <1>2, <2>4, <3>1
  <2>9. ASSUME i > k + 1, j > k + 1 PROVE FALSE
    <3>1. Before(t[k + 1], t[i], s) /\ Before(u[k + 1], u[j], s)
      BY <2>4, <2>9 DEF Ordered
    <3>. QED
      BY <1>1, <2>5, <2>6, <3>1
  <2>10. i = k + 1 \/ j = k + 1
    BY <2>7, <2>8, <2>9
  <2>. QED
    BY <2>4, <2>5, <2>6, <2>10
<1>6. \A k \in Nat : k \in T
  <2>. HIDE DEF T
  <2>. QED
    BY <1>4, <1>5, NatSetInduction
<1>7. m \in T /\ n \in T
  BY <1>6
<1>. QED
  BY <1>7

-----------------------------------------------------------------------------
(* The lists of messages.                                                    *)

\* The event brings channel c a message, an edit of one, or, while v displays
\* the channel, a deletion.
NewFor(e, c) == e.type = "message-new" /\ e.doc.channel = c

EditFor(e, c) ==
  e.type = "message-update" /\ e.doc # Null /\ e.doc.channel = c

DropFor(v, e, c) == e.type = "message-delete" /\ Displays(v, c)

\* The list l of the messages of c is what e makes of k.
Relays(l, k, v, e, c) ==
  /\ IdsOf(l) = IF NewFor(e, c) THEN IdsOf(k) \cup {e.id}
                ELSE IF DropFor(v, e, c) THEN IdsOf(k) \ {e.id}
                ELSE IdsOf(k)
  /\ \A x \in ElementsOf(l) :
       \/ x \in ElementsOf(k) /\ (EditFor(e, c) => x.id # e.id)
       \/ (NewFor(e, c) \/ EditFor(e, c)) /\ x = Entry(e.id, e.doc)
  /\ \A i, j \in 1..Len(l) : i < j =>
       \/ \E a, b \in 1..Len(k) :
            a < b /\ l[i].id = k[a].id /\ l[j].id = k[b].id
       \/ NewFor(e, c) /\ l[j].id = e.id /\ l[i].id \in IdsOf(k)

\* A message is added, replaced where it is listed, or removed; the order of
\* the others stays.
LEMMA RelayedList ==
  ASSUME NEW E, NEW k \in Seq(E), ListedOnce(k), NEW v, NEW e, NEW c, NEW l,
         \/ /\ l = k /\ ~NewFor(e, c) /\ ~EditFor(e, c) /\ ~DropFor(v, e, c)
         \/ /\ NewFor(e, c) /\ Entry(e.id, e.doc) \in E
            /\ l = Append(k, Entry(e.id, e.doc))
         \/ /\ EditFor(e, c) /\ Entry(e.id, e.doc) \in E
            /\ l = Replaced(k, e)
         \/ DropFor(v, e, c) /\ l = Spliced(k, e.id)
  PROVE  Relays(l, k, v, e, c)
<1>. DEFINE x == Entry(e.id, e.doc)
<1>a. PICK n \in Nat : n = Len(k)
  OBVIOUS
<1>b. x.id = e.id
  BY DEF Entry
<1>1. CASE l = k /\ ~NewFor(e, c) /\ ~EditFor(e, c) /\ ~DropFor(v, e, c)
  BY <1>1 DEF Relays
<1>2. CASE NewFor(e, c) /\ x \in E /\ l = Append(k, x)
  <2>. HIDE DEF x
  <2>1. IdsOf(l) = IdsOf(k) \cup {e.id}
    BY <1>b, <1>2, AddedOnce
  <2>2. /\ Len(l) = n + 1 /\ l[n + 1] = x /\ \A i \in 1..n : l[i] = k[i]
    BY <1>a, <1>2
  <2>3. \A y \in ElementsOf(l) : y \in ElementsOf(k) \/ y = x
    BY <1>a, <2>2 DEF ElementsOf
  <2>4. ASSUME NEW i \in 1..Len(l), NEW j \in 1..Len(l), i < j
        PROVE  \/ \E a, b \in 1..Len(k) :
                    a < b /\ l[i].id = k[a].id /\ l[j].id = k[b].id
               \/ l[j].id = e.id /\ l[i].id \in IdsOf(k)
    <3>1. i \in 1..n /\ l[i].id = k[i].id
      BY <1>a, <2>2, <2>4
    <3>2. CASE j = n + 1
      BY <1>a, <1>b, <2>2, <3>1, <3>2 DEF IdsOf
    <3>3. CASE j # n + 1
      BY <1>a, <2>2, <2>4, <3>1, <3>3
    <3>. QED
      BY <3>2, <3>3
  <2>5. ~EditFor(e, c)
    BY <1>2 DEF NewFor, EditFor
  <2>. QED
    BY <1>2, <2>1, <2>3, <2>4, <2>5 DEF Relays, x
<1>3. CASE EditFor(e, c) /\ x \in E /\ l = Replaced(k, e)
  <2>1. /\ Len(l) = n
        /\ \A i \in 1..n : l[i] = IF k[i].id = e.id THEN x ELSE k[i]
    BY <1>a, <1>3, ReplacedEntries
  <2>. HIDE DEF x
  <2>2. \A i \in 1..n : l[i].id = k[i].id
    BY <1>b, <2>1
  <2>3. IdsOf(l) = IdsOf(k)
    BY <1>a, <2>1, <2>2 DEF IdsOf
  <2>4. \A y \in ElementsOf(l) :
          (y \in ElementsOf(k) /\ y.id # e.id) \/ y = x
    BY <1>a, <2>1 DEF ElementsOf
  <2>5. \A i, j \in 1..Len(l) : i < j =>
          \E a, b \in 1..Len(k) :
            a < b /\ l[i].id = k[a].id /\ l[j].id = k[b].id
    BY <1>a, <2>1, <2>2
  <2>6. ~NewFor(e, c) /\ ~DropFor(v, e, c)
    BY <1>3 DEF NewFor, EditFor, DropFor
  <2>. QED
    BY <1>3, <2>3, <2>4, <2>5, <2>6 DEF Relays, x
<1>4. CASE DropFor(v, e, c) /\ l = Spliced(k, e.id)
  <2>1. ~NewFor(e, c) /\ ~EditFor(e, c)
    BY <1>4 DEF NewFor, EditFor, DropFor
  <2>2. CASE e.id \notin IdsOf(k)
    <3>1. l = k /\ IdsOf(k) = IdsOf(k) \ {e.id}
      BY <1>4, <2>2, SplicedOnce
    <3>. QED
      BY <1>4, <2>1, <3>1 DEF Relays
  <2>3. ASSUME NEW h \in 1..Len(k), k[h].id = e.id
        PROVE  Relays(l, k, v, e, c)
    <3>1. l = RemoveAt(k, h)
      BY <1>4, <2>3, SplicedOnce
    <3>2. IdsOf(l) = IdsOf(k) \ {e.id}
      BY <2>3, <3>1, RemovedOnce
    <3>3. /\ Len(l) = n - 1 /\ ElementsOf(l) \subseteq ElementsOf(k)
          /\ \A i \in 1..n - 1 : l[i] = IF i < h THEN k[i] ELSE k[i + 1]
      BY <1>a, <2>3, <3>1, Removed
    <3>4. ASSUME NEW i \in 1..Len(l), NEW j \in 1..Len(l), i < j
          PROVE  \E a, b \in 1..Len(k) :
                   a < b /\ l[i].id = k[a].id /\ l[j].id = k[b].id
      <4>. DEFINE a == IF i < h THEN i ELSE i + 1
                  b == IF j < h THEN j ELSE j + 1
      <4>1. a \in 1..n /\ b \in 1..n /\ a < b
        BY <1>a, <2>3, <3>3, <3>4
      <4>2. l[i] = k[a] /\ l[j] = k[b]
        BY <1>a, <2>3, <3>3, <3>4
      <4>. QED
        BY <1>a, <4>1, <4>2
    <3>. QED
      BY <1>4, <2>1, <3>2, <3>3, <3>4 DEF Relays
  <2>. QED
    BY <2>2, <2>3 DEF IdsOf
<1>. QED
  BY <1>1, <1>2, <1>3, <1>4

\* What is cached once a list is replaced.
LEMMA CachedLists ==
  ASSUME NEW E, NEW C, NEW L, NEW v \in Views(E, C, L), NEW c, NEW ms
  PROVE  /\ Cached(Cache(v, c, ms)) = Cached(v) \cup {c}
         /\ Cache(v, c, ms).messages[c] = ms
         /\ \A d \in Cached(v) \ {c} :
              Cache(v, c, ms).messages[d] = v.messages[d]
<1>. DEFINE S == Cached(v) \cup {c}
            messages == [k \in S |-> IF k = c THEN ms ELSE v.messages[k]]
<1>1. Cache(v, c, ms) = [v EXCEPT !.messages = messages]
  BY DEF Cache
<1>2. [v EXCEPT !.messages = messages].messages = messages
  BY DEF Views
<1>3. DOMAIN messages = S /\ c \in S /\ messages[c] = ms
  OBVIOUS
<1>4. \A d \in Cached(v) \ {c} : messages[d] = v.messages[d]
  OBVIOUS
<1>. HIDE DEF messages
<1>. QED
  BY <1>1, <1>2, <1>3, <1>4 DEF Cached

\* What w has for the channels v has messages of.
Delivers(w, v, e) ==
  /\ \A c \in Cached(v) :
       c \in Cached(w) \/ (e.type = "channel-delete" /\ c = e.id)
  /\ e.type = "channel-new" => e.id \in Cached(w)
  /\ \A c \in Cached(w) :
       \/ e.type = "channel-new" /\ c = e.id /\ w.messages[c] = <<>>
       \/ /\ c \in Cached(v)
          /\ ListedOnce(v.messages[c]) =>
               Relays(w.messages[c], v.messages[c], v, e, c)

\* An event changes the list of its own channel only, if it is cached, and a
\* new channel has none.
LEMMA HandledLists ==
  ASSUME NEW C, NEW D, NEW M, NEW MD, NEW v \in TabViews(C, D, M, MD),
         NEW me, NEW e, e.type \in Types, Fits(e, C, D, M, MD),
         ListedOnce(v.channels)
  PROVE  Delivers(Handle(v, e, me), v, e)
<1>. DEFINE E == [id : C, doc : D]
            F == [id : M, doc : MD]
            w == Handle(v, e, me)
<1>0. v \in Views(E, C, Seq(F))
  BY DEF TabViews
<1>a. \A c \in Cached(v) : v.messages[c] \in Seq(F)
  <2>. DEFINE L == Seq(F)
  <2>. HIDE DEF L, E
  <2>. QED
    BY <1>0, InViews DEF L
<1>b. /\ e.type = "message-new" => Entry(e.id, e.doc) \in F
      /\ e.type = "message-update" /\ e.doc # Null => Entry(e.id, e.doc) \in F
  BY DEF Fits, Entry
<1>. HIDE DEF w, E, F
<1>c. ASSUME NEW c \in Cached(v), ListedOnce(v.messages[c]),
             ~NewFor(e, c), ~EditFor(e, c), ~DropFor(v, e, c)
      PROVE  Relays(v.messages[c], v.messages[c], v, e, c)
  BY <1>a, <1>c, RelayedList
<1>d. ASSUME NEW c, NEW ms, w = Cache(v, c, ms), c \in Cached(v),
             e.type # "channel-new",
             \A d \in Cached(v) \ {c} :
               ~NewFor(e, d) /\ ~EditFor(e, d) /\ ~DropFor(v, e, d),
             ListedOnce(v.messages[c]) => Relays(ms, v.messages[c], v, e, c)
      PROVE  Delivers(w, v, e)
  <2>1. /\ Cached(w) = Cached(v) /\ w.messages[c] = ms
        /\ \A d \in Cached(v) \ {c} : w.messages[d] = v.messages[d]
    <3>. DEFINE L == Seq(F)
    <3>. HIDE DEF L
    <3>1. v \in Views(E, C, L)
      BY <1>0 DEF L
    <3>2. /\ Cached(w) = Cached(v) \cup {c} /\ w.messages[c] = ms
          /\ \A d \in Cached(v) \ {c} : w.messages[d] = v.messages[d]
      BY <1>d, <3>1, CachedLists
    <3>. QED
      BY <1>d, <3>2
  <2>. QED
    BY <1>c, <1>d, <2>1 DEF Delivers
<1>1. CASE e.type = "channel-new"
  <2>. DEFINE n == Entry(e.id, e.doc)
              u == [v EXCEPT !.channels = Append(@, n)]
              l == Cache(u, e.id, <<>>)
  <2>1. w = IF e.doc.creator = me THEN [l EXCEPT !.current = n] ELSE l
    BY <1>1 DEF w, Handle, ChannelNew
  <2>2. e.id \in C /\ n \in E
    BY <1>1 DEF Fits, Entry, E
  <2>3. u \in Views(E, C, Seq(F)) /\ u.messages = v.messages
    <3>1. v.channels \in Seq(E)
      BY <1>0, InViews
    <3>2. Append(v.channels, n) \in Seq(E)
      BY <2>2, <3>1
    <3>. HIDE DEF n
    <3>. QED
      BY <1>0, <3>2, WithChannels DEF Views
  <2>. HIDE DEF u
  <2>4. /\ Cached(l) = Cached(v) \cup {e.id} /\ l.messages[e.id] = <<>>
        /\ \A d \in Cached(v) \ {e.id} : l.messages[d] = v.messages[d]
    BY <2>3, CachedLists DEF Cached
  <2>5. l = [u EXCEPT !.messages = l.messages]
    BY <2>3 DEF Cache, Views
  <2>. HIDE DEF l
  <2>6. [l EXCEPT !.current = n].messages = l.messages
    BY <2>3, <2>5 DEF Views
  <2>7. w.messages = l.messages
    BY <2>1, <2>6
  <2>8. \A c \in Cached(v) :
          ~NewFor(e, c) /\ ~EditFor(e, c) /\ ~DropFor(v, e, c)
    BY <1>1 DEF NewFor, EditFor, DropFor
  <2>9. Delivers(w, v, e)
    BY <1>1, <1>c, <2>4, <2>7, <2>8 DEF Delivers, Cached
  <2>. QED
    BY <2>9 DEF w
<1>2. CASE e.type = "channel-delete"
  <2>1. w = ChannelDelete(v, e)
    BY <1>2 DEF w, Handle
  <2>2. \A c \in Cached(v) :
          ~NewFor(e, c) /\ ~EditFor(e, c) /\ ~DropFor(v, e, c)
    BY <1>2 DEF NewFor, EditFor, DropFor
  <2>3. CASE e.id \notin IdsOf(v.channels)
    <3>1. w = v
      BY <1>0, <2>1, <2>3, DeletedOnce
    <3>2. Delivers(w, v, e)
      BY <1>2, <1>c, <2>2, <3>1 DEF Delivers
    <3>. QED
      BY <3>2 DEF w
  <2>4. ASSUME NEW k \in 1..Len(v.channels), v.channels[k].id = e.id
        PROVE  Delivers(w, v, e)
    <3>1. w = Without(v, k, e)
      BY <1>0, <2>1, <2>4, DeletedOnce
    <3>2. /\ Cached(w) = Cached(v) \ {e.id}
          /\ \A c \in Cached(w) : w.messages[c] = v.messages[c]
      BY <3>1 DEF Without, Cached
    <3>. QED
      BY <1>2, <1>c, <2>2, <3>2 DEF Delivers
  <2>. QED
    BY <2>3, <2>4 DEF IdsOf, w
<1>3. CASE e.type = "channel-update"
  <2>1. w = ChannelUpdate(v, e)
    BY <1>3 DEF w, Handle
  <2>2. w.messages = v.messages
    BY <1>0, <2>1 DEF ChannelUpdate, Views
  <2>3. \A c \in Cached(v) :
          ~NewFor(e, c) /\ ~EditFor(e, c) /\ ~DropFor(v, e, c)
    BY <1>3 DEF NewFor, EditFor, DropFor
  <2>4. Delivers(w, v, e)
    BY <1>3, <1>c, <2>2, <2>3 DEF Delivers, Cached
  <2>. QED
    BY <2>4 DEF w
<1>4. ASSUME \A c \in Cached(v) :
               ~NewFor(e, c) /\ ~EditFor(e, c) /\ ~DropFor(v, e, c),
             w = v, e.type # "channel-new"
      PROVE  Delivers(w, v, e)
  BY <1>4, <1>c DEF Delivers
<1>5. CASE e.type = "message-new"
  <2>. DEFINE c == e.doc.channel
  <2>1. w = MessageNew(v, e)
    BY <1>5 DEF w, Handle
  <2>2. \A d : /\ NewFor(e, d) <=> d = c
               /\ ~EditFor(e, d) /\ ~DropFor(v, e, d)
    BY <1>5 DEF NewFor, EditFor, DropFor
  <2>3. CASE c \in Cached(v)
    <3>1. w = Cache(v, c, Append(v.messages[c], Entry(e.id, e.doc)))
      BY <2>1, <2>3 DEF MessageNew
    <3>2. ListedOnce(v.messages[c]) =>
            Relays(Append(v.messages[c], Entry(e.id, e.doc)),
                   v.messages[c], v, e, c)
      BY <1>a, <1>b, <1>5, <2>2, <2>3, RelayedList
    <3>. HIDE DEF c
    <3>3. Delivers(w, v, e)
      BY <1>d, <1>5, <2>2, <2>3, <3>1, <3>2
    <3>. QED
      BY <3>3 DEF w
  <2>4. CASE c \notin Cached(v)
    <3>1. w = v
      BY <2>1, <2>4 DEF MessageNew
    <3>. QED
      BY <1>4, <1>5, <2>2, <2>4, <3>1 DEF w
  <2>. QED
    BY <2>3, <2>4
<1>6. CASE e.type = "message-update"
  <2>. DEFINE c == e.doc.channel
  <2>1. w = MessageUpdate(v, e)
    BY <1>6 DEF w, Handle
  <2>2. \A d : /\ EditFor(e, d) <=> e.doc # Null /\ d = c
               /\ ~NewFor(e, d) /\ ~DropFor(v, e, d)
    BY <1>6 DEF NewFor, EditFor, DropFor
  <2>3. CASE e.doc # Null /\ c \in Cached(v)
    <3>1. w = Cache(v, c, Replaced(v.messages[c], e))
      BY <2>1, <2>3 DEF MessageUpdate
    <3>2. ListedOnce(v.messages[c]) =>
            Relays(Replaced(v.messages[c], e), v.messages[c], v, e, c)
      BY <1>a, <1>b, <1>6, <2>2, <2>3, RelayedList
    <3>. HIDE DEF c
    <3>3. Delivers(w, v, e)
      BY <1>d, <1>6, <2>2, <2>3, <3>1, <3>2
    <3>. QED
      BY <3>3 DEF w
  <2>4. CASE ~(e.doc # Null /\ c \in Cached(v))
    <3>1. w = v
      BY <2>1, <2>4 DEF MessageUpdate
    <3>. QED
      BY <1>4, <1>6, <2>2, <2>4, <3>1 DEF w
  <2>. QED
    BY <2>3, <2>4
<1>7. CASE e.type = "message-delete"
  <2>. DEFINE c == v.current.id
  <2>1. w = MessageDelete(v, e)
    BY <1>7 DEF w, Handle
  <2>2. \A d : /\ DropFor(v, e, d) <=> v.current # Null /\ d = c
               /\ ~NewFor(e, d) /\ ~EditFor(e, d)
    BY <1>7 DEF NewFor, EditFor, DropFor, Displays
  <2>3. CASE v.current # Null /\ c \in Cached(v)
    <3>1. w = Cache(v, c, Spliced(v.messages[c], e.id))
      BY <2>1, <2>3 DEF MessageDelete
    <3>2. ListedOnce(v.messages[c]) =>
            Relays(Spliced(v.messages[c], e.id), v.messages[c], v, e, c)
      BY <1>a, <2>2, <2>3, RelayedList
    <3>. HIDE DEF c
    <3>3. Delivers(w, v, e)
      BY <1>d, <1>7, <2>2, <2>3, <3>1, <3>2
    <3>. QED
      BY <3>3 DEF w
  <2>4. CASE ~(v.current # Null /\ c \in Cached(v))
    <3>1. w = v
      BY <2>1, <2>4 DEF MessageDelete
    <3>. QED
      BY <1>4, <1>7, <2>2, <2>4, <3>1 DEF w
  <2>. QED
    BY <2>3, <2>4
<1>. QED
  BY <1>1, <1>2, <1>3, <1>5, <1>6, <1>7 DEF Types, w

=============================================================================
