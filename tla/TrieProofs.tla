------------------------------ MODULE TrieProofs ------------------------------
(***************************************************************************)
(* Proofs about the index of names, for any names, users and searches.     *)
(***************************************************************************)
EXTENDS Trie, TLAPS

-----------------------------------------------------------------------------
(* Prefixes.                                                               *)

\* A prefix of a sequence has the sequence's letters.
LEMMA PrefixLetters ==
  ASSUME NEW p \in Seq(Letters), NEW k \in Seq(Letters), IsPrefix(p, k)
  PROVE  Len(p) <= Len(k) /\ \A i \in 1..Len(p) : p[i] = k[i]
<1>1. Len(p) <= Len(k) /\ SubSeq(p, 1, Len(p)) = SubSeq(k, 1, Len(p))
  BY DEF IsPrefix
<1>2. ASSUME NEW i \in 1..Len(p) PROVE p[i] = k[i]
  <2>1. SubSeq(p, 1, Len(p))[i] = p[i] /\ SubSeq(k, 1, Len(p))[i] = k[i]
    BY <1>1
  <2>. QED
    BY <2>1, <1>1
<1>. QED
  BY <1>1, <1>2

\* What Delete() cuts off below a path has a doubled letter.
LEMMA CutDoubles ==
  ASSUME NEW k \in Seq(Letters), NEW i \in 1..Len(k), NEW m \in Seq(Letters),
         IsPrefix(Cut(k, i), m)
  PROVE  Doubled(m)
<1>1. /\ Cut(k, i) \in Seq(Letters) /\ Len(Cut(k, i)) = i + 1
      /\ Cut(k, i)[i] = k[i] /\ Cut(k, i)[i + 1] = k[i]
  BY DEF Cut
<1>2. Len(m) >= i + 1 /\ m[i] = k[i] /\ m[i + 1] = k[i]
  BY <1>1, PrefixLetters
<1>. QED
  BY <1>2 DEF Doubled

\* A sequence that agrees with the beginning of another is a prefix of it.
LEMMA LettersPrefix ==
  ASSUME NEW p \in Seq(Letters), NEW k \in Seq(Letters), Len(p) <= Len(k),
         \A i \in 1..Len(p) : p[i] = k[i]
  PROVE  IsPrefix(p, k)
<1> DEFINE a == SubSeq(p, 1, Len(p))
           b == SubSeq(k, 1, Len(p))
<1>1. a \in Seq(Letters) /\ b \in Seq(Letters) /\ Len(a) = Len(b)
  OBVIOUS
<1>2. \A i \in 1..Len(a) : a[i] = b[i]
  OBVIOUS
<1>3. a = b
  <2> HIDE DEF a, b
  <2>. QED
    BY <1>1, <1>2
<1>. QED
  BY <1>3 DEF IsPrefix

LEMMA PrefixTransitive ==
  ASSUME NEW p \in Seq(Letters), NEW q \in Seq(Letters),
         NEW k \in Seq(Letters), IsPrefix(p, q), IsPrefix(q, k)
  PROVE  IsPrefix(p, k)
<1>1. Len(p) <= Len(q) /\ \A i \in 1..Len(p) : p[i] = q[i]
  BY PrefixLetters
<1>2. Len(q) <= Len(k) /\ \A i \in 1..Len(q) : q[i] = k[i]
  BY PrefixLetters
<1>. QED
  BY <1>1, <1>2, LettersPrefix

\* The prefixes of a sequence are its beginnings.
LEMMA PrefixesArePrefixes ==
  ASSUME NEW k \in Seq(Letters)
  PROVE  /\ \A p \in Prefixes(k) : p \in Seq(Letters) /\ IsPrefix(p, k)
         /\ \A p \in Seq(Letters) : IsPrefix(p, k) => p \in Prefixes(k)
<1>1. ASSUME NEW p \in Prefixes(k)
      PROVE  p \in Seq(Letters) /\ IsPrefix(p, k)
  <2>1. PICK l \in 0..Len(k) : p = SubSeq(k, 1, l)
    BY <1>1 DEF Prefixes
  <2>2. p \in Seq(Letters) /\ Len(p) = l /\ \A i \in 1..l : p[i] = k[i]
    BY <2>1
  <2>. QED
    BY <2>2, LettersPrefix
<1>2. ASSUME NEW p \in Seq(Letters), IsPrefix(p, k)
      PROVE  p \in Prefixes(k)
  <2>1. Len(p) \in 0..Len(k) /\ SubSeq(p, 1, Len(p)) = SubSeq(k, 1, Len(p))
    BY <1>2 DEF IsPrefix
  <2>2. SubSeq(p, 1, Len(p)) = p
    OBVIOUS
  <2>. QED
    BY <2>1, <2>2 DEF Prefixes
<1>. QED
  BY <1>1, <1>2

-----------------------------------------------------------------------------
(* The trie.                                                               *)

LEMMA NodesAreSequences == Nodes \subseteq Seq(Letters)
<1>1. Keys \subseteq Seq(Letters) /\ <<>> \in Seq(Letters)
  BY TrieAssumption
<1>2. ASSUME NEW n \in Nodes PROVE n \in Seq(Letters)
  <2>1. PICK k \in Keys \cup {<<>>} : n \in Prefixes(k)
    BY DEF Nodes
  <2>2. k \in Seq(Letters)
    BY <1>1
  <2>. QED
    BY <2>1, <2>2, PrefixesArePrefixes
<1>. QED
  BY <1>2

\* Deleting removes nodes only together with everything below them.
LEMMA LeftIsClosed ==
  ASSUME TypeOK, NEW k \in Keys, NEW v \in Values, NEW m \in Left(k, v)
  PROVE  Prefixes(m) \subseteq Left(k, v)
<1>1. DOMAIN trie \subseteq Seq(Letters)
  BY NodesAreSequences DEF TypeOK
<1>2. m \in DOMAIN trie /\ Prefixes(m) \subseteq DOMAIN trie
  BY DEF Left, TypeOK
<1>3. ASSUME NEW p \in Prefixes(m), NEW i \in Rounds(k, v),
             p \in Below(Cut(k, i))
      PROVE  m \in Below(Cut(k, i))
  <2>1. k \in Seq(Letters) /\ i \in 1..Len(k)
    BY TrieAssumption DEF Rounds
  <2>2. Cut(k, i) \in Seq(Letters)
    BY <2>1 DEF Cut
  <2>3. IsPrefix(Cut(k, i), p) /\ IsPrefix(p, m) /\ p \in Seq(Letters)
    BY <1>1, <1>2, <1>3, PrefixesArePrefixes DEF Below
  <2>. QED
    BY <1>1, <1>2, <2>2, <2>3, PrefixTransitive DEF Below
<1>. QED
  BY <1>2, <1>3 DEF Left

\* Deleting a name keeps every node without a doubled letter on its path.
LEMMA PlainNodesAreLeft ==
  ASSUME TypeOK, NEW k \in Keys, NEW v \in Values,
         NEW m \in DOMAIN trie, ~Doubled(m)
  PROVE  m \in Left(k, v)
<1>1. m \in Seq(Letters) /\ k \in Seq(Letters)
  BY NodesAreSequences, TrieAssumption DEF TypeOK
<1>2. ASSUME NEW i \in Rounds(k, v), m \in Below(Cut(k, i)) PROVE FALSE
  <2>1. i \in 1..Len(k) /\ IsPrefix(Cut(k, i), m)
    BY <1>2 DEF Rounds, Below
  <2>. QED
    BY <1>1, <2>1, CutDoubles
<1>. QED
  BY <1>2 DEF Left

-----------------------------------------------------------------------------
(* Type correctness.                                                       *)

LEMMA AddKeepsTypes ==
  ASSUME TypeOK, NEW k \in Keys, NEW v \in Values, Add(k, v)
  PROVE  TypeOK'
<1>1. /\ trie' = Extended(k, v) /\ pairs' = pairs \cup {<<k, v>>}
      /\ UNCHANGED <<search, steady>>
  BY DEF Add
<1>2. DOMAIN trie' = DOMAIN trie \cup Prefixes(k)
  BY <1>1 DEF Extended
<1>3. k \in Seq(Letters) /\ Prefixes(k) \subseteq Nodes
  BY TrieAssumption DEF Nodes
<1>4. ASSUME NEW n \in DOMAIN trie' PROVE Prefixes(n) \subseteq DOMAIN trie'
  <2>1. CASE n \in DOMAIN trie
    BY <1>2, <2>1 DEF TypeOK
  <2>2. CASE n \in Prefixes(k)
    <3>1. ASSUME NEW p \in Prefixes(n) PROVE p \in Prefixes(k)
      <4>1. n \in Seq(Letters) /\ IsPrefix(n, k)
        BY <1>3, <2>2, PrefixesArePrefixes
      <4>2. p \in Seq(Letters) /\ IsPrefix(p, n)
        BY <4>1, <3>1, PrefixesArePrefixes
      <4>. QED
        BY <1>3, <4>1, <4>2, PrefixTransitive, PrefixesArePrefixes
    <3>. QED
      BY <1>2, <3>1
  <2>. QED
    BY <1>2, <2>1, <2>2
<1>5. ASSUME NEW n \in DOMAIN trie' PROVE trie'[n] \subseteq Values
  <2>1. ValuesAt(n) \subseteq Values
    BY DEF ValuesAt, TypeOK
  <2>. QED
    BY <1>1, <1>2, <2>1 DEF Extended
<1>6. /\ pairs' \in SUBSET (Keys \X Values)
      /\ steady' \in [Searches -> SUBSET pairs']
  BY <1>1 DEF TypeOK
<1>. QED
  BY <1>1, <1>2, <1>3, <1>4, <1>5, <1>6 DEF TypeOK

LEMMA EmptyTrie == Prefixes(<<>>) = {<<>>} /\ NoSearch \in Runs
<1>1. Prefixes(<<>>) = {<<>>}
  <2>1. Len(<<>>) = 0 /\ 0..0 = {0} /\ SubSeq(<<>>, 1, 0) = <<>>
    OBVIOUS
  <2>. QED
    BY <2>1 DEF Prefixes
<1>2. NoSearch \in Runs
  BY DEF NoSearch, Runs
<1>. QED
  BY <1>1, <1>2

\* A walk that goes on beside a deletion keeps its type.
LEMMA PrunedIsRun ==
  ASSUME NEW q \in Runs, NEW left, NEW more \in SUBSET Seq(Letters)
  PROVE  Pruned(q, left, more) \in Runs
  BY DEF Pruned, Runs

LEMMA DeleteKeepsTypes ==
  ASSUME TypeOK, NEW k \in Keys, NEW v \in Values, Delete(k, v)
  PROVE  TypeOK'
<1>1. /\ trie' = Reduced(k, v) \/ trie' = trie
      /\ pairs' = pairs \ {<<k, v>>}
      /\ steady' = [s \in Searches |-> steady[s] \ {<<k, v>>}]
  BY DEF Delete
<1>2. /\ DOMAIN trie' \subseteq DOMAIN trie
      /\ \A n \in DOMAIN trie' : trie'[n] \subseteq trie[n]
  BY <1>1 DEF Reduced, Left
<1>3. ASSUME NEW n \in DOMAIN trie' PROVE Prefixes(n) \subseteq DOMAIN trie'
  <2>1. CASE trie' = Reduced(k, v)
    BY <2>1, LeftIsClosed DEF Reduced
  <2>2. CASE trie' = trie
    BY <2>2 DEF TypeOK
  <2>. QED
    BY <1>1, <2>1, <2>2
<1>4. /\ pairs' \in SUBSET (Keys \X Values)
      /\ steady' \in [Searches -> SUBSET pairs']
  BY <1>1 DEF TypeOK
<1>5. DOMAIN trie' \subseteq Nodes
  BY <1>2 DEF TypeOK
<1>6. \A n \in DOMAIN trie' : trie'[n] \subseteq Values
  BY <1>2 DEF TypeOK
<1>7. search' \in [Searches -> Runs]
  <2>1. CASE k # <<>> /\ Holds(k, v)
    <3>1. PICK more \in [Searches -> SUBSET (DOMAIN trie \ Left(k, v))] :
            search' = [s \in Searches |->
                         Pruned(search[s], Left(k, v), more[s])]
      BY <2>1 DEF Delete
    <3>2. ASSUME NEW s \in Searches
          PROVE  Pruned(search[s], Left(k, v), more[s]) \in Runs
      <4>1. more[s] \in SUBSET Seq(Letters) /\ search[s] \in Runs
        BY <3>1, NodesAreSequences DEF TypeOK
      <4>. QED
        BY <4>1, PrunedIsRun
    <3>. QED
      BY <3>1, <3>2
  <2>2. CASE ~(k # <<>> /\ Holds(k, v))
    BY <2>2 DEF Delete, TypeOK
  <2>. QED
    BY <2>1, <2>2
<1>. QED
  BY <1>3, <1>4, <1>5, <1>6, <1>7 DEF TypeOK

LEMMA BeginKeepsTypes ==
  ASSUME TypeOK, NEW s \in Searches, NEW text \in Texts, Begin(s, text)
  PROVE  TypeOK'
<1>1. DOMAIN trie \subseteq Seq(Letters) /\ text \in Seq(Letters)
  BY NodesAreSequences, TrieAssumption DEF TypeOK
<1>2. Children(text) \in SUBSET Seq(Letters)
  BY <1>1 DEF Children, Below
<1>3. text \in DOMAIN trie =>
        {text} \X trie[text] \in SUBSET (Seq(Letters) \X Values)
  BY <1>1 DEF TypeOK
<1>4. search' \in [Searches -> Runs]
  <2>1. \E run \in Runs : search' = [search EXCEPT ![s] = run]
    <3> DEFINE none   == [NoSearch EXCEPT !.text = text, !.pc = "done"]
               some   == [NoSearch EXCEPT !.text = text, !.pc = "done",
                                          !.found = {text} \X trie[text]]
               walker == [NoSearch EXCEPT !.text = text, !.pc = "walk",
                                          !.at = text,
                                          !.must = Children(text)]
    <3>1. CASE text \notin DOMAIN trie
      <4>1. none \in Runs
        BY EmptyTrie DEF Runs
      <4>2. search' = [search EXCEPT ![s] = none]
        BY <3>1 DEF Begin, NoSearch
      <4>. QED
        BY <4>1, <4>2
    <3>2. CASE text \in DOMAIN trie /\ Children(text) = {}
      <4>1. some \in Runs
        BY <1>3, <3>2, EmptyTrie DEF Runs
      <4>2. search' = [search EXCEPT ![s] = some]
        BY <3>2 DEF Begin, NoSearch
      <4>. QED
        BY <4>1, <4>2
    <3>3. CASE text \in DOMAIN trie /\ Children(text) # {}
      <4>1. walker \in Runs
        BY <1>1, <1>2, EmptyTrie DEF Runs
      <4>2. search' = [search EXCEPT ![s] = walker]
        BY <3>3 DEF Begin, NoSearch
      <4>. QED
        BY <4>1, <4>2
    <3>. QED
      BY <3>1, <3>2, <3>3
  <2>. QED
    BY <2>1 DEF TypeOK
<1>5. steady' \in [Searches -> SUBSET pairs]
  BY DEF Begin, TypeOK
<1>. QED
  BY <1>4, <1>5 DEF Begin, TypeOK

LEMMA WalkKeepsTypes ==
  ASSUME TypeOK, NEW s \in Searches, Descend(s) \/ Ascend(s) \/ CutOff(s)
  PROVE  TypeOK'
<1>1. UNCHANGED <<trie, pairs, steady>>
  BY DEF Descend, Ascend, CutOff
<1>2. search[s] \in Runs
  BY DEF TypeOK
<1>3. \E run \in Runs : search' = [search EXCEPT ![s] = run]
  <2>1. CASE Descend(s)
    <3>1. PICK c \in Children(search[s].at) :
            search' = [search EXCEPT
              ![s].at    = c,
              ![s].must  = (@ \ {c}) \cup Children(c),
              ![s].seen  = @ \cup {c},
              ![s].keys  = IF Candidate(c) THEN @ \cup {c} ELSE @,
              ![s].again = @ \/ (Candidate(c) /\ c \in search[s].keys)]
      BY <2>1 DEF Descend
    <3>2. c \in Seq(Letters) /\ Children(c) \in SUBSET Seq(Letters)
      BY <3>1, NodesAreSequences DEF Children, Below, TypeOK
    <3> DEFINE run ==
          [search[s] EXCEPT
             !.at    = c,
             !.must  = (@ \ {c}) \cup Children(c),
             !.seen  = @ \cup {c},
             !.keys  = IF Candidate(c) THEN @ \cup {c} ELSE @,
             !.again = @ \/ (Candidate(c) /\ c \in search[s].keys)]
    <3>3. run \in Runs
      <4>1. (search[s].again \/ (Candidate(c) /\ c \in search[s].keys))
              \in BOOLEAN
        OBVIOUS
      <4>. QED
        BY <1>2, <3>2, <4>1 DEF Runs
    <3>4. search' = [search EXCEPT ![s] = run]
      BY <3>1 DEF TypeOK
    <3>. QED
      BY <3>3, <3>4
  <2>2. CASE Ascend(s)
    <3> DEFINE run == [search[s] EXCEPT
                         !.at   = Front(@),
                         !.seen = {n \in @ : Front(n) # search[s].at}]
    <3>1. Front(search[s].at) \in Seq(Letters)
      BY <1>2 DEF Front, Runs
    <3>2. run \in Runs
      BY <1>2, <3>1 DEF Runs
    <3>3. search' = [search EXCEPT ![s] = run]
      BY <2>2 DEF Ascend, TypeOK
    <3>. QED
      BY <3>2, <3>3
  <2>3. CASE CutOff(s)
    <3>1. PICK n \in IF search[s].again THEN 1..Limit ELSE {Limit} :
            search' = [search EXCEPT
              ![s] = [NoSearch EXCEPT !.pc   = "lookup",
                                      !.text = search[s].text,
                                      !.keys = First(search[s].keys, n),
                                      !.cut  = search[s].keys
                                               \ First(search[s].keys, n)]]
      BY <2>3 DEF CutOff
    <3>2. First(search[s].keys, n) \subseteq search[s].keys
      BY DEF First
    <3> DEFINE run == [NoSearch EXCEPT !.pc   = "lookup",
                                       !.text = search[s].text,
                                       !.keys = First(search[s].keys, n),
                                       !.cut  = search[s].keys
                                                \ First(search[s].keys, n)]
    <3>3. run \in Runs
      BY <1>2, <3>2, EmptyTrie DEF Runs
    <3>. QED
      BY <3>1, <3>3
  <2>. QED
    BY <2>1, <2>2, <2>3
<1>4. search' \in [Searches -> Runs]
  BY <1>3 DEF TypeOK
<1>. QED
  BY <1>1, <1>4 DEF TypeOK

LEMMA SearchKeepsTypes ==
  ASSUME TypeOK, NEW s \in Searches,
         LookUp(s) \/ LookUpFails(s) \/ Finish(s) \/ Answer(s)
  PROVE  TypeOK'
<1>1. UNCHANGED <<trie, pairs, steady>>
  BY DEF LookUp, LookUpFails, Finish, Answer
<1>2. search[s] \in Runs
  BY DEF TypeOK
<1>3. \E run \in Runs : search' = [search EXCEPT ![s] = run]
  <2>1. CASE LookUp(s)
    <3>1. PICK k \in First(search[s].keys, 1) :
            /\ k \in DOMAIN trie
            /\ search' = [search EXCEPT ![s].keys = @ \ {k},
                                        ![s].found = @ \cup ({k} \X trie[k])]
      BY <2>1 DEF LookUp
    <3>2. {k} \X trie[k] \in SUBSET (Seq(Letters) \X Values)
      BY <3>1, NodesAreSequences DEF TypeOK
    <3> DEFINE run == [search[s] EXCEPT !.keys = @ \ {k},
                                        !.found = @ \cup ({k} \X trie[k])]
    <3>3. run \in Runs
      BY <1>2, <3>2 DEF Runs
    <3>4. search' = [search EXCEPT ![s] = run]
      BY <3>1 DEF TypeOK
    <3>. QED
      BY <3>3, <3>4
  <2>2. CASE LookUpFails(s) \/ Answer(s)
    BY <2>2, EmptyTrie DEF LookUpFails, Answer
  <2>3. CASE Finish(s)
    <3> DEFINE run == [search[s] EXCEPT !.pc = "done"]
    <3>1. run \in Runs
      BY <1>2 DEF Runs
    <3>2. search' = [search EXCEPT ![s] = run]
      BY <2>3 DEF Finish, TypeOK
    <3>. QED
      BY <3>1, <3>2
  <2>. QED
    BY <2>1, <2>2, <2>3
<1>4. search' \in [Searches -> Runs]
  BY <1>3 DEF TypeOK
<1>. QED
  BY <1>1, <1>4 DEF TypeOK

LEMMA InitTypes == Init => TypeOK
  BY EmptyTrie DEF Init, TypeOK, Nodes

LEMMA AbortTypes == Abort => TypeOK'
  BY EmptyTrie DEF Abort, TypeOK, Nodes

LEMMA NextKeepsTypes == TypeOK /\ [Next]_vars => TypeOK'
<1> SUFFICES ASSUME TypeOK, [Next]_vars PROVE TypeOK'
  OBVIOUS
<1>1. ASSUME NEW k \in Keys, NEW v \in Values, Add(k, v) \/ Delete(k, v)
      PROVE  TypeOK'
  BY <1>1, AddKeepsTypes, DeleteKeepsTypes
<1>2. ASSUME NEW s \in Searches, NEW text \in Texts, Begin(s, text)
      PROVE  TypeOK'
  BY <1>2, BeginKeepsTypes
<1>3. ASSUME NEW s \in Searches,
             LookUp(s) \/ LookUpFails(s) \/ Finish(s) \/ Answer(s)
      PROVE  TypeOK'
  BY <1>3, SearchKeepsTypes
<1>4. ASSUME NEW s \in Searches, Descend(s) \/ Ascend(s) \/ CutOff(s)
      PROVE  TypeOK'
  BY <1>4, WalkKeepsTypes
<1>5. CASE Abort
  BY <1>5, AbortTypes
<1>6. CASE UNCHANGED vars
  BY <1>6 DEF vars, TypeOK
<1>. QED
  BY <1>1, <1>2, <1>3, <1>4, <1>5, <1>6 DEF Next

\* The state of the index and its searches has its type.
THEOREM TypeCorrect == Spec => []TypeOK
<1>. QED
  BY InitTypes, NextKeepsTypes, PTL DEF Spec

-----------------------------------------------------------------------------
(* What the trie holds.                                                    *)

\* What a step may do to the trie and to the pairs.
LEMMA TrieSteps ==
  ASSUME [Next]_vars
  PROVE  \/ \E k \in Keys, v \in Values : Add(k, v) \/ Delete(k, v)
         \/ Abort
         \/ UNCHANGED <<trie, pairs>>
  BY DEF Next, vars, Begin, Descend, Ascend, CutOff, LookUp, LookUpFails,
         Finish, Answer

LEMMA NextKeepsFresh ==
  TypeOK /\ NothingStale /\ [Next]_vars => NothingStale'
<1> SUFFICES ASSUME TypeOK, NothingStale, [Next]_vars,
                    NEW m \in DOMAIN trie' \ {<<>>}, NEW u \in Values,
                    u \in trie'[m]
             PROVE  <<m, u>> \in pairs'
  BY DEF NothingStale, Holds, ValuesAt
<1>1. m \in DOMAIN trie /\ u \in trie[m] => <<m, u>> \in pairs
  BY DEF NothingStale, Holds, ValuesAt
<1>2. ASSUME NEW k \in Keys, NEW v \in Values, Add(k, v)
      PROVE  <<m, u>> \in pairs'
  <2>1. trie' = Extended(k, v) /\ pairs' = pairs \cup {<<k, v>>}
    BY <1>2 DEF Add
  <2>2. u \in ValuesAt(m) \/ (m = k /\ u = v)
    BY <2>1 DEF Extended
  <2>. QED
    BY <1>1, <2>1, <2>2 DEF ValuesAt
<1>3. ASSUME NEW k \in Keys, NEW v \in Values, Delete(k, v)
      PROVE  <<m, u>> \in pairs'
  <2>1. pairs' = pairs \ {<<k, v>>}
    BY <1>3 DEF Delete
  <2>2. CASE Holds(k, v) /\ k # <<>>
    <3>1. trie' = Reduced(k, v)
      BY <1>3, <2>2 DEF Delete
    <3>2. m \in DOMAIN trie /\ u \in trie[m] /\ ~(m = k /\ u = v)
      BY <3>1 DEF Reduced, Left
    <3>. QED
      BY <1>1, <2>1, <3>2
  <2>3. CASE ~Holds(k, v) \/ k = <<>>
    <3>1. trie' = trie
      BY <1>3, <2>3 DEF Delete
    <3>2. ~(m = k /\ u = v)
      BY <2>3, <3>1 DEF Holds, ValuesAt
    <3>. QED
      BY <1>1, <2>1, <3>1, <3>2
  <2>. QED
    BY <2>2, <2>3
<1>4. CASE Abort
  BY <1>4 DEF Abort
<1>5. CASE UNCHANGED <<trie, pairs>>
  BY <1>1, <1>5
<1>. QED
  BY <1>2, <1>3, <1>4, <1>5, TrieSteps

\* What the trie holds was added and not deleted since.
THEOREM NothingStaleIsFound == Spec => []NothingStale
<1>1. Init => NothingStale
  BY DEF Init, NothingStale
<1>. QED
  BY <1>1, TypeCorrect, NextKeepsFresh, PTL DEF Spec

\* A name without a doubled letter is kept by every deletion but its own.
LEMMA DeleteKeepsPlain ==
  ASSUME TypeOK, PlainNamesAreKept, NEW k \in Keys, NEW v \in Values,
         Delete(k, v), NEW pair \in pairs', ~Doubled(pair[1])
  PROVE  Holds(pair[1], pair[2])'
<1> DEFINE m == pair[1]
           u == pair[2]
<1>1. pairs' = pairs \ {<<k, v>>} /\ (trie' = Reduced(k, v) \/ trie' = trie)
  BY DEF Delete
<1>2. pair \in Keys \X Values /\ pair = <<m, u>> /\ pair # <<k, v>>
  BY <1>1 DEF TypeOK
<1>3. m \in DOMAIN trie /\ u \in trie[m]
  BY <1>1 DEF PlainNamesAreKept, Holds, ValuesAt
<1>4. CASE trie' = Reduced(k, v)
  <2>1. m \in DOMAIN trie'
    BY <1>3, <1>4, PlainNodesAreLeft DEF Reduced
  <2>2. u \in trie'[m]
    BY <1>2, <1>3, <1>4, <2>1 DEF Reduced
  <2>. QED
    BY <2>1, <2>2 DEF Holds, ValuesAt
<1>5. CASE trie' = trie
  BY <1>3, <1>5 DEF Holds, ValuesAt
<1>. QED
  BY <1>1, <1>4, <1>5

LEMMA NextKeepsPlain ==
  TypeOK /\ PlainNamesAreKept /\ [Next]_vars => PlainNamesAreKept'
<1> SUFFICES ASSUME TypeOK, PlainNamesAreKept, [Next]_vars,
                    NEW pair \in pairs', ~Doubled(pair[1])
             PROVE  Holds(pair[1], pair[2])'
  BY DEF PlainNamesAreKept
<1>1. ASSUME NEW k \in Keys, NEW v \in Values, Add(k, v)
      PROVE  Holds(pair[1], pair[2])'
  <2>1. trie' = Extended(k, v) /\ pairs' = pairs \cup {<<k, v>>}
    BY <1>1 DEF Add
  <2>2. CASE pair \in pairs
    <3>1. pair[1] \in DOMAIN trie /\ pair[2] \in trie[pair[1]]
      BY <2>2 DEF PlainNamesAreKept, Holds, ValuesAt
    <3>. QED
      BY <2>1, <3>1 DEF Extended, Holds, ValuesAt
  <2>3. CASE pair = <<k, v>>
    <3>1. k \in Prefixes(k)
      <4>1. k \in Seq(Letters)
        BY TrieAssumption
      <4>2. Len(k) \in 0..Len(k) /\ SubSeq(k, 1, Len(k)) = k
        BY <4>1
      <4>. QED
        BY <4>2 DEF Prefixes
    <3>2. pair[1] = k /\ pair[2] = v
      BY <2>3
    <3>. QED
      BY <2>1, <3>1, <3>2 DEF Extended, Holds, ValuesAt
  <2>. QED
    BY <2>1, <2>2, <2>3
<1>2. ASSUME NEW k \in Keys, NEW v \in Values, Delete(k, v)
      PROVE  Holds(pair[1], pair[2])'
  BY <1>2, DeleteKeepsPlain
<1>3. CASE Abort
  BY <1>3 DEF Abort
<1>4. CASE UNCHANGED <<trie, pairs>>
  BY <1>4 DEF PlainNamesAreKept, Holds, ValuesAt
<1>. QED
  BY <1>1, <1>2, <1>3, <1>4, TrieSteps

\* Whatever else is deleted, a name without a doubled letter is kept until it
\* is deleted itself.
THEOREM PlainNamesStay == Spec => []PlainNamesAreKept
<1>1. Init => PlainNamesAreKept
  BY DEF Init, PlainNamesAreKept
<1>. QED
  BY <1>1, TypeCorrect, NextKeepsPlain, PTL DEF Spec

-----------------------------------------------------------------------------
(* What the searches find.                                                 *)

\* A walk stays below the text, and has to come to children of the nodes on its
\* path only.
WalksStayBelow ==
  \A s \in Searches : Walks(s) =>
    /\ IsPrefix(search[s].text, search[s].at)
    /\ search[s].text \in Seq(Letters)
    /\ \A m \in search[s].must :
         /\ Len(m) > Len(search[s].text)
         /\ IsPrefix(Front(m), search[s].at)

\* A search that runs has found the pair, or the limit has cut it off, or it is
\* yet to be looked up, or the walk has still to come to a node above it.
Reached(s, pair) ==
  \/ Doubled(pair[1])
  \/ search[s].pc = "idle"
  \/ search[s].pc \in {"walk", "lookup"} /\ pair[1] \in search[s].keys
  \/ search[s].pc = "walk" /\ \E m \in search[s].must : IsPrefix(m, pair[1])
  \/ /\ search[s].pc \in {"lookup", "done"}
     /\ (pair \in search[s].found \/ pair[1] \in search[s].cut)

NoneIsMissed == \A s \in Searches : \A pair \in steady[s] : Reached(s, pair)

\* What is below a node is below one of its children.
LEMMA ChildOnTheWay ==
  ASSUME TypeOK, NEW text \in Seq(Letters), NEW k \in DOMAIN trie,
         IsPrefix(text, k), text # k
  PROVE  text \in DOMAIN trie /\ \E c \in Children(text) : IsPrefix(c, k)
<1>1. k \in Seq(Letters)
  BY NodesAreSequences DEF TypeOK
<1>2. text \in DOMAIN trie
  BY <1>1, PrefixesArePrefixes DEF TypeOK
<1>3. Len(text) < Len(k) /\ \A i \in 1..Len(text) : text[i] = k[i]
  <2>1. Len(text) <= Len(k) /\ \A i \in 1..Len(text) : text[i] = k[i]
    BY <1>1, PrefixLetters
  <2>2. Len(text) # Len(k)
    BY <1>1, <2>1
  <2>. QED
    BY <1>1, <2>1, <2>2
<1> DEFINE c == SubSeq(k, 1, Len(text) + 1)
<1>4. /\ c \in Seq(Letters) /\ Len(c) = Len(text) + 1
      /\ \A i \in 1..Len(c) : c[i] = k[i]
  BY <1>1, <1>3
<1>5. IsPrefix(c, k)
  <2> HIDE DEF c
  <2>. QED
    BY <1>1, <1>3, <1>4, LettersPrefix
<1>6. c \in DOMAIN trie
  BY <1>1, <1>4, <1>5, PrefixesArePrefixes DEF TypeOK
<1>7. IsPrefix(text, c)
  <2> HIDE DEF c
  <2>. QED
    BY <1>1, <1>3, <1>4, LettersPrefix
<1>8. c \in Children(text)
  BY <1>4, <1>6, <1>7 DEF Children, Below
<1>. QED
  BY <1>2, <1>5, <1>8

\* The parent of a child.
LEMMA ParentOfChild ==
  ASSUME TypeOK, NEW n \in Seq(Letters), NEW c \in Children(n)
  PROVE  /\ c \in DOMAIN trie /\ c \in Seq(Letters) /\ Len(c) = Len(n) + 1
         /\ IsPrefix(n, c) /\ Front(c) = n
<1>1. /\ c \in DOMAIN trie /\ c \in Seq(Letters) /\ Len(c) = Len(n) + 1
      /\ IsPrefix(n, c)
  BY NodesAreSequences DEF TypeOK, Children, Below
<1>2. \A i \in 1..Len(n) : n[i] = c[i]
  BY <1>1, PrefixLetters
<1> DEFINE p == SubSeq(c, 1, Len(c) - 1)
<1>3. p \in Seq(Letters) /\ Len(p) = Len(n) /\ \A i \in 1..Len(p) : p[i] = n[i]
  BY <1>1, <1>2
<1>4. p = n
  <2> HIDE DEF p
  <2>. QED
    BY <1>3
<1>. QED
  BY <1>1, <1>4 DEF Front

\* A prefix of a sequence that is not all of it is a prefix of its front.
LEMMA PrefixOfFront ==
  ASSUME NEW p \in Seq(Letters), NEW k \in Seq(Letters), IsPrefix(p, k), p # k
  PROVE  Front(k) \in Seq(Letters) /\ IsPrefix(p, Front(k))
<1>1. Len(p) <= Len(k) /\ \A i \in 1..Len(p) : p[i] = k[i]
  BY PrefixLetters
<1>2. Len(p) < Len(k)
  BY <1>1
<1> DEFINE f == SubSeq(k, 1, Len(k) - 1)
<1>3. /\ f \in Seq(Letters) /\ Len(f) = Len(k) - 1
      /\ \A i \in 1..Len(f) : f[i] = k[i]
  <2>1. Len(k) - 1 \in Nat /\ Len(k) - 1 < Len(k)
    BY <1>2
  <2>2. PICK l \in Nat : l = Len(k) - 1 /\ l < Len(k)
    BY <2>1
  <2>3. /\ SubSeq(k, 1, l) \in Seq(Letters) /\ Len(SubSeq(k, 1, l)) = l
        /\ \A i \in 1..l : SubSeq(k, 1, l)[i] = k[i]
    BY <2>2
  <2>. QED
    BY <2>2, <2>3
<1>4. IsPrefix(p, f)
  <2> HIDE DEF f
  <2>. QED
    BY <1>1, <1>2, <1>3, LettersPrefix
<1>. QED
  BY <1>3, <1>4 DEF Front

\* A prefix of a name without a doubled letter has none.
LEMMA PlainPrefix ==
  ASSUME NEW p \in Seq(Letters), NEW k \in Seq(Letters), IsPrefix(p, k),
         ~Doubled(k)
  PROVE  ~Doubled(p)
<1>1. Len(p) <= Len(k) /\ \A i \in 1..Len(p) : p[i] = k[i]
  BY PrefixLetters
<1>. QED
  BY <1>1 DEF Doubled

LEMMA FrontIsSeq ==
  ASSUME NEW k \in Seq(Letters)
  PROVE  Front(k) \in Seq(Letters)
  BY DEF Front

LEMMA FrontIsShorter ==
  ASSUME NEW k \in Seq(Letters), NEW n \in Nat, Len(k) > n
  PROVE  Len(Front(k)) = Len(k) - 1 /\ Len(Front(k)) >= n
<1>1. Len(k) - 1 \in Nat /\ Len(k) - 1 < Len(k) /\ Len(k) - 1 >= n
  OBVIOUS
<1>2. PICK l \in Nat : l = Len(k) - 1 /\ l < Len(k)
  BY <1>1
<1>3. Len(SubSeq(k, 1, l)) = l
  BY <1>2
<1>. QED
  BY <1>1, <1>2, <1>3 DEF Front

\* A deletion takes nodes from what the walks have still to come to, and moves
\* none.
LEMMA DeleteMovesNoWalk ==
  ASSUME TypeOK, NEW k \in Keys, NEW v \in Values, Delete(k, v),
         NEW s \in Searches
  PROVE  /\ search'[s].pc = search[s].pc /\ search'[s].text = search[s].text
         /\ search'[s].at = search[s].at /\ search'[s].cut = search[s].cut
         /\ search'[s].found = search[s].found
         /\ search[s].keys \subseteq search'[s].keys
         /\ search'[s].must \subseteq search[s].must
         /\ search[s].must \cap Left(k, v) \subseteq search'[s].must
<1>1. search[s] \in Runs
  BY DEF TypeOK
<1>2. CASE k # <<>> /\ Holds(k, v)
  <2>1. PICK more \in [Searches -> SUBSET (DOMAIN trie \ Left(k, v))] :
          search' = [t \in Searches |->
                       Pruned(search[t], Left(k, v), more[t])]
    BY <1>2 DEF Delete
  <2>2. search'[s] = Pruned(search[s], Left(k, v), more[s])
    BY <2>1
  <2>. QED
    BY <1>1, <2>2 DEF Pruned, Runs
<1>3. CASE ~(k # <<>> /\ Holds(k, v))
  BY <1>3 DEF Delete
<1>. QED
  BY <1>2, <1>3

\* The steps after the walk change no other search.
LEMMA SearchSteps ==
  ASSUME TypeOK, NEW s \in Searches,
         \/ CutOff(s) \/ LookUp(s) \/ LookUpFails(s) \/ Finish(s) \/ Answer(s)
  PROVE  /\ search'[s].pc # "walk"
         /\ \A t \in Searches \ {s} : search'[t] = search[t]
<1>1. search[s] \in Runs
  BY DEF TypeOK
<1>2. CASE CutOff(s)
  BY <1>1, <1>2 DEF CutOff, NoSearch, TypeOK
<1>3. CASE LookUp(s)
  BY <1>1, <1>3 DEF LookUp, TypeOK, Runs
<1>4. CASE LookUpFails(s) \/ Answer(s)
  BY <1>4 DEF LookUpFails, Answer, NoSearch, TypeOK
<1>5. CASE Finish(s)
  BY <1>1, <1>5 DEF Finish, TypeOK, Runs
<1>. QED
  BY <1>2, <1>3, <1>4, <1>5

-----------------------------------------------------------------------------
(* The walk.                                                               *)

LEMMA BeginStaysBelow ==
  ASSUME TypeOK, WalksStayBelow, NEW s \in Searches, NEW text \in Texts,
         Begin(s, text)
  PROVE  WalksStayBelow'
<1>1. text \in Seq(Letters)
  BY TrieAssumption
<1> SUFFICES ASSUME NEW t \in Searches, search'[t].pc = "walk"
             PROVE  /\ IsPrefix(search'[t].text, search'[t].at)
                    /\ search'[t].text \in Seq(Letters)
                    /\ \A m \in search'[t].must :
                         /\ Len(m) > Len(search'[t].text)
                         /\ IsPrefix(Front(m), search'[t].at)
  BY DEF WalksStayBelow, Walks
<1>2. CASE t # s
  BY <1>2 DEF Begin, TypeOK, WalksStayBelow, Walks
<1>3. CASE t = s
  <2>1. /\ search'[t].text = text /\ search'[t].at = text
        /\ search'[t].must = Children(text)
    BY <1>3 DEF Begin, NoSearch, TypeOK
  <2>2. \A m \in Children(text) : Len(m) > Len(text) /\ Front(m) = text
    BY <1>1, ParentOfChild
  <2>3. IsPrefix(text, text)
    BY <1>1, LettersPrefix
  <2>. QED
    BY <1>1, <2>1, <2>2, <2>3
<1>. QED
  BY <1>2, <1>3

LEMMA DescendStaysBelow ==
  ASSUME TypeOK, WalksStayBelow, NEW s \in Searches, Descend(s)
  PROVE  WalksStayBelow'
<1> SUFFICES ASSUME NEW t \in Searches, search'[t].pc = "walk"
             PROVE  /\ IsPrefix(search'[t].text, search'[t].at)
                    /\ search'[t].text \in Seq(Letters)
                    /\ \A m \in search'[t].must :
                         /\ Len(m) > Len(search'[t].text)
                         /\ IsPrefix(Front(m), search'[t].at)
  BY DEF WalksStayBelow, Walks
<1>1. CASE t # s
  BY <1>1 DEF Descend, TypeOK, WalksStayBelow, Walks
<1>2. CASE t = s
  <2> DEFINE q == search[s]
  <2>1. /\ q \in Runs /\ q.at \in Seq(Letters) /\ q.text \in Seq(Letters)
        /\ q.must \subseteq Seq(Letters) /\ IsPrefix(q.text, q.at)
        /\ \A m \in q.must : Len(m) > Len(q.text) /\ IsPrefix(Front(m), q.at)
    BY DEF Descend, TypeOK, Runs, WalksStayBelow
  <2>2. PICK c \in Children(q.at) :
          /\ search'[s].text = q.text /\ search'[s].at = c
          /\ search'[s].must = (q.must \ {c}) \cup Children(c)
    BY DEF Descend, TypeOK, Runs
  <2>3. c \in Seq(Letters) /\ Len(c) = Len(q.at) + 1 /\ IsPrefix(q.at, c)
    BY <2>1, <2>2, ParentOfChild
  <2>4. IsPrefix(q.text, c)
    BY <2>1, <2>3, PrefixTransitive
  <2>5. ASSUME NEW m \in search'[s].must
        PROVE  Len(m) > Len(q.text) /\ IsPrefix(Front(m), c)
    <3>1. CASE m \in q.must
      <4>1. m \in Seq(Letters) /\ Len(m) > Len(q.text)
        BY <2>1, <3>1
      <4>2. Front(m) \in Seq(Letters)
        BY <4>1, FrontIsSeq
      <4>. QED
        BY <2>1, <2>3, <3>1, <4>1, <4>2, PrefixTransitive
    <3>2. CASE m \in Children(c)
      <4>1. Len(m) = Len(c) + 1 /\ Front(m) = c
        BY <2>3, <3>2, ParentOfChild
      <4>2. Len(q.text) <= Len(c) /\ IsPrefix(c, c)
        BY <2>1, <2>3, <2>4, PrefixLetters, LettersPrefix
      <4>. QED
        BY <2>1, <2>3, <4>1, <4>2
    <3>. QED
      BY <2>2, <3>1, <3>2
  <2>. QED
    BY <1>2, <2>1, <2>2, <2>4, <2>5
<1>. QED
  BY <1>1, <1>2

LEMMA AscendStaysBelow ==
  ASSUME TypeOK, WalksStayBelow, NEW s \in Searches, Ascend(s)
  PROVE  WalksStayBelow'
<1> SUFFICES ASSUME NEW t \in Searches, search'[t].pc = "walk"
             PROVE  /\ IsPrefix(search'[t].text, search'[t].at)
                    /\ search'[t].text \in Seq(Letters)
                    /\ \A m \in search'[t].must :
                         /\ Len(m) > Len(search'[t].text)
                         /\ IsPrefix(Front(m), search'[t].at)
  BY DEF WalksStayBelow, Walks
<1>1. CASE t # s
  BY <1>1 DEF Ascend, TypeOK, WalksStayBelow, Walks
<1>2. CASE t = s
  <2> DEFINE q == search[s]
  <2>1. /\ q \in Runs /\ q.at \in Seq(Letters) /\ q.text \in Seq(Letters)
        /\ q.must \subseteq Seq(Letters) /\ IsPrefix(q.text, q.at)
        /\ q.at # q.text
        /\ \A m \in q.must : /\ Len(m) > Len(q.text)
                             /\ IsPrefix(Front(m), q.at) /\ Front(m) # q.at
    BY DEF Ascend, AllSeen, TypeOK, Runs, WalksStayBelow
  <2>2. /\ search'[s].text = q.text /\ search'[s].at = Front(q.at)
        /\ search'[s].must = q.must
    BY DEF Ascend, TypeOK, Runs
  <2>3. IsPrefix(q.text, Front(q.at))
    BY <2>1, PrefixOfFront
  <2>4. ASSUME NEW m \in q.must PROVE IsPrefix(Front(m), Front(q.at))
    <3>1. Front(m) \in Seq(Letters)
      BY <2>1, FrontIsSeq
    <3>. QED
      BY <2>1, <3>1, PrefixOfFront
  <2>. QED
    BY <1>2, <2>1, <2>2, <2>3, <2>4
<1>. QED
  BY <1>1, <1>2

LEMMA DeleteStaysBelow ==
  ASSUME TypeOK, WalksStayBelow, NEW k \in Keys, NEW v \in Values,
         Delete(k, v)
  PROVE  WalksStayBelow'
<1>1. \A s \in Searches :
        /\ search'[s].pc = search[s].pc /\ search'[s].text = search[s].text
        /\ search'[s].at = search[s].at
        /\ Walks(s) => search'[s].must \subseteq search[s].must
  BY DeleteMovesNoWalk
<1>. QED
  BY <1>1 DEF WalksStayBelow, Walks

LEMMA NextStaysBelow ==
  TypeOK /\ WalksStayBelow /\ [Next]_vars => WalksStayBelow'
<1> SUFFICES ASSUME TypeOK, WalksStayBelow, [Next]_vars PROVE WalksStayBelow'
  OBVIOUS
<1>1. ASSUME NEW k \in Keys, NEW v \in Values, Add(k, v)
      PROVE  WalksStayBelow'
  BY <1>1 DEF Add, WalksStayBelow, Walks
<1>2. ASSUME NEW k \in Keys, NEW v \in Values, Delete(k, v)
      PROVE  WalksStayBelow'
  BY <1>2, DeleteStaysBelow
<1>3. ASSUME NEW s \in Searches, NEW text \in Texts, Begin(s, text)
      PROVE  WalksStayBelow'
  BY <1>3, BeginStaysBelow
<1>4. ASSUME NEW s \in Searches, Descend(s) \/ Ascend(s)
      PROVE  WalksStayBelow'
  BY <1>4, DescendStaysBelow, AscendStaysBelow
<1>5. ASSUME NEW s \in Searches,
             \/ CutOff(s) \/ LookUp(s) \/ LookUpFails(s)
             \/ Finish(s) \/ Answer(s)
      PROVE  WalksStayBelow'
  <2>1. /\ search'[s].pc # "walk"
        /\ \A t \in Searches \ {s} : search'[t] = search[t]
    BY <1>5, SearchSteps
  <2>. QED
    BY <2>1 DEF WalksStayBelow, Walks
<1>6. CASE Abort
  BY <1>6 DEF Abort, NoSearch, WalksStayBelow, Walks
<1>7. CASE UNCHANGED vars
  BY <1>7 DEF vars, WalksStayBelow, Walks
<1>. QED
  BY <1>1, <1>2, <1>3, <1>4, <1>5, <1>6, <1>7 DEF Next

LEMMA WalksStay == Spec => []WalksStayBelow
<1>1. Init => WalksStayBelow
  BY DEF Init, NoSearch, WalksStayBelow, Walks
<1>. QED
  BY <1>1, TypeCorrect, NextStaysBelow, PTL DEF Spec

-----------------------------------------------------------------------------
(* What the searches find.                                                 *)

\* A pair that was there all the time is held, unless its name has a doubled
\* letter.
LEMMA SteadyIsHeld ==
  ASSUME TypeOK, PlainNamesAreKept, NEW s \in Searches,
         NEW pair \in steady[s], ~Doubled(pair[1])
  PROVE  /\ pair \in pairs /\ pair[1] \in DOMAIN trie
         /\ pair[1] \in Seq(Letters)
         /\ pair = <<pair[1], pair[2]>> /\ pair[2] \in trie[pair[1]]
<1>1. pair \in pairs /\ pair \in Keys \X Values
  BY DEF TypeOK
<1>2. Holds(pair[1], pair[2])
  BY <1>1 DEF PlainNamesAreKept
<1>3. pair[1] \in DOMAIN trie /\ pair[2] \in trie[pair[1]]
  BY <1>2 DEF Holds, ValuesAt
<1>. QED
  BY <1>1, <1>3, TrieAssumption

LEMMA BeginMissesNone ==
  ASSUME TypeOK, TypeOK', PlainNamesAreKept', NEW s \in Searches,
         NEW text \in Texts, Begin(s, text), NEW pair \in steady'[s]
  PROVE  Reached(s, pair)'
<1> SUFFICES ASSUME ~Doubled(pair[1]) PROVE Reached(s, pair)'
  BY DEF Reached
<1>1. UNCHANGED <<trie, pairs>> /\ text \in Seq(Letters)
  BY TrieAssumption DEF Begin
<1>2. pair \in pairs /\ IsStrictPrefix(text, pair[1])
  BY DEF Begin, TypeOK
<1>3. pair[1] \in DOMAIN trie
  BY <1>1, <1>2 DEF PlainNamesAreKept, Holds, ValuesAt
<1>4. /\ text \in DOMAIN trie
      /\ \E c \in Children(text) : IsPrefix(c, pair[1])
  BY <1>1, <1>2, <1>3, ChildOnTheWay DEF IsStrictPrefix
<1>5. /\ search'[s].pc = "walk" /\ search'[s].must = Children(text)
  BY <1>4 DEF Begin, NoSearch, TypeOK
<1>. QED
  BY <1>4, <1>5 DEF Reached

LEMMA DescendMissesNone ==
  ASSUME TypeOK, PlainNamesAreKept, NEW s \in Searches, Descend(s),
         NEW pair \in steady[s], Reached(s, pair)
  PROVE  Reached(s, pair)'
<1> SUFFICES ASSUME ~Doubled(pair[1]) PROVE Reached(s, pair)'
  BY DEF Reached
<1> DEFINE q == search[s]
           n == pair[1]
<1>1. /\ q \in Runs /\ q.pc = "walk" /\ q.at \in Seq(Letters)
      /\ n \in q.keys \/ \E m \in q.must : IsPrefix(m, n)
  BY DEF Descend, Walks, TypeOK, Runs, Reached
<1>a. PICK c \in Children(q.at) :
        search' = [search EXCEPT
          ![s].at    = c,
          ![s].must  = (@ \ {c}) \cup Children(c),
          ![s].seen  = @ \cup {c},
          ![s].keys  = IF Candidate(c) THEN @ \cup {c} ELSE @,
          ![s].again = @ \/ (Candidate(c) /\ c \in search[s].keys)]
  BY DEF Descend
<1>2. /\ search'[s].pc = "walk"
      /\ search'[s].must = (q.must \ {c}) \cup Children(c)
      /\ search'[s].keys = IF Candidate(c) THEN q.keys \cup {c} ELSE q.keys
  BY <1>1, <1>a DEF TypeOK, Runs
<1>3. CASE n \in q.keys
  BY <1>2, <1>3 DEF Reached
<1>4. CASE \E m \in q.must \ {c} : IsPrefix(m, n)
  BY <1>2, <1>4 DEF Reached
<1>5. CASE IsPrefix(c, n)
  <2>1. n \in DOMAIN trie /\ trie[n] # {}
    BY SteadyIsHeld
  <2>2. CASE c = n
    BY <1>2, <2>1, <2>2 DEF Candidate, Reached
  <2>3. CASE c # n
    <3>1. c \in Seq(Letters)
      BY <1>1, ParentOfChild
    <3>2. \E d \in Children(c) : IsPrefix(d, n)
      BY <1>5, <2>1, <2>3, <3>1, ChildOnTheWay
    <3>. QED
      BY <1>2, <3>2 DEF Reached
  <2>. QED
    BY <2>2, <2>3
<1>. QED
  BY <1>1, <1>3, <1>4, <1>5

\* When the walk has come to the end it has still to come to nothing.
LEMMA CutOffMissesNone ==
  ASSUME TypeOK, WalksStayBelow, NEW s \in Searches, CutOff(s),
         NEW pair \in steady[s], Reached(s, pair)
  PROVE  Reached(s, pair)'
<1> SUFFICES ASSUME ~Doubled(pair[1]) PROVE Reached(s, pair)'
  BY DEF Reached
<1> DEFINE q == search[s]
<1>1. /\ q \in Runs /\ q.pc = "walk" /\ q.at = q.text /\ q.text \in Seq(Letters)
      /\ q.must \subseteq Seq(Letters)
      /\ \A m \in q.must : /\ Len(m) > Len(q.text) /\ Front(m) # q.text
                           /\ IsPrefix(Front(m), q.text)
  BY DEF CutOff, AllSeen, Walks, WalksStayBelow, TypeOK, Runs
<1>2. ASSUME NEW m \in q.must PROVE FALSE
  <2>1. m \in Seq(Letters) /\ Len(m) > Len(q.text)
    BY <1>1
  <2>2. Front(m) \in Seq(Letters) /\ Len(Front(m)) >= Len(q.text)
    BY <1>1, <2>1, FrontIsSeq, FrontIsShorter
  <2>3. /\ Len(Front(m)) <= Len(q.text)
        /\ \A i \in 1..Len(Front(m)) : Front(m)[i] = q.text[i]
    BY <1>1, <2>2, PrefixLetters
  <2>4. Len(Front(m)) = Len(q.text)
    BY <1>1, <2>2, <2>3
  <2>5. Front(m) = q.text
    BY <1>1, <2>2, <2>3, <2>4
  <2>. QED
    BY <1>1, <2>5
<1>3. pair[1] \in q.keys
  BY <1>1, <1>2 DEF Reached
<1>4. /\ search'[s].pc = "lookup"
      /\ q.keys \subseteq search'[s].keys \cup search'[s].cut
  BY DEF CutOff, NoSearch, TypeOK
<1>. QED
  BY <1>3, <1>4 DEF Reached

LEMMA LookUpMissesNone ==
  ASSUME TypeOK, PlainNamesAreKept, NEW s \in Searches, LookUp(s),
         NEW pair \in steady[s], Reached(s, pair)
  PROVE  Reached(s, pair)'
<1> SUFFICES ASSUME ~Doubled(pair[1]) PROVE Reached(s, pair)'
  BY DEF Reached
<1>1. PICK k \in First(search[s].keys, 1) :
        /\ k \in DOMAIN trie
        /\ search' = [search EXCEPT ![s].keys = @ \ {k},
                                    ![s].found = @ \cup ({k} \X trie[k])]
  BY DEF LookUp
<1>2. /\ search[s] \in Runs /\ search[s].pc = "lookup"
  BY DEF LookUp, TypeOK
<1>3. /\ search'[s].pc = "lookup" /\ search'[s].cut = search[s].cut
      /\ search'[s].keys = search[s].keys \ {k}
      /\ search'[s].found = search[s].found \cup ({k} \X trie[k])
  BY <1>1, <1>2 DEF TypeOK, Runs
<1>4. \/ pair \in search[s].found \/ pair[1] \in search[s].cut
      \/ pair[1] \in search[s].keys
  BY <1>2 DEF Reached
<1>5. CASE pair[1] = k
  <2>1. pair = <<k, pair[2]>> /\ pair[2] \in trie[k]
    BY <1>5, SteadyIsHeld
  <2>. QED
    BY <1>3, <2>1 DEF Reached
<1>. QED
  BY <1>3, <1>4, <1>5 DEF Reached

LEMMA DeleteMissesNone ==
  ASSUME TypeOK, PlainNamesAreKept, NEW k \in Keys, NEW v \in Values,
         Delete(k, v), NEW s \in Searches, NEW pair \in steady[s],
         Reached(s, pair)
  PROVE  Reached(s, pair)'
<1> SUFFICES ASSUME ~Doubled(pair[1]) PROVE Reached(s, pair)'
  BY DEF Reached
<1>1. /\ search'[s].pc = search[s].pc /\ search'[s].cut = search[s].cut
      /\ search'[s].found = search[s].found
      /\ search[s].keys \subseteq search'[s].keys
      /\ search[s].must \cap Left(k, v) \subseteq search'[s].must
  BY DeleteMovesNoWalk
<1>2. CASE \E m \in search[s].must : IsPrefix(m, pair[1])
  <2>1. PICK m \in search[s].must : IsPrefix(m, pair[1])
    BY <1>2
  <2>2. pair[1] \in DOMAIN trie /\ pair[1] \in Seq(Letters)
    BY SteadyIsHeld
  <2>3. m \in Seq(Letters)
    BY DEF TypeOK, Runs
  <2>4. m \in DOMAIN trie /\ ~Doubled(m)
    BY <2>1, <2>2, <2>3, PrefixesArePrefixes, PlainPrefix DEF TypeOK
  <2>5. m \in Left(k, v)
    BY <2>4, PlainNodesAreLeft
  <2>. QED
    BY <1>1, <2>1, <2>5 DEF Reached
<1>. QED
  BY <1>1, <1>2 DEF Reached

LEMMA NextMissesNone ==
  /\ TypeOK /\ TypeOK' /\ PlainNamesAreKept /\ PlainNamesAreKept'
  /\ WalksStayBelow /\ NoneIsMissed /\ [Next]_vars
  => NoneIsMissed'
<1> SUFFICES ASSUME TypeOK, TypeOK', PlainNamesAreKept, PlainNamesAreKept',
                    WalksStayBelow, NoneIsMissed, [Next]_vars,
                    NEW t \in Searches, NEW pair \in steady'[t]
             PROVE  Reached(t, pair)'
  BY DEF NoneIsMissed
<1>0. pair \in steady[t] => Reached(t, pair)
  BY DEF NoneIsMissed
<1>1. CASE search'[t] = search[t] /\ steady'[t] \subseteq steady[t]
  BY <1>0, <1>1 DEF Reached
<1>2. ASSUME NEW k \in Keys, NEW v \in Values, Add(k, v)
      PROVE  Reached(t, pair)'
  BY <1>1, <1>2 DEF Add
<1>3. ASSUME NEW k \in Keys, NEW v \in Values, Delete(k, v)
      PROVE  Reached(t, pair)'
  <2>1. pair \in steady[t]
    BY <1>3 DEF Delete, TypeOK
  <2>. QED
    BY <1>0, <1>3, <2>1, DeleteMissesNone
<1>4. ASSUME NEW s \in Searches, NEW text \in Texts, Begin(s, text)
      PROVE  Reached(t, pair)'
  <2>1. CASE t = s
    BY <1>4, <2>1, BeginMissesNone
  <2>2. CASE t # s
    BY <1>1, <1>4, <2>2 DEF Begin, TypeOK
  <2>. QED
    BY <2>1, <2>2
<1>5. ASSUME NEW s \in Searches, Descend(s) PROVE Reached(t, pair)'
  <2>1. UNCHANGED steady
    BY <1>5 DEF Descend
  <2>2. CASE t = s
    BY <1>0, <1>5, <2>1, <2>2, DescendMissesNone
  <2>3. CASE t # s
    BY <1>1, <1>5, <2>1, <2>3 DEF Descend, TypeOK
  <2>. QED
    BY <2>2, <2>3
<1>6. ASSUME NEW s \in Searches, Ascend(s) PROVE Reached(t, pair)'
  <2>1. UNCHANGED steady /\ search[s] \in Runs
    BY <1>6 DEF Ascend, TypeOK
  <2>2. CASE t = s
    <3>1. /\ search'[s].pc = search[s].pc /\ search'[s].keys = search[s].keys
          /\ search'[s].must = search[s].must /\ search'[s].cut = search[s].cut
          /\ search'[s].found = search[s].found
      BY <1>6, <2>1 DEF Ascend, TypeOK, Runs
    <3>. QED
      BY <1>0, <2>1, <2>2, <3>1 DEF Reached
  <2>3. CASE t # s
    BY <1>1, <1>6, <2>1, <2>3 DEF Ascend, TypeOK
  <2>. QED
    BY <2>2, <2>3
<1>7. ASSUME NEW s \in Searches, CutOff(s) PROVE Reached(t, pair)'
  <2>1. UNCHANGED steady
    BY <1>7 DEF CutOff
  <2>2. CASE t = s
    BY <1>0, <1>7, <2>1, <2>2, CutOffMissesNone
  <2>3. CASE t # s
    BY <1>1, <1>7, <2>1, <2>3 DEF CutOff, TypeOK
  <2>. QED
    BY <2>2, <2>3
<1>8. ASSUME NEW s \in Searches, LookUp(s) PROVE Reached(t, pair)'
  <2>1. UNCHANGED steady
    BY <1>8 DEF LookUp
  <2>2. CASE t = s
    BY <1>0, <1>8, <2>1, <2>2, LookUpMissesNone
  <2>3. CASE t # s
    BY <1>1, <1>8, <2>1, <2>3 DEF LookUp, TypeOK
  <2>. QED
    BY <2>2, <2>3
<1>9. ASSUME NEW s \in Searches, LookUpFails(s) \/ Answer(s)
      PROVE  Reached(t, pair)'
  <2>1. search' = [search EXCEPT ![s] = NoSearch] /\ UNCHANGED steady
    BY <1>9 DEF LookUpFails, Answer
  <2>2. CASE t = s
    BY <2>1, <2>2 DEF NoSearch, TypeOK, Reached
  <2>3. CASE t # s
    BY <1>1, <2>1, <2>3 DEF TypeOK
  <2>. QED
    BY <2>2, <2>3
<1>10. ASSUME NEW s \in Searches, Finish(s) PROVE Reached(t, pair)'
  <2>1. /\ search' = [search EXCEPT ![s].pc = "done"] /\ UNCHANGED steady
        /\ search[s].pc = "lookup" /\ search[s].keys = {}
    BY <1>10 DEF Finish
  <2>2. CASE t = s
    <3>1. /\ search'[t].found = search[t].found /\ search'[t].pc = "done"
          /\ search'[t].cut = search[t].cut
      BY <2>1, <2>2 DEF TypeOK, Runs
    <3>. QED
      BY <1>0, <2>1, <2>2, <3>1 DEF Reached
  <2>3. CASE t # s
    BY <1>1, <2>1, <2>3 DEF TypeOK
  <2>. QED
    BY <2>2, <2>3
<1>11. CASE Abort
  BY <1>11 DEF Abort
<1>12. CASE UNCHANGED vars
  BY <1>1, <1>12 DEF vars
<1>. QED
  BY <1>2, <1>3, <1>4, <1>5, <1>6, <1>7, <1>8, <1>9, <1>10, <1>11, <1>12
     DEF Next

\* A search that answers found every longer name that was there all the time
\* and has no doubled letter, up to the limit, though its walk takes no lock.
THEOREM SearchesAreComplete == Spec => []SearchIsComplete
<1>1. Init => NoneIsMissed
  BY DEF Init, NoneIsMissed, NoSearch, Reached
<1>2. NoneIsMissed => SearchIsComplete
  BY DEF NoneIsMissed, Reached, SearchIsComplete
<1>3. Spec => []NoneIsMissed
  BY <1>1, TypeCorrect, PlainNamesStay, WalksStay, NextMissesNone, PTL
     DEF Spec
<1>. QED
  BY <1>2, <1>3, PTL

-----------------------------------------------------------------------------
(* The trie implements the index its callers work with.                    *)

\* A name is a prefix of itself.
LEMMA OwnPrefix ==
  ASSUME NEW k \in Keys
  PROVE  k \in Prefixes(k)
<1>1. k \in Seq(Letters)
  BY TrieAssumption
<1>2. IsPrefix(k, k)
  BY <1>1, LettersPrefix
<1>. QED
  BY <1>1, <1>2, PrefixesArePrefixes

LEMMA AddImplements ==
  ASSUME TypeOK, NEW k \in Keys, NEW v \in Values, Add(k, v)
  PROVE  Index!Add(k, v)
<1>1. trie' = Extended(k, v)
  BY DEF Add
<1>2. \A pair \in Keys \X Values :
        Holds(pair[1], pair[2])' <=> Holds(pair[1], pair[2]) \/ pair = <<k, v>>
  <2> SUFFICES ASSUME NEW n \in Keys, NEW u \in Values
               PROVE  Holds(n, u)' <=> Holds(n, u) \/ (n = k /\ u = v)
    OBVIOUS
  <2>1. k \in DOMAIN trie'
    BY <1>1, OwnPrefix DEF Extended
  <2>. QED
    BY <1>1, <2>1 DEF Extended, Holds, ValuesAt
<1>3. <<k, v>> \in Keys \X Values
  OBVIOUS
<1>4. Entries' = Entries \cup {<<k, v>>}
  BY <1>2, <1>3 DEF Entries
<1>. QED
  BY <1>4 DEF Index!Add

LEMMA DeleteImplements ==
  ASSUME TypeOK, NEW k \in Keys, NEW v \in Values, Delete(k, v)
  PROVE  Index!Delete(k, v)
<1>1. <<k, v>> \in Entries <=> Holds(k, v)
  BY DEF Entries
<1>2. CASE k = <<>> \/ ~Holds(k, v)
  <2>1. UNCHANGED trie
    BY <1>2 DEF Delete
  <2>2. UNCHANGED Entries
    BY <2>1 DEF Entries, Holds, ValuesAt
  <2>. QED
    BY <1>1, <1>2, <2>2 DEF Index!Delete
<1>3. CASE k # <<>> /\ Holds(k, v)
  <2>1. trie' = Reduced(k, v)
    BY <1>3 DEF Delete
  <2> DEFINE lost == {pair \in Entries : pair[1] \notin Left(k, v)}
  <2>2. ASSUME NEW pair \in lost PROVE pair[1] \in {n \in Keys : Doubled(n)}
    <3>1. pair[1] \in Keys /\ pair[1] \in DOMAIN trie
      BY DEF Entries, Holds, ValuesAt
    <3>. QED
      BY <3>1, PlainNodesAreLeft
  <2>3. \A pair \in Keys \X Values :
          Holds(pair[1], pair[2])' <=>
            Holds(pair[1], pair[2]) /\ pair[1] \in Left(k, v)
                                    /\ pair # <<k, v>>
    <3> SUFFICES ASSUME NEW n \in Keys, NEW u \in Values
                 PROVE  Holds(n, u)' <=>
                          Holds(n, u) /\ n \in Left(k, v) /\ ~(n = k /\ u = v)
      OBVIOUS
    <3>1. Left(k, v) \subseteq DOMAIN trie
      BY DEF Left
    <3>. QED
      BY <2>1, <3>1 DEF Reduced, Holds, ValuesAt
  <2>4. Entries' = Entries \ (lost \cup {<<k, v>>})
    BY <2>3 DEF Entries
  <2>5. lost \in SUBSET {pair \in Entries :
                             pair[1] \in {n \in Keys : Doubled(n)}}
    BY <2>2
  <2>. QED
    BY <1>1, <1>3, <2>4, <2>5 DEF Index!Delete
<1>. QED
  BY <1>2, <1>3

\* Each step is a step of the index, or leaves it alone.
LEMMA StepsImplement ==
  ASSUME TypeOK, [Next]_vars
  PROVE  [/\ \A k \in Keys, v \in Values :
               /\ Add(k, v) => Index!Add(k, v)
               /\ Delete(k, v) => Index!Delete(k, v)
          /\ UNCHANGED Entries \/ Abort \/ Index!Next]_vars
<1>1. \A k \in Keys, v \in Values :
        /\ Add(k, v) => Index!Add(k, v)
        /\ Delete(k, v) => Index!Delete(k, v)
  BY AddImplements, DeleteImplements
<1>2. UNCHANGED <<trie, pairs>> => UNCHANGED Entries
  BY DEF Entries, Holds, ValuesAt
<1>. QED
  BY <1>1, <1>2, TrieSteps DEF Index!Next

\* Seen through the pairs its nodes hold, the trie is the index its callers work
\* with: nodes, values and pruning do, step by step and for the very pair asked
\* for, what a set of pairs would that may lose names with a doubled letter.
THEOREM TrieImplementsNameIndex == Spec => ImplementsNameIndex
<1>1. Init => Index!Init
  BY DEF Init, Index!Init, Entries, Holds, ValuesAt
<1>2. TypeOK /\ [Next]_vars
      => [/\ \A k \in Keys, v \in Values :
               /\ Add(k, v) => Index!Add(k, v)
               /\ Delete(k, v) => Index!Delete(k, v)
          /\ UNCHANGED Entries \/ Abort \/ Index!Next]_vars
  BY StepsImplement
<1>. QED
  BY <1>1, <1>2, TypeCorrect, PTL DEF Spec, ImplementsNameIndex

=============================================================================
