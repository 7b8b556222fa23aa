--------------------------------- MODULE Trie ---------------------------------
(***************************************************************************)
(* The gateway's index of names (servers/gateway/indexes/trie.go): a trie  *)
(* whose nodes hold the identifiers of the users that have the name, and   *)
(* the searches for users by the beginning of a name.                      *)
(*                                                                         *)
(* A node is named by the letters on the path to it, so the trie is a      *)
(* function from a set of paths, closed under prefixes, to the values of   *)
(* each node.  Add() and Delete() run under a lock.  DFSChildren() takes   *)
(* none: it walks the trie for keys, node by node, and then looks every    *)
(* key up again, while names are added and deleted.  Go aborts a process   *)
(* whose maps are read and written at once, if it notices.                 *)
(***************************************************************************)
EXTENDS Naturals, FiniteSets, Sequences, SequencesExt

CONSTANTS
  Letters,        \* runes, numbered in their order
  Keys,           \* the names that occur, in lower case
  Values,         \* object identifiers of users
  Texts,          \* what people search for
  Searches,       \* concurrent searches
  Limit           \* the most keys a search looks up

ASSUME TrieAssumption ==
  /\ Letters \subseteq Nat
  /\ Keys \cup Texts \subseteq Seq(Letters)
  /\ <<>> \notin Texts
  /\ Limit \in Nat \ {0}

VARIABLES
  trie,           \* the values of each node
  search,         \* the state of each search
  pairs,          \* history: what was added and not deleted since
  steady          \* history: the pairs with longer names that were there
                  \* since a search began

vars == <<trie, search, pairs, steady>>

-----------------------------------------------------------------------------
(* The trie.                                                               *)

\* A node and everything below it.
Below(n) == {m \in DOMAIN trie : IsPrefix(n, m)}

Children(n) == {m \in Below(n) : Len(m) = Len(n) + 1}

ValuesAt(n) == IF n \in DOMAIN trie THEN trie[n] ELSE {}

Holds(k, v) == v \in ValuesAt(k)

\* Mutant of Extended: the nodes on the way are not linked.
ExtendedEnd(k, v) ==
  [n \in DOMAIN trie \cup {k} |->
     IF n = k THEN ValuesAt(n) \cup {v} ELSE ValuesAt(n)]

Extended(k, v) ==
  [n \in DOMAIN trie \cup Prefixes(k) |->
     IF n = k THEN ValuesAt(n) \cup {v} ELSE ValuesAt(n)]

\* Mutant of Cut: the child is deleted from the parent of the node.
CutParent(k, i) == SubSeq(k, 1, i)

\* The i-th round of Delete()'s loop deletes, from the children of the node
\* the key's i-th letter led to, the child of that same letter.
Cut(k, i) == Append(SubSeq(k, 1, i), k[i])

\* After the i-th round the node has children left, or more than one value,
\* counting those of a node that loses v.
Stops(k, i, v) ==
  LET n == SubSeq(k, 1, i) IN
  \/ Cardinality(IF i = Len(k) THEN trie[n] \ {v} ELSE trie[n]) > 1
  \/ Children(n) \ {Cut(k, i)} # {}

\* The rounds the loop comes to, from the last letter towards the first.
Rounds(k, v) ==
  {i \in 1..Len(k) : \A j \in i + 1..Len(k) : ~Stops(k, j, v)}

\* The nodes left after the value was removed from a node.
Left(k, v) ==
  IF Children(k) # {} THEN DOMAIN trie
  ELSE DOMAIN trie \ UNION {Below(Cut(k, i)) : i \in Rounds(k, v)}

\* Mutant of Reduced: a node that has children keeps its values.
ReducedLeaf(k, v) ==
  [n \in Left(k, v) |->
     IF n = k /\ Children(n) = {} THEN trie[n] \ {v} ELSE trie[n]]

Reduced(k, v) ==
  [n \in Left(k, v) |-> IF n = k THEN trie[n] \ {v} ELSE trie[n]]

-----------------------------------------------------------------------------
(* Searches.                                                               *)

NoSearch ==
  [pc    |-> "idle", text |-> <<>>,
   at    |-> <<>>,   \* the node whose children the walk goes through
   must  |-> {},     \* children it has still to come to
   seen  |-> {},     \* children it has come to
   keys  |-> {},     \* what it has collected, then what is to be looked up
   again |-> FALSE,  \* whether it came to some key twice
   cut   |-> {},     \* history: what the limit cut off
   found |-> {}]

Walks(s) == search[s].pc = "walk"

\* Keys are sorted as strings.
Before(j, k) ==
  \E i \in 1..Len(k) :
    /\ Len(j) >= i - 1 /\ SubSeq(j, 1, i - 1) = SubSeq(k, 1, i - 1)
    /\ Len(j) >= i => j[i] < k[i]

First(S, n) == {k \in S : Cardinality({j \in S : Before(j, k)}) < n}

\* Mutant of Candidate: a name is looked up only if it is no prefix of
\* another.
CandidateLeaf(n) == Children(n) = {}

\* DFS() collects the node: it has values or no children.
Candidate(n) == Children(n) = {} \/ trie[n] # {}

\* What a walk may still collect in a branch that is cut off while it is
\* there: the branch is no longer linked, and nobody else changes it.
Astray(s, k, v) ==
  {n \in DOMAIN trie \ Left(k, v) :
     /\ Walks(s) /\ n \notin search[s].seen /\ Candidate(n)
     /\ \E i \in Rounds(k, v) :
          IsPrefix(Cut(k, i), n) /\ IsPrefix(Cut(k, i), search[s].at)}

\* A walk comes to no child that is deleted before; to one that is added
\* again it may.
Pruned(q, left, more) ==
  IF q.pc # "walk" THEN q
  ELSE [q EXCEPT !.must  = @ \cap left,
                 !.seen  = @ \cap left,
                 !.keys  = @ \cup more,
                 !.again = @ \/ q.keys \cap more # {}]

-----------------------------------------------------------------------------

Init ==
  /\ trie = [n \in {<<>>} |-> {}]
  /\ search = [s \in Searches |-> NoSearch]
  /\ pairs = {}
  /\ steady = [s \in Searches |-> {}]

Add(k, v) ==
  /\ pairs' = pairs \cup {<<k, v>>}
  /\ UNCHANGED <<search, steady>>
  /\ trie' = Extended(k, v)

\* Mutant of Delete: it prunes although the node has not the value.
DeleteAnyway(k, v) ==
  /\ IF k # <<>> /\ k \in DOMAIN trie THEN trie' = Reduced(k, v)
     ELSE UNCHANGED trie
  /\ pairs' = pairs \ {<<k, v>>}
  /\ steady' = [s \in Searches |-> steady[s] \ {<<k, v>>}]
  /\ UNCHANGED search

\* Delete() returns false, and does nothing, unless the node has the value.
\* For the empty key it returns true and does nothing.
Delete(k, v) ==
  /\ pairs' = pairs \ {<<k, v>>}
  /\ steady' = [s \in Searches |-> steady[s] \ {<<k, v>>}]
  /\ IF k # <<>> /\ Holds(k, v)
     THEN /\ trie' = Reduced(k, v)
          /\ \E more \in [Searches -> SUBSET (DOMAIN trie \ Left(k, v))] :
               /\ \A s \in Searches : more[s] \subseteq Astray(s, k, v)
               /\ search' = [s \in Searches |->
                               Pruned(search[s], Left(k, v), more[s])]
     ELSE UNCHANGED <<trie, search>>

\* DFSChildren() up to its call of DFS().  A node without children answers
\* with its values; any other with those below it, and not with its own.
Begin(s, text) ==
  LET q == [NoSearch EXCEPT !.text = text] IN
  /\ search[s].pc = "idle"
  /\ search' = [search EXCEPT ![s] =
       IF text \notin DOMAIN trie THEN [q EXCEPT !.pc = "done"]
       ELSE IF Children(text) = {}
       THEN [q EXCEPT !.pc = "done", !.found = {text} \X trie[text]]
       ELSE [q EXCEPT !.pc = "walk", !.at = text, !.must = Children(text)]]
  /\ steady' = [steady EXCEPT ![s] =
       {pair \in pairs : IsStrictPrefix(text, pair[1])}]
  /\ UNCHANGED <<trie, pairs>>

\* DFS() comes to a child, in any order, and calls itself for it.
Descend(s) ==
  /\ Walks(s)
  /\ \E c \in Children(search[s].at) \ search[s].seen :
       search' = [search EXCEPT
         ![s].at    = c,
         ![s].must  = (@ \ {c}) \cup Children(c),
         ![s].seen  = @ \cup {c},
         ![s].keys  = IF Candidate(c) THEN @ \cup {c} ELSE @,
         ![s].again = @ \/ (Candidate(c) /\ c \in search[s].keys)]
  /\ UNCHANGED <<trie, pairs, steady>>

\* It has come to every child that was there when it began and still is.
\* To one that was added since it may have come.
AllSeen(s) ==
  Walks(s) /\ \A n \in search[s].must : Front(n) # search[s].at

\* DFS() returns to the call for the parent ...
Ascend(s) ==
  /\ AllSeen(s) /\ search[s].at # search[s].text
  /\ search' = [search EXCEPT
       ![s].at   = Front(@),
       ![s].seen = {n \in @ : Front(n) # search[s].at}]
  /\ UNCHANGED <<trie, pairs, steady>>

\* ... or to DFSChildren(), which sorts the keys and keeps the first of them.
\* A key that was collected twice counts twice.
CutOff(s) ==
  /\ AllSeen(s) /\ search[s].at = search[s].text
  /\ \E n \in IF search[s].again THEN 1..Limit ELSE {Limit} :
       search' = [search EXCEPT
         ![s] = [NoSearch EXCEPT !.pc   = "lookup",
                                 !.text = search[s].text,
                                 !.keys = First(search[s].keys, n),
                                 !.cut  = search[s].keys
                                          \ First(search[s].keys, n)]]
  /\ UNCHANGED <<trie, pairs, steady>>

\* The first of the remaining keys is looked up.
LookUp(s) ==
  /\ search[s].pc = "lookup"
  /\ \E k \in First(search[s].keys, 1) :
       /\ k \in DOMAIN trie
       /\ search' = [search EXCEPT ![s].keys = @ \ {k},
                                   ![s].found = @ \cup ({k} \X trie[k])]
  /\ UNCHANGED <<trie, pairs, steady>>

\* The key's node was deleted in the meantime: the handler panics, and its
\* request ends without an answer.
LookUpFails(s) ==
  /\ search[s].pc = "lookup"
  /\ \E k \in First(search[s].keys, 1) : k \notin DOMAIN trie
  /\ search' = [search EXCEPT ![s] = NoSearch]
  /\ UNCHANGED <<trie, pairs, steady>>

Finish(s) ==
  /\ search[s].pc = "lookup" /\ search[s].keys = {}
  /\ search' = [search EXCEPT ![s].pc = "done"]
  /\ UNCHANGED <<trie, pairs, steady>>

\* UsersHandler() answers.
Answer(s) ==
  /\ search[s].pc = "done"
  /\ search' = [search EXCEPT ![s] = NoSearch]
  /\ UNCHANGED <<trie, pairs, steady>>

\* Go notices the race and aborts the gateway, which is started again and
\* loads the index anew.
Abort ==
  /\ \E s \in Searches : search[s].pc \in {"walk", "lookup"}
  /\ trie' = [n \in {<<>>} |-> {}]
  /\ search' = [s \in Searches |-> NoSearch]
  /\ pairs' = {}
  /\ steady' = [s \in Searches |-> {}]

Next ==
  \/ \E k \in Keys, v \in Values : Add(k, v) \/ Delete(k, v)
  \/ \E s \in Searches :
       \/ \E text \in Texts : Begin(s, text)
       \/ Descend(s) \/ Ascend(s) \/ CutOff(s)
       \/ LookUp(s) \/ LookUpFails(s) \/ Finish(s) \/ Answer(s)
  \/ Abort

Spec == Init /\ [][Next]_vars

-----------------------------------------------------------------------------
(* Properties.                                                             *)

\* Two neighbouring letters of the name are the same.
Doubled(k) == \E i \in 1..Len(k) : i < Len(k) /\ k[i] = k[i + 1]

Nodes == UNION {Prefixes(k) : k \in Keys \cup {<<>>}}

Runs == [pc    : {"idle", "walk", "lookup", "done"},
         text  : Texts \cup {<<>>},
         at    : Seq(Letters),
         must  : SUBSET Seq(Letters),
         seen  : SUBSET Seq(Letters),
         keys  : SUBSET Seq(Letters),
         again : BOOLEAN,
         cut   : SUBSET Seq(Letters),
         found : SUBSET (Seq(Letters) \X Values)]

\* Type invariant of the trie and the searches: in particular every node but
\* the root has its parent, whatever Delete() cuts off.
TypeOK ==
  /\ DOMAIN trie \subseteq Nodes
  /\ \A n \in DOMAIN trie :
       Prefixes(n) \subseteq DOMAIN trie /\ trie[n] \subseteq Values
  /\ pairs \in SUBSET (Keys \X Values)
  /\ search \in [Searches -> Runs]
  /\ steady \in [Searches -> SUBSET pairs]

\* What the trie holds was added and not deleted since: the value of a name
\* that was given up is found nowhere, except under the empty name.
NothingStale ==
  \A k \in DOMAIN trie \ {<<>>}, v \in Values :
    Holds(k, v) => <<k, v>> \in pairs

\* Whatever else is deleted, a name without a doubled letter is kept until it
\* is deleted itself.
PlainNamesAreKept ==
  \A pair \in pairs : Doubled(pair[1]) \/ Holds(pair[1], pair[2])

\* A search that answers found every longer name that was there all the time
\* and has no doubled letter, unless the limit cut it off, though the walk
\* takes no lock and other names came and went while it ran.
SearchIsComplete ==
  \A s \in Searches :
    search[s].pc = "done" =>
      \A pair \in steady[s] :
        \/ Doubled(pair[1])
        \/ pair[1] \in search[s].cut
        \/ pair \in search[s].found

\* The pairs the nodes hold.
Entries == {pair \in Keys \X Values : Holds(pair[1], pair[2])}

Index == INSTANCE NameIndex WITH entries <- Entries, Empty <- <<>>,
                                 Fragile <- {k \in Keys : Doubled(k)}

\* Seen through the pairs its nodes hold, the trie is the index its callers
\* work with, until the gateway is aborted: Add() adds its pair and loses none,
\* Delete() removes its pair and loses none but names with a doubled letter,
\* and nothing at all when the pair is not there; searches change nothing.
ImplementsNameIndex ==
  /\ Index!Init
  /\ [][/\ \A k \in Keys, v \in Values :
             /\ Add(k, v) => Index!Add(k, v)
             /\ Delete(k, v) => Index!Delete(k, v)
        /\ UNCHANGED Entries \/ Abort \/ Index!Next]_vars

=============================================================================
