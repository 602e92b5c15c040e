------------------------------ MODULE SkipList ------------------------------
(***************************************************************************)
(* kvSkipList.h, the table of the key-value server: a list in which every  *)
(* node has a number of levels and a pointer per level.                    *)
(*                                                                         *)
(* A node is named by its key, 0 is the head, Null the null pointer.  What *)
(* a freed node held is forgotten.                                         *)
(***************************************************************************)
EXTENDS Integers, Sequences, SequencesExt

CONSTANTS
  K,          \* the keys are 1 .. K
  Value,
  Default,    \* value_type{}
  MaxLevel,
  Null

Key == 1 .. K
Head0 == 0
Node == Key \cup {Head0}
Level == 0 .. (MaxLevel - 1)

ASSUME SkipListAssumption ==
  /\ K \in Nat /\ MaxLevel \in Nat \ {0} /\ Default \in Value
  /\ Null \notin Node

VARIABLES
  forward,   \* [Node -> [Level -> Node \cup {Null}]]
  level,     \* [Key -> its levels, 0 for a key that has no node]
  value,     \* [Key -> Value]
  levelNow,  \* _M_level_now
  counter,   \* _M_counter
  dumped     \* the last string dump returned, a sequence of pairs, or Null

list == <<forward, level, value, levelNow, counter>>
vars == <<list, dumped>>

(* What the operations compute on: the fields of one list.                 *)
This == [forward |-> forward, level |-> level, value |-> value,
         levelNow |-> levelNow, counter |-> counter]
Become(L) ==
  /\ forward' = L.forward /\ level' = L.level /\ value' = L.value
  /\ levelNow' = L.levelNow /\ counter' = L.counter

Empty == [forward |-> [n \in Node |-> [l \in Level |-> Null]],
          level |-> [k \in Key |-> 0], value |-> [k \in Key |-> Default],
          levelNow |-> 1, counter |-> 0]

-----------------------------------------------------------------------------
(* The node of level l, from n on, behind which k belongs.                 *)
Walk(L, n, l, k) ==
  LET walk[m \in Node] ==
        LET next == L.forward[m][l] IN
        IF next # Null /\ next < k THEN walk[next] ELSE m
  IN  walk[n]

(* _M_findPrecursors: on each level in use, from the top.                  *)
Precursors(L, k) ==
  LET pre[l \in 0 .. (L.levelNow - 1)] ==
        Walk(L, IF l = L.levelNow - 1 THEN Head0 ELSE pre[l + 1], l, k)
  IN  pre

(* The test that follows it: there is no node with this key.               *)
Missing(L, k) ==
  LET next == L.forward[Precursors(L, k)[0]][0] IN next = Null \/ next > k

Find(L, k) == IF Missing(L, k) THEN Null ELSE L.forward[Precursors(L, k)[0]][0]

(* _M_randomLevel, and a mutant of it.                                     *)
RandomLevelOver == 1 .. (MaxLevel + 1)
RandomLevel == 1 .. MaxLevel

(* A mutant of Linked: the level of the list is not raised.                *)
LinkedLow(L, k, v, lv) ==
  LET known == Precursors(L, k)
      Pre(l) == IF l < L.levelNow THEN known[l] ELSE Head0
      In(l) == l < lv
  IN  [forward |->
         [n \in Node |-> [l \in Level |->
            IF ~ In(l) THEN (IF n = k THEN Null ELSE L.forward[n][l])
            ELSE IF n = k THEN L.forward[Pre(l)][l]
            ELSE IF n = Pre(l) THEN k ELSE L.forward[n][l]]],
       level |-> [L.level EXCEPT ![k] = lv],
       value |-> [L.value EXCEPT ![k] = v],
       levelNow |-> L.levelNow,
       counter |-> L.counter + 1]

(* _M_insert, the new node having lv levels.                               *)
Linked(L, k, v, lv) ==
  LET known == Precursors(L, k)
      Pre(l) == IF l < L.levelNow THEN known[l] ELSE Head0
      In(l) == l < lv
  IN  [forward |->
         [n \in Node |-> [l \in Level |->
            IF ~ In(l) THEN (IF n = k THEN Null ELSE L.forward[n][l])
            ELSE IF n = k THEN L.forward[Pre(l)][l]
            ELSE IF n = Pre(l) THEN k ELSE L.forward[n][l]]],
       level |-> [L.level EXCEPT ![k] = lv],
       value |-> [L.value EXCEPT ![k] = v],
       levelNow |-> IF lv > L.levelNow THEN lv ELSE L.levelNow,
       counter |-> L.counter + 1]

(* A mutant of Inserted: a key that is there gets the new value.           *)
InsertedOver(L, k, v, lv) ==
  IF Missing(L, k) THEN Linked(L, k, v, lv) ELSE [L EXCEPT !.value[k] = v]

(* insert: a key that is there keeps its value.                            *)
Inserted(L, k, v, lv) == IF Missing(L, k) THEN Linked(L, k, v, lv) ELSE L

(* A mutant of Removed: the node is taken out of the lowest level only.    *)
RemovedBelow(L, k) ==
  LET pre == Precursors(L, k) IN
  IF Missing(L, k) THEN L
  ELSE [L EXCEPT !.forward[pre[0]][0] = L.forward[k][0],
                 !.level[k] = 0, !.value[k] = Default, !.counter = @ - 1]

(* remove: the levels that hold the node are joined behind it, then the    *)
(* levels left empty are given up.                                         *)
Removed(L, k) ==
  LET pre == Precursors(L, k)
      Holds(l) == \A j \in 0 .. l : L.forward[pre[j]][j] = k
      joined ==
        [n \in Node |-> [l \in Level |->
           IF n = k THEN Null
           ELSE IF l < L.levelNow /\ n = pre[l] /\ Holds(l)
                THEN L.forward[k][l]
           ELSE L.forward[n][l]]]
      inUse == {l \in 1 .. L.levelNow :
                  l = 1 \/ joined[Head0][l - 1] # Null}
  IN  IF Missing(L, k) THEN L
      ELSE [L EXCEPT !.forward = joined, !.level[k] = 0,
                     !.value[k] = Default, !.counter = @ - 1,
                     !.levelNow = CHOOSE l \in inUse : \A j \in inUse : j <= l]

(* The nodes of the lowest level in their order.                           *)
Chain(L, l) ==
  LET from[n \in Node] ==
        LET next == L.forward[n][l] IN
        IF next = Null THEN <<>> ELSE <<next>> \o from[next]
  IN  from[Head0]

(* A mutant of Cleared: the counter is left.                               *)
ClearedUncounted(L) == [Empty EXCEPT !.counter = L.counter]

(* clear: the nodes of the lowest level are freed, the head's pointers of  *)
(* the levels in use are reset.                                            *)
Cleared(L) ==
  LET freed == {Chain(L, 0)[n] : n \in DOMAIN Chain(L, 0)} IN
  [forward |-> [n \in Node |-> [l \in Level |->
                  IF n \in freed \/ (n = Head0 /\ l < L.levelNow) THEN Null
                  ELSE L.forward[n][l]]],
   level |-> [k \in Key |-> IF k \in freed THEN 0 ELSE L.level[k]],
   value |-> [k \in Key |-> IF k \in freed THEN Default ELSE L.value[k]],
   levelNow |-> 1, counter |-> 0]

-----------------------------------------------------------------------------
Init ==
  /\ forward = Empty.forward /\ level = Empty.level /\ value = Empty.value
  /\ levelNow = 1 /\ counter = 0 /\ dumped = Null

(* list[k] = v, as in _L_executePutOp.                                     *)
Assign(k, v) ==
  \E lv \in RandomLevel :
    LET L == Inserted(This, k, Default, lv) IN
    /\ Become([L EXCEPT !.value[Find(L, k)] = v])
    /\ UNCHANGED dumped

(* operator[] without the assignment.                                      *)
Touch(k) ==
  /\ \E lv \in RandomLevel : Become(Inserted(This, k, Default, lv))
  /\ UNCHANGED dumped

Insert(k, v) ==
  /\ \E lv \in RandomLevel : Become(Inserted(This, k, v, lv))
  /\ UNCHANGED dumped

RemoveKey(k) == Become(Removed(This, k)) /\ UNCHANGED dumped

Clear == Become(Cleared(This)) /\ UNCHANGED dumped

Dump ==
  /\ dumped' = [n \in DOMAIN Chain(This, 0) |->
                  <<Chain(This, 0)[n], value[Chain(This, 0)[n]]>>]
  /\ UNCHANGED list

(* load: every pair is inserted, into what the list holds already.         *)
Load ==
  /\ dumped # Null
  /\ \E lvs \in [DOMAIN dumped -> RandomLevel] :
       Become(FoldLeft(LAMBDA L, n : Inserted(L, dumped[n][1], dumped[n][2],
                                              lvs[n]),
                       This, [n \in DOMAIN dumped |-> n]))
  /\ UNCHANGED dumped

Next ==
  \/ \E k \in Key : Touch(k) \/ RemoveKey(k)
  \/ \E k \in Key, v \in Value : Assign(k, v) \/ Insert(k, v)
  \/ Clear \/ Dump \/ Load

Spec == Init /\ [][Next]_vars

-----------------------------------------------------------------------------
(* The values of the fields of class kvskiplist.                           *)
TypeOK ==
  /\ forward \in [Node -> [Level -> Node \cup {Null}]]
  /\ level \in [Key -> 0 .. MaxLevel]
  /\ value \in [Key -> Value]
  /\ levelNow \in 1 .. MaxLevel
  /\ counter \in 0 .. K
  /\ dumped # Null => dumped \in Seq(Key \X Value)

(* Whatever is inserted and removed, with whatever levels, each level is   *)
(* the sorted list of exactly the nodes that are that high, so that no     *)
(* pointer leads to a freed node and a search that starts at any level     *)
(* finds its node; no level above the highest node is searched             *)
(* (kvSkipList.h:175-197, 311-341).                                        *)
LevelsAreSublists ==
  /\ \A l \in Level :
       Chain(This, l) = SelectSeq([k \in Key |-> k], LAMBDA k : level[k] > l)
  /\ \A k \in Key : level[k] <= levelNow
  /\ levelNow > 1 => \E k \in Key : level[k] = levelNow

(* size(): the number of nodes (kvSkipList.h:247).                         *)
SizeIsExact == counter = Len(Chain(This, 0))

AsMap(pairs, k) ==
  LET hits == {n \in DOMAIN pairs : pairs[n][1] = k} IN
  IF hits = {} THEN Null ELSE pairs[CHOOSE n \in hits : TRUE][2]

Table == INSTANCE KvTable WITH
  None <- Null,
  map <- [k \in Key |-> LET n == Find(This, k) IN
            IF n = Null THEN Null ELSE value[n]],
  copy <- IF dumped = Null THEN Null ELSE [k \in Key |-> AsMap(dumped, k)]

(* Seen through find, the list is a map: an operation on one key changes   *)
(* no other, and load after dump restores a cleared map                    *)
(* (kvSkipList.h:154-282).                                                 *)
IsTable == Table!Spec
=============================================================================
