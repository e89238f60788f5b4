--------------------------- MODULE Ext2Steps_proofs ---------------------------
(***************************************************************************)
(* What a step of the ext2 driver may not do: take a name off the list,    *)
(* list a name that has no file, or lose a block.                          *)
(***************************************************************************)
EXTENDS Ext2_proofs

-----------------------------------------------------------------------------
(* The walk along a directory block                                        *)

\* The entries a walk visits are the only solution of their equation.
LEMMA OnlyWalk ==
  ASSUME NEW entries \in [Slot -> Entry], NEW X \in SUBSET Slot,
         X = ReachedBy(entries, X)
  PROVE  Visited(entries) = X
<1> DEFINE V == Visited(entries)
<1>1. V \in SUBSET Slot /\ V = ReachedBy(entries, V)
  BY Walk
<1> HIDE DEF V
<1>2. ASSUME NEW A \in SUBSET Slot, NEW B \in SUBSET Slot,
             A = ReachedBy(entries, A), B = ReachedBy(entries, B),
             NEW s \in A, s \notin B,
             \A t \in Slot : t < s => (t \in A <=> t \in B)
      PROVE  FALSE
  <2>1. s \in Slot /\ ~Terminator(entries, s)
    BY <1>2 DEF ReachedBy
  <2>2. CASE s = 0
    <3>1. s \in ReachedBy(entries, B)
      BY <2>1, <2>2 DEF ReachedBy
    <3> QED BY <1>2, <3>1
  <2>3. CASE s # 0
    <3>1. PICK t \in A : s = t + entries[t].size
      BY <1>2, <2>3 DEF ReachedBy
    <3>2. t \in Slot /\ ~Terminator(entries, t)
      BY <1>2, <3>1 DEF ReachedBy
    <3>3. entries[t].size \in Nat /\ entries[t].size # 0
      BY <3>2 DEF Terminator, Entry
    <3>4. t < s
      BY <3>1, <3>2, <3>3, SizesAssumption DEF Slot
    <3>5. t \in B
      BY <1>2, <3>2, <3>4
    <3>6. s \in ReachedBy(entries, B)
      BY <2>1, <3>1, <3>5 DEF ReachedBy
    <3> QED BY <1>2, <3>6
  <2> QED BY <2>2, <2>3
<1> DEFINE D == (V \ X) \cup (X \ V)
<1>3. CASE D = {}
  BY <1>3 DEF V
<1>4. CASE D # {}
  <2>1. D \subseteq Nat
    BY <1>1, SizesAssumption DEF Slot
  <2>2. PICK s \in D : \A t \in D : s <= t
    BY <1>4, <2>1, Minimum
  <2>3. \A t \in Slot : t < s => (t \in V <=> t \in X)
    <3>1. ASSUME NEW t \in Slot, t < s PROVE t \notin D
      <4>1. s \in Nat /\ t \in Nat
        BY <2>1, SizesAssumption DEF Slot
      <4> QED BY <2>2, <3>1, <4>1
    <3> QED BY <3>1
  <2>4. CASE s \in V /\ s \notin X
    BY <1>1, <1>2, <2>3, <2>4
  <2>5. CASE s \in X /\ s \notin V
    BY <1>1, <1>2, <2>3, <2>5
  <2> QED BY <2>2, <2>4, <2>5
<1> QED BY <1>3, <1>4

\* What the walk visits: entries with an inode and a size, the first one or
\* the next after another.
LEMMA WalkSteps ==
  ASSUME NEW entries \in [Slot -> Entry], NEW s \in Visited(entries)
  PROVE  /\ s \in Slot /\ s \in Nat /\ s < K
         /\ ~Terminator(entries, s)
         /\ entries[s].size \in Nat /\ entries[s].size >= 1
         /\ s = 0 \/ \E t \in Visited(entries) : s = t + entries[t].size
<1>1. s \in Slot /\ s \in ReachedBy(entries, Visited(entries))
  BY Walk
<1>2. /\ ~Terminator(entries, s)
      /\ s = 0 \/ \E t \in Visited(entries) : s = t + entries[t].size
  BY <1>1 DEF ReachedBy
<1>3. entries[s].size \in Nat /\ entries[s].size # 0
  BY <1>1, <1>2 DEF Terminator, Entry
<1> QED BY <1>1, <1>2, <1>3, SizesAssumption DEF Slot

LEMMA Reached ==
  ASSUME NEW entries, NEW s \in Slot, ~Terminator(entries, s),
         s = 0 \/ \E t \in Visited(entries) : s = t + entries[t].size
  PROVE  s \in Visited(entries)
BY Walk DEF ReachedBy

\* An entry visited ends where the next one begins, or before.
LEMMA NoOverlap ==
  ASSUME NEW entries \in [Slot -> Entry],
         NEW s \in Visited(entries), NEW t \in Visited(entries), t < s
  PROVE  t + entries[t].size <= s
<1> DEFINE Bad == {x \in Visited(entries) :
                     \E y \in Visited(entries) : y < x /\ ~(y + entries[y].size <= x)}
<1>1. CASE Bad = {}
  BY <1>1
<1>2. CASE Bad # {}
  <2>1. Bad \subseteq Nat
    BY WalkSteps
  <2>2. PICK x \in Bad : \A z \in Bad : x <= z
    BY <1>2, <2>1, Minimum
  <2>3. PICK y \in Visited(entries) : y < x /\ ~(y + entries[y].size <= x)
    BY <2>2
  <2>4. \A z \in Visited(entries) : z < x =>
          \A w \in Visited(entries) : w < z => w + entries[w].size <= z
    <3>1. \A z \in Visited(entries) : z < x => z \notin Bad
      BY <2>1, <2>2, WalkSteps
    <3> QED BY <3>1
  <2> HIDE DEF Bad
  <2>5. x \in Visited(entries) /\ x \in Nat /\ y \in Nat
    BY <2>2, WalkSteps DEF Bad
  <2>6. x # 0
    BY <2>3, <2>5
  <2>7. PICK u \in Visited(entries) : x = u + entries[u].size
    BY <2>5, <2>6, WalkSteps
  <2>8. u \in Nat /\ entries[u].size \in Nat /\ entries[u].size >= 1
    BY WalkSteps
  <2>9. PICK m \in Nat : m = entries[y].size /\ m >= 1
    BY WalkSteps
  <2>10. PICK n \in Nat : n = entries[u].size /\ n >= 1
    BY <2>8
  <2>11. CASE u = y
    BY <2>3, <2>5, <2>7, <2>9, <2>10, <2>11
  <2>12. CASE y < u
    <3>1. u < x
      BY <2>5, <2>7, <2>8, <2>10
    <3>2. y + m <= u
      BY <2>4, <2>9, <2>12, <3>1
    <3> QED BY <2>3, <2>5, <2>8, <2>9, <3>1, <3>2
  <2>13. CASE u < y
    <3>1. u + n <= y
      BY <2>3, <2>4, <2>10, <2>13
    <3> QED BY <2>3, <2>5, <2>7, <2>8, <2>10, <3>1
  <2> QED BY <2>5, <2>8, <2>11, <2>12, <2>13
<1> QED BY <1>1, <1>2

\* Where the walk ends, every entry has ended, and there nothing is visited.
LEMMA EndOfWalk ==
  ASSUME NEW entries \in [Slot -> Entry]
  PROVE  /\ WalkEnd(entries) \in Nat
         /\ \A t \in Visited(entries) : t + entries[t].size <= WalkEnd(entries)
         /\ WalkEnd(entries) \notin Visited(entries)
         /\ \/ WalkEnd(entries) = 0
            \/ \E t \in Visited(entries) : WalkEnd(entries) = t + entries[t].size
<1> DEFINE seen == Visited(entries)
           last == CHOOSE s \in seen : \A t \in seen : t <= s
<1>1. CASE seen = {}
  BY <1>1 DEF WalkEnd
<1>2. CASE seen # {}
  <2>1. seen \subseteq 0 .. K - 1
    BY Walk DEF Slot
  <2>2. \E s \in seen : \A t \in seen : t <= s
    BY <1>2, <2>1, Maximum, SizesAssumption
  <2>3. last \in seen /\ \A t \in seen : t <= last
    BY <2>2
  <2>4. WalkEnd(entries) = last + entries[last].size
    BY <1>2 DEF WalkEnd
  <2> HIDE DEF last, seen
  <2>5. last \in Nat /\ entries[last].size \in Nat /\ entries[last].size >= 1
    BY <2>3, WalkSteps DEF seen
  <2>6. ASSUME NEW t \in seen PROVE t + entries[t].size <= WalkEnd(entries) /\ t # WalkEnd(entries)
    <3>1. t \in Nat /\ entries[t].size \in Nat /\ t <= last
      BY <2>3, <2>6, WalkSteps DEF seen
    <3>2. CASE t = last
      BY <2>4, <2>5, <3>2
    <3>3. CASE t < last
      <4>1. t + entries[t].size <= last
        BY <2>3, <2>6, <3>3, NoOverlap DEF seen
      <4> QED BY <2>4, <2>5, <3>1, <3>3, <4>1
    <3> QED BY <2>5, <3>1, <3>2, <3>3
  <2> QED BY <2>3, <2>4, <2>5, <2>6 DEF seen
<1> QED BY <1>1, <1>2

\* What a change of a block adds to its entries: those visited still are,
\* with the inodes they had, and the others have one of these inodes.
Added(entries, after, new) ==
  /\ Visited(entries) \subseteq Visited(after)
  /\ \A s \in Visited(entries) : after[s].inode = entries[s].inode
  /\ \A s \in Visited(after) \ Visited(entries) : after[s].inode \in new

\* In the slack of the first entry that has some.
LEMMA SlackTaken ==
  ASSUME NEW entries \in [Slot -> Entry], NEW n \in Inum, Tidy(entries),
         Slack(entries) # {}
  PROVE  Added(entries, WithEntry(entries, n), {n}) /\ Tidy(WithEntry(entries, n))
<1> DEFINE V == Visited(entries)
           after == WithEntry(entries, n)
<1>1. PICK s \in V : s = Least(Slack(entries)) /\ entries[s].size > 1
  <2>1. Slack(entries) \subseteq V /\ \A t \in Slack(entries) : entries[t].size > 1
    BY DEF Slack
  <2>2. Slack(entries) \subseteq Nat
    BY <2>1, WalkSteps
  <2> QED BY <2>1, <2>2, LeastIsFirst
<1>2. /\ s \in Slot /\ s \in Nat /\ s < K /\ ~Terminator(entries, s)
      /\ entries[s].size \in Nat /\ entries[s].inode # 0
  BY WalkSteps DEF Terminator
<1>3. PICK z \in Nat : z = entries[s].size /\ z > 1
  BY <1>1, <1>2
<1>4. s + 1 \notin V
  <2> SUFFICES ASSUME s + 1 \in V PROVE FALSE
    OBVIOUS
  <2>1. s < s + 1
    BY <1>2
  <2>2. s + z <= s + 1
    BY <1>3, <2>1, NoOverlap
  <2> QED BY <1>2, <1>3, <2>2
<1>5. after = [entries EXCEPT ![s].size = 1, ![s + 1] = [inode |-> n, size |-> z - 1]]
  BY <1>1, <1>3 DEF WithEntry
<1>6. after \in [Slot -> Entry]
  BY WithEntryType
<1>7. /\ after[s].inode = entries[s].inode /\ after[s].size = 1
      /\ \A x \in Slot : x # s /\ x # s + 1 => after[x] = entries[x]
      /\ s + 1 \in Slot => after[s + 1].inode = n /\ after[s + 1].size = z - 1
  <2>1. s # s + 1 /\ entries[s] \in Entry
    BY <1>2
  <2> QED BY <1>2, <1>5, <2>1 DEF Entry
<1> DEFINE X == V \cup ({s + 1} \cap Slot)
<1> HIDE DEF after, V
<1>8. V \subseteq Slot /\ X \subseteq Slot /\ V \subseteq Nat
  BY Walk, WalkSteps DEF V
<1>9. ASSUME NEW t \in V PROVE entries[t].size \in Nat /\ entries[t].size >= 1
  BY WalkSteps DEF V
<1>10. n # 0
  BY SizesAssumption DEF Inum
<1>11. ReachedBy(after, X) \subseteq X
  <2> SUFFICES ASSUME NEW x \in ReachedBy(after, X), x # s, x # s + 1 PROVE x \in V
    BY DEF V, ReachedBy
  <2>1. /\ x \in Slot /\ ~Terminator(after, x) /\ x \in Nat
        /\ x = 0 \/ \E t \in X : x = t + after[t].size
    BY SizesAssumption DEF ReachedBy, Slot
  <2>2. after[x] = entries[x] /\ ~Terminator(entries, x)
    BY <1>7, <2>1 DEF Terminator
  <2>3. CASE x = 0
    BY <2>1, <2>2, <2>3, Reached DEF V
  <2>4. CASE x # 0
    <3>1. PICK t \in X : x = t + after[t].size
      BY <2>1, <2>4
    <3>2. t # s
      BY <1>7, <3>1
    <3>3. CASE t = s + 1
      <4>1. x = s + 1 + (z - 1)
        BY <1>7, <1>8, <3>1, <3>3
      <4>2. x = s + entries[s].size
        BY <1>2, <1>3, <4>1
      <4> QED BY <2>1, <2>2, <4>2, Reached DEF V
    <3>4. CASE t # s + 1
      <4>1. t \in V /\ after[t] = entries[t]
        BY <1>7, <1>8, <3>2, <3>4
      <4> QED BY <2>1, <2>2, <3>1, <4>1, Reached DEF V
    <3> QED BY <3>3, <3>4
  <2> QED BY <2>3, <2>4
<1>12. ASSUME NEW x \in V PROVE x \in ReachedBy(after, X)
  <2>1. x \in Slot /\ ~Terminator(entries, x) /\ x \in Nat /\ x # s + 1
    BY <1>4, WalkSteps DEF V
  <2>2. ~Terminator(after, x)
    BY <1>2, <1>7, <2>1 DEF Terminator
  <2>3. CASE x = 0
    BY <2>1, <2>2, <2>3 DEF ReachedBy
  <2>4. CASE x # 0
    <3>1. PICK t \in V : x = t + entries[t].size
      BY <2>4, WalkSteps DEF V
    <3>2. CASE t = s
      <4>1. x = s + z /\ x < K
        BY <1>3, <2>1, <3>1, <3>2, SizesAssumption DEF Slot
      <4>2. s + 1 \in Slot
        BY <1>2, <1>3, <4>1, SizesAssumption DEF Slot
      <4>3. x = (s + 1) + after[s + 1].size
        BY <1>2, <1>3, <1>7, <4>1, <4>2
      <4> QED BY <2>1, <2>2, <4>2, <4>3 DEF ReachedBy
    <3>3. CASE t # s
      <4>1. after[t] = entries[t]
        BY <1>4, <1>7, <1>8, <3>3
      <4> QED BY <2>1, <2>2, <3>1, <4>1 DEF ReachedBy
    <3> QED BY <3>2, <3>3
  <2> QED BY <2>3, <2>4
<1>13. ASSUME s + 1 \in Slot PROVE s + 1 \in ReachedBy(after, X)
  <2>1. ~Terminator(after, s + 1)
    BY <1>3, <1>7, <1>10, <1>13 DEF Terminator
  <2>2. s \in X /\ s + 1 = s + after[s].size
    BY <1>7 DEF V
  <2> QED BY <1>13, <2>1, <2>2 DEF ReachedBy
<1>14. Visited(after) = X
  <2>1. X = ReachedBy(after, X)
    BY <1>11, <1>12, <1>13
  <2> HIDE DEF X
  <2> QED BY <1>6, <1>8, <2>1, OnlyWalk
<1>15. Tidy(after)
  <2> SUFFICES ASSUME NEW x \in Slot, \A t \in X : t + after[t].size <= x
               PROVE  Terminator(after, x)
    BY <1>14 DEF Tidy
  <2>1. x \in Nat /\ x < K
    BY SizesAssumption DEF Slot
  <2>2. s + 1 <= x
    BY <1>7 DEF V
  <2>3. s + 1 \in Slot
    BY <1>2, <2>1, <2>2, SizesAssumption DEF Slot
  <2>4. s + z <= x
    BY <1>2, <1>3, <1>7, <2>1, <2>3
  <2>5. ASSUME NEW t \in V PROVE t + entries[t].size <= x
    <3>1. CASE t = s
      BY <1>3, <2>4, <3>1
    <3>2. CASE t # s
      <4>1. after[t] = entries[t]
        BY <1>4, <1>7, <1>8, <3>2
      <4> QED BY <4>1
    <3> QED BY <3>1, <3>2
  <2>6. Terminator(entries, x)
    BY <2>5 DEF Tidy, V
  <2>7. x # s /\ x # s + 1
    BY <1>2, <1>3, <2>1, <2>2, <2>4
  <2> QED BY <1>7, <2>6, <2>7 DEF Terminator
<1>16. \A t \in V : after[t].inode = entries[t].inode
  BY <1>4, <1>7, <1>8
<1> QED BY <1>7, <1>14, <1>15, <1>16 DEF Added, V, after

\* At the end of the walk.
LEMMA EndTaken ==
  ASSUME NEW entries \in [Slot -> Entry], NEW n \in Inum, Tidy(entries),
         Slack(entries) = {}, WalkEnd(entries) < K
  PROVE  Added(entries, WithEntry(entries, n), {n}) /\ Tidy(WithEntry(entries, n))
<1> DEFINE V == Visited(entries)
           after == WithEntry(entries, n)
<1>1. PICK w \in Nat : w = WalkEnd(entries)
  BY EndOfWalk
<1>2. /\ w \in Slot /\ w \notin V
      /\ \A t \in V : t + entries[t].size <= w
      /\ w = 0 \/ \E t \in V : w = t + entries[t].size
  BY <1>1, EndOfWalk, SizesAssumption DEF Slot
<1>3. after = [entries EXCEPT ![w] = [inode |-> n, size |-> 1]]
  BY <1>1 DEF WithEntry
<1>4. after \in [Slot -> Entry]
  BY WithEntryType
<1>5. /\ after[w].inode = n /\ after[w].size = 1
      /\ \A x \in Slot : x # w => after[x] = entries[x]
  BY <1>2, <1>3
<1> DEFINE X == V \cup {w}
<1> HIDE DEF after, V
<1>6. V \subseteq Slot /\ X \subseteq Slot /\ V \subseteq Nat
  BY <1>2, Walk, WalkSteps DEF V
<1>7. \A t \in V : after[t] = entries[t]
  BY <1>2, <1>5, <1>6
<1>8. n # 0
  BY SizesAssumption DEF Inum
<1>9. ReachedBy(after, X) \subseteq X
  <2> SUFFICES ASSUME NEW x \in ReachedBy(after, X), x # w PROVE x \in V
    OBVIOUS
  <2>1. /\ x \in Slot /\ ~Terminator(after, x) /\ x \in Nat
        /\ x = 0 \/ \E t \in X : x = t + after[t].size
    BY SizesAssumption DEF ReachedBy, Slot
  <2>2. after[x] = entries[x] /\ ~Terminator(entries, x)
    BY <1>5, <2>1 DEF Terminator
  <2>3. CASE x = 0
    BY <2>1, <2>2, <2>3, Reached DEF V
  <2>4. CASE x # 0
    <3>1. PICK t \in X : x = t + after[t].size
      BY <2>1, <2>4
    <3>2. CASE t = w
      <4>1. x = w + 1
        BY <1>5, <3>1, <3>2
      <4>2. ASSUME NEW u \in V PROVE u + entries[u].size <= x
        <5>1. u \in Nat /\ entries[u].size \in Nat /\ u + entries[u].size <= w
          BY <1>2, WalkSteps DEF V
        <5> QED BY <4>1, <5>1
      <4>3. Terminator(entries, x)
        BY <2>1, <4>2 DEF Tidy, V
      <4> QED BY <2>2, <4>3
    <3>3. CASE t # w
      BY <1>7, <2>1, <2>2, <3>1, <3>3, Reached DEF V
    <3> QED BY <3>2, <3>3
  <2> QED BY <2>3, <2>4
<1>10. ASSUME NEW x \in V PROVE x \in ReachedBy(after, X)
  <2>1. /\ x \in Slot /\ ~Terminator(entries, x)
        /\ x = 0 \/ \E t \in V : x = t + entries[t].size
    BY WalkSteps DEF V
  <2>2. ~Terminator(after, x)
    BY <1>7, <2>1 DEF Terminator
  <2>3. x = 0 \/ \E t \in X : x = t + after[t].size
    BY <1>7, <2>1
  <2> QED BY <2>1, <2>2, <2>3 DEF ReachedBy
<1>11. w \in ReachedBy(after, X)
  <2>1. ~Terminator(after, w)
    BY <1>5, <1>8 DEF Terminator
  <2>2. w = 0 \/ \E t \in X : w = t + after[t].size
    BY <1>2, <1>7
  <2> QED BY <1>2, <2>1, <2>2 DEF ReachedBy
<1>12. Visited(after) = X
  <2>1. X = ReachedBy(after, X)
    BY <1>9, <1>10, <1>11
  <2> HIDE DEF X
  <2> QED BY <1>4, <1>6, <2>1, OnlyWalk
<1>13. Tidy(after)
  <2> SUFFICES ASSUME NEW x \in Slot, \A t \in X : t + after[t].size <= x
               PROVE  Terminator(after, x)
    BY <1>12 DEF Tidy
  <2>1. x \in Nat /\ w + 1 <= x
    BY <1>5, SizesAssumption DEF Slot
  <2>2. \A t \in V : t + entries[t].size <= x
    BY <1>7
  <2>3. Terminator(entries, x)
    BY <2>2 DEF Tidy, V
  <2>4. x # w
    BY <2>1
  <2> QED BY <1>5, <2>3, <2>4 DEF Terminator
<1> QED BY <1>5, <1>7, <1>12, <1>13 DEF Added, V, after

LEMMA EntryAdded ==
  ASSUME NEW entries \in [Slot -> Entry], NEW n \in Inum, Tidy(entries),
         HasRoom(entries)
  PROVE  Added(entries, WithEntry(entries, n), {n}) /\ Tidy(WithEntry(entries, n))
BY SlackTaken, EndTaken DEF HasRoom

\* The block a directory grows by: its entry has no size, and none is visited.
LEMMA NewBlockIsEmpty ==
  ASSUME NEW n \in Inum,
         NEW entries, entries = [EmptyBlock EXCEPT ![0] = [inode |-> n, size |-> 0]]
  PROVE  Visited(entries) = {} /\ Tidy(entries)
<1>1. ASSUME NEW s \in Slot PROVE Terminator(entries, s)
  <2>1. CASE s = 0
    <3>1. entries[s] = [inode |-> n, size |-> 0]
      BY <1>1, <2>1 DEF EmptyBlock
    <3> QED BY <3>1 DEF Terminator
  <2>2. CASE s # 0
    <3>1. entries[s] = NoEntry
      BY <1>1, <2>2 DEF EmptyBlock
    <3> QED BY <3>1 DEF Terminator, NoEntry
  <2> QED BY <2>1, <2>2
<1>2. Visited(entries) = {}
  <2>1. ReachedBy(entries, Visited(entries)) = {}
    BY <1>1 DEF ReachedBy
  <2> QED BY <2>1, Walk
<1> QED BY <1>1, <1>2 DEF Tidy

-----------------------------------------------------------------------------
(* A directory in some contents of the blocks                              *)

EntriesIn(dir, contents) ==
  UNION {{<<i, s>> : s \in Visited(contents[dir.block[i]])} :
           i \in {j \in Pointer :
                    \A k \in 0 .. j : dir.block[k] # 0}}

InodeIn(dir, contents, e) == contents[dir.block[e[1]]][e[2]].inode

LEMMA EntryOf ==
  ASSUME NEW dir, NEW contents, NEW i, NEW s
  PROVE  <<i, s>> \in EntriesIn(dir, contents) <=>
           /\ i \in Pointer /\ \A k \in 0 .. i : dir.block[k] # 0
           /\ s \in Visited(contents[dir.block[i]])
BY DEF EntriesIn

LEMMA EntryIsPair ==
  ASSUME NEW dir, NEW contents, NEW e \in EntriesIn(dir, contents)
  PROVE  \E i, s : e = <<i, s>>
BY DEF EntriesIn

\* A directory that has been added to, in its blocks or at its end.
Extended(dir, contents, after, more, new) ==
  \A i \in Pointer :
    \/ /\ after.block[i] = dir.block[i]
       /\ dir.block[i] # 0 => Added(contents[dir.block[i]], more[dir.block[i]], new)
    \/ dir.block[i] = 0 /\ Visited(more[after.block[i]]) = {}

LEMMA ListExtended ==
  ASSUME NEW dir, NEW contents, NEW after, NEW more, NEW new,
         NoHoles(dir), Extended(dir, contents, after, more, new)
  PROVE  /\ \A e \in EntriesIn(dir, contents) :
              /\ e \in EntriesIn(after, more)
              /\ InodeIn(after, more, e) = InodeIn(dir, contents, e)
         /\ \A e \in EntriesIn(after, more) :
              \/ /\ e \in EntriesIn(dir, contents)
                 /\ InodeIn(after, more, e) = InodeIn(dir, contents, e)
              \/ InodeIn(after, more, e) \in new
<1>0. \A i \in Pointer : \A k \in 0 .. i : k \in Pointer
  BY SizesAssumption DEF Pointer
<1>1. ASSUME NEW e \in EntriesIn(dir, contents)
      PROVE  /\ e \in EntriesIn(after, more)
             /\ InodeIn(after, more, e) = InodeIn(dir, contents, e)
  <2>1. PICK i, s : e = <<i, s>>
    BY <1>1, EntryIsPair
  <2>2. /\ i \in Pointer /\ \A k \in 0 .. i : dir.block[k] # 0
        /\ s \in Visited(contents[dir.block[i]])
    BY <1>1, <2>1, EntryOf
  <2>3. \A k \in 0 .. i : after.block[k] = dir.block[k]
    BY <1>0, <2>2 DEF Extended
  <2>4. i \in 0 .. i
    BY <2>2, SizesAssumption DEF Pointer
  <2>5. Added(contents[dir.block[i]], more[dir.block[i]], new)
    BY <2>2, <2>4 DEF Extended
  <2>6. <<i, s>> \in EntriesIn(after, more)
    BY <2>2, <2>3, <2>4, <2>5, EntryOf DEF Added
  <2>7. more[dir.block[i]][s].inode = contents[dir.block[i]][s].inode
    BY <2>2, <2>5 DEF Added
  <2> QED BY <2>1, <2>3, <2>4, <2>6, <2>7 DEF InodeIn
<1>2. ASSUME NEW e \in EntriesIn(after, more)
      PROVE  \/ /\ e \in EntriesIn(dir, contents)
                /\ InodeIn(after, more, e) = InodeIn(dir, contents, e)
             \/ InodeIn(after, more, e) \in new
  <2>1. PICK i, s : e = <<i, s>>
    BY <1>2, EntryIsPair
  <2>2. /\ i \in Pointer /\ \A k \in 0 .. i : after.block[k] # 0
        /\ s \in Visited(more[after.block[i]])
    BY <1>2, <2>1, EntryOf
  <2>3. i \in 0 .. i
    BY <2>2, SizesAssumption DEF Pointer
  <2>4. /\ after.block[i] = dir.block[i] /\ dir.block[i] # 0
        /\ Added(contents[dir.block[i]], more[dir.block[i]], new)
    BY <2>2, <2>3 DEF Extended
  <2>5. \A k \in 0 .. i : dir.block[k] # 0
    BY <2>2, <2>4 DEF NoHoles
  <2>6. CASE s \in Visited(contents[dir.block[i]])
    <3>1. <<i, s>> \in EntriesIn(dir, contents)
      BY <2>2, <2>5, <2>6, EntryOf
    <3> QED BY <1>1, <2>1, <3>1
  <2>7. CASE s \notin Visited(contents[dir.block[i]])
    BY <2>1, <2>2, <2>4, <2>7 DEF Added, InodeIn
  <2> QED BY <2>6, <2>7
<1> QED BY <1>1, <1>2

\* The entry goes to the first block that has room: those before are in use.
LEMMA TargetIsFirst ==
  ASSUME NEW dir, NEW i, i = TargetIndex(dir), i < NDirect
  PROVE  /\ i \in Pointer
         /\ dir.block[i] # 0 => HasRoom(block[dir.block[i]])
         /\ \A k \in Pointer : k < i => dir.block[k] # 0
<1> DEFINE fit == {j \in Pointer :
                     dir.block[j] = 0 \/ HasRoom(block[dir.block[j]])}
<1>1. i = IF fit = {} THEN NDirect ELSE Least(fit)
  BY DEF TargetIndex
<1>2. fit # {}
  BY <1>1, SizesAssumption
<1>3. fit \subseteq Nat
  BY SizesAssumption DEF Pointer
<1>4. i \in fit /\ \A j \in fit : i <= j
  <2> HIDE DEF fit
  <2> QED BY <1>1, <1>2, <1>3, LeastIsFirst
<1>5. ASSUME NEW k \in Pointer, k < i PROVE dir.block[k] # 0
  <2>1. k \in Nat /\ i \in Nat
    BY <1>3, <1>4, SizesAssumption DEF Pointer
  <2>2. k \notin fit
    BY <1>4, <1>5, <2>1
  <2> QED BY <1>5, <2>2
<1> QED BY <1>4, <1>5

-----------------------------------------------------------------------------
(* The invariant                                                           *)

\* The directory in hand, about to be written back: the one on the disk, or
\* that with a new block whose entry the walk does not see yet.
Grown(dir, hand) ==
  /\ Orderly(hand, block)
  /\ \A i \in Pointer :
       \/ hand.block[i] = dir.block[i]
       \/ dir.block[i] = 0 /\ Visited(block[hand.block[i]]) = {}

\* A file's inode in hand has the blocks of the one on the disk.
Keeps(stored, hand) ==
  \A i \in Pointer : stored.block[i] # 0 => hand.block[i] = stored.block[i]

InHand ==
  /\ op.cmd = "write" => Using \/ Stage = "lost"
  /\ Stage \in {"place", "dirblock"} => inode = RootDir
  /\ Stage = "writeback" => Grown(RootDir, inode)
  /\ Stage \in {"block", "data", "size"} =>
       InodeOf(op.ino).type = "file" /\ Keeps(InodeOf(op.ino), inode)
  /\ Stage \in {"dirblock", "data"} => inode.block[op.idx] = 0
  /\ Stage = "dirblock" => \A k \in Pointer : k < op.idx => inode.block[k] # 0
  /\ Stage \notin {"dirblock", "data", "lost"} =>
       \/ op.blk = 0
       \/ Using /\ \E i \in Pointer : inode.block[i] = op.blk

\* A file's inode is marked used; power may be lost while it is being deleted.
Marked ==
  /\ op.cmd = "create" => op.ino \in inode_bitmap
  /\ crashes = 0 =>
       /\ \A n \in File : n \in inode_bitmap \/ (op.cmd = "delete" /\ n = op.ino)
       /\ Stage = "table" => op.ino \notin File

Ordered == ~mixed => InHand /\ Marked /\ Orderly(RootDir, block)

-----------------------------------------------------------------------------
(* The root directory                                                      *)

\* It is not written, nor any of its blocks.
RootStays ==
  /\ RootDir' = RootDir
  /\ \A i \in Pointer : RootDir.block[i] # 0 =>
       block'[RootDir.block[i]] = block[RootDir.block[i]]

LEMMA RootTyped ==
  ASSUME Types
  PROVE  /\ RootDir \in Inode /\ RootDir = inode_table[SlotOf(Root)]
         /\ Root \in Holder(inode_table)
         /\ \A i \in Pointer : RootDir.block[i] \in Block
BY RootIsInode, SlotsDistinct DEF Types, TypeOK, RootDir, InodeOf, Holder, Inode

LEMMA UnwrittenStays ==
  ASSUME UNCHANGED <<inode_table, block>>
  PROVE  RootStays
BY DEF RootStays, RootDir, InodeOf

\* Writing another inode.
LEMMA OtherInodeWritten ==
  ASSUME Types, NEW n \in Inum, n # Root, UNCHANGED block,
         NEW stored, inode_table' = [inode_table EXCEPT ![SlotOf(n)] = stored]
  PROVE  RootStays
<1>1. SlotOf(n) # SlotOf(Root) /\ SlotOf(Root) \in 0 .. IPG - 1
  BY SlotsDistinct, RootIsInode
<1>2. inode_table'[SlotOf(Root)] = inode_table[SlotOf(Root)]
  BY <1>1 DEF Types, TypeOK
<1> QED BY <1>2 DEF RootStays, RootDir, InodeOf

\* Writing a block that is not the directory's.
LEMMA OtherBlockWritten ==
  ASSUME Types, UNCHANGED inode_table, NEW c, NEW entries,
         block' = [block EXCEPT ![c] = entries],
         \A i \in Pointer : RootDir.block[i] # c
  PROVE  RootStays
<1>1. RootDir' = RootDir
  BY DEF RootDir, InodeOf
<1>2. \A i \in Pointer : RootDir.block[i] \in Block
  BY RootTyped
<1>3. block \in [Block -> [Slot -> Entry]]
  BY DEF Types, TypeOK
<1> QED BY <1>1, <1>2, <1>3 DEF RootStays

\* Every step but those that enter a name or write the directory back.
LEMMA RootLeftAlone ==
  ASSUME Types, DiskSound, HandSound, [Next]_vars, ~PlaceEntry, ~WriteBackParent
  PROVE  RootStays
<1>1. CASE UNCHANGED vars \/ Start \/ IrqCommand \/ Crash \/ Done \/ UpdateGroupDescriptor
           \/ UpdateSuperblock \/ ReadParent \/ DirectoryFull
  <2>1. CASE UNCHANGED vars \/ IrqCommand \/ Crash \/ Done \/ UpdateGroupDescriptor
             \/ UpdateSuperblock \/ ReadParent \/ DirectoryFull
    <3>1. UNCHANGED <<inode_table, block>>
      BY <2>1 DEF IrqCommand, Crash, Done, UpdateGroupDescriptor, UpdateSuperblock,
                  ReadParent, DirectoryFull, vars, disk
    <3> QED BY <3>1, UnwrittenStays
  <2>2. CASE Start
    <3>1. ASSUME NEW n, NEW len, NEW tag,
                 \/ CreateFile(n) \/ NoFreeInode \/ WriteFile(n, len, tag)
                 \/ ReadFile(n) \/ DeleteFile(n)
          PROVE  UNCHANGED <<inode_table, block>>
      BY <3>1 DEF CreateFile, NoFreeInode, WriteFile, ReadFile, DeleteFile, disk
    <3> QED BY <2>2, <3>1, UnwrittenStays DEF Start
  <2> QED BY <1>1, <2>1, <2>2
<1>2. CASE NewDirBlock \/ AllocateData \/ NoFreeBlock
  <2>1. UNCHANGED <<inode_table, block>>
    BY <1>2 DEF NewDirBlock, AllocateData, TakeBlock, NoFreeBlock, disk
  <2> QED BY <2>1, UnwrittenStays
<1>3. CASE CreateInode \/ FinishWrite \/ ClearInode
  <2>1. op.ino \in Inum /\ op.ino # Root /\ UNCHANGED block
    BY <1>3 DEF CreateInode, FinishWrite, ClearInode, At, Types, Control, Stage, HandSound
  <2>2. \E stored : inode_table' = [inode_table EXCEPT ![SlotOf(op.ino)] = stored]
    BY <1>3 DEF CreateInode, FinishWrite, ClearInode
  <2>3. PICK n \in Inum : n = op.ino
    BY <2>1
  <2> QED BY <2>1, <2>2, <2>3, OtherInodeWritten
<1>4. CASE WriteDirBlock
  <2>1. /\ UNCHANGED inode_table
        /\ block' = [block EXCEPT ![op.blk] =
                       [EmptyBlock EXCEPT ![0] = [inode |-> op.ino, size |-> 0]]]
        /\ Unheld(inode_table, op.blk)
    BY <1>4 DEF WriteDirBlock, At, Stage, HandSound
  <2>2. \A i \in Pointer : RootDir.block[i] # op.blk
    BY <2>1, RootTyped DEF Unheld
  <2> QED BY <2>1, <2>2, OtherBlockWritten
<1>5. CASE WriteData
  <2>1. PICK b : /\ WriteDataTo(b)
                 /\ \/ op.pc = "data" /\ b = op.blk
                    \/ op.pc = "block" /\ b = inode.block[op.idx] /\ b # 0
    BY <1>5 DEF WriteData, At
  <2>2. /\ Using /\ op.cmd = "write" /\ op.ino # Root /\ Target = op.ino
        /\ op.idx \in Pointer
    BY <2>1, SizesAssumption
       DEF Stage, Using, Target, Types, TypeOK, Operation, Control, HandSound, Pointer
  <2>3. \A i \in Pointer : RootDir.block[i] # b
    <3>1. CASE op.pc = "data"
      BY <2>1, <3>1, RootTyped DEF HandSound, Stage, Unheld
    <3>2. CASE op.pc = "block"
      <4>1. /\ Root \in Holder(Ahead) /\ Ahead[SlotOf(Root)] = RootDir
            /\ Target \in Holder(Ahead) /\ Ahead[SlotOf(Target)] = inode
            /\ HeldOnce(Ahead, block_bitmap)
        BY <2>2, AheadHolds, RootIsInode, RootTyped DEF HandSound, Holder
      <4>2. b = inode.block[op.idx] /\ b # 0
        BY <2>1, <3>2
      <4> QED BY <2>2, <4>1, <4>2 DEF HeldOnce
    <3> QED BY <2>1, <3>1, <3>2
  <2>4. UNCHANGED inode_table /\ block' = [block EXCEPT ![b] = DataBlock(op.tag)]
    BY <2>1 DEF WriteDataTo
  <2> QED BY <2>3, <2>4, OtherBlockWritten
<1> QED BY <1>1, <1>2, <1>3, <1>4, <1>5 DEF Next, Step

\* A step extends the directory, with the file being created or with nothing.
Entered == IF PlaceEntry THEN {op.ino} ELSE {}

RootExtended ==
  /\ Extended(RootDir, block, RootDir', block', Entered)
  /\ Orderly(RootDir', block')

LEMMA RootExtends ==
  ASSUME Types, Types', DiskSound, HandSound, InHand, Orderly(RootDir, block), [Next]_vars
  PROVE  RootExtended
<1>1. CASE ~PlaceEntry /\ ~WriteBackParent
  <2>1. RootStays
    BY <1>1, RootLeftAlone
  <2>2. \A entries, new : Added(entries, entries, new)
    BY DEF Added
  <2>3. Extended(RootDir, block, RootDir', block', Entered)
    BY <2>1, <2>2 DEF RootStays, Extended
  <2>4. Orderly(RootDir', block')
    BY <2>1 DEF RootStays, Orderly
  <2> QED BY <2>3, <2>4 DEF RootExtended
<1>2. CASE PlaceEntry
  <2>1. /\ Stage = "place" /\ inode = RootDir /\ op.ino \in Inum
    BY <1>2 DEF PlaceEntry, At, Stage, InHand, Types, Control
  <2>2. PICK i : i = TargetIndex(inode)
    OBVIOUS
  <2>3. PICK b : b = RootDir.block[i]
    OBVIOUS
  <2>4. /\ i < NDirect /\ b # 0 /\ UNCHANGED inode_table
        /\ block' = [block EXCEPT ![b] = WithEntry(block[b], op.ino)]
    BY <1>2, <2>1, <2>2, <2>3 DEF PlaceEntry
  <2>5. i \in Pointer /\ HasRoom(block[b])
    BY <2>1, <2>2, <2>3, <2>4, TargetIsFirst
  <2>6. b \in Block /\ block[b] \in [Slot -> Entry] /\ Tidy(block[b])
    BY <2>3, <2>4, <2>5, RootTyped DEF Types, TypeOK, Orderly
  <2>7. PICK new : new = WithEntry(block[b], op.ino)
    OBVIOUS
  <2>8. Added(block[b], new, {op.ino}) /\ Tidy(new)
    BY <2>1, <2>5, <2>6, <2>7, EntryAdded
  <2>9. block'[b] = new /\ \A c \in Block : c # b => block'[c] = block[c]
    BY <2>4, <2>6, <2>7 DEF Types, TypeOK
  <2>10. RootDir' = RootDir
    BY <2>4 DEF RootDir, InodeOf
  <2>11. \A j \in Pointer : RootDir.block[j] \in Block
    BY RootTyped
  <2>12. \A entries : Added(entries, entries, {op.ino})
    BY DEF Added
  <2>13. Extended(RootDir, block, RootDir', block', {op.ino})
    BY <2>8, <2>9, <2>10, <2>11, <2>12 DEF Extended
  <2>14. Orderly(RootDir', block')
    BY <2>8, <2>9, <2>10, <2>11 DEF Orderly
  <2> QED BY <1>2, <2>13, <2>14 DEF RootExtended, Entered
<1>3. CASE WriteBackParent
  <2>1. /\ Stage = "writeback" /\ op.parent = Root /\ UNCHANGED block
        /\ inode_table' = [inode_table EXCEPT ![SlotOf(op.parent)] = inode]
    BY <1>3 DEF WriteBackParent, At, Stage, HandSound
  <2>2. RootDir' = inode
    BY <2>1, RootIsInode, SlotsDistinct DEF RootDir, InodeOf, Types, TypeOK
  <2>3. Grown(RootDir, inode)
    BY <2>1 DEF InHand
  <2>4. \A entries, new : Added(entries, entries, new)
    BY DEF Added
  <2>5. Extended(RootDir, block, RootDir', block', Entered)
    BY <2>1, <2>2, <2>3, <2>4 DEF Grown, Extended
  <2>6. Orderly(RootDir', block')
    BY <2>1, <2>2, <2>3 DEF Grown
  <2> QED BY <2>5, <2>6 DEF RootExtended
<1> QED BY <1>1, <1>2, <1>3

-----------------------------------------------------------------------------
(* The inode in hand is that of the disk with what the operation added     *)

\* An operation that returns leaves nothing in hand.
LEMMA HandReturned ==
  ASSUME Return
  PROVE  InHand'
<1>1. op' = NoOp /\ Stage' = "idle" /\ op'.cmd = "none" /\ op'.blk = 0
  BY DEF Return, NoOp, Stage
<1> QED BY <1>1 DEF InHand

\* Nothing but the step of the operation changes.
LEMMA HandQuiet ==
  ASSUME InHand, UNCHANGED <<inode_table, block>>, Stage' = Stage,
         Using => inode' = inode,
         op'.cmd = op.cmd, op'.ino = op.ino, op'.idx = op.idx, op'.blk = op.blk
  PROVE  InHand'
<1>1. Using' = Using
  BY DEF Using
<1>2. RootDir' = RootDir
  BY DEF RootDir, InodeOf
<1>3. CASE Using
  <2>1. inode' = inode
    BY <1>3
  <2> QED BY <1>1, <1>2, <2>1 DEF InHand, InodeOf, Grown
<1>4. CASE Stage = "lost"
  BY <1>4 DEF InHand
<1>5. CASE ~Using /\ Stage # "lost"
  <2>1. /\ op'.cmd # "write" /\ op'.blk = 0
        /\ Stage' \notin {"place", "dirblock", "writeback", "block", "data", "size"}
    BY <1>1, <1>5 DEF InHand, Using
  <2> QED BY <2>1 DEF InHand
<1> QED BY <1>3, <1>4, <1>5

\* No operation but write_file and add_directory_entry holds an inode.
LEMMA HandEmpty ==
  ASSUME op'.cmd # "write", op'.blk = 0,
         Stage' \notin {"place", "dirblock", "writeback", "block", "data", "size"}
  PROVE  InHand'
BY DEF InHand

\* After a search without a result no more is said of it.
LEMMA HandLost ==
  ASSUME Types, InHand, NoFreeBlock \/ NoFreeInode
  PROVE  InHand'
<1>1. op'.pc = "lost"
  BY LostStep DEF Types
<1>2. Stage' = "lost"
  BY <1>1 DEF Stage
<1> QED BY <1>2 DEF InHand

LEMMA HandStart ==
  ASSUME Types, DiskSound, InHand, Start
  PROVE  InHand'
<1>1. ASSUME NEW parent, CreateFile(parent) PROVE InHand'
  <2>1. op'.cmd = "create" /\ op'.blk = 0 /\ Stage' = "table"
    BY <1>1 DEF CreateFile, NoOp, Stage
  <2> QED BY <2>1, HandEmpty
<1>2. ASSUME NEW n, NEW len, NEW tag, WriteFile(n, len, tag) PROVE InHand'
  <2>1. op.pc = "idle" /\ inode' = InodeOf(n) /\ UNCHANGED <<inode_table, block>>
    BY <1>2 DEF WriteFile, MayStart, disk
  <2>2. CASE UNCHANGED op
    <3>1. Stage' = Stage /\ ~Using
      BY <2>1, <2>2 DEF Stage, Using
    <3> QED BY <2>1, <2>2, <3>1, HandQuiet
  <2>3. CASE /\ InodeOf(n).type = "file"
             /\ op' = [NoOp EXCEPT !.cmd = "write", !.pc = "block", !.ino = n,
                                   !.len = len, !.tag = tag]
    <3>1. Stage' = "block" /\ Using' /\ op'.ino = n /\ op'.blk = 0
      BY <2>3 DEF NoOp, Stage, Using
    <3>2. InodeOf(op.ino)' = InodeOf(n) /\ inode' = InodeOf(n)
      BY <2>1, <3>1 DEF InodeOf
    <3>3. (InodeOf(op.ino).type = "file" /\ Keeps(InodeOf(op.ino), inode))'
      BY <2>3, <3>2 DEF Keeps
    <3> QED BY <3>1, <3>3 DEF InHand
  <2> QED BY <1>2, <2>2, <2>3 DEF WriteFile
<1>3. ASSUME NEW n, ReadFile(n) PROVE InHand'
  <2>1. /\ Stage' = Stage /\ ~Using /\ UNCHANGED <<inode_table, block, op>>
    BY <1>3 DEF ReadFile, At, disk, history, Stage, Using
  <2> QED BY <2>1, HandQuiet
<1>4. ASSUME NEW n, DeleteFile(n) PROVE InHand'
  <2>1. op'.cmd = "delete" /\ op'.blk = 0 /\ Stage' = "clear"
    BY <1>4 DEF DeleteFile, NoOp, Stage
  <2> QED BY <2>1, HandEmpty
<1>5. CASE NoFreeInode
  BY <1>5, HandLost
<1> QED BY <1>1, <1>2, <1>3, <1>4, <1>5 DEF Start

LEMMA HandIdle ==
  ASSUME Types, InHand,
         (IrqCommand /\ ~mixed') \/ Crash \/ UNCHANGED vars
           \/ UpdateGroupDescriptor \/ UpdateSuperblock
  PROVE  InHand'
<1>1. CASE IrqCommand /\ ~mixed'
  <2>1. Using => inode' = inode
    BY <1>1, UsingIsInUse DEF IrqCommand
  <2>2. UNCHANGED <<inode_table, block, op>> /\ Stage' = Stage
    BY <1>1 DEF IrqCommand, disk, Stage
  <2> QED BY <2>1, <2>2, HandQuiet
<1>2. CASE Crash
  BY <1>2, HandReturned DEF Crash, Return
<1>3. CASE UNCHANGED vars
  <2>1. UNCHANGED <<inode_table, block, op, inode>> /\ Stage' = Stage
    BY <1>3 DEF vars, disk, Stage
  <2> QED BY <2>1, HandQuiet
<1>4. CASE UpdateGroupDescriptor \/ UpdateSuperblock
  <2>1. UNCHANGED <<inode_table, block, inode>>
    BY <1>4 DEF UpdateGroupDescriptor, UpdateSuperblock
  <2>2. Stage' = Stage
    BY <1>4 DEF UpdateGroupDescriptor, UpdateSuperblock, At, Goto, Stage, Types, TypeOK,
                Operation
  <2>3. /\ op'.cmd = op.cmd /\ op'.ino = op.ino /\ op'.idx = op.idx /\ op'.blk = op.blk
    BY <1>4 DEF UpdateGroupDescriptor, UpdateSuperblock, Goto, Types, TypeOK, Operation
  <2> QED BY <2>1, <2>2, <2>3, HandQuiet
<1> QED BY <1>1, <1>2, <1>3, <1>4

\* find_free_block is called where the inode has no block.
LEMMA HandTake ==
  ASSUME Types, HandSound, InHand, NewDirBlock \/ AllocateData
  PROVE  InHand'
<1>1. UNCHANGED <<inode_table, block, inode>>
  BY DEF NewDirBlock, AllocateData, TakeBlock
<1>2. RootDir' = RootDir
  BY <1>1 DEF RootDir, InodeOf
<1>3. CASE NewDirBlock
  <2>1. PICK i : i = TargetIndex(inode)
    OBVIOUS
  <2>2. /\ Stage = "place" /\ i < NDirect /\ inode.block[i] = 0
        /\ TakeBlock(i, "dirblock")
    BY <1>3, <2>1 DEF NewDirBlock, At, Stage
  <2>3. \A k \in Pointer : k < i => inode.block[k] # 0
    BY <2>1, <2>2, TargetIsFirst
  <2>4. op'.pc = "bgdt" /\ op'.then = "dirblock" /\ op'.idx = i /\ op'.cmd = "create"
    BY <2>2 DEF TakeBlock, Types, TypeOK, Operation, Control
  <2>5. Stage' = "dirblock" /\ Using'
    BY <2>4 DEF Stage, Using
  <2>6. inode' = RootDir'
    BY <1>1, <1>2, <2>2 DEF InHand
  <2> QED BY <1>1, <2>2, <2>3, <2>4, <2>5, <2>6 DEF InHand
<1>4. CASE AllocateData
  <2>1. Stage = "block" /\ inode.block[op.idx] = 0 /\ TakeBlock(op.idx, "data")
    BY <1>4 DEF AllocateData, At, Stage
  <2>2. op'.pc = "bgdt" /\ op'.then = "data" /\ op'.idx = op.idx /\ op'.ino = op.ino
    BY <2>1 DEF TakeBlock, Types, TypeOK, Operation
  <2>3. Stage' = "data" /\ Using'
    BY <2>2 DEF Stage, Using
  <2>4. (InodeOf(op.ino).type = "file" /\ Keeps(InodeOf(op.ino), inode))'
    BY <1>1, <2>1, <2>2 DEF InHand, InodeOf, Keeps
  <2> QED BY <1>1, <2>1, <2>2, <2>3, <2>4 DEF InHand
<1> QED BY <1>3, <1>4

LEMMA HandCreate ==
  ASSUME Types, HandSound, InHand, CreateInode \/ ReadParent \/ DirectoryFull
  PROVE  InHand'
<1>1. CASE CreateInode
  <2>1. Stage = "table" /\ op.cmd = "create" /\ Goto("parent")
    BY <1>1 DEF CreateInode, At, Stage, Types, Control
  <2>2. op.blk = 0
    BY <2>1 DEF InHand, Using
  <2>3. op'.cmd = "create" /\ op'.blk = 0 /\ Stage' = "parent"
    BY <2>1, <2>2 DEF Goto, Stage, Types, TypeOK, Operation
  <2> QED BY <2>3, HandEmpty
<1>2. CASE ReadParent
  <2>1. /\ Stage = "parent" /\ op.cmd = "create" /\ inode' = InodeOf(op.parent)
        /\ UNCHANGED disk
    BY <1>2 DEF ReadParent, At, Stage, Types, Control
  <2>2. CASE InodeOf(op.parent).type # "dir"
    BY <1>2, <2>2, HandReturned DEF ReadParent
  <2>3. CASE InodeOf(op.parent).type = "dir"
    <3>1. op.parent = Root /\ Goto("place")
      BY <1>2, <2>1, <2>3 DEF HandSound, ReadParent
    <3>2. op.blk = 0
      BY <2>1 DEF InHand, Using
    <3>3. op'.cmd = "create" /\ op'.blk = 0 /\ Stage' = "place"
      BY <2>1, <3>1, <3>2 DEF Goto, Stage, Types, TypeOK, Operation
    <3>4. inode' = RootDir'
      BY <2>1, <3>1 DEF disk, RootDir, InodeOf
    <3> QED BY <3>3, <3>4 DEF InHand
  <2> QED BY <2>2, <2>3
<1>3. CASE DirectoryFull
  BY <1>3, HandReturned DEF DirectoryFull
<1> QED BY <1>1, <1>2, <1>3

\* Two inodes with the same blocks.
LEMMA OrderlyBlocks ==
  ASSUME NEW dir, NEW after, NEW contents, after.block = dir.block, Orderly(dir, contents)
  PROVE  Orderly(after, contents)
BY DEF Orderly, NoHoles

LEMMA HandPlace ==
  ASSUME Types, Types', DiskSound, HandSound, InHand, Orderly(RootDir, block),
         PlaceEntry \/ WriteDirBlock \/ WriteBackParent
  PROVE  InHand'
<1>1. inode \in Inode /\ RootDir \in Inode
  BY RootTyped DEF Types, TypeOK
<1>2. CASE PlaceEntry
  <2>1. /\ Stage = "place" /\ UNCHANGED inode_table /\ inode = RootDir
        /\ op.cmd = "create"
    BY <1>2 DEF PlaceEntry, At, Stage, InHand, Types, Control
  <2>2. CASE Return
    BY <2>2, HandReturned
  <2>3. CASE /\ inode' = [inode EXCEPT !.size = WalkEnd(block[inode.block[TargetIndex(inode)]]) + 1]
             /\ Goto("writeback")
    <3>1. inode'.block = RootDir.block
      BY <1>1, <2>1, <2>3 DEF Inode
    <3>2. RootDir' = RootDir
      BY <2>1 DEF RootDir, InodeOf
    <3>3. Orderly(RootDir', block')
      BY <1>2, RootExtends DEF RootExtended, Next, Step
    <3>4. Orderly(inode', block')
      BY <3>1, <3>2, <3>3, OrderlyBlocks
    <3>5. Grown(RootDir, inode)'
      BY <3>1, <3>2, <3>4 DEF Grown
    <3>6. op'.cmd = "create" /\ op'.blk = op.blk /\ Stage' = "writeback"
      BY <2>1, <2>3 DEF Goto, Stage, Types, TypeOK, Operation
    <3>7. op.blk = 0 \/ \E i \in Pointer : inode.block[i] = op.blk
      BY <2>1 DEF InHand
    <3>8. Using'
      BY <3>6 DEF Using
    <3> QED BY <2>1, <3>1, <3>5, <3>6, <3>7, <3>8 DEF InHand
  <2> QED BY <1>2, <2>2, <2>3 DEF PlaceEntry
<1>3. CASE WriteDirBlock
  <2>1. /\ Stage = "dirblock" /\ inode = RootDir /\ UNCHANGED inode_table
        /\ op.cmd = "create" /\ op.ino \in Inum /\ op.idx \in Pointer
        /\ op.blk # 0 /\ op.blk \in Block /\ RootDir.block[op.idx] = 0
        /\ \A k \in Pointer : k < op.idx => RootDir.block[k] # 0
    BY <1>3 DEF WriteDirBlock, At, Stage, InHand, HandSound, Types, Control, TypeOK, Operation
  <2>2. PICK new : new = [EmptyBlock EXCEPT ![0] = [inode |-> op.ino, size |-> 0]]
    OBVIOUS
  <2>3. /\ inode' = [inode EXCEPT !.block[op.idx] = op.blk, !.size = inode.size + K]
        /\ block' = [block EXCEPT ![op.blk] = new] /\ Goto("writeback")
    BY <1>3, <2>2 DEF WriteDirBlock
  <2>4. /\ inode'.block[op.idx] = op.blk
        /\ \A j \in Pointer : j # op.idx => inode'.block[j] = RootDir.block[j]
    BY <1>1, <2>1, <2>3 DEF Inode
  <2>5. Visited(new) = {} /\ Tidy(new)
    BY <2>1, <2>2, NewBlockIsEmpty
  <2>6. block'[op.blk] = new
    BY <2>1, <2>3 DEF Types, TypeOK
  <2>7. RootDir' = RootDir
    BY <2>1 DEF RootDir, InodeOf
  <2>8. RootStays
    BY <1>3, RootLeftAlone DEF WriteDirBlock, PlaceEntry, WriteBackParent, At, Next, Step
  <2>9. NoHoles(inode')
    <3> SUFFICES ASSUME NEW j \in Pointer, inode'.block[j] # 0, NEW k \in 0 .. j
                 PROVE  inode'.block[k] # 0
      BY DEF NoHoles
    <3>1. k \in Pointer /\ k \in Nat /\ j \in Nat /\ k <= j
      BY SizesAssumption DEF Pointer
    <3>2. CASE k = op.idx
      BY <2>1, <2>4, <3>2
    <3>3. CASE k # op.idx /\ j = op.idx
      BY <2>1, <2>4, <3>1, <3>3
    <3>4. CASE k # op.idx /\ j # op.idx
      <4>1. RootDir.block[j] # 0
        BY <2>4, <3>4
      <4>2. RootDir.block[k] # 0
        BY <4>1 DEF Orderly, NoHoles
      <4> QED BY <2>4, <3>1, <3>4, <4>2
    <3> QED BY <3>2, <3>3, <3>4
  <2>10. ASSUME NEW j \in Pointer, inode'.block[j] # 0
         PROVE  Tidy(block'[inode'.block[j]])
    <3>1. CASE j = op.idx
      BY <2>4, <2>5, <2>6, <3>1
    <3>2. CASE j # op.idx
      <4>1. inode'.block[j] = RootDir.block[j] /\ RootDir.block[j] # 0
        BY <2>4, <2>10, <3>2
      <4>2. block'[RootDir.block[j]] = block[RootDir.block[j]]
        BY <2>8, <4>1 DEF RootStays
      <4>3. Tidy(block[RootDir.block[j]])
        BY <4>1 DEF Orderly
      <4> QED BY <4>1, <4>2, <4>3
    <3> QED BY <3>1, <3>2
  <2>11. Orderly(inode', block')
    BY <2>9, <2>10 DEF Orderly
  <2>12. Grown(RootDir, inode)'
    BY <2>1, <2>4, <2>5, <2>6, <2>7, <2>11 DEF Grown
  <2>13. op'.cmd = "create" /\ op'.blk = op.blk /\ Stage' = "writeback"
    BY <2>1, <2>3 DEF Goto, Stage, Types, TypeOK, Operation
  <2>14. Using'
    BY <2>13 DEF Using
  <2> QED BY <2>1, <2>4, <2>12, <2>13, <2>14 DEF InHand
<1>4. CASE WriteBackParent
  BY <1>4, HandReturned DEF WriteBackParent
<1> QED BY <1>2, <1>3, <1>4

LEMMA HandWrite ==
  ASSUME Types, HandSound, InHand, WriteData \/ FinishWrite \/ ClearInode
  PROVE  InHand'
<1>1. CASE FinishWrite \/ ClearInode
  BY <1>1, HandReturned DEF FinishWrite, ClearInode
<1>2. CASE WriteData
  <2>1. PICK b : /\ WriteDataTo(b)
                 /\ \/ op.pc = "data" /\ b = op.blk
                    \/ op.pc = "block" /\ b = inode.block[op.idx]
    BY <1>2 DEF WriteData, At
  <2>2. /\ Stage = op.pc /\ Stage \in {"block", "data"} /\ op.idx \in Pointer
        /\ inode \in Inode
    BY <2>1, SizesAssumption DEF Stage, Types, TypeOK, Operation, Control, Pointer
  <2>3. /\ inode' = [inode EXCEPT !.block[op.idx] = b]
        /\ UNCHANGED inode_table
        /\ op' = [op EXCEPT !.idx = op.idx + 1,
                            !.pc = IF op.idx + 1 = op.len THEN "size" ELSE "block"]
    BY <2>1 DEF WriteDataTo
  <2>4. /\ inode'.block[op.idx] = b
        /\ \A j \in Pointer : j # op.idx => inode'.block[j] = inode.block[j]
    BY <2>2, <2>3 DEF Inode
  <2>5. op'.ino = op.ino /\ op'.blk = op.blk /\ op'.pc \in {"size", "block"}
    BY <2>3 DEF Types, TypeOK, Operation
  <2>6. Stage' \in {"block", "size"} /\ Using'
    BY <2>5 DEF Stage, Using
  <2>7. InodeOf(op.ino)' = InodeOf(op.ino)
    BY <2>3, <2>5 DEF InodeOf
  <2>8. InodeOf(op.ino).type = "file" /\ Keeps(InodeOf(op.ino), inode)
    BY <2>2 DEF InHand
  <2>9. op.pc = "data" => inode.block[op.idx] = 0
    BY <2>2 DEF InHand
  <2>10. Keeps(InodeOf(op.ino), inode)'
    <3> SUFFICES ASSUME NEW i \in Pointer, InodeOf(op.ino).block[i] # 0
                 PROVE  inode'.block[i] = InodeOf(op.ino).block[i]
      BY <2>7 DEF Keeps
    <3>1. inode.block[i] = InodeOf(op.ino).block[i]
      BY <2>8 DEF Keeps
    <3> QED BY <2>1, <2>4, <2>9, <3>1
  <2>11. op'.blk = 0 \/ \E i \in Pointer : inode'.block[i] = op'.blk
    <3>1. CASE op.pc = "data"
      BY <2>1, <2>2, <2>4, <2>5, <3>1
    <3>2. CASE op.pc = "block"
      <4>1. \A j \in Pointer : inode'.block[j] = inode.block[j]
        BY <2>1, <2>4, <3>2
      <4>2. op.blk = 0 \/ \E i \in Pointer : inode.block[i] = op.blk
        BY <2>2, <3>2 DEF InHand
      <4> QED BY <2>5, <4>1, <4>2
    <3> QED BY <2>2, <3>1, <3>2
  <2> QED BY <2>6, <2>7, <2>8, <2>10, <2>11 DEF InHand
<1> QED BY <1>1, <1>2

-----------------------------------------------------------------------------
(* Inodes marked used                                                      *)

LEMMA FileOf ==
  ASSUME NEW n \in Inum
  PROVE  n \in File <=> inode_table[SlotOf(n)].type = "file"
BY DEF File, InodeOf

\* Storing an inode changes whether that one is a file.
LEMMA FileStored ==
  ASSUME Types, NEW n \in Inum, NEW stored,
         inode_table' = [inode_table EXCEPT ![SlotOf(n)] = stored]
  PROVE  /\ \A m \in Inum : m # n => (m \in File' <=> m \in File)
         /\ n \in File' <=> stored.type = "file"
<1>1. /\ inode_table'[SlotOf(n)] = stored
      /\ \A m \in Inum : m # n => inode_table'[SlotOf(m)] = inode_table[SlotOf(m)]
  BY SlotsDistinct DEF Types, TypeOK
<1> QED BY <1>1 DEF File, InodeOf

LEMMA FilesAreInodes == File \subseteq Inum
BY DEF File

\* A step that makes files only of inodes marked used.
LEMMA MarkedStill ==
  ASSUME Marked, UNCHANGED inode_bitmap, crashes' = crashes,
         \A n \in File' : n \in File \/ n \in inode_bitmap,
         op.cmd = "delete" => \/ op'.cmd = "delete" /\ op'.ino = op.ino
                              \/ op.ino \notin File',
         op'.cmd = "create" => op.cmd = "create" /\ op'.ino = op.ino,
         Stage' = "table" => Stage = "table" /\ UNCHANGED inode_table /\ op'.ino = op.ino
  PROVE  Marked'
<1>1. op'.cmd = "create" => op'.ino \in inode_bitmap'
  BY DEF Marked
<1>2. ASSUME crashes' = 0, NEW n \in File'
      PROVE  n \in inode_bitmap' \/ (op'.cmd = "delete" /\ n = op'.ino)
  BY <1>2 DEF Marked
<1>3. crashes' = 0 /\ Stage' = "table" => op'.ino \notin File'
  BY DEF Marked, File, InodeOf
<1> QED BY <1>1, <1>2, <1>3 DEF Marked

LEMMA MarkedLost ==
  ASSUME Types, Marked, NoFreeBlock \/ NoFreeInode
  PROVE  Marked'
<1>1. /\ UNCHANGED <<inode_bitmap, inode_table, crashes>>
      /\ op'.pc = "lost" /\ op'.cmd = op.cmd /\ op'.ino = op.ino
  BY LostStep DEF Types
<1>2. Stage' = "lost" /\ File' = File
  BY <1>1 DEF Stage, File, InodeOf
<1> QED BY <1>1, <1>2, MarkedStill

LEMMA MarkedStart ==
  ASSUME Types, Marked, Start
  PROVE  Marked'
<1>1. op.pc = "idle" => op.cmd = "none" /\ Stage = "idle"
  BY DEF Types, Control, NoOp, Stage
<1>2. ASSUME NEW parent, CreateFile(parent) PROVE Marked'
  <2>1. PICK n :
          /\ n = FoundInode /\ ~FullInodes
          /\ inode_bitmap' = inode_bitmap \cup {n}
          /\ op' = [NoOp EXCEPT !.cmd = "create", !.pc = "bgdt", !.then = "table",
                                !.di = -1, !.ino = n, !.parent = parent]
    BY <1>2 DEF CreateFile
  <2>2. /\ ~FullInodes /\ UNCHANGED <<inode_table, crashes>> /\ op.pc = "idle"
    BY <1>2 DEF CreateFile, MayStart
  <2>3. n \notin inode_bitmap
    BY <2>1, <2>2, InodeFound
  <2>4. File' = File
    BY <2>2 DEF File, InodeOf
  <2>5. op'.cmd = "create" /\ op'.ino = n
    BY <2>1 DEF NoOp
  <2> QED BY <1>1, <2>1, <2>2, <2>3, <2>4, <2>5 DEF Marked
<1>3. ASSUME NEW n, NEW len, NEW tag, WriteFile(n, len, tag) \/ ReadFile(n) PROVE Marked'
  <2>1. UNCHANGED <<inode_bitmap, inode_table, crashes>> /\ op.pc = "idle"
    BY <1>3 DEF WriteFile, ReadFile, MayStart, At, disk, history
  <2>2. UNCHANGED op \/ (op'.cmd = "write" /\ op'.pc = "block")
    BY <1>3 DEF WriteFile, ReadFile, NoOp
  <2>3. Stage' # "table" /\ op'.cmd # "create"
    BY <1>1, <2>1, <2>2 DEF Stage
  <2>4. File' = File
    BY <2>1 DEF File, InodeOf
  <2> QED BY <1>1, <2>1, <2>3, <2>4, MarkedStill
<1>4. ASSUME NEW n, DeleteFile(n) PROVE Marked'
  <2>1. /\ inode_bitmap' = inode_bitmap \ {n} /\ UNCHANGED <<inode_table, crashes>>
        /\ op.pc = "idle"
    BY <1>4 DEF DeleteFile, MayStart
  <2>2. op'.cmd = "delete" /\ op'.ino = n /\ Stage' = "clear"
    BY <1>4 DEF DeleteFile, NoOp, Stage
  <2>3. File' = File
    BY <2>1 DEF File, InodeOf
  <2> QED BY <1>1, <2>1, <2>2, <2>3 DEF Marked
<1>5. CASE NoFreeInode
  BY <1>5, MarkedLost
<1> QED BY <1>2, <1>3, <1>4, <1>5 DEF Start

LEMMA MarkedStep ==
  ASSUME Types, HandSound, InHand, Marked, [Next]_vars, ~Start
  PROVE  Marked'
<1>1. CASE Crash
  <2>1. crashes' # 0 /\ op'.cmd # "create"
    BY <1>1 DEF Crash, NoOp, Types, TypeOK
  <2> QED BY <2>1 DEF Marked
<1>2. CASE UNCHANGED vars \/ IrqCommand \/ Done
  <2>1. UNCHANGED <<inode_bitmap, inode_table, crashes, op>> /\ Stage' = Stage
    BY <1>2 DEF IrqCommand, Done, vars, disk, history, Stage
  <2>2. File' = File
    BY <2>1 DEF File, InodeOf
  <2> QED BY <2>1, <2>2, MarkedStill
<1>3. CASE UpdateGroupDescriptor \/ UpdateSuperblock
  <2>1. UNCHANGED <<inode_bitmap, inode_table, crashes>>
    BY <1>3 DEF UpdateGroupDescriptor, UpdateSuperblock, history
  <2>2. Stage' = Stage /\ op'.cmd = op.cmd /\ op'.ino = op.ino
    BY <1>3 DEF UpdateGroupDescriptor, UpdateSuperblock, At, Goto, Stage, Types, TypeOK,
                Operation
  <2>3. File' = File
    BY <2>1 DEF File, InodeOf
  <2> QED BY <2>1, <2>2, <2>3, MarkedStill
<1>4. CASE CreateInode
  <2>1. /\ op.cmd = "create" /\ op.ino \in Inum /\ Goto("parent")
        /\ inode_table' = [inode_table EXCEPT ![SlotOf(op.ino)] = NewInode]
        /\ UNCHANGED <<inode_bitmap, crashes>>
    BY <1>4 DEF CreateInode, At, Stage, Types, Control, history
  <2>2. op'.cmd = op.cmd /\ op'.ino = op.ino /\ Stage' = "parent"
    BY <2>1 DEF Goto, Stage, Types, TypeOK, Operation
  <2>3. \A n \in File' : n \in File \/ n = op.ino
    BY <2>1, FileStored, FilesAreInodes DEF File
  <2>4. op.ino \in inode_bitmap
    BY <2>1 DEF Marked
  <2> QED BY <2>1, <2>2, <2>3, <2>4, MarkedStill
<1>5. CASE \/ ReadParent \/ DirectoryFull \/ PlaceEntry \/ WriteDirBlock
           \/ NewDirBlock \/ AllocateData \/ WriteData
  <2>1. UNCHANGED <<inode_bitmap, inode_table, crashes>>
    BY <1>5 DEF ReadParent, DirectoryFull, PlaceEntry, WriteDirBlock, NewDirBlock,
                AllocateData, TakeBlock, WriteData, WriteDataTo, Created, disk, history
  <2>2. op.cmd = "create" \/ op.cmd = "write"
    BY <1>5 DEF ReadParent, DirectoryFull, PlaceEntry, WriteDirBlock, NewDirBlock,
                AllocateData, TakeBlock, WriteData, At, Stage, Types, Control
  <2>3. /\ op'.cmd = "none" \/ (op'.cmd = op.cmd /\ op'.ino = op.ino)
        /\ Stage' # "table"
    <3>1. CASE Return
      BY <3>1 DEF Return, NoOp, Stage
    <3>2. CASE \E pc \in {"place", "writeback"} : Goto(pc)
      BY <3>2 DEF Goto, Stage, Types, TypeOK, Operation
    <3>3. CASE \E i, then : then \in {"dirblock", "data"} /\ TakeBlock(i, then)
      BY <3>3 DEF TakeBlock, Stage, Types, TypeOK, Operation
    <3>4. CASE \E b : WriteDataTo(b)
      BY <3>4 DEF WriteDataTo, Stage, Types, TypeOK, Operation
    <3> QED BY <1>5, <3>1, <3>2, <3>3, <3>4
            DEF ReadParent, DirectoryFull, PlaceEntry, WriteDirBlock, NewDirBlock,
                AllocateData, WriteData
  <2>4. File' = File
    BY <2>1 DEF File, InodeOf
  <2> QED BY <2>1, <2>2, <2>3, <2>4, MarkedStill
<1>6. CASE WriteBackParent \/ FinishWrite \/ ClearInode
  <2>1. /\ Return /\ UNCHANGED <<inode_bitmap, crashes>>
        /\ op'.cmd = "none" /\ Stage' = "idle"
    BY <1>6 DEF WriteBackParent, FinishWrite, ClearInode, Created, history, Return, NoOp, Stage
  <2>2. CASE WriteBackParent
    <3>1. /\ op.cmd = "create" /\ op.parent = Root /\ inode.type = "dir"
          /\ inode_table' = [inode_table EXCEPT ![SlotOf(op.parent)] = inode]
      BY <2>2 DEF WriteBackParent, At, Stage, Types, Control, HandSound
    <3>2. \A n \in File' : n \in File
      BY <3>1, RootIsInode, FileStored DEF File
    <3> QED BY <2>1, <3>1, <3>2, MarkedStill
  <2>3. CASE FinishWrite
    <3>1. /\ op.cmd = "write" /\ op.ino \in Inum
          /\ inode_table' = [inode_table EXCEPT ![SlotOf(op.ino)] = inode']
          /\ op.ino \in File
      BY <2>3 DEF FinishWrite, At, Stage, Types, Control, InHand, File
    <3>2. \A n \in File' : n \in File
      BY <3>1, FileStored DEF File
    <3> QED BY <2>1, <3>1, <3>2, MarkedStill
  <2>4. CASE ClearInode
    <3>1. /\ op.cmd = "delete" /\ op.ino \in Inum
          /\ inode_table' = [inode_table EXCEPT ![SlotOf(op.ino)] = EmptyInode]
      BY <2>4 DEF ClearInode, At, Stage, Types, Control
    <3>2. EmptyInode.type # "file"
      BY DEF EmptyInode
    <3>3. op.ino \notin File'
      BY <3>1, <3>2, FileStored, Zenon
    <3>4. \A n \in File' : n \in File
      BY <3>1, <3>2, FileStored DEF File
    <3> QED BY <2>1, <3>1, <3>3, <3>4, MarkedStill
  <2> QED BY <1>6, <2>2, <2>3, <2>4
<1>7. CASE NoFreeBlock
  BY <1>7, MarkedLost
<1> QED BY <1>1, <1>2, <1>3, <1>4, <1>5, <1>6, <1>7 DEF Next, Step

-----------------------------------------------------------------------------
(* The invariant holds                                                     *)

IInv == Types /\ Sound /\ Ordered

LEMMA OrderedInit == Init => Ordered
<1> SUFFICES ASSUME Init PROVE InHand /\ Marked /\ Orderly(RootDir, block)
  BY DEF Ordered
<1>1. PICK mkfs \in MkfsDisks : inode_table = mkfs.table /\ block = mkfs.block
  BY Zenon DEF Init
<1>2. Orderly(RootDir, block)
  <2>1. Orderly(mkfs.table[SlotOf(Root)], mkfs.block)
    BY MkfsAssumption, Zenon
  <2> QED BY <1>1, <2>1 DEF RootDir, InodeOf
<1>3. op.cmd = "none" /\ op.blk = 0 /\ Stage = "idle" /\ inode_bitmap = MkfsInodes
  BY DEF Init, NoOp, Stage
<1>4. InHand
  BY <1>3 DEF InHand
<1>5. \A n \in File : n \in inode_bitmap
  <2>1. \A n \in Inum \ MkfsInodes : mkfs.table[SlotOf(n)].type # "file"
    BY MkfsAssumption, Zenon
  <2> QED BY <1>1, <1>3, <2>1, Zenon DEF File, InodeOf
<1> QED BY <1>2, <1>3, <1>4, <1>5 DEF Marked

LEMMA OrderedStep ==
  ASSUME Types, Types', Sound, Ordered, [Next]_vars
  PROVE  Ordered'
<1> SUFFICES ASSUME ~mixed'
             PROVE  InHand' /\ Marked' /\ Orderly(RootDir, block)'
  BY DEF Ordered
<1>1. ~mixed
  BY NotedForGood
<1>2. DiskSound /\ HandSound /\ Kept /\ InHand /\ Marked /\ Orderly(RootDir, block)
  BY <1>1 DEF Sound, Ordered
<1>3. Orderly(RootDir, block)'
  BY <1>2, RootExtends DEF RootExtended
<1>4. Marked'
  BY <1>2, MarkedStart, MarkedStep
<1>5. InHand'
  <2>1. CASE Start
    BY <1>2, <2>1, HandStart
  <2>2. CASE \/ IrqCommand \/ Crash \/ Done \/ UNCHANGED vars
             \/ UpdateGroupDescriptor \/ UpdateSuperblock
    BY <1>2, <2>2, HandIdle DEF Done
  <2>3. CASE NewDirBlock \/ AllocateData
    BY <1>2, <2>3, HandTake
  <2>4. CASE CreateInode \/ ReadParent \/ DirectoryFull
    BY <1>2, <2>4, HandCreate
  <2>5. CASE PlaceEntry \/ WriteDirBlock \/ WriteBackParent
    BY <1>2, <2>5, HandPlace
  <2>6. CASE WriteData \/ FinishWrite \/ ClearInode
    BY <1>2, <2>6, HandWrite
  <2>7. CASE NoFreeBlock
    BY <1>2, <2>7, HandLost
  <2> QED BY <2>1, <2>2, <2>3, <2>4, <2>5, <2>6, <2>7 DEF Next, Step
<1> QED BY <1>3, <1>4, <1>5

LEMMA Invariance == Spec => []IInv
<1>1. Init => IInv
  BY TypesInit, SoundInit, OrderedInit DEF IInv
<1>2. IInv /\ [Next]_vars => IInv'
  BY TypesStep, SoundStep, OrderedStep DEF IInv
<1> QED BY <1>1, <1>2, PTL DEF Spec

-----------------------------------------------------------------------------
(* What is listed                                                          *)

LEMMA ListGrows ==
  ASSUME RootExtended, NoHoles(RootDir)
  PROVE  /\ \A e \in Entries(RootDir) :
              e \in Entries(RootDir)' /\ InodeAt(RootDir, e)' = InodeAt(RootDir, e)
         /\ Listed(RootDir)' \subseteq Listed(RootDir) \cup Entered
<1>1. /\ Entries(RootDir) = EntriesIn(RootDir, block)
      /\ Entries(RootDir)' = EntriesIn(RootDir', block')
  BY DEF Entries, EntriesIn
<1>2. \A e : /\ InodeAt(RootDir, e) = InodeIn(RootDir, block, e)
             /\ InodeAt(RootDir, e)' = InodeIn(RootDir', block', e)
  BY DEF InodeAt, InodeIn
<1>3. PICK dir, after, contents, more, new :
        /\ dir = RootDir /\ after = RootDir' /\ contents = block /\ more = block'
        /\ new = Entered
  OBVIOUS
<1>4. NoHoles(dir) /\ Extended(dir, contents, after, more, new)
  BY <1>3 DEF RootExtended
<1>5. /\ \A e \in EntriesIn(dir, contents) :
           /\ e \in EntriesIn(after, more)
           /\ InodeIn(after, more, e) = InodeIn(dir, contents, e)
      /\ \A e \in EntriesIn(after, more) :
           \/ /\ e \in EntriesIn(dir, contents)
              /\ InodeIn(after, more, e) = InodeIn(dir, contents, e)
           \/ InodeIn(after, more, e) \in new
  BY <1>4, ListExtended
<1>6. ASSUME NEW n \in Listed(RootDir)' PROVE n \in Listed(RootDir) \cup Entered
  <2>1. PICK e \in Entries(RootDir)' : n = InodeAt(RootDir, e)'
    BY <1>6 DEF Listed
  <2>2. e \in EntriesIn(after, more) /\ n = InodeIn(after, more, e)
    BY <1>1, <1>2, <1>3, <2>1
  <2>3. CASE e \in EntriesIn(dir, contents) /\ n = InodeIn(dir, contents, e)
    <3>1. e \in Entries(RootDir) /\ n = InodeAt(RootDir, e)
      BY <1>1, <1>2, <1>3, <2>3
    <3> QED BY <3>1 DEF Listed
  <2> QED BY <1>3, <1>5, <2>2, <2>3
<1> QED BY <1>1, <1>2, <1>3, <1>5, <1>6

\* What the invariant says where the properties speak.
LEMMA InForce ==
  ASSUME IInv, [Next]_vars, ~mixed'
  PROVE  /\ Types /\ DiskSound /\ HandSound /\ Kept /\ InHand /\ Marked
         /\ NoHoles(RootDir) /\ Orderly(RootDir, block)
BY NotedForGood DEF IInv, Sound, Ordered, Orderly

LEMMA InForceExtends ==
  ASSUME IInv, [Next]_vars, ~mixed'
  PROVE  RootExtended
<1>1. Types'
  BY TypesStep DEF IInv
<1> QED BY <1>1, InForce, RootExtends

\* What `dir` lists stays listed, at its place and with its inode, whatever
\* the size of the blocks and of the directory (ext2.c:363-435).
THEOREM NamesStay == Spec => ListedStays
<1>1. IInv /\ [Next]_vars =>
        [mixed' \/ \A e \in Entries(RootDir) :
           e \in Entries(RootDir)' /\ InodeAt(RootDir, e)' = InodeAt(RootDir, e)]_vars
  <2> SUFFICES ASSUME IInv, [Next]_vars, ~mixed'
               PROVE  \A e \in Entries(RootDir) :
                        e \in Entries(RootDir)' /\ InodeAt(RootDir, e)' = InodeAt(RootDir, e)
    OBVIOUS
  <2>1. RootExtended /\ NoHoles(RootDir)
    BY InForce, InForceExtends
  <2> QED BY <2>1, ListGrows
<1> QED BY <1>1, Invariance, PTL DEF Spec, ListedStays

\* No step but delete_file's makes a marked inode free or a file none.
LEMMA FilesStay ==
  ASSUME Types, HandSound, InHand, DiskSound, [Next]_vars, op.cmd # "delete", op'.cmd # "delete"
  PROVE  inode_bitmap \subseteq inode_bitmap' /\ File \subseteq File'
<1>1. CASE \/ UNCHANGED vars \/ IrqCommand \/ Crash \/ Done \/ UpdateGroupDescriptor
           \/ UpdateSuperblock \/ ReadParent \/ DirectoryFull \/ PlaceEntry \/ WriteDirBlock
           \/ NewDirBlock \/ AllocateData \/ NoFreeBlock \/ WriteData
  <2>1. UNCHANGED <<inode_bitmap, inode_table>>
    BY <1>1 DEF IrqCommand, Crash, Done, UpdateGroupDescriptor, UpdateSuperblock, ReadParent,
                DirectoryFull, PlaceEntry, WriteDirBlock, NewDirBlock, AllocateData, TakeBlock,
                NoFreeBlock, WriteData, WriteDataTo, vars, disk
  <2> QED BY <2>1 DEF File, InodeOf
<1>2. CASE Start
  <2>1. ASSUME NEW n, NEW len, NEW tag,
               CreateFile(n) \/ NoFreeInode \/ WriteFile(n, len, tag) \/ ReadFile(n)
        PROVE  inode_bitmap \subseteq inode_bitmap' /\ UNCHANGED inode_table
    BY <2>1 DEF CreateFile, NoFreeInode, WriteFile, ReadFile, disk
  <2>2. ASSUME NEW n PROVE ~DeleteFile(n)
    BY DEF DeleteFile, NoOp
  <2>3. inode_bitmap \subseteq inode_bitmap' /\ UNCHANGED inode_table
    BY <1>2, <2>1, <2>2 DEF Start
  <2> QED BY <2>3 DEF File, InodeOf
<1>3. CASE CreateInode \/ FinishWrite
  <2>1. op.ino \in Inum /\ UNCHANGED inode_bitmap
    BY <1>3 DEF CreateInode, FinishWrite, At, Stage, Types, Control
  <2>2. PICK stored : /\ inode_table' = [inode_table EXCEPT ![SlotOf(op.ino)] = stored]
                      /\ stored.type = "file"
    <3>1. CASE CreateInode
      <4>1. inode_table' = [inode_table EXCEPT ![SlotOf(op.ino)] = NewInode]
        BY <3>1 DEF CreateInode
      <4>2. NewInode.type = "file"
        BY DEF NewInode
      <4> QED BY <4>1, <4>2
    <3>2. CASE FinishWrite
      <4>1. /\ inode_table' = [inode_table EXCEPT ![SlotOf(op.ino)] = inode']
            /\ inode' = [inode EXCEPT !.size = op.len] /\ inode.type = "file"
        BY <3>2 DEF FinishWrite, At, Stage, HandSound
      <4>2. inode'.type = "file"
        BY <4>1 DEF Types, TypeOK, Inode
      <4> QED BY <4>1, <4>2
    <3> QED BY <1>3, <3>1, <3>2
  <2> QED BY <2>1, <2>2, FileStored DEF File
<1>4. CASE WriteBackParent
  <2>1. /\ UNCHANGED inode_bitmap /\ op.parent = Root
        /\ inode_table' = [inode_table EXCEPT ![SlotOf(op.parent)] = inode]
    BY <1>4 DEF WriteBackParent, At, Stage, HandSound
  <2>2. Root \notin File
    BY DEF File, DiskSound, RootDir
  <2> QED BY <2>1, <2>2, RootIsInode, FileStored DEF File
<1>5. ~ClearInode
  BY DEF ClearInode, At, Stage, Types, Control
<1> QED BY <1>1, <1>2, <1>3, <1>4, <1>5 DEF Next, Step

\* A name comes to dangle by delete_file only: when create_file enters one,
\* its inode is marked and initialised, also on the disk (ext2.c:105-154).
THEOREM NamesHaveFiles == Spec => DanglingOnlyByDelete
<1>1. IInv /\ [Next]_vars =>
        [Dangling' \subseteq Dangling \/ op'.cmd = "delete" \/ op.cmd = "delete"
           \/ mixed']_vars
  <2> SUFFICES ASSUME IInv, [Next]_vars, ~mixed',
                      op.cmd # "delete", op'.cmd # "delete",
                      NEW n \in Dangling'
               PROVE  n \in Dangling
    BY Zenon
  <2>1. inode_bitmap \subseteq inode_bitmap' /\ File \subseteq File'
    BY InForce, FilesStay
  <2>2. n \in Listed(RootDir) \cup Entered
    BY InForce, InForceExtends, ListGrows DEF Dangling
  <2>3. n # Root /\ (n \notin inode_bitmap' \/ n \notin File')
    BY DEF Dangling
  <2>4. n \notin Entered
    <3> SUFFICES ASSUME n \in Entered PROVE FALSE
      OBVIOUS
    <3>1. PlaceEntry /\ n = op.ino
      BY DEF Entered
    <3>2. op.cmd = "create" /\ Stage = "place" /\ op.ino \in Inum
      BY <3>1, InForce DEF PlaceEntry, At, Stage, Types, Control
    <3>3. op.ino \in inode_bitmap /\ InodeOf(op.ino) = NewInode
      BY <3>2, InForce DEF Marked, Kept
    <3>4. op.ino \in File
      BY <3>2, <3>3 DEF File, NewInode
    <3> QED BY <2>1, <2>3, <3>1, <3>3, <3>4
  <2> QED BY <2>1, <2>2, <2>3, <2>4 DEF Dangling
<1> QED BY <1>1, Invariance, PTL DEF Spec, DanglingOnlyByDelete

-----------------------------------------------------------------------------
(* What is lost                                                            *)

\* The bits of the blocks that something refers to.
Accounted(table, flight) ==
  MkfsBits
    \cup {BitOf(RefBlock(table, r)) : r \in Refs(table)}
    \cup {BitOf(b) : b \in flight}

\* A block that an inode of the disk points at.
Pointed(table, b) ==
  \E n \in Holder(table), i \in Pointer : table[SlotOf(n)].block[i] = b

LEMMA PointedIsAccounted ==
  ASSUME NEW table, NEW flight, NEW b, b = 0 \/ b \in flight \/ Pointed(table, b)
  PROVE  BitOf(b) \in Accounted(table, flight)
<1>1. CASE b = 0
  <2>1. BitOf(0) = 0
    BY SizesAssumption, BitsOfBlocks DEF Bit
  <2> QED BY <1>1, <2>1, MkfsMarks DEF Accounted
<1>2. CASE b \in flight
  BY <1>2 DEF Accounted
<1>3. CASE Pointed(table, b) /\ b # 0
  <2>1. PICK n \in Holder(table), i \in Pointer : table[SlotOf(n)].block[i] = b
    BY <1>3 DEF Pointed
  <2>2. RefBlock(table, <<n, i>>) = b
    BY <2>1 DEF RefBlock
  <2>3. <<n, i>> \in Refs(table)
    BY <1>3, <2>1, <2>2 DEF Refs
  <2> QED BY <2>2, <2>3 DEF Accounted
<1> QED BY <1>1, <1>2, <1>3

\* Nothing is lost where each block that was referred to still is.
StillPointed ==
  \A n \in Holder(inode_table), i \in Pointer :
    inode_table[SlotOf(n)].block[i] # 0 =>
      Pointed(inode_table', inode_table[SlotOf(n)].block[i])

StillInFlight ==
  \A b \in InFlight : b = 0 \/ b \in InFlight' \/ Pointed(inode_table', b)

LEMMA NothingLost ==
  ASSUME StillPointed, StillInFlight,
         \A x \in block_bitmap' : x \in block_bitmap \/ x \in Accounted(inode_table', InFlight')
  PROVE  LeakedBlocks' \subseteq LeakedBlocks
<1>0. \A b : b = 0 \/ b \in InFlight' \/ Pointed(inode_table', b) =>
              BitOf(b) \in Accounted(inode_table', InFlight')
  BY PointedIsAccounted
<1>1. ASSUME NEW x \in Accounted(inode_table, InFlight)
      PROVE  x \in Accounted(inode_table', InFlight')
  <2>1. CASE x \in MkfsBits
    BY <2>1 DEF Accounted
  <2>2. ASSUME NEW r \in Refs(inode_table), x = BitOf(RefBlock(inode_table, r))
        PROVE  x \in Accounted(inode_table', InFlight')
    <3>1. PICK n, i : /\ n \in Holder(inode_table) /\ i \in Pointer
                      /\ inode_table[SlotOf(n)].block[i] = RefBlock(inode_table, r)
                      /\ RefBlock(inode_table, r) # 0
      BY DEF Refs, RefBlock
    <3>2. Pointed(inode_table', RefBlock(inode_table, r))
      BY <3>1 DEF StillPointed
    <3> QED BY <1>0, <2>2, <3>2
  <2>3. ASSUME NEW b \in InFlight, x = BitOf(b) PROVE x \in Accounted(inode_table', InFlight')
    BY <1>0, <2>3 DEF StillInFlight
  <2> QED BY <2>1, <2>2, <2>3 DEF Accounted
<1>2. /\ LeakedBlocks = block_bitmap \ Accounted(inode_table, InFlight)
      /\ LeakedBlocks' = block_bitmap' \ Accounted(inode_table', InFlight')
  BY DEF LeakedBlocks, Accounted
<1> QED BY <1>1, <1>2

NewBitsHeld ==
  \A x \in block_bitmap' :
    x \in block_bitmap \/ x \in Accounted(inode_table', InFlight')

NoneLost == StillPointed /\ StillInFlight /\ NewBitsHeld

\* The disk stays, and what is in flight stays so or is on the disk.
LEMMA NoneLostQuietly ==
  ASSUME UNCHANGED <<inode_table, block_bitmap>>,
         \A b \in InFlight : b = 0 \/ b \in InFlight' \/ Pointed(inode_table, b)
  PROVE  NoneLost
BY DEF NoneLost, StillPointed, StillInFlight, NewBitsHeld, Pointed

\* What is in flight while nothing is in hand.
LEMMA NothingInFlight ==
  ASSUME InHand, ~Using, Stage # "lost", op.cmd # "write"
  PROVE  InFlight = {0}
<1>1. op.blk = 0
  BY DEF InHand, Using
<1> QED BY <1>1 DEF InFlight

LEMMA FlightIdle ==
  ASSUME Types, InHand, ~mixed',
         \/ UNCHANGED vars \/ Start \/ IrqCommand \/ Done \/ NoFreeBlock
         \/ UpdateGroupDescriptor \/ UpdateSuperblock
  PROVE  NoneLost
<1>1. CASE UNCHANGED vars \/ Done
  <2>1. UNCHANGED <<inode_table, block_bitmap>> /\ InFlight' = InFlight
    BY <1>1 DEF Done, vars, disk, InFlight
  <2> QED BY <2>1, NoneLostQuietly
<1>2. CASE IrqCommand
  <2>1. Using => inode' = inode
    BY <1>2, UsingIsInUse DEF IrqCommand
  <2>2. UNCHANGED <<inode_table, block_bitmap, op>>
    BY <1>2 DEF IrqCommand, disk
  <2>3. Stage # "lost"
    BY <1>2 DEF IrqCommand, At, Stage, Types, TypeOK, Operation
  <2>4. InFlight' = InFlight
    BY <2>1, <2>2, <2>3 DEF InFlight, InHand
  <2> QED BY <2>2, <2>4, NoneLostQuietly
<1>3. CASE UpdateGroupDescriptor \/ UpdateSuperblock
  <2>1. UNCHANGED <<inode_table, block_bitmap, inode>>
    BY <1>3 DEF UpdateGroupDescriptor, UpdateSuperblock
  <2>2. op'.cmd = op.cmd /\ op'.blk = op.blk
    BY <1>3 DEF UpdateGroupDescriptor, UpdateSuperblock, Goto, Types, TypeOK, Operation
  <2>3. InFlight' = InFlight
    BY <2>1, <2>2 DEF InFlight
  <2> QED BY <2>1, <2>3, NoneLostQuietly
<1>4. CASE Start
  <2>1. ASSUME NEW n, NEW len, NEW tag,
               \/ CreateFile(n) \/ NoFreeInode \/ WriteFile(n, len, tag)
               \/ ReadFile(n) \/ DeleteFile(n)
        PROVE  op.pc = "idle" /\ UNCHANGED <<inode_table, block_bitmap>>
    BY <2>1 DEF CreateFile, NoFreeInode, WriteFile, ReadFile, DeleteFile, MayStart, At, disk
  <2>2. op.pc = "idle" /\ UNCHANGED <<inode_table, block_bitmap>>
    BY <1>4, <2>1 DEF Start
  <2>3. InFlight = {0}
    BY <2>2 DEF Types, Control, NoOp, InFlight
  <2> QED BY <2>2, <2>3, NoneLostQuietly
<1>5. CASE NoFreeBlock
  <2>1. UNCHANGED <<inode_table, block_bitmap, inode>> /\ op'.cmd = op.cmd /\ op'.blk = op.blk
    BY <1>5, LostStep DEF Types
  <2>2. InFlight' = InFlight
    BY <2>1 DEF InFlight
  <2> QED BY <2>1, <2>2, NoneLostQuietly
<1> QED BY <1>1, <1>2, <1>3, <1>4, <1>5

LEMMA FlightCreate ==
  ASSUME Types, HandSound, InHand,
         \/ ReadParent \/ DirectoryFull \/ PlaceEntry \/ NewDirBlock \/ WriteDirBlock
  PROVE  UNCHANGED inode_table /\ StillPointed /\ StillInFlight
<1>1. op.cmd = "create" /\ UNCHANGED inode_table
  BY DEF ReadParent, DirectoryFull, PlaceEntry, NewDirBlock, TakeBlock, WriteDirBlock, At,
         Stage, Types, Control, disk
<1>2. InFlight = {op.blk}
  BY <1>1 DEF InFlight
<1>3. CASE ReadParent
  <2>1. ~Using /\ Stage # "lost"
    BY <1>3 DEF ReadParent, At, Stage, Using
  <2>2. InFlight = {0}
    BY <1>1, <2>1, NothingInFlight
  <2> QED BY <1>1, <2>2 DEF StillPointed, StillInFlight, Pointed
<1>4. CASE DirectoryFull \/ PlaceEntry \/ NewDirBlock
  <2>1. Stage = "place"
    BY <1>4 DEF DirectoryFull, PlaceEntry, NewDirBlock, At, Stage
  <2>2. op.blk = 0 \/ \E i \in Pointer : RootDir.block[i] = op.blk
    BY <2>1 DEF InHand
  <2>3. op.blk = 0 \/ Pointed(inode_table, op.blk)
    BY <2>2, RootTyped DEF Pointed
  <2> QED BY <1>1, <1>2, <2>3 DEF StillPointed, StillInFlight, Pointed
<1>5. CASE WriteDirBlock
  <2>1. op'.cmd = "create" /\ op'.blk = op.blk
    BY <1>1, <1>5 DEF WriteDirBlock, Goto, Types, TypeOK, Operation
  <2>2. InFlight' = InFlight
    BY <1>2, <2>1 DEF InFlight
  <2> QED BY <1>1, <2>2 DEF StillPointed, StillInFlight, Pointed
<1> QED BY <1>1, <1>3, <1>4, <1>5

LEMMA FlightWrite ==
  ASSUME Types, InHand, AllocateData \/ WriteData
  PROVE  UNCHANGED inode_table /\ StillPointed /\ StillInFlight
<1>1. /\ op.cmd = "write" /\ UNCHANGED inode_table /\ op.idx \in Pointer
      /\ Stage = op.pc /\ Stage \in {"block", "data"} /\ inode \in Inode
  <2>1. op.pc \in {"block", "data"} /\ UNCHANGED inode_table
    BY DEF AllocateData, TakeBlock, WriteData, WriteDataTo, At
  <2>2. Stage = op.pc
    BY <2>1 DEF Stage
  <2>3. /\ op.cmd = "write" /\ inode \in Inode
        /\ op.idx < op.len /\ op.idx \in 0 .. NDirect /\ op.len \in 0 .. NDirect
    BY <2>1, <2>2 DEF Types, Control, TypeOK, Operation
  <2>4. op.idx \in Pointer
    BY <2>3, SizesAssumption DEF Pointer
  <2> QED BY <2>1, <2>2, <2>3, <2>4
<1>2. InFlight = {op.blk} \cup {inode.block[i] : i \in Pointer}
  BY <1>1 DEF InFlight
<1>3. op'.cmd = "write"
  BY <1>1 DEF AllocateData, TakeBlock, WriteData, WriteDataTo, Types, TypeOK, Operation
<1>4. InFlight' = {op'.blk} \cup {inode'.block[i] : i \in Pointer}
  BY <1>3 DEF InFlight
<1>5. CASE AllocateData
  <2>1. inode' = inode /\ Stage = "block"
    BY <1>1, <1>5 DEF AllocateData, At, TakeBlock
  <2>2. op.blk = 0 \/ \E i \in Pointer : inode.block[i] = op.blk
    BY <2>1 DEF InHand
  <2> QED BY <1>1, <1>2, <1>4, <2>1, <2>2 DEF StillPointed, StillInFlight, Pointed
<1>6. CASE WriteData
  <2>1. PICK b : /\ WriteDataTo(b)
                 /\ \/ op.pc = "data" /\ b = op.blk
                    \/ op.pc = "block" /\ b = inode.block[op.idx]
    BY <1>6 DEF WriteData, At
  <2>2. /\ inode' = [inode EXCEPT !.block[op.idx] = b]
        /\ op' = [op EXCEPT !.idx = op.idx + 1,
                            !.pc = IF op.idx + 1 = op.len THEN "size" ELSE "block"]
    BY <2>1 DEF WriteDataTo
  <2>3. /\ op'.blk = op.blk
        /\ \A i \in Pointer : i # op.idx => inode'.block[i] = inode.block[i]
        /\ inode'.block[op.idx] = b
    BY <1>1, <2>2 DEF Types, TypeOK, Operation, Inode
  <2>4. inode.block[op.idx] = 0 \/ inode.block[op.idx] = b
    BY <1>1, <2>1 DEF InHand
  <2>5. ASSUME NEW c \in InFlight PROVE c = 0 \/ c \in InFlight'
    <3>1. CASE c = op.blk
      BY <1>4, <2>3, <3>1
    <3>2. ASSUME NEW i \in Pointer, c = inode.block[i] PROVE c = 0 \/ c \in InFlight'
      <4>1. c = 0 \/ c = inode'.block[i]
        BY <2>3, <2>4, <3>2
      <4> QED BY <1>4, <4>1
    <3> QED BY <1>2, <3>1, <3>2
  <2> QED BY <1>1, <2>5 DEF StillPointed, StillInFlight, Pointed
<1> QED BY <1>5, <1>6

\* find_free_block's block is in flight from then on.
LEMMA TakenIsHeld ==
  ASSUME Types, NewDirBlock \/ AllocateData
  PROVE  NewBitsHeld
<1>1. PICK i, then : TakeBlock(i, then)
  BY DEF NewDirBlock, AllocateData
<1>2. PICK b : /\ block_bitmap' = block_bitmap \cup {BitOf(b)}
               /\ op' = [op EXCEPT !.pc = "bgdt", !.then = then, !.di = 0, !.db = -1,
                                   !.idx = i, !.blk = b]
  BY <1>1 DEF TakeBlock
<1>3. op'.blk = b
  BY <1>2 DEF Types, TypeOK, Operation
<1>4. b \in InFlight'
  BY <1>3 DEF InFlight
<1>5. BitOf(b) \in Accounted(inode_table', InFlight')
  BY <1>4, PointedIsAccounted
<1> QED BY <1>2, <1>5 DEF NewBitsHeld

\* An inode is stored that points at what the one before it pointed at.
LEMMA StoredPoints ==
  ASSUME Types, NEW n \in Inum, NEW stored,
         inode_table' = [inode_table EXCEPT ![SlotOf(n)] = stored],
         n = Root \/ stored.type = "file",
         n \in Holder(inode_table) => Keeps(inode_table[SlotOf(n)], stored)
  PROVE  /\ StillPointed
         /\ \A i \in Pointer : Pointed(inode_table', stored.block[i])
<1>1. /\ inode_table'[SlotOf(n)] = stored
      /\ \A m \in Inum : m # n => inode_table'[SlotOf(m)] = inode_table[SlotOf(m)]
  BY SlotsDistinct DEF Types, TypeOK
<1>2. n \in Holder(inode_table')
  BY <1>1 DEF Holder
<1>3. \A i \in Pointer : Pointed(inode_table', stored.block[i])
  BY <1>1, <1>2 DEF Pointed
<1>4. ASSUME NEW m \in Holder(inode_table), NEW i \in Pointer,
             inode_table[SlotOf(m)].block[i] # 0
      PROVE  Pointed(inode_table', inode_table[SlotOf(m)].block[i])
  <2>1. CASE m = n
    <3>1. stored.block[i] = inode_table[SlotOf(m)].block[i]
      BY <1>4, <2>1 DEF Keeps
    <3> QED BY <1>3, <3>1
  <2>2. CASE m # n
    <3>1. m \in Holder(inode_table') /\ inode_table'[SlotOf(m)] = inode_table[SlotOf(m)]
      BY <1>1, <2>2 DEF Holder
    <3> QED BY <3>1 DEF Pointed
  <2> QED BY <2>1, <2>2
<1> QED BY <1>3, <1>4 DEF StillPointed

LEMMA FlightStored ==
  ASSUME Types, DiskSound, HandSound, InHand, Marked,
         (CreateInode /\ crashes = 0) \/ WriteBackParent \/ FinishWrite
  PROVE  StillPointed /\ StillInFlight
<1>1. CASE CreateInode /\ crashes = 0
  <2>1. /\ Stage = "table" /\ op.cmd = "create" /\ op.ino \in Inum /\ op.ino # Root
        /\ inode_table' = [inode_table EXCEPT ![SlotOf(op.ino)] = NewInode]
    BY <1>1 DEF CreateInode, At, Stage, Types, Control, HandSound
  <2>2. op.ino \notin File
    BY <1>1, <2>1 DEF Marked
  <2>3. op.ino \notin Holder(inode_table)
    BY <2>1, <2>2, FileOf DEF Holder
  <2>4. NewInode.type = "file"
    BY DEF NewInode
  <2>5. StillPointed
    BY <2>1, <2>3, <2>4, StoredPoints
  <2>6. InFlight = {0}
    BY <2>1, NothingInFlight DEF Using
  <2> QED BY <2>5, <2>6 DEF StillInFlight
<1>2. CASE WriteBackParent
  <2>1. /\ Stage = "writeback" /\ op.cmd = "create" /\ op.parent = Root
        /\ inode_table' = [inode_table EXCEPT ![SlotOf(op.parent)] = inode]
    BY <1>2 DEF WriteBackParent, At, Stage, Types, Control, HandSound
  <2>2. Keeps(inode_table[SlotOf(Root)], inode)
    BY <2>1 DEF InHand, Grown, Keeps, RootDir, InodeOf
  <2>3. StillPointed /\ \A i \in Pointer : Pointed(inode_table', inode.block[i])
    BY <2>1, <2>2, RootIsInode, StoredPoints
  <2>4. InFlight = {op.blk} /\ (op.blk = 0 \/ \E i \in Pointer : inode.block[i] = op.blk)
    BY <2>1 DEF InFlight, InHand
  <2> QED BY <2>3, <2>4 DEF StillInFlight
<1>3. CASE FinishWrite
  <2>1. /\ Stage = "size" /\ op.cmd = "write" /\ op.ino \in Inum
        /\ inode' = [inode EXCEPT !.size = op.len] /\ inode.type = "file"
        /\ inode_table' = [inode_table EXCEPT ![SlotOf(op.ino)] = inode']
    BY <1>3 DEF FinishWrite, At, Stage, Types, Control, HandSound
  <2>2. inode'.block = inode.block /\ inode'.type = "file"
    BY <2>1 DEF Types, TypeOK, Inode
  <2>3. Keeps(inode_table[SlotOf(op.ino)], inode')
    BY <2>1, <2>2 DEF InHand, Keeps, InodeOf
  <2>4. StillPointed /\ \A i \in Pointer : Pointed(inode_table', inode'.block[i])
    BY <2>1, <2>2, <2>3, StoredPoints
  <2>5. InFlight = {op.blk} \cup {inode.block[i] : i \in Pointer}
    BY <2>1 DEF InFlight
  <2>6. op.blk = 0 \/ \E i \in Pointer : inode.block[i] = op.blk
    BY <2>1 DEF InHand
  <2> QED BY <2>2, <2>4, <2>5, <2>6 DEF StillInFlight
<1> QED BY <1>1, <1>2, <1>3

\* A block is lost where delete_file clears an inode, where power is lost and
\* where create_file takes over an inode that a power loss left (ext2.c:117,
\* 163): everywhere else what was marked is on the disk or in hand.
THEOREM LossesKnown == Spec => LeaksAreKnown
<1>1. IInv /\ [Next]_vars =>
        [\/ LeakedBlocks' \subseteq LeakedBlocks
         \/ ClearInode \/ Crash
         \/ CreateInode /\ crashes > 0
         \/ mixed']_vars
  <2> SUFFICES ASSUME IInv, [Next]_vars, ~mixed', ~ClearInode, ~Crash,
                      ~(CreateInode /\ crashes > 0)
               PROVE  LeakedBlocks' \subseteq LeakedBlocks
    BY Zenon
  <2>1. /\ Types /\ DiskSound /\ HandSound /\ InHand /\ Marked
    BY InForce
  <2>2. CreateInode => crashes = 0
    BY <2>1 DEF Types, TypeOK
  <2>3. NoneLost
    <3>1. CASE \/ UNCHANGED vars \/ Start \/ IrqCommand \/ Done \/ NoFreeBlock
               \/ UpdateGroupDescriptor \/ UpdateSuperblock
      BY <2>1, <3>1, FlightIdle
    <3>2. CASE \/ ReadParent \/ DirectoryFull \/ PlaceEntry \/ WriteDirBlock \/ WriteData
      <4>1. block_bitmap' = block_bitmap
        BY <3>2 DEF ReadParent, DirectoryFull, PlaceEntry, WriteDirBlock, WriteData,
                    WriteDataTo, disk
      <4> QED BY <2>1, <3>2, <4>1, FlightCreate, FlightWrite DEF NoneLost, NewBitsHeld
    <3>3. CASE NewDirBlock \/ AllocateData
      BY <2>1, <3>3, FlightCreate, FlightWrite, TakenIsHeld DEF NoneLost
    <3>4. CASE CreateInode \/ WriteBackParent \/ FinishWrite
      <4>1. block_bitmap' = block_bitmap
        BY <3>4 DEF CreateInode, WriteBackParent, FinishWrite
      <4> QED BY <2>1, <2>2, <3>4, <4>1, FlightStored DEF NoneLost, NewBitsHeld
    <3> QED BY <3>1, <3>2, <3>3, <3>4 DEF Next, Step
  <2> QED BY <2>3, NothingLost DEF NoneLost, NewBitsHeld
<1> QED BY <1>1, Invariance, PTL DEF Spec, LeaksAreKnown
=============================================================================
