----------------------------- MODULE ReplayProofs -----------------------------
(***************************************************************************)
(* Proof that a candidate closed under the inferred dependencies replays   *)
(* what was recorded, for every journal, candidate and course of a trial,  *)
(* and that an outcome rests on every repetition.                          *)
(***************************************************************************)
EXTENDS Replay, FiniteSetTheorems, TLAPS

-----------------------------------------------------------------------------
(* Ordering: a finite set of numbers has a first and a last element, and    *)
(* its elements are numbered without a gap, in their order                  *)

\* A set of naturals has a least one.
LEMMA LeastExists ==
    ASSUME NEW S \in SUBSET Nat, S # {}
    PROVE  \E x \in S : \A y \in S : x <= y
<1> DEFINE R == {ss \in Nat \X Nat : ss[1] < ss[2]}
<1>1. IsWellFoundedOn(R, Nat)
  BY NatLessThanWellFounded DEF OpToRel
<1>2. \E x \in S : \A y \in S : <<y, x>> \notin R
  <2> HIDE DEF R
  <2> QED BY <1>1, WFMin, Zenon
<1>3. ASSUME NEW x \in S, NEW y \in S, <<y, x>> \notin R PROVE x <= y
  BY <1>3
<1> HIDE DEF R
<1> QED BY <1>2, <1>3

\* In a bounded set of naturals every rank is taken.
LEMMA RankExists ==
    ASSUME NEW S, S \subseteq Nat, NEW n \in Nat, \A s \in S : s <= n,
           NEW k \in 1..Cardinality(S)
    PROVE  \E x \in S : Rank(S, x) = k
<1> DEFINE Below(x) == {m \in S : m <= x}
           T == {x \in Nat : Cardinality(Below(x)) >= k}
<1>1. ASSUME NEW x \in Nat
      PROVE  IsFiniteSet(Below(x)) /\ Cardinality(Below(x)) \in Nat
  <2>1. Below(x) \in SUBSET Nat /\ \A s \in Below(x) : s <= x
    OBVIOUS
  <2> QED BY <2>1, FS_BoundedSetOfNaturals, FS_CardinalityType
<1>2. n \in T
  <2>1. Below(n) = S
    OBVIOUS
  <2> QED BY <2>1, <1>1
<1>3. PICK x \in Nat : Cardinality(Below(x)) >= k /\ \A y \in T : x <= y
  <2>1. T \in SUBSET Nat /\ T # {}
    BY <1>2
  <2>2. \E x \in T : \A y \in T : x <= y
    <3> HIDE DEF T
    <3> QED BY <2>1, LeastExists
  <2> QED BY <2>2
<1>4. CASE x = 0
  <2>1. Below(x) \subseteq {0}
    <3>1. \A m \in S : m <= x => m = 0
      BY <1>4
    <3> QED BY <3>1
  <2>2. Below(x) # {}
    BY <1>3, FS_EmptySet
  <2>3. Below(x) = {0} /\ 0 \in S
    BY <2>1, <2>2
  <2>4. Cardinality(Below(x)) = 1
    BY <2>3, FS_Singleton
  <2>5. Cardinality(Below(x)) = k
    BY <2>4, <1>3
  <2> QED BY <2>3, <2>5, <1>4 DEF Rank
<1>5. CASE x # 0
  <2> DEFINE y == x - 1
  <2>1. y \in Nat /\ ~(x <= y)
    BY <1>5
  <2>2. Cardinality(Below(y)) < k
    <3>1. y \notin T
      BY <1>3, <2>1
    <3> HIDE DEF y
    <3> QED BY <2>1, <3>1, <1>1
  <2>3. Below(x) = IF x \in S THEN Below(y) \cup {x} ELSE Below(y)
    <3>1. \A m \in S : m <= x <=> m <= y \/ m = x
      BY <2>1
    <3> QED BY <3>1
  <2>4. x \notin Below(y)
    BY <2>1
  <2> HIDE DEF y
  <2>5. x \in S
    BY <2>3, <2>2, <1>3, <1>1, <2>1
  <2>6. Cardinality(Below(x)) = Cardinality(Below(y)) + 1
    <3> HIDE DEF Below
    <3> QED BY <2>3, <2>4, <2>5, <1>1, <2>1, FS_AddElement
  <2>7. Cardinality(Below(x)) = k
    <3> HIDE DEF Below
    <3> QED BY <2>2, <2>6, <1>1, <2>1, <1>3
  <2> QED BY <2>5, <2>7 DEF Rank
<1> QED BY <1>4, <1>5

\* A set of naturals has a greatest one if it is bounded.
LEMMA GreatestExists ==
    ASSUME NEW n \in Nat, NEW S \in SUBSET (0..n), S # {}
    PROVE  \E x \in S : \A y \in S : y <= x
<1> DEFINE T == {x \in Nat : \A s \in S : s <= x}
<1>1. T \in SUBSET Nat /\ n \in T
  OBVIOUS
<1>2. PICK x \in T : \A y \in T : x <= y
  <2> HIDE DEF T
  <2> QED BY <1>1, LeastExists
<1>3. CASE x \in S
  BY <1>2, <1>3
<1>4. CASE x \notin S
  <2>1. x # 0
    <3>1. PICK s \in S : TRUE
      OBVIOUS
    <3>2. s \in Nat /\ s <= x
      BY <1>2, <3>1
    <3> QED BY <1>4, <3>1, <3>2
  <2>2. x - 1 \in T
    BY <1>2, <1>4, <2>1
  <2> QED BY <1>2, <2>1, <2>2
<1> QED BY <1>3, <1>4

\* The last of a set is one element of it and none other.
LEMMA LatestProperties ==
    ASSUME NEW n \in Nat, NEW S \in SUBSET (0..n), S # {}
    PROVE  \E x \in S : Latest(S) = {x} /\ \A y \in S : y <= x
<1>1. PICK x \in S : \A y \in S : y <= x
  BY GreatestExists
<1>2. \A y \in S : y \in Nat
  OBVIOUS
<1>3. \A y \in S : (\A k \in S : k <= y) => y = x
  BY <1>1, <1>2
<1>4. Latest(S) = {x}
  BY <1>1, <1>3 DEF Latest
<1> QED BY <1>1, <1>4

\* So is the first.
LEMMA EarliestProperties ==
    ASSUME NEW n \in Nat, NEW S \in SUBSET (0..n), S # {}
    PROVE  \E x \in S : Earliest(S) = {x} /\ \A y \in S : x <= y
<1>1. PICK x \in S : \A y \in S : x <= y
  BY LeastExists
<1>2. \A y \in S : y \in Nat
  OBVIOUS
<1>3. \A y \in S : (\A k \in S : y <= k) => y = x
  BY <1>1, <1>2
<1>4. Earliest(S) = {x}
  BY <1>1, <1>3 DEF Earliest
<1> QED BY <1>1, <1>4

\* A rank is a number.
LEMMA RankType ==
    ASSUME NEW n \in Nat, NEW S \in SUBSET (0..n), NEW x
    PROVE  Rank(S, x) \in Nat
<1>1. IsFiniteSet(0..n)
  BY FS_Interval
<1>2. IsFiniteSet({m \in S : m <= x})
  BY <1>1, FS_Subset
<1> QED BY <1>2, FS_CardinalityType DEF Rank

\* Of two elements the later has the greater rank.
LEMMA RankIncreases ==
    ASSUME NEW n \in Nat, NEW S \in SUBSET (0..n), NEW x \in S, NEW y \in S, x < y
    PROVE  Rank(S, x) < Rank(S, y)
<1> DEFINE Below(z) == {m \in S : m <= z}
<1>1. IsFiniteSet(Below(y)) /\ Below(x) \in SUBSET Below(y) /\ y \in Below(y) \ Below(x)
  <2>1. IsFiniteSet(S)
    <3>1. IsFiniteSet(0..n)
      BY FS_Interval
    <3> QED BY <3>1, FS_Subset
  <2>2. IsFiniteSet(Below(y))
    BY <2>1, FS_Subset
  <2>3. x \in Nat /\ y \in Nat /\ \A m \in S : m \in Nat
    OBVIOUS
  <2>4. \A m \in S : m <= x => m <= y
    BY <2>3
  <2>5. Below(x) \in SUBSET Below(y)
    BY <2>4
  <2>6. y \in Below(y) /\ y \notin Below(x)
    BY <2>3
  <2> QED BY <2>2, <2>5, <2>6
<1> HIDE DEF Below
<1>2. /\ Cardinality(Below(x)) <= Cardinality(Below(y))
      /\ Cardinality(Below(x)) # Cardinality(Below(y))
      /\ Cardinality(Below(x)) \in Nat /\ Cardinality(Below(y)) \in Nat
  BY <1>1, FS_Subset, FS_CardinalityType
<1>3. Cardinality(Below(x)) < Cardinality(Below(y))
  BY <1>2
<1> QED BY <1>3 DEF Rank, Below

\* The k-th element of a set, the ones before it and the ones up to it.
LEMMA NthProperties ==
    ASSUME NEW n \in Nat, NEW S \in SUBSET (0..n), NEW k \in 1..Cardinality(S)
    PROVE  /\ Nth(S, k) \in S
           /\ Rank(S, Nth(S, k)) = k
           /\ \A x \in S : Rank(S, x) = k => x = Nth(S, k)
           /\ \A x \in S : x < Nth(S, k) <=> Rank(S, x) <= k - 1
<1>1. \E x \in S : Rank(S, x) = k
  <2>1. S \subseteq Nat /\ \A s \in S : s <= n
    OBVIOUS
  <2> QED BY <2>1, RankExists
<1>2. Nth(S, k) \in S /\ Rank(S, Nth(S, k)) = k
  BY <1>1 DEF Nth
<1> HIDE DEF Nth
<1>3. \A x, y \in S : x < y => Rank(S, x) < Rank(S, y)
  BY RankIncreases
<1>4. \A x \in S : Rank(S, x) \in Nat
  BY RankType
<1>5. ASSUME NEW x \in S
      PROVE  /\ Rank(S, x) = k => x = Nth(S, k)
             /\ x < Nth(S, k) <=> Rank(S, x) <= k - 1
  <2>1. x \in Nat /\ Nth(S, k) \in Nat /\ Rank(S, x) \in Nat /\ k \in Nat
    <3>1. \A m \in S : m \in Nat
      OBVIOUS
    <3>2. k \in Nat
      BY <1>2, <1>4
    <3> QED BY <1>2, <1>4, <3>1, <3>2
  <2>2. CASE x < Nth(S, k)
    <3>1. Rank(S, x) < k
      BY <1>2, <1>3, <2>2
    <3> QED BY <2>1, <2>2, <3>1
  <2>3. CASE Nth(S, k) < x
    <3>1. k < Rank(S, x)
      BY <1>2, <1>3, <2>3
    <3> QED BY <2>1, <2>3, <3>1
  <2>4. CASE x = Nth(S, k)
    BY <1>2, <2>1, <2>4
  <2> QED BY <2>1, <2>2, <2>3, <2>4
<1> QED BY <1>2, <1>5

-----------------------------------------------------------------------------
(* The context a set of actions leaves is that of one Effect after the     *)
(* other.                                                                  *)

\* The last of earlier numbers and a later one is the later one.
LEMMA LastOfLater ==
    ASSUME NEW n \in Nat, NEW S, \A k \in S : k \in Nat /\ k < n
    PROVE  LastOf(S \cup {n}) = n
<1>1. n \in Latest(S \cup {n})
  BY DEF Latest
<1>2. \A x \in S : x \notin Latest(S \cup {n})
  BY DEF Latest
<1>3. Latest(S \cup {n}) = {n}
  <2>1. Latest(S \cup {n}) \subseteq S \cup {n}
    BY DEF Latest
  <2> QED BY <1>1, <1>2, <2>1
<1> QED BY <1>3 DEF LastOf

\* One more action, later than the others, has its Effect on what they leave.
LEMMA AfterOne ==
    ASSUME NEW journal, NEW n \in Nat, NEW S, \A k \in S : k \in Nat /\ k < n,
           journal[n].kind \in {"cd", "env", "patch", "shell"}
    PROVE  After(journal, S \cup {n}) = Effect(After(journal, S), journal[n])
<1> DEFINE T == S \cup {n}
           a == journal[n]
           old == After(journal, S)
           SetKeys(X) == {journal[k].arg : k \in {k \in X : journal[k].kind = "env"}}
           PatchedPaths(X) == {journal[k].arg : k \in {k \in X : journal[k].kind = "patch"}}
           Cwd(X) == IF DirectoryChanges(journal, X) = {} THEN Root
                     ELSE journal[LastOf(DirectoryChanges(journal, X))].arg
           Vars(X) == [key \in SetKeys(X) |-> journal[LastOf(Settings(journal, X, key))].value]
           Kept(X, path) == /\ path \in Baseline \/ Writes(journal, X, path) # {}
                            /\ \A d \in Deletions(journal, X, path) :
                                  \E w \in Writes(journal, X, path) : d < w
           There(X) == {path \in Baseline \cup PatchedPaths(X) : Kept(X, path)}
<1>0. \A X : After(journal, X) = [cwd |-> Cwd(X), env |-> Vars(X), files |-> There(X)]
  BY DEF After
<1>1. n \notin S /\ \A k \in S : k < n
  OBVIOUS
<1>2. a.kind # "cd" => Cwd(T) = Cwd(S)
  <2>1. a.kind # "cd" => DirectoryChanges(journal, T) = DirectoryChanges(journal, S)
    BY DEF DirectoryChanges
  <2> QED BY <2>1
<1>3. a.kind # "env" => Vars(T) = Vars(S)
  <2> SUFFICES ASSUME a.kind # "env" PROVE Vars(T) = Vars(S)
    OBVIOUS
  <2>1. \A key : Settings(journal, T, key) = Settings(journal, S, key)
    BY DEF Settings
  <2>2. {k \in T : journal[k].kind = "env"} = {k \in S : journal[k].kind = "env"}
    OBVIOUS
  <2> QED BY <2>1, <2>2
<1>4. a.kind # "patch" => There(T) = There(S)
  <2> SUFFICES ASSUME a.kind # "patch" PROVE There(T) = There(S)
    OBVIOUS
  <2>1. \A path : Patches(journal, T, path) = Patches(journal, S, path)
    BY DEF Patches
  <2>2. \A path : /\ Deletions(journal, T, path) = Deletions(journal, S, path)
                  /\ Writes(journal, T, path) = Writes(journal, S, path)
    BY <2>1 DEF Deletions, Writes
  <2>3. {k \in T : journal[k].kind = "patch"} = {k \in S : journal[k].kind = "patch"}
    OBVIOUS
  <2>4. PatchedPaths(T) = PatchedPaths(S)
    BY <2>3
  <2>5. \A path : Kept(T, path) <=> Kept(S, path)
    BY <2>2
  <2> HIDE DEF PatchedPaths, Kept
  <2> QED BY <2>4, <2>5
<1>5. a.kind = "cd" => Cwd(T) = a.arg
  <2> SUFFICES ASSUME a.kind = "cd" PROVE Cwd(T) = a.arg
    OBVIOUS
  <2>1. DirectoryChanges(journal, T) = DirectoryChanges(journal, S) \cup {n}
    BY DEF DirectoryChanges
  <2>2. LastOf(DirectoryChanges(journal, S) \cup {n}) = n
    <3>1. \A k \in DirectoryChanges(journal, S) : k \in Nat /\ k < n
      BY DEF DirectoryChanges
    <3> QED BY <3>1, LastOfLater
  <2> QED BY <2>1, <2>2
<1>6. a.kind = "env" => Vars(T) = Bind(Vars(S), a.arg, a.value)
  <2> SUFFICES ASSUME a.kind = "env" PROVE Vars(T) = Bind(Vars(S), a.arg, a.value)
    OBVIOUS
  <2>1. SetKeys(T) = SetKeys(S) \cup {a.arg}
    OBVIOUS
  <2>2. LastOf(Settings(journal, T, a.arg)) = n
    <3>1. Settings(journal, T, a.arg) = Settings(journal, S, a.arg) \cup {n}
      BY DEF Settings
    <3>2. \A k \in Settings(journal, S, a.arg) : k \in Nat /\ k < n
      BY DEF Settings
    <3> QED BY <3>1, <3>2, LastOfLater
  <2>3. \A key : key # a.arg => Settings(journal, T, key) = Settings(journal, S, key)
    BY DEF Settings
  <2> HIDE DEF SetKeys, T
  <2> QED BY <2>1, <2>2, <2>3 DEF Bind
<1>7. a.kind = "patch" =>
         There(T) = IF a.value = Unset THEN There(S) \ {a.arg} ELSE There(S) \cup {a.arg}
  <2> SUFFICES ASSUME a.kind = "patch"
               PROVE  There(T) = IF a.value = Unset THEN There(S) \ {a.arg}
                                                    ELSE There(S) \cup {a.arg}
    OBVIOUS
  <2>1. PatchedPaths(T) = PatchedPaths(S) \cup {a.arg}
    OBVIOUS
  <2>2. ASSUME NEW path, path # a.arg PROVE Kept(T, path) <=> Kept(S, path)
    <3>1. Patches(journal, T, path) = Patches(journal, S, path)
      BY <2>2 DEF Patches
    <3> QED BY <3>1 DEF Deletions, Writes
  <2>3. Patches(journal, T, a.arg) = Patches(journal, S, a.arg) \cup {n}
    BY DEF Patches
  <2>4. CASE a.value = Unset
    <3>1. /\ Deletions(journal, T, a.arg) = Deletions(journal, S, a.arg) \cup {n}
          /\ Writes(journal, T, a.arg) = Writes(journal, S, a.arg)
      BY <2>3, <2>4, <1>1 DEF Deletions, Writes, Patches
    <3>2. \A w \in Writes(journal, S, a.arg) : w \in Nat /\ w < n
      BY DEF Writes, Patches
    <3>3. ~Kept(T, a.arg)
      BY <3>1, <3>2
    <3> HIDE DEF PatchedPaths, Kept, T
    <3> QED BY <2>1, <2>2, <2>4, <3>3
  <2>5. CASE a.value # Unset
    <3>1. /\ Deletions(journal, T, a.arg) = Deletions(journal, S, a.arg)
          /\ n \in Writes(journal, T, a.arg)
      BY <2>3, <2>5, <1>1 DEF Deletions, Writes, Patches
    <3>2. \A d \in Deletions(journal, S, a.arg) : d < n
      BY DEF Deletions, Patches
    <3>3. Kept(T, a.arg)
      BY <3>1, <3>2
    <3> HIDE DEF PatchedPaths, Kept, T
    <3> QED BY <2>1, <2>2, <2>5, <3>3
  <2> QED BY <2>4, <2>5
<1> HIDE DEF Cwd, Vars, There, T
<1>8. /\ After(journal, T) = [cwd |-> Cwd(T), env |-> Vars(T), files |-> There(T)]
      /\ old = [cwd |-> Cwd(S), env |-> Vars(S), files |-> There(S)]
  BY <1>0
<1> HIDE DEF old
<1>9. After(journal, T) = Effect(old, a)
  <2>1. CASE a.kind = "cd"
    BY <1>3, <1>4, <1>5, <1>8, <2>1 DEF Effect
  <2>2. CASE a.kind = "env"
    BY <1>2, <1>4, <1>6, <1>8, <2>2 DEF Effect
  <2>3. CASE a.kind = "patch"
    BY <1>2, <1>3, <1>7, <1>8, <2>3 DEF Effect
  <2>4. CASE a.kind = "shell"
    BY <1>2, <1>3, <1>4, <1>8, <2>4 DEF Effect
  <2> QED BY <2>1, <2>2, <2>3, <2>4
<1> QED BY <1>9 DEF T, old

\* Nothing is left by nothing.
LEMMA AfterNone == \A journal : After(journal, {}) = Fresh
<1> SUFFICES ASSUME NEW journal PROVE After(journal, {}) = Fresh
  OBVIOUS
<1>1. /\ DirectoryChanges(journal, {}) = {}
      /\ {journal[k].arg : k \in {k \in {} : journal[k].kind = "env"}} = {}
      /\ {journal[k].arg : k \in {k \in {} : journal[k].kind = "patch"}} = {}
      /\ \A path : Deletions(journal, {}, path) = {} /\ Writes(journal, {}, path) = {}
  BY DEF DirectoryChanges, Deletions, Writes, Patches
<1>2. [key \in {} |-> journal[LastOf(Settings(journal, {}, key))].value] = <<>>
  OBVIOUS
<1>3. {path \in Baseline \cup {} : /\ path \in Baseline \/ Writes(journal, {}, path) # {}
                                   /\ \A d \in Deletions(journal, {}, path) :
                                         \E w \in Writes(journal, {}, path) : d < w} = Baseline
  BY <1>1
<1> QED BY <1>1, <1>2, <1>3 DEF After, Fresh

-----------------------------------------------------------------------------
(* What a closed set of actions sees: action i of it, replayed after those *)
(* of the set that come before it.                                         *)

\* What an action requires: a creator of each file it reads, and so on.
LEMMA RequiresParts ==
    ASSUME NEW journal, NEW i
    PROVE  /\ \A key \in ReadsEnvironment(journal[i]) :
                 EnvironmentWriter(journal, i, key) \subseteq Requires(journal, i)
           /\ \A path \in ReadsFiles(journal[i]) :
                 CreatedBy(journal, i, path) \subseteq Requires(journal, i)
           /\ ReadsDirectory(journal, i) => CwdWriter(journal, i) \subseteq Requires(journal, i)
<1> DEFINE Vars == {EnvironmentWriter(journal, i, key) : key \in ReadsEnvironment(journal[i])}
           Files == {CreatedBy(journal, i, path) : path \in ReadsFiles(journal[i])}
           Dir == IF ReadsDirectory(journal, i) THEN CwdWriter(journal, i) ELSE {}
<1>1. Requires(journal, i) = (UNION Vars) \cup (UNION Files) \cup Dir
  BY DEF Requires
<1>2. /\ \A key \in ReadsEnvironment(journal[i]) : EnvironmentWriter(journal, i, key) \in Vars
      /\ \A path \in ReadsFiles(journal[i]) : CreatedBy(journal, i, path) \in Files
      /\ ReadsDirectory(journal, i) => CwdWriter(journal, i) = Dir
  OBVIOUS
<1> HIDE DEF Vars, Files, Dir
<1>3. /\ \A v \in Vars : v \subseteq Requires(journal, i)
      /\ \A v \in Files : v \subseteq Requires(journal, i)
      /\ Dir \subseteq Requires(journal, i)
  <2> HIDE DEF Requires
  <2>1. ASSUME NEW v \in Vars, NEW x \in v PROVE x \in Requires(journal, i)
    BY <1>1
  <2>2. ASSUME NEW v \in Files, NEW x \in v PROVE x \in Requires(journal, i)
    BY <1>1
  <2>3. ASSUME NEW x \in Dir PROVE x \in Requires(journal, i)
    BY <1>1
  <2> QED BY <2>1, <2>2, <2>3, Zenon
<1> QED BY <1>2, <1>3

\* An action of a closed set has all it requires in the set.
LEMMA RequiredIsThere ==
    ASSUME NEW journal, Len(journal) \in Nat, NEW S \in SUBSET (1..Len(journal)),
           Closed(Infer(journal), S), NEW i \in S
    PROVE  Requires(journal, i) \subseteq S
<1>1. Infer(journal)[i] = Requires(journal, i)
  BY DEF Infer
<1> QED BY <1>1 DEF Closed

\* Its directory, but for an action in the root.
LEMMA DirectorySeen ==
    ASSUME NEW journal, Len(journal) \in Nat, NEW S \in SUBSET (1..Len(journal)),
           Closed(Infer(journal), S), NEW i \in S
    PROVE  \/ After(journal, {a \in S : a < i}).cwd = Recorded(journal, i).cwd
           \/ /\ Recorded(journal, i).cwd = Root
              /\ ~ReadsDirectory(journal, i)
              /\ CwdWriter(journal, i) \cap S = {}
<1> DEFINE X == DirectoryChanges(journal, 1..(i - 1))
           Y == DirectoryChanges(journal, {a \in S : a < i})
<1>1. i \in Nat /\ i - 1 \in Nat /\ S \subseteq Nat /\ \A a \in S : a >= 1
  OBVIOUS
<1>2. Y = {x \in X : x \in S}
  <2>1. \A a \in S : a < i <=> a \in 1..(i - 1)
    <3>1. \A a \in S : a \in Nat /\ a >= 1
      BY <1>1
    <3> QED BY <1>1, <3>1
  <2> QED BY <2>1 DEF DirectoryChanges
<1>3. /\ Recorded(journal, i).cwd = IF X = {} THEN Root ELSE journal[LastOf(X)].arg
      /\ After(journal, {a \in S : a < i}).cwd = IF Y = {} THEN Root ELSE journal[LastOf(Y)].arg
  BY DEF Recorded, After
<1>4. X \in SUBSET (0..(i - 1))
  BY <1>1 DEF DirectoryChanges
<1>5. CwdWriter(journal, i) = Latest({k \in X : journal[k].arg = Recorded(journal, i).cwd})
  BY DEF CwdWriter, CwdBefore
<1> HIDE DEF X, Y
<1>6. CASE X = {}
  BY <1>2, <1>3, <1>6
<1>7. CASE X # {}
  <2>1. PICK x \in X : Latest(X) = {x} /\ \A y \in X : y <= x
    BY <1>1, <1>4, <1>7, LatestProperties
  <2>2. LastOf(X) = x
    BY <2>1 DEF LastOf
  <2>3. Recorded(journal, i).cwd = journal[x].arg
    BY <1>3, <1>7, <2>2
  <2>4. CwdWriter(journal, i) = {x}
    <3>1. x \in Latest({k \in X : journal[k].arg = Recorded(journal, i).cwd})
      BY <2>1, <2>3 DEF Latest
    <3>2. \A y \in Latest({k \in X : journal[k].arg = Recorded(journal, i).cwd}) : x <= y /\ y <= x
      BY <2>1, <2>3 DEF Latest
    <3>3. \A y \in X : y \in Nat
      BY <1>4
    <3>4. \A y \in Latest({k \in X : journal[k].arg = Recorded(journal, i).cwd}) : y = x
      BY <3>2, <3>3 DEF Latest
    <3> QED BY <1>5, <3>1, <3>4
  <2>5. CASE x \in S
    <3>1. x \in Y /\ \A y \in Y : y <= x
      BY <1>2, <2>1, <2>5
    <3>2. Latest(Y) = {x}
      <4>1. \A y \in Y : y \in Nat
        BY <1>2, <1>4
      <4>2. \A y \in Y : x <= y => y = x
        BY <3>1, <4>1
      <4> QED BY <3>1, <4>2 DEF Latest
    <3>3. LastOf(Y) = x
      BY <3>2 DEF LastOf
    <3> QED BY <1>3, <2>3, <3>1, <3>3
  <2>6. CASE x \notin S
    <3>1. ~ReadsDirectory(journal, i)
      BY <2>4, <2>6, RequiresParts, RequiredIsThere
    <3>2. Recorded(journal, i).cwd = Root
      BY <3>1 DEF ReadsDirectory, CwdBefore
    <3> QED BY <2>4, <2>6, <3>1, <3>2
  <2> QED BY <2>5, <2>6
<1> QED BY <1>6, <1>7

\* What a variable has after actions S.
LEMMA ValueAfter ==
    ASSUME NEW journal, NEW S, NEW key
    PROVE  ValueOf(After(journal, S), key) =
               IF Settings(journal, S, key) = {} THEN Unset
               ELSE journal[LastOf(Settings(journal, S, key))].value
<1> DEFINE keys == {journal[k].arg : k \in {k \in S : journal[k].kind = "env"}}
<1>1. After(journal, S).env =
          [k \in keys |-> journal[LastOf(Settings(journal, S, k))].value]
  BY DEF After
<1>2. key \in keys <=> Settings(journal, S, key) # {}
  BY DEF Settings
<1> HIDE DEF keys
<1> QED BY <1>1, <1>2 DEF ValueOf

\* The variables it reads.
LEMMA VariableSeen ==
    ASSUME NEW journal, Len(journal) \in Nat, NEW S \in SUBSET (1..Len(journal)),
           Closed(Infer(journal), S), NEW i \in S, NEW key \in ReadsEnvironment(journal[i])
    PROVE  ValueOf(After(journal, {a \in S : a < i}), key) = ValueOf(Recorded(journal, i), key)
<1> DEFINE X == Settings(journal, 1..(i - 1), key)
           Y == Settings(journal, {a \in S : a < i}, key)
<1>1. i \in Nat /\ i - 1 \in Nat /\ S \subseteq Nat /\ \A a \in S : a >= 1
  OBVIOUS
<1>2. Y = {x \in X : x \in S}
  <2>1. \A a \in S : a < i <=> a \in 1..(i - 1)
    <3>1. \A a \in S : a \in Nat /\ a >= 1
      BY <1>1
    <3> QED BY <1>1, <3>1
  <2> QED BY <2>1 DEF Settings
<1>3. /\ ValueOf(Recorded(journal, i), key) = IF X = {} THEN Unset ELSE journal[LastOf(X)].value
      /\ ValueOf(After(journal, {a \in S : a < i}), key) =
             IF Y = {} THEN Unset ELSE journal[LastOf(Y)].value
  BY ValueAfter DEF Recorded
<1>4. X \in SUBSET (0..(i - 1))
  BY <1>1 DEF Settings
<1>5. Latest(X) \subseteq Requires(journal, i)
  <2>1. EnvironmentWriter(journal, i, key) \subseteq Requires(journal, i)
    BY RequiresParts
  <2> QED BY <2>1 DEF EnvironmentWriter
<1> HIDE DEF X, Y
<1>6. CASE X = {}
  BY <1>2, <1>3, <1>6
<1>7. CASE X # {}
  <2>1. PICK x \in X : Latest(X) = {x} /\ \A y \in X : y <= x
    BY <1>1, <1>4, <1>7, LatestProperties
  <2>2. x \in S
    BY <1>5, <2>1, RequiredIsThere
  <2>3. x \in Y /\ \A y \in Y : y <= x /\ y \in Nat
    BY <1>2, <1>4, <2>1, <2>2
  <2>4. \A y \in Y : x <= y => y = x
    BY <2>3
  <2>5. Latest(Y) = {x}
    BY <2>3, <2>4 DEF Latest
  <2> QED BY <1>3, <2>1, <2>3, <2>5 DEF LastOf
<1> QED BY <1>6, <1>7

\* The new files a command names.
LEMMA FileSeen ==
    ASSUME NEW journal, Len(journal) \in Nat, NEW S \in SUBSET (1..Len(journal)),
           Closed(Infer(journal), S), NEW i \in S, NEW path \in ReadsFiles(journal[i]),
           path \in Recorded(journal, i).files, path \notin Baseline
    PROVE  path \in After(journal, {a \in S : a < i}).files
<1> DEFINE R == 1..(i - 1)
           B == {a \in S : a < i}
           W == Writes(journal, R, path)
           D == Deletions(journal, R, path)
           E == {k \in W : \A d \in D : d < k}
<1>1. i \in Nat /\ i - 1 \in Nat /\ S \subseteq Nat /\ \A a \in S : a >= 1
  OBVIOUS
<1>2. W # {} /\ \A d \in D : \E w \in W : d < w
  BY DEF Recorded, After
<1>3. W \in SUBSET (0..(i - 1)) /\ D \in SUBSET (0..(i - 1))
  BY <1>1 DEF Writes, Deletions, Patches
<1>4. Earliest(E) \subseteq Requires(journal, i)
  <2>1. CreatedBy(journal, i, path) \subseteq Requires(journal, i)
    BY RequiresParts
  <2> QED BY <2>1 DEF CreatedBy
<1> HIDE DEF R, W, D
<1>5. E # {}
  <2>1. PICK w \in W : \A y \in W : y <= w
    BY <1>1, <1>2, <1>3, GreatestExists
  <2>2. \A d \in D : d < w
    <3> TAKE d \in D
    <3>1. PICK y \in W : d < y
      BY <1>2
    <3>2. y <= w /\ d \in Nat /\ y \in Nat /\ w \in Nat
      BY <1>3, <2>1
    <3> QED BY <3>1, <3>2
  <2> QED BY <2>2
<1>6. PICK e \in E : Earliest(E) = {e}
  <2>1. E \in SUBSET (0..(i - 1))
    BY <1>3
  <2> HIDE DEF E
  <2> QED BY <1>1, <1>5, <2>1, EarliestProperties
<1>7. e \in B
  <2>1. e \in S
    BY <1>4, <1>6, RequiredIsThere
  <2>2. e < i
    BY <1>1, <1>3
  <2> QED BY <2>1, <2>2
<1>8. e \in Writes(journal, B, path)
  BY <1>7 DEF W, Writes, Deletions, Patches
<1>9. \A d \in Deletions(journal, B, path) : d < e
  <2>1. \A a \in B : a \in R
    BY <1>1 DEF R
  <2>2. Deletions(journal, B, path) \subseteq D
    BY <2>1 DEF D, Deletions, Patches
  <2> QED BY <2>2
<1>10. path \in {journal[k].arg : k \in {k \in B : journal[k].kind = "patch"}}
  BY <1>7 DEF W, Writes, Patches
<1> HIDE DEF B
<1>11. path \in After(journal, B).files
  BY <1>8, <1>9, <1>10 DEF After
<1> QED BY <1>11 DEF B

-----------------------------------------------------------------------------
(* The invariant of a trial: the context is the one that the actions this  *)
(* attempt has dealt with leave, evidence is only what an oracle said after *)
(* all of them, and the outcome is that of the attempts.                   *)

Done(k) == {a \in plan.chosen : Rank(plan.chosen, a) <= k}

Stages == {"attempt", "action", "command", "oracle", "classify", "done", "failed"}

Answers == {"none", "passed", "not_passed", "timed_out", "cancelled"}

TrialInv ==
    /\ plan \in Plans
    /\ position \in 0..Size
    /\ context = After(plan.journal, Done(position))
    /\ attempts \in Seq([actions : 0..Size, oracle : Answers, error : BOOLEAN])
    /\ \A k \in DOMAIN attempts :
          attempts[k].oracle \in {"passed", "not_passed"} => attempts[k].actions = Size
    /\ Len(attempts) <= Repetitions

ControlInv ==
    /\ token \in BOOLEAN
    /\ stage \in Stages
    /\ stage = "command" => position < Size /\ Action.kind = "shell"
    /\ stage = "oracle" => position = Size
    /\ stage \notin {"classify", "done"} => Len(attempts) < Repetitions
    /\ shell \in ShellStates
    /\ InCommand <=> shell.state # "none"
    /\ descendant \in Descendants \cup {Nobody}
    /\ outcome = "none" <=> stage # "done"
    /\ stage = "done" => outcome = Outcome

ReplayInv == TrialInv /\ ControlInv

\* What the assumption says of the plan in hand.
LEMMA PlanFacts ==
    ASSUME ReplayAssumption, plan \in Plans
    PROVE  /\ Len(plan.journal) \in Nat /\ DOMAIN plan.journal = 1..Len(plan.journal)
           /\ plan.chosen \in SUBSET (1..Len(plan.journal))
           /\ plan.chosen \in SUBSET (0..Len(plan.journal))
           /\ \A i \in plan.chosen : plan.journal[i].kind \in {"cd", "env", "patch", "shell"}
           /\ Size \in Nat
<1>1. /\ Len(plan.journal) \in Nat /\ DOMAIN plan.journal = 1..Len(plan.journal)
      /\ plan.chosen \in SUBSET (1..Len(plan.journal))
      /\ \A i \in plan.chosen : plan.journal[i].kind \in {"cd", "env", "patch", "shell"}
  BY DEF ReplayAssumption
<1>2. plan.chosen \in SUBSET (0..Len(plan.journal))
  BY <1>1
<1>3. Size \in Nat
  <2>1. IsFiniteSet(1..Len(plan.journal))
    BY FS_Interval
  <2> QED BY <1>1, <2>1, FS_Subset, FS_CardinalityType DEF Size
<1> QED BY <1>1, <1>2, <1>3

\* The next action of a trial comes after those it has dealt with.
LEMMA NextChosen ==
    ASSUME ReplayAssumption, plan \in Plans, NEW k \in Nat, k < Size
    PROVE  /\ Chosen(k + 1) \in plan.chosen
           /\ Done(k) = {a \in plan.chosen : a < Chosen(k + 1)}
           /\ Done(k + 1) = Done(k) \cup {Chosen(k + 1)}
<1>1. /\ Len(plan.journal) \in Nat /\ plan.chosen \in SUBSET (0..Len(plan.journal))
      /\ Size \in Nat
  BY PlanFacts
<1>2. k + 1 \in 1..Cardinality(plan.chosen)
  BY <1>1 DEF Size
<1>3. /\ Chosen(k + 1) \in plan.chosen
      /\ Rank(plan.chosen, Chosen(k + 1)) = k + 1
      /\ \A x \in plan.chosen : Rank(plan.chosen, x) = k + 1 => x = Chosen(k + 1)
      /\ \A x \in plan.chosen : x < Chosen(k + 1) <=> Rank(plan.chosen, x) <= (k + 1) - 1
  BY <1>1, <1>2, NthProperties DEF Chosen
<1>4. \A x \in plan.chosen : Rank(plan.chosen, x) \in Nat
  BY <1>1, RankType
<1>5. \A x \in plan.chosen : Rank(plan.chosen, x) <= k + 1
                              <=> Rank(plan.chosen, x) <= k \/ x = Chosen(k + 1)
  BY <1>3, <1>4
<1>6. Done(k + 1) = Done(k) \cup {Chosen(k + 1)}
  BY <1>3, <1>5 DEF Done
<1>7. Done(k) = {a \in plan.chosen : a < Chosen(k + 1)}
  <2>1. \A x \in plan.chosen : x < Chosen(k + 1) <=> Rank(plan.chosen, x) <= k
    BY <1>3
  <2> QED BY <2>1 DEF Done
<1> QED BY <1>3, <1>6, <1>7

\* Dealing with it has its effect on the context.
LEMMA ContextAfterNext ==
    ASSUME ReplayAssumption, TrialInv, position < Size
    PROVE  /\ position + 1 \in 0..Size
           /\ After(plan.journal, Done(position + 1)) = Effect(context, Action)
<1>1. position \in Nat /\ Size \in Nat
  BY PlanFacts DEF TrialInv
<1>2. /\ Chosen(position + 1) \in plan.chosen
      /\ Done(position) = {a \in plan.chosen : a < Chosen(position + 1)}
      /\ Done(position + 1) = Done(position) \cup {Chosen(position + 1)}
  BY <1>1, NextChosen DEF TrialInv
<1>3. /\ Chosen(position + 1) \in Nat
      /\ plan.journal[Chosen(position + 1)].kind \in {"cd", "env", "patch", "shell"}
      /\ \A a \in Done(position) : a \in Nat /\ a < Chosen(position + 1)
  BY <1>2, PlanFacts DEF TrialInv
<1>4. After(plan.journal, Done(position) \cup {Chosen(position + 1)})
          = Effect(After(plan.journal, Done(position)), plan.journal[Chosen(position + 1)])
  BY <1>3, AfterOne
<1>5. After(plan.journal, Done(position + 1)) = Effect(context, Action)
  BY <1>2, <1>4 DEF TrialInv, Action
<1>6. position + 1 \in 0..Size
  BY <1>1
<1> QED BY <1>5, <1>6

\* What a step that changes neither the attempt nor the attempts keeps.
LEMMA TrialKept ==
    ASSUME TrialInv, UNCHANGED <<plan, position, context, attempts>>
    PROVE  TrialInv' /\ Size' = Size /\ Action' = Action /\ (Outcome' = Outcome \/ token' # token)
<1>1. Size' = Size /\ Action' = Action /\ Done(position)' = Done(position)
  BY DEF Size, Action, Chosen, Done
<1>2. TrialInv'
  BY <1>1 DEF TrialInv
<1>3. token' = token => Outcome' = Outcome
  BY DEF Outcome, All
<1> QED BY <1>1, <1>2, <1>3

\* An attempt that begins has dealt with nothing.
LEMMA NoneDone == ASSUME ReplayAssumption, plan \in Plans PROVE Done(0) = {}
<1>1. ASSUME NEW a \in plan.chosen PROVE ~(Rank(plan.chosen, a) <= 0)
  <2>1. a \in {m \in plan.chosen : m <= a} /\ IsFiniteSet({m \in plan.chosen : m <= a})
    <3>1. a \in Nat
      BY PlanFacts
    <3>2. Len(plan.journal) \in Nat
      BY PlanFacts
    <3>3. IsFiniteSet(0..Len(plan.journal))
      BY <3>2, FS_Interval
    <3>4. {m \in plan.chosen : m <= a} \subseteq 0..Len(plan.journal)
      BY <3>2, PlanFacts
    <3> QED BY <3>1, <3>3, <3>4, PlanFacts, FS_Subset
  <2>2. Cardinality({m \in plan.chosen : m <= a}) # 0
    BY <2>1, FS_EmptySet
  <2> QED BY <2>1, <2>2, FS_CardinalityType DEF Rank
<1> QED BY <1>1 DEF Done

LEMMA ReplayInitial == ASSUME ReplayAssumption, Init PROVE ReplayInv
<1>1. plan \in Plans /\ Size \in Nat
  BY PlanFacts DEF Init
<1>2. Done(0) = {}
  BY <1>1, NoneDone
<1>3. /\ position = 0 /\ context = Fresh /\ attempts = <<>> /\ stage = "attempt"
      /\ shell = NoShell /\ descendant = Nobody /\ outcome = "none"
  BY DEF Init
<1>4. Len(attempts) = 0 /\ Repetitions \in Nat \ {0}
  BY <1>3 DEF ReplayAssumption
<1>5. TrialInv
  <2>1. context = After(plan.journal, Done(position))
    BY <1>2, <1>3, AfterNone
  <2>2. /\ attempts \in Seq([actions : 0..Size, oracle : Answers, error : BOOLEAN])
        /\ DOMAIN attempts = {}
    BY <1>3
  <2> QED BY <1>1, <1>3, <1>4, <2>1, <2>2 DEF TrialInv
<1>6. ControlInv
  <2>1. token \in BOOLEAN
    BY Zenon DEF Init
  <2>2. shell \in ShellStates /\ shell.state = "none"
    BY <1>3 DEF NoShell, ShellStates
  <2> QED BY <1>3, <1>4, <2>1, <2>2 DEF ControlInv, Stages, InCommand
<1> QED BY <1>5, <1>6 DEF ReplayInv

\* The steps of the processes and of whoever cancels.
LEMMA EnvironmentKeeps ==
    ASSUME ReplayAssumption, ReplayInv,
           CancelToken \/ Environment \/ Terminate \/ GraceOver
    PROVE  ReplayInv'
<1>1. UNCHANGED <<plan, position, context, attempts, outcome>>
  BY Zenon DEF CancelToken, Environment, CopyFails, Fork, DescendantExits, ShellExits,
               ShellHeeds, Terminate, GraceOver
<1>2. TrialInv' /\ Size' = Size /\ Action' = Action
  BY <1>1, TrialKept DEF ReplayInv
<1>3. CASE CancelToken
  <2>1. /\ stage \notin {"done", "failed"} /\ token' = TRUE
        /\ UNCHANGED <<stage, shell, descendant>>
    BY <1>3 DEF CancelToken
  <2> QED BY <1>1, <1>2, <2>1 DEF ReplayInv, ControlInv, InCommand
<1>4. CASE CopyFails
  BY <1>1, <1>2, <1>4 DEF CopyFails, ReplayInv, ControlInv, InCommand, Stages
<1>5. CASE Fork \/ DescendantExits
  <2>1. /\ stage # "done" /\ UNCHANGED <<stage, token, shell>>
        /\ descendant' \in Descendants \cup {Nobody}
    BY <1>5 DEF Fork, DescendantExits, InCommand
  <2> QED BY <1>1, <1>2, <2>1 DEF ReplayInv, ControlInv, InCommand
<1>6. CASE ShellExits \/ Terminate \/ ShellHeeds \/ GraceOver
  <2>1. UNCHANGED <<stage, token>> /\ shell.state \in {"running", "terminating"}
    BY <1>6, Zenon DEF ShellExits, Terminate, ShellHeeds, GraceOver
  <2>2. shell \in ShellStates
    BY DEF ReplayInv, ControlInv
  <2>3. shell' \in ShellStates /\ shell'.state # "none"
    <3>1. CASE ShellExits
      BY <2>2, <3>1 DEF ShellExits, ShellStates
    <3>2. CASE Terminate
      <4>1. PICK why \in {"timeout", "cancel"} :
                shell' = [shell EXCEPT !.state = "terminating", !.why = why]
        BY <3>2, Zenon DEF Terminate
      <4> QED BY <2>2, <4>1 DEF ShellStates
    <3>3. CASE ShellHeeds \/ GraceOver
      <4>1. shell' = [shell EXCEPT !.state = "dead", !.code = "other"]
        BY <3>3, Zenon DEF ShellHeeds, GraceOver
      <4> QED BY <2>2, <4>1 DEF ShellStates
    <3> QED BY <1>6, <3>1, <3>2, <3>3
  <2>4. descendant' \in {descendant, Nobody}
    BY <1>6, Zenon DEF ShellExits, Terminate, ShellHeeds, GraceOver, Kill
  <2>5. descendant' \in Descendants \cup {Nobody}
    BY <2>4 DEF ReplayInv, ControlInv
  <2>6. InCommand /\ InCommand'
    BY <2>1 DEF ReplayInv, ControlInv, InCommand
  <2> QED BY <1>1, <1>2, <2>1, <2>3, <2>5, <2>6 DEF ReplayInv, ControlInv, InCommand
<1> QED BY <1>3, <1>4, <1>5, <1>6 DEF Environment

\* The steps of the runner between two actions and between two attempts.
LEMMA RunnerMoves ==
    ASSUME ReplayAssumption, ReplayInv, Spawn \/ StopRepeating \/ Classify
    PROVE  ReplayInv'
<1>1. UNCHANGED <<plan, position, context, attempts, token, descendant>>
  BY DEF Spawn, StopRepeating, Classify
<1>2. TrialInv' /\ Size' = Size /\ Action' = Action /\ Outcome' = Outcome
  BY <1>1, TrialKept DEF ReplayInv
<1>3. position \in 0..Size /\ Size \in Nat
  BY PlanFacts DEF ReplayInv, TrialInv
<1>4. CASE Spawn
  <2>1. /\ stage = "action" /\ UNCHANGED outcome
        /\ shell' = [NoShell EXCEPT !.state = "running"]
        /\ position < Size => Action.kind = "shell"
        /\ stage' = IF position < Size THEN "command" ELSE "oracle"
    BY <1>4 DEF Spawn
  <2>2. shell' \in ShellStates /\ shell'.state = "running"
    BY <2>1 DEF NoShell, ShellStates
  <2>3. ~(position < Size) => position = Size
    BY <1>3
  <2> QED BY <1>1, <1>2, <2>1, <2>2, <2>3 DEF ReplayInv, ControlInv, InCommand, Stages
<1>5. CASE StopRepeating
  <2>1. stage = "attempt" /\ stage' = "classify" /\ UNCHANGED <<shell, outcome>>
    BY <1>5 DEF StopRepeating
  <2> QED BY <1>1, <1>2, <2>1 DEF ReplayInv, ControlInv, InCommand, Stages
<1>6. CASE Classify
  <2>1. /\ stage = "classify" /\ stage' = "done" /\ outcome' = Outcome /\ UNCHANGED shell
    BY <1>6 DEF Classify
  <2>2. Outcome # "none"
    BY DEF Outcome
  <2> QED BY <1>1, <1>2, <2>1, <2>2 DEF ReplayInv, ControlInv, InCommand, Stages
<1> QED BY <1>4, <1>5, <1>6

\* One more attempt: only an oracle that was asked after all the actions has answered.
LEMMA AttemptAdded ==
    ASSUME ReplayAssumption, TrialInv, Len(attempts) < Repetitions,
           NEW a \in [actions : 0..Size, oracle : Answers, error : BOOLEAN],
           a.oracle \in {"passed", "not_passed"} => a.actions = Size,
           attempts' = Append(attempts, a), UNCHANGED <<plan, position, context>>
    PROVE  /\ TrialInv' /\ Size' = Size /\ Action' = Action
           /\ Len(attempts') = Len(attempts) + 1 /\ Len(attempts) \in Nat
<1>1. Size' = Size /\ Action' = Action /\ Done(position)' = Done(position)
  BY DEF Size, Action, Chosen, Done
<1> DEFINE Records == [actions : 0..Size, oracle : Answers, error : BOOLEAN]
<1>2. attempts \in Seq(Records) /\ a \in Records
  BY DEF TrialInv
<1> HIDE DEF Records
<1>3. /\ attempts' \in Seq(Records) /\ Len(attempts') = Len(attempts) + 1 /\ Len(attempts) \in Nat
      /\ \A k \in 1..Len(attempts) : attempts'[k] = attempts[k]
      /\ attempts'[Len(attempts) + 1] = a
  BY <1>2
<1>4. DOMAIN attempts = 1..Len(attempts) /\ DOMAIN attempts' = 1..(Len(attempts) + 1)
  BY <1>2, <1>3
<1>5. ASSUME NEW k \in DOMAIN attempts', attempts'[k].oracle \in {"passed", "not_passed"}
      PROVE  attempts'[k].actions = Size
  <2>1. CASE k = Len(attempts) + 1
    BY <1>3, <1>5, <2>1
  <2>2. CASE k # Len(attempts) + 1
    <3>1. k \in DOMAIN attempts
      BY <1>3, <1>4, <2>2
    <3>2. attempts'[k] = attempts[k]
      BY <1>3, <1>4, <3>1
    <3> QED BY <1>5, <3>1, <3>2 DEF TrialInv
  <2> QED BY <2>1, <2>2
<1>6. Len(attempts') <= Repetitions
  BY <1>3 DEF ReplayAssumption
<1> QED BY <1>1, <1>3, <1>5, <1>6 DEF TrialInv, Records

\* An attempt that ends without asking the oracle.
LEMMA RecordKeeps ==
    ASSUME ReplayAssumption, ReplayInv, ActionFails \/ ActionCancelled \/ NoOracle
    PROVE  ReplayInv'
<1>1. /\ stage = "action"
      /\ UNCHANGED <<shell, plan, token, position, context, descendant, outcome>>
  BY Zenon DEF ActionFails, ActionCancelled, NoOracle, Record
<1>2. PICK e \in BOOLEAN : Record(Attempt("none", e))
  BY Zenon DEF ActionFails, ActionCancelled, NoOracle
<1> DEFINE a == Attempt("none", e)
<1>3. /\ a \in [actions : 0..Size, oracle : Answers, error : BOOLEAN] /\ a.oracle = "none"
  BY DEF Attempt, ReplayInv, TrialInv, Answers
<1>4. /\ attempts' = Append(attempts, a)
      /\ stage' \in {"classify", "attempt"}
      /\ stage' # "classify" => Len(attempts) + 1 # Repetitions
  BY <1>2, Zenon DEF Record
<1>5. Len(attempts) < Repetitions
  BY <1>1 DEF ReplayInv, ControlInv
<1> HIDE DEF a
<1>6. /\ TrialInv' /\ Size' = Size /\ Action' = Action
      /\ Len(attempts') = Len(attempts) + 1 /\ Len(attempts) \in Nat
  BY <1>1, <1>3, <1>4, <1>5, AttemptAdded DEF ReplayInv
<1>7. stage' # "classify" => Len(attempts') < Repetitions
  BY <1>4, <1>5, <1>6 DEF ReplayAssumption
<1> QED BY <1>1, <1>4, <1>6, <1>7 DEF ReplayInv, ControlInv, InCommand, Stages

\* A new attempt starts afresh.
LEMMA BeginKeeps ==
    ASSUME ReplayAssumption, ReplayInv, BeginAttempt
    PROVE  ReplayInv'
<1>1. /\ stage = "attempt" /\ stage' = "action" /\ position' = 0 /\ context' = Fresh
      /\ UNCHANGED <<plan, token, attempts, shell, descendant, outcome>>
  BY DEF BeginAttempt
<1>2. Size' = Size /\ Size \in Nat
  BY <1>1, PlanFacts DEF Size, ReplayInv, TrialInv
<1>3. Done(0) = {}
  BY NoneDone DEF ReplayInv, TrialInv
<1>4. Done(position)' = {}
  BY <1>1, <1>3 DEF Done
<1>5. TrialInv'
  <2>1. context' = After(plan'.journal, Done(position)')
    BY <1>1, <1>4, AfterNone, Zenon
  <2>2. position' \in 0..Size'
    BY <1>1, <1>2
  <2> QED BY <1>1, <1>2, <2>1, <2>2 DEF ReplayInv, TrialInv
<1> QED BY <1>1, <1>5 DEF ReplayInv, ControlInv, InCommand, Stages

\* An action that has been dealt with.
LEMMA PositionMoves ==
    ASSUME ReplayAssumption, TrialInv, position < Size, position' = position + 1,
           context' = Effect(context, Action), UNCHANGED <<plan, attempts>>
    PROVE  TrialInv'
<1>1. Size' = Size /\ Done(position)' = Done(position + 1)
  BY DEF Size, Done
<1>2. position' \in 0..Size /\ context' = After(plan.journal, Done(position + 1))
  BY ContextAfterNext
<1> QED BY <1>1, <1>2 DEF TrialInv

LEMMA PerformKeeps ==
    ASSUME ReplayAssumption, ReplayInv, PerformInternal
    PROVE  ReplayInv'
<1>1. /\ stage = "action" /\ position < Size /\ position' = position + 1
      /\ context' = Effect(context, Action)
      /\ UNCHANGED <<plan, token, stage, attempts, shell, descendant, outcome>>
  BY DEF PerformInternal
<1>2. TrialInv'
  BY <1>1, PositionMoves DEF ReplayInv
<1> QED BY <1>1, <1>2 DEF ReplayInv, ControlInv, InCommand

\* What stays behind of a command.
LEMMA LeftBehindType ==
    ASSUME ReplayInv PROVE LeftBehind \in Descendants \cup {Nobody}
<1>1. descendant \in Descendants \cup {Nobody}
  BY DEF ReplayInv, ControlInv
<1>2. CASE descendant.alive
  <2>1. descendant \in Descendants
    BY <1>1, <1>2 DEF Nobody
  <2>2. [descendant EXCEPT !.heeds = "nothing"] \in Descendants
    BY <2>1 DEF Descendants
  <2> QED BY <1>2, <2>2 DEF LeftBehind
<1>3. CASE ~descendant.alive
  BY <1>3 DEF LeftBehind
<1> QED BY <1>2, <1>3

LEMMA CommandKeeps ==
    ASSUME ReplayAssumption, ReplayInv, CommandEnds
    PROVE  ReplayInv'
<1>1. /\ stage = "command" /\ shell' = NoShell
      /\ UNCHANGED <<plan, token, context, outcome>>
      /\ descendant' \in Descendants \cup {Nobody}
  BY LeftBehindType DEF CommandEnds
<1>2. shell' \in ShellStates /\ shell'.state = "none"
  BY <1>1 DEF NoShell, ShellStates
<1>3. Len(attempts) < Repetitions /\ position < Size /\ Action.kind = "shell"
  BY <1>1 DEF ReplayInv, ControlInv
<1>4. CASE shell.why = "cancel"
  <2> DEFINE a == Attempt("none", FALSE)
  <2>1. attempts' = Append(attempts, a) /\ stage' = "classify" /\ UNCHANGED position
    BY <1>4 DEF CommandEnds
  <2>2. a \in [actions : 0..Size, oracle : Answers, error : BOOLEAN] /\ a.oracle = "none"
    BY DEF Attempt, ReplayInv, TrialInv, Answers
  <2> HIDE DEF a
  <2>3. TrialInv'
    BY <1>1, <1>3, <2>1, <2>2, AttemptAdded DEF ReplayInv
  <2> QED BY <1>1, <1>2, <2>1, <2>3 DEF ReplayInv, ControlInv, InCommand, Stages
<1>5. CASE shell.why # "cancel"
  <2>1. position' = position + 1 /\ stage' = "action" /\ UNCHANGED attempts
    BY <1>5 DEF CommandEnds
  <2>2. context' = Effect(context, Action)
    BY <1>1, <1>3 DEF Effect
  <2>3. TrialInv /\ UNCHANGED <<plan, attempts>> /\ position' = position + 1
    BY <1>1, <2>1 DEF ReplayInv
  <2>4. TrialInv'
    BY <1>3, <2>2, <2>3, PositionMoves, Zenon
  <2> QED BY <1>1, <1>2, <1>3, <2>1, <2>4 DEF ReplayInv, ControlInv, InCommand, Stages
<1> QED BY <1>4, <1>5

LEMMA OracleKeeps ==
    ASSUME ReplayAssumption, ReplayInv, OracleEnds
    PROVE  ReplayInv'
<1> DEFINE a == Attempt(Evidence, FALSE)
<1>1. /\ stage = "oracle" /\ shell' = NoShell
      /\ UNCHANGED <<plan, token, position, context, outcome>>
      /\ descendant' \in Descendants \cup {Nobody}
  BY LeftBehindType, Zenon DEF OracleEnds
<1>2. shell' \in ShellStates /\ shell'.state = "none"
  BY <1>1 DEF NoShell, ShellStates
<1>3. Len(attempts) < Repetitions /\ position = Size
  BY <1>1 DEF ReplayInv, ControlInv
<1>4. /\ attempts' = Append(attempts, a)
      /\ stage' \in {"classify", "attempt"}
      /\ stage' # "classify" => Len(attempts) + 1 # Repetitions
  BY Zenon DEF OracleEnds
<1>5. /\ a \in [actions : 0..Size, oracle : Answers, error : BOOLEAN] /\ a.actions = Size
  <2>1. Evidence \in Answers
    BY DEF Evidence, Answers, ReplayInv, ControlInv, ShellStates
  <2> HIDE DEF Evidence
  <2> QED BY <1>3, <2>1 DEF Attempt, ReplayInv, TrialInv
<1> HIDE DEF a
<1>6. TrialInv' /\ Len(attempts') = Len(attempts) + 1 /\ Len(attempts) \in Nat
  BY <1>1, <1>3, <1>4, <1>5, AttemptAdded DEF ReplayInv
<1>7. stage' # "classify" => Len(attempts') < Repetitions
  BY <1>3, <1>4, <1>6 DEF ReplayAssumption
<1> QED BY <1>1, <1>2, <1>4, <1>6, <1>7 DEF ReplayInv, ControlInv, InCommand, Stages

LEMMA ReplayStep ==
    ASSUME ReplayAssumption, ReplayInv, [Next]_replayVars
    PROVE  ReplayInv'
<1>1. CASE UNCHANGED replayVars
  <2>1. UNCHANGED <<plan, token, stage, position, context, attempts, shell, descendant, outcome>>
    BY <1>1 DEF replayVars
  <2>2. TrialInv' /\ Size' = Size /\ Action' = Action /\ Outcome' = Outcome
    BY <2>1, TrialKept DEF ReplayInv
  <2> QED BY <2>1, <2>2 DEF ReplayInv, ControlInv, InCommand
<1>2. CASE Next
  BY <1>2, EnvironmentKeeps, RunnerMoves, RecordKeeps, BeginKeeps, PerformKeeps, CommandKeeps,
     OracleKeeps, Zenon DEF Next, Runner
<1> QED BY <1>1, <1>2

LEMMA ReplayAlways == ReplayAssumption => (Spec => []ReplayInv)
<1> SUFFICES ASSUME ReplayAssumption PROVE Spec => []ReplayInv
  OBVIOUS
<1>1. Init => ReplayInv
  BY ReplayInitial
<1>2. ReplayInv /\ [Next]_replayVars => ReplayInv'
  BY ReplayStep
<1> QED BY <1>1, <1>2, PTL DEF Spec

-----------------------------------------------------------------------------
(* The theorems.                                                           *)

LEMMA TypeHolds ==
    ASSUME ReplayAssumption, ReplayInv
    PROVE  TypeOK
<1>1. /\ plan.chosen \subseteq DOMAIN plan.journal
      /\ Done(position) \subseteq DOMAIN plan.journal
  BY PlanFacts, ReplayAssumption DEF ReplayInv, TrialInv, Done
<1>2. context.files \subseteq Baseline \cup {b.arg : b \in ToSet(plan.journal)}
  <2> DEFINE paths == {plan.journal[k].arg :
                          k \in {k \in Done(position) : plan.journal[k].kind = "patch"}}
  <2>1. context.files \subseteq Baseline \cup paths
    BY DEF ReplayInv, TrialInv, After
  <2>2. paths \subseteq {b.arg : b \in ToSet(plan.journal)}
    BY <1>1 DEF ToSet
  <2> QED BY <2>1, <2>2
<1>3. TrialInv /\ ControlInv
  BY DEF ReplayInv
<1> QED BY <1>1, <1>2, <1>3 DEF TrialInv, ControlInv, TypeOK, Stages

\* Every variable of a trial keeps its type (TrialRunner::run, run_shell_command).
THEOREM TypeCorrect == ReplayAssumption => (Spec => []TypeOK)
<1> SUFFICES ASSUME ReplayAssumption PROVE Spec => []TypeOK
  OBVIOUS
<1>1. ReplayInv => TypeOK
  BY TypeHolds
<1>2. Spec => []ReplayInv
  BY ReplayAlways
<1> QED BY <1>1, <1>2, PTL

LEMMA RecordingHolds ==
    ASSUME ReplayAssumption, ReplayInv
    PROVE  ReplaySeesTheRecording
<1> SUFFICES ASSUME stage = "action", position < Size,
                    Closed(Infer(plan.journal), plan.chosen)
             PROVE  ReplaySeesTheRecording
  BY DEF ReplaySeesTheRecording
<1> DEFINE i == Chosen(position + 1)
           then == Recorded(plan.journal, i)
<1>1. /\ Len(plan.journal) \in Nat /\ plan.chosen \in SUBSET (1..Len(plan.journal))
      /\ position \in Nat /\ plan \in Plans
  BY PlanFacts, ReplayAssumption DEF ReplayInv, TrialInv
<1>2. i \in plan.chosen /\ Done(position) = {a \in plan.chosen : a < i}
  BY <1>1, NextChosen, ReplayAssumption
<1>3. context = After(plan.journal, {a \in plan.chosen : a < i}) /\ Action = plan.journal[i]
  BY <1>2 DEF ReplayInv, TrialInv, Action
<1> HIDE DEF i
<1>4. \/ context.cwd = then.cwd
      \/ /\ then.cwd = Root
         /\ ~ReadsDirectory(plan.journal, i)
         /\ CwdWriter(plan.journal, i) \cap plan.chosen = {}
  BY <1>1, <1>2, <1>3, DirectorySeen
<1>5. \A key \in ReadsEnvironment(Action) : ValueOf(context, key) = ValueOf(then, key)
  BY <1>1, <1>2, <1>3, VariableSeen
<1>6. ASSUME Action.kind = "shell", NEW path \in Action.files,
             path \in then.files, path \notin Baseline
      PROVE  path \in context.files
  <2>1. path \in ReadsFiles(plan.journal[i])
    BY <1>3, <1>6 DEF ReadsFiles
  <2> QED BY <1>1, <1>2, <1>3, <1>6, <2>1, FileSeen
<1> HIDE DEF then
<1>7. Action.kind = "shell" => Action.files \cap (then.files \ Baseline) \subseteq context.files
  BY <1>6
<1> QED BY <1>4, <1>5, <1>7 DEF ReplaySeesTheRecording, i, then

\* A candidate closed under the inferred dependencies replays what was recorded, for every
\* journal, candidate and course of the trial (DependencyGraph::infer, replay_action).
THEOREM RecordingIsSeen == ReplayAssumption => (Spec => []ReplaySeesTheRecording)
<1> SUFFICES ASSUME ReplayAssumption PROVE Spec => []ReplaySeesTheRecording
  OBVIOUS
<1>1. ReplayInv => ReplaySeesTheRecording
  BY RecordingHolds
<1>2. Spec => []ReplayInv
  BY ReplayAlways
<1> QED BY <1>1, <1>2, PTL

LEMMA EvidenceHolds ==
    ASSUME ReplayAssumption, ReplayInv
    PROVE  OutcomeIsEvidence
<1> SUFFICES ASSUME stage = "done" PROVE OutcomeIsEvidence
  BY DEF OutcomeIsEvidence
<1>1. outcome = Outcome
  BY DEF ReplayInv, ControlInv
<1>2. outcome = "cancelled" <=> token
  BY <1>1 DEF Outcome
<1>3. ASSUME outcome \in {"stable_pass", "stable_fail", "flaky"}
      PROVE  /\ Len(attempts) = Repetitions
             /\ \A k \in DOMAIN attempts :
                   /\ attempts[k].actions = Size /\ ~attempts[k].error
                   /\ attempts[k].oracle \in {"passed", "not_passed"}
  <2>1. /\ Len(attempts) = Repetitions
        /\ \A k \in DOMAIN attempts :
              ~attempts[k].error /\ attempts[k].oracle \in {"passed", "not_passed"}
    BY <1>1, <1>3 DEF Outcome
  <2> QED BY <2>1 DEF ReplayInv, TrialInv
<1>4. ASSUME outcome = "flaky"
      PROVE  \E k, j \in DOMAIN attempts : attempts[k].oracle # attempts[j].oracle
  <2>1. ~All("passed") /\ ~All("not_passed")
    BY <1>1, <1>4 DEF Outcome
  <2>2. \A k \in DOMAIN attempts : attempts[k].oracle \in {"passed", "not_passed"}
    BY <1>3, <1>4
  <2> QED BY <2>1, <2>2 DEF All
<1> QED BY <1>2, <1>3, <1>4 DEF OutcomeIsEvidence

\* A stable or flaky outcome rests on every repetition, and a trial is cancelled exactly
\* when its token is (TrialRunner::run, classify_outcome).
THEOREM OutcomeRestsOnEvidence == ReplayAssumption => (Spec => []OutcomeIsEvidence)
<1> SUFFICES ASSUME ReplayAssumption PROVE Spec => []OutcomeIsEvidence
  OBVIOUS
<1>1. ReplayInv => OutcomeIsEvidence
  BY EvidenceHolds
<1>2. Spec => []ReplayInv
  BY ReplayAlways
<1> QED BY <1>1, <1>2, PTL
=============================================================================
