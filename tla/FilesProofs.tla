---------------------------- MODULE FilesProofs ----------------------------
(* Proofs about FileLibrary, for any users, sessions, names and sizes, and about Xmodem,
   the transfer that fills it, for any file, tries, damage and timers. *)
EXTENDS FileLibrary, Xmodem, SequenceTheorems, FiniteSetTheorems, WellFoundedInduction, TLAPS

-----------------------------------------------------------------------------
(* The sum behind UserBytes *)

\* The element the fold takes next.
Pick(S) == CHOOSE x \in S : TRUE

\* g adds up the sizes of every subset of S, an element at a time.
AddsUp(g, S) ==
    g = [s \in SUBSET S |-> IF s = {} THEN 0 ELSE Pick(s).size + g[s \ {Pick(s)}]]

SumOf(S) == MapThenSumSet(LAMBDA f : f.size, S)

\* The fold takes an element of the set.
LEMMA PickIn == ASSUME NEW S, S # {} PROVE Pick(S) \in S
  BY DEF Pick

\* The sum as the value of a function that adds up
LEMMA SumUnfolded == ASSUME NEW S PROVE SumOf(S) = (CHOOSE g : AddsUp(g, S))[S]
  BY DEF SumOf, MapThenSumSet, MapThenFoldSet, AddsUp, Pick

\* Every set of subsets of a finite set has a member with none of its proper
\* subsets in it: induction over a finite set, by smallest counterexample.
LEMMA Smallest ==
    ASSUME NEW S, IsFiniteSet(S), NEW T, T \subseteq SUBSET S, T # {}
    PROVE  \E s \in T : \A t \in T : t \subseteq s => t = s
<1>1. T \subseteq FiniteSubsetsOf(S)
  BY FS_FiniteSubsetsOfFinite
<1>2. \E s \in T : \A t \in T : ~ (<<t, s>> \in StrictSubsetOrdering(S))
  BY <1>1, FS_StrictSubsetOrderingWellFounded, WFMin
<1> QED BY <1>2 DEF StrictSubsetOrdering

\* Such a function at a set
LEMMA AddsUpAt ==
    ASSUME NEW S, NEW g, AddsUp(g, S), NEW s \in SUBSET S
    PROVE  g[s] = IF s = {} THEN 0 ELSE Pick(s).size + g[s \ {Pick(s)}]
  BY DEF AddsUp

\* Two such functions agree wherever both are defined.
LEMMA AddsUpUnique ==
    ASSUME NEW S, IsFiniteSet(S), NEW R, NEW g, AddsUp(g, S), NEW h, AddsUp(h, R),
           NEW s \in SUBSET S, s \in SUBSET R
    PROVE  g[s] = h[s]
<1> DEFINE T == {t \in SUBSET s : g[t] # h[t]}
<1> SUFFICES ASSUME T # {} PROVE FALSE
  OBVIOUS
<1>1. PICK t \in T : \A u \in T : u \subseteq t => u = t
  <2>1. IsFiniteSet(s) /\ T \subseteq SUBSET s  BY FS_Subset
  <2> HIDE DEF T
  <2> QED BY <2>1, Smallest
<1>2. t \subseteq S /\ t \subseteq R /\ g[t] # h[t]
  OBVIOUS
<1>3. g[t] = IF t = {} THEN 0 ELSE Pick(t).size + g[t \ {Pick(t)}]
  BY <1>2, AddsUpAt
<1>4. h[t] = IF t = {} THEN 0 ELSE Pick(t).size + h[t \ {Pick(t)}]
  BY <1>2, AddsUpAt
<1>5. t # {}
  BY <1>2, <1>3, <1>4
<1>6. t \ {Pick(t)} \in SUBSET s /\ t \ {Pick(t)} # t
  BY <1>5, PickIn
<1>7. g[t \ {Pick(t)}] = h[t \ {Pick(t)}]
  BY <1>1, <1>6
<1> QED BY <1>2, <1>3, <1>4, <1>7

\* The sum is defined.
LEMMA AddsUpExists ==
    ASSUME NEW S, IsFiniteSet(S) PROVE \E g : AddsUp(g, S)
<1> DEFINE T == {t \in SUBSET S : ~ \E g : AddsUp(g, t)}
           h(t) == CHOOSE g : AddsUp(g, t)
<1> SUFFICES ASSUME T # {} PROVE FALSE
  OBVIOUS
<1>1. PICK V \in T : \A u \in T : u \subseteq V => u = V
  <2>1. T \subseteq SUBSET S  OBVIOUS
  <2> HIDE DEF T
  <2> QED BY <2>1, Smallest
<1>2. V \subseteq S /\ IsFiniteSet(V) /\ \A g : ~ AddsUp(g, V)
  BY FS_Subset
<1>3. ASSUME NEW u, u \subseteq V, u # V PROVE AddsUp(h(u), u) /\ IsFiniteSet(u)
  <2>1. u \in SUBSET S /\ u \notin T  BY <1>1, <1>2, <1>3
  <2> QED BY <2>1, FS_Subset
<1> DEFINE g == [s \in SUBSET V |->
                   IF s = {} THEN 0 ELSE Pick(s).size + h(s \ {Pick(s)})[s \ {Pick(s)}]]
<1> HIDE DEF h
<1>4. ASSUME NEW u, u \subseteq V, u # V PROVE g[u] = h(u)[u]
  <2>1. g[u] = IF u = {} THEN 0 ELSE Pick(u).size + h(u \ {Pick(u)})[u \ {Pick(u)}]
    BY <1>4
  <2>2. h(u)[u] = IF u = {} THEN 0 ELSE Pick(u).size + h(u)[u \ {Pick(u)}]
    BY <1>3, <1>4, AddsUpAt
  <2>3. CASE u = {}
    BY <2>1, <2>2, <2>3
  <2>4. CASE u # {}
    <3> DEFINE w == u \ {Pick(u)}
    <3>1. w \subseteq V /\ w # V /\ w \subseteq u
      BY <1>4, <2>4, PickIn
    <3>2. AddsUp(h(w), w) /\ IsFiniteSet(w) /\ AddsUp(h(u), u)
      BY <1>3, <1>4, <3>1
    <3>3. h(w)[w] = h(u)[w]
      BY <3>1, <3>2, AddsUpUnique
    <3> QED BY <2>1, <2>2, <2>4, <3>3
  <2> QED BY <2>3, <2>4
<1>5. ASSUME NEW s \in SUBSET V
      PROVE  g[s] = IF s = {} THEN 0 ELSE Pick(s).size + g[s \ {Pick(s)}]
  <2>1. CASE s = {}
    BY <2>1
  <2>2. CASE s # {}
    <3>1. s \ {Pick(s)} \subseteq V /\ s \ {Pick(s)} # V
      BY <2>2, PickIn
    <3>2. g[s \ {Pick(s)}] = h(s \ {Pick(s)})[s \ {Pick(s)}]
      BY <1>4, <3>1
    <3>3. g[s] = Pick(s).size + h(s \ {Pick(s)})[s \ {Pick(s)}]
      BY <2>2
    <3> QED BY <2>2, <3>2, <3>3
  <2> QED BY <2>1, <2>2
<1>6. g = [s \in SUBSET V |-> g[s]]
  OBVIOUS
<1> HIDE DEF g
<1>7. AddsUp(g, V)
  BY <1>5, <1>6 DEF AddsUp
<1> QED BY <1>2, <1>7

\* Nothing adds up to nothing.
LEMMA SumEmpty == SumOf({}) = 0
<1>1. PICK g : AddsUp(g, {})
  BY FS_EmptySet, AddsUpExists
<1>2. AddsUp(CHOOSE f : AddsUp(f, {}), {})
  BY <1>1
<1> QED BY <1>2, AddsUpAt, SumUnfolded

\* One element and the sum of the others
LEMMA SumStep ==
    ASSUME NEW S, IsFiniteSet(S), S # {}
    PROVE  SumOf(S) = Pick(S).size + SumOf(S \ {Pick(S)})
<1> DEFINE R == S \ {Pick(S)}
           g == CHOOSE f : AddsUp(f, S)
           h == CHOOSE f : AddsUp(f, R)
<1>1. IsFiniteSet(R) /\ R \subseteq S
  BY FS_Subset
<1>2. AddsUp(g, S) /\ AddsUp(h, R)
  BY <1>1, AddsUpExists
<1>3. SumOf(S) = g[S] /\ SumOf(R) = h[R]
  BY SumUnfolded
<1> HIDE DEF g, h
<1>4. g[S] = Pick(S).size + g[R]
  BY <1>2, AddsUpAt
<1>5. g[R] = h[R]
  BY <1>1, <1>2, AddsUpUnique
<1> QED BY <1>3, <1>4, <1>5

Sized(S) == IsFiniteSet(S) /\ \A f \in S : f.size \in Nat

\* A sum of sizes is a size.
LEMMA SumNat == ASSUME NEW S, Sized(S) PROVE SumOf(S) \in Nat
<1> DEFINE T == {t \in SUBSET S : SumOf(t) \notin Nat}
<1> SUFFICES ASSUME T # {} PROVE FALSE
  OBVIOUS
<1>1. PICK t \in T : \A u \in T : u \subseteq t => u = t
  <2>1. T \subseteq SUBSET S  OBVIOUS
  <2> HIDE DEF T
  <2> QED BY <2>1, Smallest DEF Sized
<1>2. IsFiniteSet(t) /\ t # {}
  <2>1. IsFiniteSet(t)  BY FS_Subset DEF Sized
  <2>2. t # {}  BY SumEmpty
  <2> QED BY <2>1, <2>2
<1>3. Pick(t) \in t /\ Pick(t).size \in Nat
  BY <1>2, PickIn DEF Sized
<1>4. SumOf(t \ {Pick(t)}) \in Nat
  BY <1>1, <1>3
<1>5. SumOf(t) = Pick(t).size + SumOf(t \ {Pick(t)})
  BY <1>2, SumStep
<1>6. SumOf(t) \notin Nat
  OBVIOUS
<1> HIDE DEF T
<1> QED BY <1>3, <1>4, <1>5, <1>6

\* The sum does not depend on which element the fold takes first.
LEMMA SumAny ==
    ASSUME NEW S, Sized(S), NEW x \in S
    PROVE  SumOf(S) = x.size + SumOf(S \ {x})
<1> DEFINE T == {t \in SUBSET S : \E y \in t : SumOf(t) # y.size + SumOf(t \ {y})}
<1> SUFFICES ASSUME T # {} PROVE FALSE
  OBVIOUS
<1>1. PICK t \in T : \A u \in T : u \subseteq t => u = t
  <2>1. T \subseteq SUBSET S  OBVIOUS
  <2> HIDE DEF T
  <2> QED BY <2>1, Smallest DEF Sized
<1>2. PICK y \in t : SumOf(t) # y.size + SumOf(t \ {y})
  OBVIOUS
<1> DEFINE p == Pick(t)
           rest == (t \ {p}) \ {y}
<1>3. t \subseteq S /\ IsFiniteSet(t) /\ p \in t
  BY <1>2, FS_Subset, PickIn DEF Sized
<1>4. SumOf(t) = p.size + SumOf(t \ {p})
  BY <1>2, <1>3, SumStep
<1>5. p # y
  BY <1>2, <1>4
<1>6. t \ {p} \notin T /\ t \ {y} \notin T
  BY <1>1, <1>2, <1>3
<1>7. SumOf(t \ {p}) = y.size + SumOf(rest)
  BY <1>2, <1>3, <1>5, <1>6
<1>8. SumOf(t \ {y}) = p.size + SumOf(rest)
  <2>1. (t \ {y}) \ {p} = rest  OBVIOUS
  <2>2. t \ {y} \in SUBSET S /\ p \in t \ {y}  BY <1>3, <1>5
  <2> QED BY <1>6, <2>1, <2>2
<1>9. p.size \in Nat /\ y.size \in Nat /\ SumOf(rest) \in Nat
  <2>1. Sized(rest)  BY <1>3, FS_Subset DEF Sized
  <2> QED BY <1>2, <1>3, <2>1, SumNat DEF Sized
<1> HIDE DEF rest, p
<1> QED BY <1>2, <1>4, <1>7, <1>8, <1>9

\* Fewer rows, fewer bytes
LEMMA SumMonotone ==
    ASSUME NEW S, Sized(S), NEW R, R \subseteq S PROVE SumOf(R) <= SumOf(S)
<1> DEFINE T == {t \in SUBSET S : R \subseteq t /\ ~ (SumOf(R) <= SumOf(t))}
<1> SUFFICES ASSUME T # {} PROVE FALSE
  OBVIOUS
<1>1. PICK t \in T : \A u \in T : u \subseteq t => u = t
  <2>1. T \subseteq SUBSET S  OBVIOUS
  <2> HIDE DEF T
  <2> QED BY <2>1, Smallest DEF Sized
<1>2. ASSUME NEW u, u \subseteq S PROVE Sized(u) /\ SumOf(u) \in Nat
  <2>1. Sized(u)  BY <1>2, FS_Subset DEF Sized
  <2> QED BY <2>1, SumNat
<1>3. SumOf(t) \in Nat /\ SumOf(R) \in Nat
  BY <1>2
<1>4. PICK x \in t : x \notin R
  BY <1>3
<1>5. SumOf(t) = x.size + SumOf(t \ {x})
  BY <1>2, <1>4, SumAny
<1>6. SumOf(R) <= SumOf(t \ {x})
  BY <1>1, <1>4
<1>7. x.size \in Nat /\ SumOf(t \ {x}) \in Nat
  BY <1>2, <1>4 DEF Sized
<1> QED BY <1>3, <1>5, <1>6, <1>7

-----------------------------------------------------------------------------
(* What Add checks of the table, and what deleting and inserting do to it *)

Table(R) == R \subseteq Entry /\ IsFiniteSet(R)

RowsOf(R, u) == {f \in R : f.by = u}

\* A file of this name, size and uploader may join the rows R.
Room(R, f) ==
    /\ \A g \in R : g.name # f.name
    /\ SumOf(RowsOf(R, f.by)) + f.size <= MaxUserBytes

WithinLimits(R) ==
    /\ \A f, g \in R : f.name = g.name => f = g
    /\ \A u \in Users : SumOf(RowsOf(R, u)) <= MaxUserBytes

\* Files.UserBytes as such a sum
LEMMA UserBytesIsSum == \A u : UserBytes(u) = SumOf(RowsOf(rows, u))
  BY DEF UserBytes, SumOf, RowsOf

\* The rows of a user have a sum.
LEMMA TableSized ==
    ASSUME NEW R, Table(R), NEW u PROVE Sized(RowsOf(R, u)) /\ SumOf(RowsOf(R, u)) \in Nat
<1>1. Sized(RowsOf(R, u))
  BY FS_Subset, FileLibraryConstants DEF Sized, Table, RowsOf, Entry
<1> QED BY <1>1, SumNat

\* Deleting rows keeps the limits, and the room there was.
LEMMA FewerRows ==
    ASSUME NEW R, Table(R), NEW Q, Q \subseteq R
    PROVE  /\ Table(Q)
           /\ WithinLimits(R) => WithinLimits(Q)
           /\ \A f : f.size \in Nat /\ Room(R, f) => Room(Q, f)
<1>1. Table(Q)
  BY FS_Subset DEF Table
<1>2. ASSUME NEW u
      PROVE  /\ SumOf(RowsOf(Q, u)) <= SumOf(RowsOf(R, u))
             /\ SumOf(RowsOf(Q, u)) \in Nat /\ SumOf(RowsOf(R, u)) \in Nat
  <2>1. RowsOf(Q, u) \subseteq RowsOf(R, u)  BY DEF RowsOf
  <2> QED BY <1>1, <2>1, TableSized, SumMonotone
<1>3. WithinLimits(R) => WithinLimits(Q)
  BY <1>2, FileLibraryConstants DEF WithinLimits
<1>4. ASSUME NEW f, f.size \in Nat, Room(R, f) PROVE Room(Q, f)
  BY <1>2, <1>4, FileLibraryConstants DEF Room
<1> QED BY <1>1, <1>3, <1>4

\* Inserting a file there is room for keeps the limits.
LEMMA OneMoreRow ==
    ASSUME NEW R, Table(R), WithinLimits(R), NEW f \in Entry, f \notin R, Room(R, f)
    PROVE  Table(R \cup {f}) /\ WithinLimits(R \cup {f})
<1> DEFINE Q == R \cup {f}
<1>1. Table(Q)
  BY FS_AddElement DEF Table
<1>2. \A g, h \in Q : g.name = h.name => g = h
  BY DEF WithinLimits, Room
<1>3. ASSUME NEW u \in Users PROVE SumOf(RowsOf(Q, u)) <= MaxUserBytes
  <2>1. CASE f.by # u
    <3>1. RowsOf(Q, u) = RowsOf(R, u)  BY <2>1 DEF RowsOf
    <3> QED BY <3>1 DEF WithinLimits
  <2>2. CASE f.by = u
    <3>1. RowsOf(Q, u) \ {f} = RowsOf(R, u) /\ f \in RowsOf(Q, u)
      BY <2>2 DEF RowsOf
    <3>2. Sized(RowsOf(Q, u))
      BY <1>1, TableSized
    <3>3. SumOf(RowsOf(Q, u)) = f.size + SumOf(RowsOf(R, u))
      BY <3>1, <3>2, SumAny
    <3>4. SumOf(RowsOf(R, u)) \in Nat /\ f.size \in Nat
      BY TableSized, FileLibraryConstants DEF Entry
    <3>5. SumOf(RowsOf(R, u)) + f.size <= MaxUserBytes
      BY <2>2 DEF Room
    <3> HIDE DEF Q
    <3> QED BY <3>3, <3>4, <3>5
  <2> QED BY <2>1, <2>2
<1> QED BY <1>1, <1>2, <1>3 DEF WithinLimits

-----------------------------------------------------------------------------
(* The inductive invariant *)

\* What a session carries: an upload without an id up to its INSERT, after that the
\* row; or the copy of a row it deletes.
Unnumbered == [id : {0}, name : Names, size : Sizes, by : Users]

Carries ==
    \A s \in Sessions :
        /\ at[s] \in {"lock", "check", "insert"} => file[s] \in Unnumbered
        /\ at[s] \in {"write", "writing", "path", "delete", "remove"} =>
                file[s] \in Entry /\ file[s].id <= lastId

\* AUTOINCREMENT: nobody holds an id not given out yet.
Numbered ==
    /\ \A f \in rows : f.id <= lastId
    /\ \A s \in Sessions : \A f \in listed[s] : f.id <= lastId

\* uploadMu is held from the lock to the return.
HoldsMu == \A s \in Sessions : at[s] \in Adding \ {"lock"} => mu = s

\* What the check found is still so at the INSERT.
StillAllowed == \A s \in Sessions : at[s] = "insert" => Room(rows, file[s])

\* A blob is removed after its row is gone.
RowFirst == \A s \in Sessions : at[s] = "remove" => \A f \in rows : f.id # file[s].id

\* Nobody removes the blob of an upload in progress while its row stays.
PartStays ==
    \A s \in Sessions : at[s] = "writing" =>
        \A f \in rows : f.id = file[s].id => blob[f.id] = "part"

FInv ==
    /\ TypeOK /\ Table(rows) /\ WithinLimits(rows)
    /\ Carries /\ Numbered /\ HoldsMu /\ StillAllowed /\ RowFirst /\ PartStays
    /\ RowsMatchBlobs

\* The empty area satisfies the invariant.
LEMMA FilesInit == Init => FInv
<1> SUFFICES ASSUME Init PROVE FInv
  OBVIOUS
<1> USE FileLibraryConstants DEF Init
<1>1. TypeOK  BY DEF TypeOK, Places, Adding, NoFile, Ids
<1>2. Table(rows)  BY FS_EmptySet DEF Table
<1>3. Carries /\ Numbered /\ HoldsMu /\ StillAllowed /\ RowFirst /\ PartStays
  BY DEF Carries, Numbered, HoldsMu, StillAllowed, RowFirst, PartStays, Adding
<1>4. WithinLimits(rows)
  <2>1. \A u : RowsOf(rows, u) = {}  BY DEF RowsOf
  <2> QED BY <2>1, SumEmpty DEF WithinLimits
<1>5. RowsMatchBlobs  BY DEF RowsMatchBlobs
<1> QED BY <1>1, <1>2, <1>3, <1>4, <1>5 DEF FInv

-----------------------------------------------------------------------------
(* Preservation, action by action *)

\* Steps at the list: nothing of rows, blobs and uploads in progress changes.
LEMMA ListSteps ==
    ASSUME FInv, NEW s \in Sessions,
           Search(s) \/ Download(s) \/ Viewed(s) \/ Upload(s) \/ ChooseDelete(s)
    PROVE  FInv'
<1> USE FileLibraryConstants DEF FInv, GoTo
<1>1. CASE Search(s)
  <2> USE <1>1 DEF Search
  <2>1. TypeOK'  BY DEF TypeOK, Places, Adding
  <2>2. Carries' /\ Numbered'  BY DEF Carries, Numbered, TypeOK
  <2>3. HoldsMu' /\ StillAllowed'  BY DEF HoldsMu, StillAllowed, TypeOK, Adding
  <2>4. RowFirst' /\ PartStays'  BY DEF RowFirst, PartStays, TypeOK
  <2>5. RowsMatchBlobs'  BY DEF RowsMatchBlobs, BeingWritten, TypeOK
  <2> QED BY <2>1, <2>2, <2>3, <2>4, <2>5
<1>2. CASE Download(s)
  <2> USE <1>2 DEF Download
  <2>1. TypeOK'  BY DEF TypeOK, Places, Adding
  <2>2. Carries' /\ Numbered'  BY DEF Carries, Numbered, TypeOK
  <2>3. HoldsMu' /\ StillAllowed'  BY DEF HoldsMu, StillAllowed, TypeOK, Adding
  <2>4. RowFirst' /\ PartStays'  BY DEF RowFirst, PartStays, TypeOK
  <2>5. RowsMatchBlobs'  BY DEF RowsMatchBlobs, BeingWritten, TypeOK
  <2> QED BY <2>1, <2>2, <2>3, <2>4, <2>5
<1>3. CASE Viewed(s)
  <2> USE <1>3 DEF Viewed
  <2>1. TypeOK'  BY DEF TypeOK, Places, Adding
  <2>2. Carries' /\ Numbered'  BY DEF Carries, Numbered, TypeOK
  <2>3. HoldsMu' /\ StillAllowed'  BY DEF HoldsMu, StillAllowed, TypeOK, Adding
  <2>4. RowFirst' /\ PartStays'  BY DEF RowFirst, PartStays, TypeOK
  <2>5. RowsMatchBlobs'  BY DEF RowsMatchBlobs, BeingWritten, TypeOK
  <2> QED BY <2>1, <2>2, <2>3, <2>4, <2>5
<1>4. CASE Upload(s)
  <2> USE <1>4 DEF Upload
  <2>1. TypeOK'  BY DEF TypeOK, Places, Adding
  <2>2. Carries' /\ Numbered'  BY DEF Carries, Numbered, TypeOK, Unnumbered
  <2>3. HoldsMu' /\ StillAllowed'  BY DEF HoldsMu, StillAllowed, TypeOK, Adding
  <2>4. RowFirst' /\ PartStays'  BY DEF RowFirst, PartStays, TypeOK
  <2>5. RowsMatchBlobs'  BY DEF RowsMatchBlobs, BeingWritten, TypeOK
  <2> QED BY <2>1, <2>2, <2>3, <2>4, <2>5
<1>5. CASE ChooseDelete(s)
  <2> USE <1>5 DEF ChooseDelete, Shown
  <2>1. TypeOK'  BY DEF TypeOK, Places, Adding
  <2>2. Carries' /\ Numbered'  BY DEF Carries, Numbered, TypeOK
  <2>3. HoldsMu' /\ StillAllowed'  BY DEF HoldsMu, StillAllowed, TypeOK, Adding
  <2>4. RowFirst' /\ PartStays'  BY DEF RowFirst, PartStays, TypeOK
  <2>5. RowsMatchBlobs'  BY DEF RowsMatchBlobs, BeingWritten, TypeOK
  <2> QED BY <2>1, <2>2, <2>3, <2>4, <2>5
<1> QED BY <1>1, <1>2, <1>3, <1>4, <1>5

\* Add up to its INSERT.
LEMMA CheckSteps ==
    ASSUME FInv, NEW s \in Sessions, AddLock(s) \/ AddCheck(s) PROVE FInv'
<1> USE FileLibraryConstants DEF FInv, GoTo
<1>1. CASE AddLock(s)
  <2> USE <1>1 DEF AddLock, MuFree
  <2>1. TypeOK'  BY DEF TypeOK, Places, Adding
  <2>2. Carries' /\ Numbered'  BY DEF Carries, Numbered, TypeOK
  <2>3. HoldsMu' /\ StillAllowed'  BY DEF HoldsMu, StillAllowed, TypeOK, Adding
  <2>4. RowFirst' /\ PartStays'  BY DEF RowFirst, PartStays, TypeOK
  <2>5. RowsMatchBlobs'  BY DEF RowsMatchBlobs, BeingWritten, TypeOK
  <2> QED BY <2>1, <2>2, <2>3, <2>4, <2>5
<1>2. CASE AddCheck(s) /\ Allowed(file[s])
  <2> USE <1>2 DEF AddCheck
  <2>1. Room(rows, file[s])
    BY UserBytesIsSum DEF Allowed, Room
  <2>2. TypeOK'  BY DEF TypeOK, Places, Adding
  <2>3. Carries' /\ Numbered'  BY DEF Carries, Numbered, TypeOK
  <2>4. HoldsMu' /\ StillAllowed'
    BY <2>1 DEF HoldsMu, StillAllowed, TypeOK, Adding
  <2>5. RowFirst' /\ PartStays'  BY DEF RowFirst, PartStays, TypeOK
  <2>6. RowsMatchBlobs'  BY DEF RowsMatchBlobs, BeingWritten, TypeOK
  <2> QED BY <2>2, <2>3, <2>4, <2>5, <2>6
<1>3. CASE AddCheck(s) /\ ~ Allowed(file[s])
  <2> USE <1>3 DEF AddCheck, BackToList, Unlock
  <2>1. TypeOK'  BY DEF TypeOK, Places, Adding
  <2>2. Carries' /\ Numbered'  BY DEF Carries, Numbered, TypeOK
  <2>3. HoldsMu' /\ StillAllowed'  BY DEF HoldsMu, StillAllowed, TypeOK, Adding
  <2>4. RowFirst' /\ PartStays'  BY DEF RowFirst, PartStays, TypeOK
  <2>5. RowsMatchBlobs'  BY DEF RowsMatchBlobs, BeingWritten, TypeOK
  <2> QED BY <2>1, <2>2, <2>3, <2>4, <2>5
<1> QED BY <1>1, <1>2, <1>3

\* The INSERT: the check of the quota and of the name still holds, the lock being held.
LEMMA InsertStep ==
    ASSUME FInv, NEW s \in Sessions, AddInsert(s) PROVE FInv'
<1> USE FileLibraryConstants DEF FInv
<1> DEFINE f == [file[s] EXCEPT !.id = lastId + 1]
<1>1. /\ at[s] = "insert" /\ lastId < MaxFiles /\ lastId' = lastId + 1
      /\ rows' = rows \cup {f} /\ file' = [file EXCEPT ![s] = f]
      /\ at' = [at EXCEPT ![s] = "write"]
      /\ UNCHANGED <<blob, mu, who, listed, cut, stray>>
  BY DEF AddInsert, GoTo
<1>2. /\ f \in Entry /\ f.id = lastId + 1 /\ f \notin rows
      /\ f.name = file[s].name /\ f.size = file[s].size /\ f.by = file[s].by
  <2>1. file[s] \in Unnumbered /\ lastId + 1 \in Ids
    BY <1>1 DEF Carries, TypeOK, Ids
  <2>2. /\ f \in Entry /\ f.id = lastId + 1
        /\ f.name = file[s].name /\ f.size = file[s].size /\ f.by = file[s].by
    BY <2>1 DEF Entry, Unnumbered
  <2> HIDE DEF f
  <2> QED BY <2>2 DEF Numbered, TypeOK, Entry, Ids
<1>3. Room(rows, f)
  BY <1>1, <1>2 DEF StillAllowed, Room
<1> HIDE DEF f
<1>4. Table(rows') /\ WithinLimits(rows')
  BY <1>1, <1>2, <1>3, OneMoreRow
<1>5. TypeOK'  BY <1>1, <1>2 DEF TypeOK, Places, Adding, Ids
<1>6. \A i \in Ids : i <= lastId => i <= lastId'
  BY <1>1 DEF TypeOK, Ids
<1>7. Numbered'
  BY <1>1, <1>2, <1>6 DEF Numbered, TypeOK, Entry
<1>8. Carries'
  BY <1>1, <1>2, <1>6 DEF Carries, TypeOK, Entry
<1>9. HoldsMu'  BY <1>1 DEF HoldsMu, TypeOK, Adding
<1>10. \A t \in Sessions \ {s} : at[t] \notin {"insert", "writing"}
  BY <1>1 DEF HoldsMu, Adding
<1>11. StillAllowed' /\ PartStays'
  BY <1>1, <1>10 DEF StillAllowed, PartStays, TypeOK
<1>12. RowFirst'
  BY <1>1, <1>2 DEF RowFirst, Carries, TypeOK, Entry, Ids
<1>13. RowsMatchBlobs'
  BY <1>1, <1>2 DEF RowsMatchBlobs, BeingWritten, TypeOK
<1> QED BY <1>4, <1>5, <1>7, <1>8, <1>9, <1>11, <1>12, <1>13

\* Writing the blob.
LEMMA BlobSteps ==
    ASSUME FInv, NEW s \in Sessions, AddCreate(s) \/ AddWrite(s) PROVE FInv'
<1> USE FileLibraryConstants DEF FInv, GoTo
<1>0. ASSUME at[s] \in {"write", "writing"}
      PROVE  /\ file[s] \in Entry /\ file[s].id \in Ids
             /\ \A t \in Sessions \ {s} : at[t] \notin {"insert", "write", "writing"}
  BY <1>0 DEF Carries, HoldsMu, Adding, Entry
<1>1. CASE AddCreate(s)
  <2> USE <1>1 DEF AddCreate
  <2>1. TypeOK'  BY <1>0 DEF TypeOK, Places, Adding
  <2>2. Carries' /\ Numbered'  BY DEF Carries, Numbered, TypeOK
  <2>3. HoldsMu' /\ StillAllowed'  BY DEF HoldsMu, StillAllowed, TypeOK, Adding
  <2>4. RowFirst'  BY DEF RowFirst, TypeOK
  <2>5. PartStays'  BY <1>0 DEF PartStays, TypeOK
  <2>6. RowsMatchBlobs'
    BY <1>0 DEF RowsMatchBlobs, BeingWritten, TypeOK, Entry
  <2> QED BY <2>1, <2>2, <2>3, <2>4, <2>5, <2>6
<1>2. CASE AddWrite(s)
  <2> USE <1>2 DEF AddWrite
  <2>1. TypeOK'  BY <1>0 DEF TypeOK, Places, Adding
  <2>2. Carries' /\ Numbered'  BY DEF Carries, Numbered, TypeOK
  <2>3. HoldsMu' /\ StillAllowed'  BY DEF HoldsMu, StillAllowed, TypeOK, Adding
  <2>4. RowFirst'  BY DEF RowFirst, TypeOK
  <2>5. PartStays'  BY <1>0 DEF PartStays, TypeOK
  <2>6. RowsMatchBlobs'
    BY <1>0 DEF RowsMatchBlobs, BeingWritten, TypeOK, Entry, PartStays
  <2> QED BY <2>1, <2>2, <2>3, <2>4, <2>5, <2>6
<1> QED BY <1>1, <1>2

\* Add returns, well or not.
LEMMA AddEnds ==
    ASSUME FInv, NEW s \in Sessions, AddDone(s) \/ AddFails(s) PROVE FInv'
<1> USE FileLibraryConstants DEF FInv, GoTo, BackToList, Unlock
<1>1. CASE AddDone(s)
  <2> USE <1>1 DEF AddDone
  <2>1. TypeOK'  BY DEF TypeOK, Places, Adding
  <2>2. Carries' /\ Numbered'  BY DEF Carries, Numbered, TypeOK
  <2>3. HoldsMu' /\ StillAllowed'  BY DEF HoldsMu, StillAllowed, TypeOK, Adding
  <2>4. RowFirst' /\ PartStays'  BY DEF RowFirst, PartStays, TypeOK
  <2>5. RowsMatchBlobs'  BY DEF RowsMatchBlobs, BeingWritten, TypeOK
  <2> QED BY <2>1, <2>2, <2>3, <2>4, <2>5
<1>2. CASE AddFails(s)
  <2> USE <1>2 DEF AddFails
  <2>1. TypeOK'
    BY DEF TypeOK, Places, Adding, Carries, Entry
  <2>2. Carries' /\ Numbered'  BY DEF Carries, Numbered, TypeOK
  <2>3. HoldsMu' /\ StillAllowed'  BY DEF HoldsMu, StillAllowed, TypeOK, Adding
  <2>4. RowFirst' /\ PartStays'  BY DEF RowFirst, PartStays, TypeOK
  <2>5. RowsMatchBlobs'  BY DEF RowsMatchBlobs, BeingWritten, TypeOK
  <2> QED BY <2>1, <2>2, <2>3, <2>4, <2>5
<1> QED BY <1>1, <1>2

\* Files.Delete, whose copy of the row may be as old as the list it was chosen from.
LEMMA DeleteSteps ==
    ASSUME FInv, NEW s \in Sessions, DeleteRow(s) \/ DeleteBlob(s) \/ DeleteFails(s)
    PROVE  FInv'
<1> USE FileLibraryConstants DEF FInv, GoTo, BackToList
<1>0. ASSUME at[s] \in {"delete", "remove"}
      PROVE  file[s] \in Entry /\ file[s].id \in Ids
  BY <1>0 DEF Carries, Entry
<1>1. CASE DeleteRow(s)
  <2> USE <1>1 DEF DeleteRow
  <2>1. Table(rows') /\ WithinLimits(rows')
    BY FewerRows
  <2>2. TypeOK'  BY DEF TypeOK, Places, Adding
  <2>3. Carries' /\ Numbered'  BY DEF Carries, Numbered, TypeOK
  <2>4. HoldsMu'  BY DEF HoldsMu, TypeOK, Adding
  <2>5. StillAllowed'
    <3> SUFFICES ASSUME NEW t \in Sessions, at'[t] = "insert" PROVE Room(rows', file'[t])
      BY DEF StillAllowed
    <3>1. at[t] = "insert" /\ file'[t] = file[t]  BY DEF TypeOK
    <3>2. Room(rows, file[t]) /\ file[t].size \in Nat
      BY <3>1 DEF StillAllowed, Carries, Unnumbered
    <3> QED BY <3>1, <3>2, FewerRows
  <2>6. RowFirst' /\ PartStays'  BY DEF RowFirst, PartStays, TypeOK
  <2>7. RowsMatchBlobs'
    BY <1>0 DEF RowsMatchBlobs, BeingWritten, TypeOK, Entry
  <2> QED BY <2>1, <2>2, <2>3, <2>4, <2>5, <2>6, <2>7
<1>2. CASE DeleteBlob(s)
  <2> USE <1>2 DEF DeleteBlob
  <2>1. TypeOK'  BY DEF TypeOK, Places, Adding
  <2>2. Carries' /\ Numbered'  BY DEF Carries, Numbered, TypeOK
  <2>3. HoldsMu' /\ StillAllowed'  BY DEF HoldsMu, StillAllowed, TypeOK, Adding
  <2>4. RowFirst'  BY DEF RowFirst, TypeOK
  <2>5. PartStays'  BY <1>0 DEF PartStays, RowFirst, TypeOK, Entry
  <2>6. RowsMatchBlobs'
    BY <1>0 DEF RowsMatchBlobs, BeingWritten, RowFirst, TypeOK, Entry
  <2> QED BY <2>1, <2>2, <2>3, <2>4, <2>5, <2>6
<1>3. CASE DeleteFails(s)
  <2> USE <1>3 DEF DeleteFails
  <2>1. TypeOK'  BY <1>0 DEF TypeOK, Places, Adding
  <2>2. Carries' /\ Numbered'  BY DEF Carries, Numbered, TypeOK
  <2>3. HoldsMu' /\ StillAllowed'  BY DEF HoldsMu, StillAllowed, TypeOK, Adding
  <2>4. RowFirst' /\ PartStays'  BY DEF RowFirst, PartStays, TypeOK
  <2>5. RowsMatchBlobs'  BY DEF RowsMatchBlobs, BeingWritten, TypeOK
  <2> QED BY <2>1, <2>2, <2>3, <2>4, <2>5
<1> QED BY <1>1, <1>2, <1>3

\* A crash anywhere, noted where it left an upload or a removal half done
LEMMA CrashStep == ASSUME FInv, Crash PROVE FInv'
<1> USE FileLibraryConstants DEF FInv, Crash
<1>1. TypeOK'
  <2>1. \A s \in Sessions : at[s] \in {"write", "writing", "remove"} => file[s].id \in Ids
    BY DEF Carries, Entry
  <2> QED BY <2>1 DEF TypeOK, Places, Adding
<1>2. Carries' /\ Numbered'  BY DEF Carries, Numbered, TypeOK
<1>3. HoldsMu' /\ StillAllowed'  BY DEF HoldsMu, StillAllowed, Adding
<1>4. RowFirst' /\ PartStays'  BY DEF RowFirst, PartStays
<1>5. RowsMatchBlobs'  BY DEF RowsMatchBlobs, BeingWritten
<1> QED BY <1>1, <1>2, <1>3, <1>4, <1>5

\* Any step keeps the inductive invariant.
LEMMA FilesStep == ASSUME FInv, [Next]_vars PROVE FInv'
<1>1. CASE UNCHANGED vars
  BY <1>1 DEF vars, FInv, TypeOK, Carries, Numbered, HoldsMu, StillAllowed, RowFirst,
              PartStays, RowsMatchBlobs, BeingWritten
<1>2. CASE Next
  BY <1>2, ListSteps, CheckSteps, InsertStep, BlobSteps, AddEnds, DeleteSteps, CrashStep
  DEF Next
<1> QED BY <1>1, <1>2

-----------------------------------------------------------------------------
(* Theorems *)

\* The inductive invariant of the file area: the table within its limits, what uploads and
\* deletions in progress carry, and rows and blobs in agreement (store/files.go).
THEOREM FilesInvariant == Spec => []FInv
  BY FilesInit, FilesStep, PTL DEF Spec

\* Every variable keeps its type: no step of Add or Delete works on a file that has
\* no id yet.
THEOREM FilesTypeCorrect == Spec => []TypeOK
  BY FilesInvariant, PTL DEF FInv

\* Names stay unique and nobody exceeds the quota, however many sessions upload and
\* delete at once, for any sizes and any quota.
THEOREM LimitsHoldAlways == Spec => []LimitsHold
<1>1. FInv => LimitsHold
  BY UserBytesIsSum DEF FInv, WithinLimits, LimitsHold
<1> QED BY <1>1, FilesInvariant, PTL

\* A row without its content is one whose upload is under way or was cut off; a blob
\* without a row is one whose removal is under way, failed or was overtaken.
THEOREM RowsMatchBlobsAlways == Spec => []RowsMatchBlobs
  BY FilesInvariant, PTL DEF FInv

-----------------------------------------------------------------------------
(* XMODEM: remainders *)

\* Division with remainder
LEMMA Remainder ==
    ASSUME NEW a \in Nat, NEW m \in Nat, m > 0
    PROVE  a % m \in 0 .. m - 1 /\ \E q \in Nat : a = m * q + (a % m)
<1>1. a \div m \in Nat /\ a % m \in 0 .. m - 1
  OBVIOUS
<1>2. a = m * (a \div m) + (a % m)
  OBVIOUS
<1> QED BY <1>1, <1>2

\* A multiple of m less than m away from 0
LEMMA SmallMultiple ==
    ASSUME NEW m \in Nat, m > 0, NEW d \in Int, -m < m * d, m * d < m
    PROVE  d = 0
  OBVIOUS

\* Numbers less than m apart are told apart by their remainders.
LEMMA SameRemainder ==
    ASSUME NEW a \in Nat, NEW b \in Nat, NEW m \in Nat, a % m = b % m, a < b + m, b < a + m
    PROVE  a = b
<1>1. m > 0
  OBVIOUS
<1>2. PICK q \in Nat : a = m * q + (a % m)
  BY <1>1, Remainder
<1>3. PICK r \in Nat : b = m * r + (b % m)
  BY <1>1, Remainder
<1>4. a % m \in Int
  BY <1>1, Remainder
<1>5. a - b = m * (q - r)
  BY <1>2, <1>3, <1>4
<1>6. q - r = 0
  <2>1. -m < m * (q - r) /\ m * (q - r) < m
    BY <1>5
  <2> QED BY <2>1, <1>1, SmallMultiple
<1> QED BY <1>5, <1>6

\* The remainder of a quotient and a remainder
LEMMA RemainderOf ==
    ASSUME NEW m \in Nat, m > 0, NEW q \in Nat, NEW r \in 0 .. m - 1
    PROVE  (m * q + r) % m = r
  OBVIOUS

\* Counting on from the remainder
LEMMA NextRemainder ==
    ASSUME NEW a \in Nat, NEW m \in Nat, m > 1
    PROVE  ((a % m) + 1) % m = (a + 1) % m
<1>1. a % m \in 0 .. m - 1
  BY Remainder
<1>2. PICK q \in Nat : a = m * q + (a % m)
  BY Remainder
<1> DEFINE r == a % m
<1>3. CASE r + 1 < m
  <2>1. (r + 1) % m = r + 1
    BY <1>1, <1>3
  <2>2. a + 1 = m * q + (r + 1)
    BY <1>1, <1>2
  <2>3. (m * q + (r + 1)) % m = r + 1
    BY <1>1, <1>3, RemainderOf
  <2> QED BY <2>1, <2>2, <2>3
<1>4. CASE r + 1 = m
  <2>1. (r + 1) % m = 0
    BY <1>4, <1>1
  <2>2. a + 1 = m * (q + 1) + 0
    BY <1>1, <1>2, <1>4
  <2>3. (m * (q + 1) + 0) % m = 0
    BY RemainderOf
  <2> QED BY <2>1, <2>2, <2>3
<1> QED BY <1>1, <1>3, <1>4
-----------------------------------------------------------------------------
(* The line *)

EOT == Control("eot")
CAN == Control("can")
Item == Frame \cup {EOT, CAN}
Byte == {"C", "ack", "nak", "can", "key"}

\* The ACKs among the bytes s
Acks(s) == Cardinality({i \in 1 .. Len(s) : s[i] = "ack"})

\* The frame of a block is a frame, and no control byte is one.
LEMMA FrameFacts ==
    /\ EOT # CAN /\ EOT \notin Frame /\ CAN \notin Frame
    /\ \A f \in Frame : f.num \in 0 .. BlockMod - 1 /\ f.blk \in 1 .. MaxBlocks
    /\ \A k \in 1 .. MaxBlocks :
        FrameOf(k) \in Frame /\ FrameOf(k).blk = k /\ FrameOf(k).num = k % BlockMod
<1>1. EOT.ctl # CAN.ctl
  BY DEF EOT, CAN, Control
<1>2. \A f \in Frame : DOMAIN f = {"num", "blk"}
  BY DEF Frame
<1>3. DOMAIN EOT = {"ctl"} /\ DOMAIN CAN = {"ctl"}
  BY DEF EOT, CAN, Control
<1>4. \A k \in 1 .. MaxBlocks : k % BlockMod \in 0 .. BlockMod - 1
  BY Remainder, XmodemConstants
<1>5. \A f \in Frame : f.num \in 0 .. BlockMod - 1 /\ f.blk \in 1 .. MaxBlocks
  BY DEF Frame
<1>6. \A k \in 1 .. MaxBlocks :
        FrameOf(k) \in Frame /\ FrameOf(k).blk = k /\ FrameOf(k).num = k % BlockMod
  BY <1>4 DEF FrameOf, Frame
<1>7. EOT # CAN
  BY <1>1
<1>8. EOT \notin Frame /\ CAN \notin Frame
  <2>1. {"ctl"} # {"num", "blk"}
    <3>1. "num" \in {"num", "blk"} /\ "num" \notin {"ctl"}
      OBVIOUS
    <3> QED BY <3>1
  <2> QED BY <1>2, <1>3, <2>1
<1> QED BY <1>5, <1>6, <1>7, <1>8

\* There are no more ACKs than bytes.
LEMMA AcksBound ==
    ASSUME NEW s \in Seq(Byte)
    PROVE  Acks(s) \in Nat /\ Acks(s) <= Len(s)
<1> DEFINE A == {i \in 1 .. Len(s) : s[i] = "ack"}
<1>1. IsFiniteSet(1 .. Len(s)) /\ Cardinality(1 .. Len(s)) = Len(s)
  <2>1. Len(s) \in Nat
    OBVIOUS
  <2>2. Cardinality(1 .. Len(s)) = IF 1 > Len(s) THEN 0 ELSE Len(s) - 1 + 1
    BY <2>1, FS_Interval
  <2>3. IsFiniteSet(1 .. Len(s))
    BY <2>1, FS_Interval
  <2> QED BY <2>1, <2>2, <2>3
<1>2. A \in SUBSET (1 .. Len(s))
  OBVIOUS
<1>3. IsFiniteSet(A) /\ Cardinality(A) <= Len(s)
  BY <1>1, <1>2, FS_Subset
<1> QED BY <1>3, FS_CardinalityType DEF Acks

\* No ACK, none counted
LEMMA AcksNone ==
    ASSUME NEW s \in Seq(Byte), \A i \in 1 .. Len(s) : s[i] # "ack"
    PROVE  Acks(s) = 0
<1>1. {i \in 1 .. Len(s) : s[i] = "ack"} = {}
  OBVIOUS
<1> QED BY <1>1, FS_EmptySet DEF Acks

\* A byte is added.
LEMMA AcksAppend ==
    ASSUME NEW s \in Seq(Byte), NEW b \in Byte
    PROVE  Acks(Append(s, b)) = IF b = "ack" THEN Acks(s) + 1 ELSE Acks(s)
<1> DEFINE A == {i \in 1 .. Len(s) : s[i] = "ack"}
<1> DEFINE t == Append(s, b)
<1> DEFINE B == {i \in 1 .. Len(t) : t[i] = "ack"}
<1>1. IsFiniteSet(A)
  <2>1. IsFiniteSet(1 .. Len(s)) /\ A \in SUBSET (1 .. Len(s))
    BY FS_Interval
  <2> QED BY <2>1, FS_Subset
<1>2. Len(t) = Len(s) + 1 /\ t[Len(s) + 1] = b /\ \A i \in 1 .. Len(s) : t[i] = s[i]
  OBVIOUS
<1>3. CASE b = "ack"
  <2>1. B = A \cup {Len(s) + 1} /\ Len(s) + 1 \notin A
    BY <1>2, <1>3
  <2>2. Cardinality(B) = Cardinality(A) + 1
    <3> HIDE DEF A, B
    <3> QED BY <2>1, <1>1, FS_AddElement
  <2> QED BY <2>2, <1>3 DEF Acks
<1>4. CASE b # "ack"
  <2>1. B = A
    BY <1>2, <1>4
  <2> QED BY <2>1, <1>4 DEF Acks
<1> QED BY <1>3, <1>4

\* A byte is read.
LEMMA AcksTail ==
    ASSUME NEW s \in Seq(Byte), s # <<>>
    PROVE  Acks(Tail(s)) = IF Head(s) = "ack" THEN Acks(s) - 1 ELSE Acks(s)
<1> DEFINE A == {i \in 1 .. Len(s) : s[i] = "ack"}
<1> DEFINE t == Tail(s)
<1> DEFINE B == {i \in 1 .. Len(t) : t[i] = "ack"}
<1> DEFINE C == A \ {1}
<1>1. IsFiniteSet(A)
  <2>1. IsFiniteSet(1 .. Len(s)) /\ A \in SUBSET (1 .. Len(s))
    BY FS_Interval
  <2> QED BY <2>1, FS_Subset
<1>2. Len(t) = Len(s) - 1 /\ Len(s) > 0 /\ \A i \in 1 .. Len(t) : t[i] = s[i + 1]
  OBVIOUS
<1>3. Cardinality(C) = IF 1 \in A THEN Cardinality(A) - 1 ELSE Cardinality(A)
  BY <1>1, FS_RemoveElement
<1>4. 1 \in A <=> Head(s) = "ack"
  BY <1>2
<1>5. ExistsBijection(C, B)
  <2> DEFINE f == [i \in C |-> i - 1]
  <2>1. f \in [C -> B]
    BY <1>2
  <2>2. \A i, j \in C : f[i] = f[j] => i = j
    OBVIOUS
  <2>3. \A j \in B : j + 1 \in C /\ f[j + 1] = j
    BY <1>2
  <2>4. f \in Bijection(C, B)
    <3> HIDE DEF C, B, f
    <3> QED BY <2>1, <2>2, <2>3 DEF Bijection, Injection, Surjection, IsInjective
  <2> QED BY <2>4 DEF ExistsBijection
<1>6. Cardinality(B) = Cardinality(C)
  <2>1. IsFiniteSet(C)
    BY <1>1, FS_RemoveElement
  <2> HIDE DEF C, B
  <2> QED BY <2>1, <1>5, FS_Bijection
<1> HIDE DEF A, C
<1>7. Acks(s) = Cardinality(A) /\ Acks(t) = Cardinality(B)
  BY DEF A, Acks
<1> QED BY <1>3, <1>4, <1>6, <1>7
-----------------------------------------------------------------------------
(* The invariant.  A frame has the place of its block in the file; EOT comes after the
   last block. *)

Place(z, x) == IF x = EOT THEN z + 1 ELSE x.blk

\* A line on which frames of a file of z blocks are in order, nothing skipped, none behind
\* the n blocks received or more than k + 1 ahead of them
Ordered(z, line, n, k) ==
    \A i \in 1 .. Len(line) : line[i] # CAN =>
        /\ n <= Place(z, line[i]) /\ Place(z, line[i]) <= n + 1 + k
        /\ \A j \in i .. Len(line) : line[j] # CAN =>
            /\ Place(z, line[i]) <= Place(z, line[j])
            /\ Place(z, line[j]) <= Place(z, line[i]) + (j - i)

\* A line whose last item has place p, with none beyond
Reaches(z, line, p) ==
    /\ \A i \in 1 .. Len(line) : line[i] # CAN /\ Place(z, line[i]) <= p
    /\ line # <<>> => Place(z, line[Len(line)]) = p

\* Send is waiting for the answer to what it wrote.
Sending == spc \in {"block", "eot"}

\* What it wrote last, and the place of that
Sent == IF spc = "eot" THEN EOT ELSE FrameOf(block)
SentPlace == IF spc = "eot" THEN size + 1 ELSE block

\* The frames on the line are frames of the file.
FramesReal ==
    /\ block <= size
    /\ \A i \in 1 .. Len(toR) :
        toR[i] \in Frame => toR[i].blk <= size /\ toR[i].num = toR[i].blk % BlockMod

\* What Receive has is the first blocks of the file, and it expects the one after.
BlocksReceived ==
    /\ \A i \in 1 .. Len(out) : out[i] = i
    /\ expected = PlusOne(Len(out))
    /\ Len(out) <= size

\* Before the transfer there is nothing on the line but keys, then calls to start: one
\* of Receive's own and the timer's.
StartWaits ==
    spc = "start" =>
        /\ toR = <<>> /\ out = <<>>
        /\ \A i \in 1 .. Len(toS) : toS[i] # "ack"
        /\ rpc = "read" =>
            \E j \in 0 .. Len(toS) :
                (\A i \in 1 .. j : toS[i] = "key") /\ Len(toS) - j <= 1 + pokes

\* What is on the line was sent in order, nothing skipped, and is at most as far behind or
\* ahead of the receiver as the timer's answers allow.
LineOrdered == rpc = "read" => Ordered(size, toR, Len(out), pokes)

\* What Send wrote last is last on the line, and every read of either end is answered by
\* one write, so that only the timer adds to what is under way.
LatestLast ==
    rpc = "read" /\ Sending =>
        /\ Len(out) <= SentPlace
        /\ Reaches(size, toR, SentPlace)
        /\ Len(toS) + Len(toR) <= 1 + pokes

\* Without damage no block is skipped: the next frame is the one expected or an old one.
KeepsUp ==
    rpc = "read" /\ damage = 0 =>
        /\ toR # <<>> /\ toR[1] # CAN => Place(size, toR[1]) <= Len(out) + 1
        /\ toR = <<>> /\ Sending => SentPlace <= Len(out)

\* Send is ahead of Receive by what the timer's answers account for, also when it has
\* taken every ACK under way for the answer to another block.
LeadBounded ==
    rpc # "ok" /\ Sending => SentPlace + Acks(toS) <= Len(out) + 1 + pokes

\* What the two ends have reported
ResultsTrue ==
    /\ rpc = "ok" => Len(out) = size \/ (pokes > 0 /\ damage > 0)
    /\ spc = "ok" /\ pokes = 0 => rpc = "ok" /\ Len(out) = size

\* The numbers tell the blocks apart.
NumbersSuffice == damage = 0 \/ pokes + 2 <= BlockMod

Core ==
    /\ BlocksReceived /\ StartWaits /\ LineOrdered /\ LatestLast
    /\ KeepsUp /\ LeadBounded /\ ResultsTrue

XInv == XmodemTypeOK /\ FramesReal /\ (NumbersSuffice => Core)

\* The number after n is a number.
LEMMA PlusOneType == ASSUME NEW n \in Nat PROVE PlusOne(n) \in 0 .. BlockMod - 1
  BY Remainder, XmodemConstants DEF PlusOne

-----------------------------------------------------------------------------
(* What a step of Send amounts to *)

\* It goes on waiting for the start.
Skips == spc = "start" /\ spc' = "start" /\ block' = block /\ toR' = toR /\ Head(toS) # "C"

\* It writes the first block.
Starts ==
    /\ spc = "start" /\ Head(toS) = "C"
    /\ spc' = "block" /\ block' = 1
    /\ toR' = Append(toR, Sent')

\* It writes what it wrote before or, at an ACK, what comes next.
GoesOn ==
    /\ Sending /\ Sending'
    /\ block' \in 1 .. size
    /\ SentPlace' = SentPlace \/ (Head(toS) = "ack" /\ SentPlace' = SentPlace + 1)
    /\ toR' = Append(toR, Sent')

\* It returns.
Ends ==
    /\ spc' \in SendEnds /\ block' = block /\ toR' = toR
    /\ spc' = "ok" => spc = "eot" /\ Head(toS) = "ack"

SendStep ==
    /\ toS # <<>> /\ toS' = Tail(toS)
    /\ UNCHANGED <<size, receiver>>
    /\ Skips \/ Starts \/ GoesOn \/ Ends

\* Whatever Send reads, it does one of these.
LEMMA SendSteps == ASSUME XmodemTypeOK, FramesReal, Send PROVE SendStep
<1> USE DEF Reads, ReadsOther, End, Write, WriteEOT
<1>0. block \in Nat /\ block > 0 /\ size \in Nat /\ block <= size
  BY DEF XmodemTypeOK, FramesReal
<1>1. toS # <<>> /\ toS' = Tail(toS) /\ UNCHANGED <<size, receiver>>
  BY DEF Send, SendStart, SendBlock, SendEOT
<1>2. size' = size
  BY <1>1
<1>3. CASE SendStart
  <2>1. CASE Reads("C")
    <3>1. spc = "start" /\ spc' = "block" /\ block' = 1 /\ toR' = Append(toR, FrameOf(1))
      BY <1>3, <2>1 DEF SendStart
    <3> QED BY <1>1, <2>1, <3>1 DEF Starts, Sent, SendStep
  <2>2. CASE ~ Reads("C")
    <3>1. Skips \/ Ends
      BY <1>3, <2>2 DEF SendStart, Skips, Ends, SendEnds
    <3> QED BY <1>1, <3>1 DEF SendStep
  <2> QED BY <2>1, <2>2
<1>4. CASE SendBlock
  <2>1. CASE Reads("ack") /\ block < size
    <3>1. spc = "block" /\ spc' = "block" /\ block' = block + 1
          /\ toR' = Append(toR, FrameOf(block + 1))
      BY <1>4, <2>1 DEF SendBlock
    <3>2. GoesOn
      BY <1>0, <2>1, <3>1 DEF GoesOn, Sending, Sent, SentPlace
    <3> QED BY <1>1, <3>2 DEF SendStep
  <2>2. CASE Reads("ack") /\ ~ (block < size)
    <3>1. spc = "block" /\ spc' = "eot" /\ block' = block /\ toR' = Append(toR, EOT)
      BY <1>4, <2>2 DEF SendBlock, EOT
    <3>2. SentPlace' = SentPlace + 1 /\ Sent' = EOT
      BY <1>0, <1>2, <2>2, <3>1 DEF SentPlace, Sent, EOT
    <3>3. GoesOn
      BY <1>0, <2>2, <3>1, <3>2 DEF GoesOn, Sending
    <3> QED BY <1>1, <3>3 DEF SendStep
  <2>3. CASE ~ Reads("ack") /\ ~ Reads("can") /\ tries < MaxRetries
    <3>1. spc = "block" /\ spc' = "block" /\ block' = block
          /\ toR' = Append(toR, FrameOf(block))
      BY <1>4, <2>3 DEF SendBlock
    <3>2. GoesOn
      BY <1>0, <3>1 DEF GoesOn, Sending, Sent, SentPlace
    <3> QED BY <1>1, <3>2 DEF SendStep
  <2>4. CASE ~ Reads("ack") /\ (Reads("can") \/ ~ (tries < MaxRetries))
    <3>1. Ends
      BY <1>4, <2>4 DEF SendBlock, Ends, SendEnds
    <3> QED BY <1>1, <3>1 DEF SendStep
  <2> QED BY <2>1, <2>2, <2>3, <2>4
<1>5. CASE SendEOT
  <2>1. CASE ~ Reads("ack") /\ tries < MaxRetries
    <3>1. spc = "eot" /\ spc' = "eot" /\ block' = block /\ toR' = Append(toR, EOT)
      BY <1>5, <2>1 DEF SendEOT, EOT
    <3>2. SentPlace' = SentPlace /\ Sent' = EOT
      BY <1>2, <3>1 DEF SentPlace, Sent, EOT
    <3>3. GoesOn
      BY <1>0, <3>1, <3>2 DEF GoesOn, Sending
    <3> QED BY <1>1, <3>3 DEF SendStep
  <2>2. CASE Reads("ack") \/ ~ (tries < MaxRetries)
    <3>1. Ends
      BY <1>5, <2>2 DEF SendEOT, Ends, SendEnds
    <3> QED BY <1>1, <3>1 DEF SendStep
  <2> QED BY <2>1, <2>2
<1> QED BY <1>3, <1>4, <1>5 DEF Send

\* Send keeps to the types.
LEMMA SendType == ASSUME XmodemTypeOK, FramesReal, Send PROVE XmodemTypeOK'
<1>1. SendStep
  BY SendSteps
<1>2. Sent' \in Item
  <2>1. block' \in 1 .. MaxBlocks
    BY <1>1, XmodemConstants DEF SendStep, Skips, Starts, GoesOn, Ends, XmodemTypeOK
  <2>2. FrameOf(block') \in Item
    BY <2>1, FrameFacts DEF Item
  <2>3. Sent' = EOT \/ Sent' = FrameOf(block')
    BY DEF Sent, FrameOf, EOT, Control
  <2> QED BY <2>2, <2>3 DEF Item
<1>3. toR' \in Seq(Item)
  <2>1. toR \in Seq(Item)
    BY DEF XmodemTypeOK, Item, EOT, CAN
  <2>2. toR' = toR \/ toR' = Append(toR, Sent')
    BY <1>1 DEF SendStep, Skips, Starts, GoesOn, Ends
  <2> QED BY <1>2, <2>1, <2>2
<1>4. toS' \in Seq(Byte)
  BY <1>1 DEF SendStep, XmodemTypeOK, Byte
<1>5. tries' \in 0 .. MaxRetries
  BY XmodemConstants
     DEF Send, SendStart, SendBlock, SendEOT, Write, WriteEOT, End, XmodemTypeOK
<1>6. block' \in 1 .. MaxBlocks
  BY <1>1, XmodemConstants DEF SendStep, Skips, Starts, GoesOn, Ends, XmodemTypeOK
<1>7. spc' \in {"start", "block", "eot"} \cup SendEnds
  BY <1>1 DEF SendStep, Skips, Starts, GoesOn, Ends, Sending
<1> QED BY <1>1, <1>3, <1>4, <1>5, <1>6, <1>7
        DEF SendStep, receiver, XmodemTypeOK, Item, Byte, EOT, CAN

\* What Send writes is of the file.
LEMMA SendFrames == ASSUME XmodemTypeOK, FramesReal, Send PROVE FramesReal'
<1>1. SendStep
  BY SendSteps
<1>2. size' = size /\ size \in 1 .. MaxBlocks /\ block \in 1 .. MaxBlocks /\ block <= size
  BY <1>1 DEF SendStep, XmodemTypeOK, FramesReal
<1>3. block' \in 1 .. size
  BY <1>1, <1>2 DEF SendStep, Skips, Starts, GoesOn, Ends
<1>4. Sent' \in Frame => Sent'.blk <= size /\ Sent'.num = Sent'.blk % BlockMod
  <2>1. Sent' = EOT \/ Sent' = FrameOf(block')
    BY DEF Sent, FrameOf, EOT, Control
  <2>2. block' \in 1 .. MaxBlocks
    BY <1>2, <1>3, XmodemConstants
  <2> QED BY <1>3, <2>1, <2>2, FrameFacts
<1>5. CASE toR' = toR
  BY <1>2, <1>3, <1>5 DEF FramesReal
<1>6. CASE toR' = Append(toR, Sent')
  <2>1. toR \in Seq(Item)
    BY DEF XmodemTypeOK, Item, EOT, CAN
  <2> DEFINE x == Sent'
  <2> HIDE DEF x
  <2>2. toR' = Append(toR, x)
    BY <1>6 DEF x
  <2>3. x \in Frame => x.blk <= size /\ x.num = x.blk % BlockMod
    BY <1>4 DEF x
  <2>4. ASSUME NEW i \in 1 .. Len(toR')
        PROVE  toR'[i] = x \/ (i \in 1 .. Len(toR) /\ toR'[i] = toR[i])
    BY <2>1, <2>2
  <2> QED BY <1>2, <1>3, <2>3, <2>4 DEF FramesReal
<1> QED BY <1>1, <1>5, <1>6 DEF SendStep, Skips, Starts, GoesOn, Ends

-----------------------------------------------------------------------------
(* What a step of Receive amounts to *)

\* EOT, and CAN
GetsEOT ==
    /\ toR[1] = EOT /\ rpc' = "ok" /\ toS' = Append(toS, "ack")
    /\ out' = out /\ expected' = expected /\ damage' = damage
GetsCAN ==
    /\ toR[1] = CAN /\ rpc' = "canceled" /\ toS' = toS
    /\ out' = out /\ expected' = expected /\ damage' = damage

\* A new block, an old one, and anything else
GetsNew ==
    /\ toR[1] \in Frame /\ toR[1].num = expected /\ damage' = damage
    /\ out' = Append(out, toR[1].blk) /\ expected' = PlusOne(expected)
    /\ \/ rpc' = "read" /\ toS' = Append(toS, "ack")
       \/ rpc' = "toobig" /\ toS' = Append(Append(toS, "can"), "can")
GetsOld ==
    /\ toR[1] \in Frame /\ PlusOne(toR[1].num) = expected
    /\ damage' = damage \/ damage' = damage + 1
    /\ rpc' = "read" /\ out' = out /\ expected' = expected /\ toS' = Append(toS, "ack")
GetsBad ==
    /\ toR[1] \in Frame
    /\ \/ damage' = damage + 1
       \/ damage' = damage /\ toR[1].num # expected /\ PlusOne(toR[1].num) # expected
    /\ rpc' = "read" /\ out' = out /\ expected' = expected /\ toS' = Append(toS, "nak")

ReceiveStep ==
    /\ rpc = "read" /\ toR # <<>> /\ toR' = Tail(toR)
    /\ UNCHANGED <<sender, pokes>>
    /\ damage' \in 0 .. MaxDamage
    /\ GetsEOT \/ GetsCAN \/ GetsNew \/ GetsOld \/ GetsBad

\* Whatever Receive reads, it does one of these.
LEMMA ReceiveSteps == ASSUME XmodemTypeOK, Receive PROVE ReceiveStep
<1>1. toS \in Seq(Byte) /\ toR \in Seq(Item) /\ damage \in Nat /\ damage <= MaxDamage
  BY XmodemConstants DEF XmodemTypeOK, Byte, Item, EOT, CAN
<1>2. rpc = "read" /\ toR # <<>> /\ toR' = Tail(toR) /\ UNCHANGED <<sender, pokes>>
  BY DEF Receive, RecvControl, RecvFrame, sender
<1>3. Head(toR) = toR[1]
  BY <1>1, <1>2
<1>4. /\ toS \o <<"ack">> = Append(toS, "ack") /\ toS \o <<"nak">> = Append(toS, "nak")
      /\ toS \o <<"can", "can">> = Append(Append(toS, "can"), "can")
  BY <1>1 DEF Byte
<1>5. CASE RecvControl
  <2>1. damage' \in 0 .. MaxDamage
    BY <1>1, <1>5, XmodemConstants DEF RecvControl
  <2>2. GetsEOT \/ GetsCAN
    BY <1>3, <1>4, <1>5 DEF RecvControl, GetsEOT, GetsCAN, EOT, CAN, Answer
  <2> QED BY <1>2, <2>1, <2>2 DEF ReceiveStep
<1>6. CASE RecvFrame
  <2> DEFINE f == toR[1]
  <2>1. f \in Frame
    BY <1>3, <1>6 DEF RecvFrame
  <2>2. PICK goodHdr, goodCRC \in BOOLEAN :
          /\ damage' = IF goodHdr /\ goodCRC THEN damage ELSE damage + 1
          /\ damage' <= MaxDamage
          /\ CASE goodHdr /\ goodCRC /\ IsNew(f) -> RecvNew(f)
               [] goodHdr /\ IsRepeated(f) -> RecvRepeated
               [] OTHER -> RecvBad
    BY <1>3, <1>6 DEF RecvFrame
  <2>3. damage' \in 0 .. MaxDamage
    BY <1>1, <2>2, XmodemConstants
  <2> HIDE DEF f
  <2>4. CASE goodHdr /\ goodCRC /\ IsNew(f)
    <3>1. RecvNew(f) \/ RecvRepeated
      BY <2>2, <2>4
    <3>2. GetsNew \/ GetsOld
      BY <1>2, <1>4, <2>1, <2>2, <2>4, <3>1
         DEF RecvNew, RecvRepeated, GetsNew, GetsOld, IsNew, IsRepeated, Answer, f
    <3> QED BY <1>2, <2>3, <3>2 DEF ReceiveStep
  <2>5. CASE ~ (goodHdr /\ goodCRC /\ IsNew(f)) /\ goodHdr /\ IsRepeated(f)
    <3>1. RecvRepeated
      BY <2>2, <2>5
    <3>2. GetsOld
      BY <1>2, <1>4, <2>1, <2>2, <2>5, <3>1 DEF RecvRepeated, GetsOld, IsRepeated, Answer, f
    <3> QED BY <1>2, <2>3, <3>2 DEF ReceiveStep
  <2>6. CASE ~ (goodHdr /\ goodCRC /\ IsNew(f)) /\ ~ (goodHdr /\ IsRepeated(f))
    <3>1. RecvBad
      BY <2>2, <2>6
    <3>2. damage' = damage + 1 \/ (damage' = damage /\ ~ IsNew(f) /\ ~ IsRepeated(f))
      BY <2>2, <2>6
    <3>3. GetsBad
      BY <1>2, <1>4, <2>1, <3>1, <3>2 DEF RecvBad, GetsBad, IsNew, IsRepeated, Answer, f
    <3> QED BY <1>2, <2>3, <3>3 DEF ReceiveStep
  <2> QED BY <2>4, <2>5, <2>6
<1> QED BY <1>5, <1>6 DEF Receive

\* Receive keeps to the types, and takes a frame off the line.
LEMMA ReceiveType ==
    ASSUME XmodemTypeOK, FramesReal, Receive
    PROVE  XmodemTypeOK' /\ FramesReal'
<1>1. ReceiveStep
  BY ReceiveSteps
<1>2. toS \in Seq(Byte) /\ toR \in Seq(Item)
  BY DEF XmodemTypeOK, Byte, Item, EOT, CAN
<1>3. toR # <<>> /\ toR' = Tail(toR)
  BY <1>1 DEF ReceiveStep
<1>4. toR' \in Seq(Item) /\ Len(toR') = Len(toR) - 1
      /\ \A i \in 1 .. Len(toR') : i + 1 \in 1 .. Len(toR) /\ toR'[i] = toR[i + 1]
  BY <1>2, <1>3
<1>5. toS' \in Seq(Byte)
  <2>1. "ack" \in Byte /\ "nak" \in Byte /\ "can" \in Byte
    BY DEF Byte
  <2>2. \/ toS' = toS \/ toS' = Append(toS, "ack") \/ toS' = Append(toS, "nak")
        \/ toS' = Append(Append(toS, "can"), "can")
    BY <1>1 DEF ReceiveStep, GetsEOT, GetsCAN, GetsNew, GetsOld, GetsBad
  <2> QED BY <1>2, <2>1, <2>2
<1>6. out' \in Seq(1 .. MaxBlocks)
  <2>1. out' = out \/ (toR[1].blk \in 1 .. MaxBlocks /\ out' = Append(out, toR[1].blk))
    BY <1>1, FrameFacts DEF ReceiveStep, GetsEOT, GetsCAN, GetsNew, GetsOld, GetsBad
  <2>2. out \in Seq(1 .. MaxBlocks)
    BY DEF XmodemTypeOK
  <2>3. \A b \in 1 .. MaxBlocks : Append(out, b) \in Seq(1 .. MaxBlocks)
    BY <2>2, AppendProperties
  <2> QED BY <2>1, <2>2, <2>3
<1>7. expected' \in 0 .. BlockMod - 1
  <2>1. expected \in 0 .. BlockMod - 1 /\ expected \in Nat
    BY XmodemConstants DEF XmodemTypeOK
  <2>2. expected' = expected \/ expected' = PlusOne(expected)
    BY <1>1 DEF ReceiveStep, GetsEOT, GetsCAN, GetsNew, GetsOld, GetsBad
  <2> QED BY <2>1, <2>2, PlusOneType
<1>8. rpc' \in {"read"} \cup RecvEnds
  BY <1>1 DEF ReceiveStep, GetsEOT, GetsCAN, GetsNew, GetsOld, GetsBad, RecvEnds
<1>9. UNCHANGED <<size, spc, block, tries, pokes>> /\ damage' \in 0 .. MaxDamage
  BY <1>1 DEF ReceiveStep, sender
<1>10. XmodemTypeOK'
  BY <1>4, <1>5, <1>6, <1>7, <1>8, <1>9 DEF XmodemTypeOK, Item, Byte, EOT, CAN
<1>11. FramesReal'
  BY <1>4, <1>9 DEF FramesReal
<1> QED BY <1>10, <1>11

\* What terminals and users do keeps to the types.
LEMMA TerminalType ==
    ASSUME XmodemTypeOK, FramesReal, Terminal
    PROVE  XmodemTypeOK' /\ FramesReal'
<1>1. toS \in Seq(Byte) /\ toR \in Seq(Item)
  BY DEF XmodemTypeOK, Byte, Item, EOT, CAN
<1>2. CASE Poke
  <2>1. toS' \in Seq(Byte)
    BY <1>1, <1>2 DEF Poke, Answer, Byte
  <2>2. pokes' \in 0 .. MaxPokes
    BY <1>2, XmodemConstants DEF Poke, XmodemTypeOK
  <2>3. UNCHANGED <<size, spc, block, tries, rpc, out, expected, toR, damage>>
    BY <1>2 DEF Poke, sender
  <2> QED BY <2>1, <2>2, <2>3 DEF XmodemTypeOK, FramesReal, Byte
<1>3. CASE RecvQuits
  <2>1. toS' \in Seq(Byte)
    BY <1>1, <1>3 DEF RecvQuits, Answer, Byte
  <2>2. rpc' \in {"read"} \cup RecvEnds
    BY <1>3 DEF RecvQuits, RecvEnds
  <2>3. UNCHANGED <<size, spc, block, tries, out, expected, toR, pokes, damage>>
    BY <1>3 DEF RecvQuits, sender
  <2> QED BY <2>1, <2>2, <2>3 DEF XmodemTypeOK, FramesReal, Byte
<1>4. CASE SendQuits
  <2>1. toR' = Append(toR, CAN) /\ CAN \in Item
    BY <1>4 DEF SendQuits, CAN, Item
  <2>2. toR' \in Seq(Item)
    BY <1>1, <2>1
  <2>3. spc' \in {"start", "block", "eot"} \cup SendEnds
    BY <1>4 DEF SendQuits, SendEnds
  <2>4. UNCHANGED <<size, block, tries, rpc, out, expected, toS, pokes, damage>>
    BY <1>4 DEF SendQuits, receiver
  <2>5. XmodemTypeOK'
    BY <2>2, <2>3, <2>4 DEF XmodemTypeOK, Item, EOT, CAN
  <2>6. \A i \in 1 .. Len(toR') : toR'[i] = CAN \/ (i \in 1 .. Len(toR) /\ toR'[i] = toR[i])
    BY <1>1, <2>1
  <2>7. FramesReal'
    BY <2>4, <2>6, FrameFacts DEF FramesReal
  <2> QED BY <2>5, <2>7
<1> QED BY <1>2, <1>3, <1>4 DEF Terminal
-----------------------------------------------------------------------------
(* A line that gains an item, or loses its first *)

\* The place of an item is a number.
LEMMA PlaceNat == ASSUME NEW z \in Nat, NEW x \in Item, x # CAN PROVE Place(z, x) \in Nat
<1>1. x = EOT \/ (x # EOT /\ x.blk \in 1 .. MaxBlocks)
  BY FrameFacts DEF Item
<1> QED BY <1>1 DEF Place

\* The first item is read, and the receiver is not beyond it.
LEMMA OrderedTail ==
    ASSUME NEW z \in Nat, NEW line \in Seq(Item), line # <<>>, line[1] # CAN,
           NEW n \in Nat, NEW k \in Nat, NEW m \in Nat, n <= m, m <= Place(z, line[1]),
           Ordered(z, line, n, k)
    PROVE  Ordered(z, Tail(line), m, k)
<1> DEFINE t == Tail(line)
<1>1. Len(t) = Len(line) - 1 /\ Len(line) \in Nat
      /\ \A i \in 1 .. Len(t) : t[i] = line[i + 1] /\ i + 1 \in 1 .. Len(line)
  OBVIOUS
<1>2. \A i \in 1 .. Len(line) : line[i] \in Item
  OBVIOUS
<1>3. \A i \in 1 .. Len(line) : line[i] # CAN => Place(z, line[i]) \in Nat
  BY <1>2, PlaceNat
<1>4. 1 \in 1 .. Len(line) /\ \A i \in 1 .. Len(t) : i + 1 \in 1 .. Len(line)
  BY <1>1
<1> HIDE DEF t
<1>5. ASSUME NEW i \in 1 .. Len(t), t[i] # CAN
      PROVE  m <= Place(z, t[i]) /\ Place(z, t[i]) <= m + 1 + k
  <2>1. Place(z, line[1]) <= Place(z, line[i + 1])
    BY <1>1, <1>4, <1>5 DEF Ordered
  <2>2. Place(z, line[i + 1]) <= n + 1 + k
    BY <1>1, <1>4, <1>5 DEF Ordered
  <2> QED BY <1>1, <1>3, <1>4, <1>5, <2>1, <2>2
<1>6. ASSUME NEW i \in 1 .. Len(t), t[i] # CAN, NEW j \in i .. Len(t), t[j] # CAN
      PROVE  Place(z, t[i]) <= Place(z, t[j]) /\ Place(z, t[j]) <= Place(z, t[i]) + (j - i)
  <2>1. j \in 1 .. Len(t) /\ j + 1 \in i + 1 .. Len(line) /\ (j + 1) - (i + 1) = j - i
    BY <1>1
  <2>2. Place(z, line[i + 1]) <= Place(z, line[j + 1])
        /\ Place(z, line[j + 1]) <= Place(z, line[i + 1]) + ((j + 1) - (i + 1))
    BY <1>1, <1>4, <1>6, <2>1 DEF Ordered
  <2> QED BY <1>1, <1>6, <2>1, <2>2
<1> QED BY <1>5, <1>6 DEF Ordered, t

\* What comes next, or again, is written.
LEMMA OrderedAppend ==
    ASSUME NEW z \in Nat, NEW line \in Seq(Item), NEW n \in Nat, NEW k \in Nat,
           Ordered(z, line, n, k),
           NEW x \in Item, x # CAN, n <= Place(z, x), Place(z, x) <= n + 1 + k,
           NEW p \in Nat, Reaches(z, line, p), p <= Place(z, x), Place(z, x) <= p + 1
    PROVE  Ordered(z, Append(line, x), n, k)
<1> DEFINE t == Append(line, x)
<1> DEFINE L == Len(line)
<1>1. L \in Nat /\ Len(t) = L + 1 /\ t[L + 1] = x /\ \A i \in 1 .. L : t[i] = line[i]
  OBVIOUS
<1>2. \A i \in 1 .. Len(line) : line[i] # CAN /\ Place(z, line[i]) \in Nat
  <2>1. \A i \in 1 .. Len(line) : line[i] \in Item /\ line[i] # CAN
    BY DEF Reaches
  <2> QED BY <2>1, PlaceNat
<1>3. Place(z, x) \in Nat
  BY PlaceNat
<1>4. ASSUME NEW i \in 1 .. L
      PROVE  Place(z, line[i]) <= p /\ p <= Place(z, line[i]) + (L - i)
  <2>1. L \in i .. L /\ L \in 1 .. L /\ line # <<>>
    OBVIOUS
  <2>2. Place(z, line[L]) = p
    BY <2>1 DEF Reaches
  <2>3. Place(z, line[L]) <= Place(z, line[i]) + (L - i)
    BY <1>2, <2>1 DEF Ordered
  <2> QED BY <2>2, <2>3 DEF Reaches
<1> HIDE DEF t, L
<1>5. ASSUME NEW i \in 1 .. Len(t)
      PROVE  n <= Place(z, t[i]) /\ Place(z, t[i]) <= n + 1 + k
  <2>1. CASE i \in 1 .. L
    BY <1>1, <1>2, <2>1 DEF Ordered, L
  <2>2. CASE i = L + 1
    BY <1>1, <2>2
  <2> QED BY <1>1, <2>1, <2>2
<1>6. ASSUME NEW i \in 1 .. Len(t), NEW j \in i .. Len(t)
      PROVE  Place(z, t[i]) <= Place(z, t[j]) /\ Place(z, t[j]) <= Place(z, t[i]) + (j - i)
  <2>1. CASE j \in 1 .. L
    <3>1. i \in 1 .. L /\ j \in i .. L
      BY <1>1, <2>1
    <3> QED BY <1>1, <1>2, <2>1, <3>1 DEF Ordered, L
  <2>2. CASE j = L + 1 /\ i \in 1 .. L
    <3>1. Place(z, line[i]) <= p /\ p <= Place(z, line[i]) + (L - i)
      BY <1>4, <2>2
    <3>2. t[i] = line[i] /\ t[j] = x /\ Place(z, line[i]) \in Nat
      BY <1>1, <1>2, <2>2 DEF L
    <3> QED BY <1>1, <1>3, <2>2, <3>1, <3>2
  <2>3. CASE i = L + 1
    <3>1. j = L + 1
      BY <1>1, <2>3
    <3> QED BY <1>1, <1>3, <2>3, <3>1
  <2> QED BY <1>1, <2>1, <2>2, <2>3
<1> QED BY <1>5, <1>6 DEF Ordered, t

\* CAN is written.
LEMMA OrderedCAN ==
    ASSUME NEW z, NEW line \in Seq(Item), NEW n, NEW k, Ordered(z, line, n, k)
    PROVE  Ordered(z, Append(line, CAN), n, k)
<1> DEFINE t == Append(line, CAN)
<1>1. CAN \in Item
  BY DEF Item
<1>2. Len(line) \in Nat /\ Len(t) = Len(line) + 1
      /\ \A i \in 1 .. Len(t) : t[i] # CAN => i \in 1 .. Len(line) /\ t[i] = line[i]
  BY <1>1
<1> HIDE DEF t
<1>3. ASSUME NEW i \in 1 .. Len(t), t[i] # CAN, NEW j \in i .. Len(t), t[j] # CAN
      PROVE  i \in 1 .. Len(line) /\ j \in i .. Len(line) /\ t[i] = line[i] /\ t[j] = line[j]
  BY <1>2, <1>3
<1>4. \A i \in 1 .. Len(t) : t[i] # CAN => i \in 1 .. Len(line) /\ t[i] = line[i]
  BY <1>2
<1> QED BY <1>3, <1>4 DEF Ordered, t

\* The timer answers.
LEMMA OrderedMore ==
    ASSUME NEW z \in Nat, NEW line \in Seq(Item), NEW n \in Nat, NEW k \in Nat,
           Ordered(z, line, n, k)
    PROVE  Ordered(z, line, n, k + 1)
<1>1. \A i \in 1 .. Len(line) : line[i] # CAN => Place(z, line[i]) \in Nat
  <2>1. \A i \in 1 .. Len(line) : line[i] \in Item
    OBVIOUS
  <2> QED BY <2>1, PlaceNat
<1> QED BY <1>1 DEF Ordered

\* An item of place q is written where the last one had place p.
LEMMA ReachesAppend ==
    ASSUME NEW z \in Nat, NEW line \in Seq(Item), NEW p \in Nat, NEW q \in Nat, p <= q,
           Reaches(z, line, p), NEW x \in Item, x # CAN, Place(z, x) = q
    PROVE  Reaches(z, Append(line, x), q)
<1> DEFINE t == Append(line, x)
<1>1. Len(line) \in Nat /\ Len(t) = Len(line) + 1 /\ t[Len(t)] = x
      /\ \A i \in 1 .. Len(t) : t[i] = x \/ (i \in 1 .. Len(line) /\ t[i] = line[i])
  OBVIOUS
<1>2. \A i \in 1 .. Len(line) : line[i] # CAN /\ Place(z, line[i]) \in Nat
  <2>1. \A i \in 1 .. Len(line) : line[i] \in Item /\ line[i] # CAN
    BY DEF Reaches
  <2> QED BY <2>1, PlaceNat
<1> HIDE DEF t
<1> QED BY <1>1, <1>2 DEF Reaches, t

\* The first item is read.
LEMMA ReachesTail ==
    ASSUME NEW z \in Nat, NEW line \in Seq(Item), line # <<>>, NEW p \in Nat,
           Reaches(z, line, p)
    PROVE  Reaches(z, Tail(line), p)
<1> DEFINE t == Tail(line)
<1>1. Len(t) \in Nat /\ \A i \in 1 .. Len(t) : i + 1 \in 1 .. Len(line) /\ t[i] = line[i + 1]
  OBVIOUS
<1>2. t # <<>> => t[Len(t)] = line[Len(line)]
  OBVIOUS
<1> HIDE DEF t
<1> QED BY <1>1, <1>2 DEF Reaches, t
-----------------------------------------------------------------------------
(* The invariant holds at the start, and every step keeps it. *)

\* The two ends before the first byte
LEMMA XmodemStart == XmodemInit => XInv
<1> SUFFICES ASSUME XmodemInit PROVE XInv
  OBVIOUS
<1>1. PICK keys \in 0 .. MaxKeys : toS = Append([i \in 1 .. keys |-> "key"], "C")
  BY DEF XmodemInit
<1> DEFINE s == [i \in 1 .. keys |-> "key"]
<1>2. s \in Seq(Byte) /\ Len(s) = keys /\ keys \in Nat /\ "C" \in Byte
  BY XmodemConstants DEF Byte
<1>3. toS \in Seq(Byte) /\ Len(toS) = keys + 1
      /\ (\A i \in 1 .. keys : toS[i] = "key") /\ toS[keys + 1] = "C"
  BY <1>1, <1>2
<1>4. Len(out) = 0 /\ out \in Seq(1 .. MaxBlocks) /\ Len(toR) = 0 /\ toR \in Seq(Item)
  BY DEF XmodemInit
<1>5. PlusOne(0) \in 0 .. BlockMod - 1
  BY PlusOneType
<1>6. XmodemTypeOK
  BY <1>3, <1>4, <1>5, XmodemConstants
     DEF XmodemInit, XmodemTypeOK, RecvEnds, SendEnds, Item, Byte, EOT, CAN
<1>7. FramesReal /\ BlocksReceived
  BY <1>4 DEF XmodemInit, FramesReal, BlocksReceived
<1>8. StartWaits
  <2>1. \A i \in 1 .. Len(toS) : toS[i] # "ack"
    BY <1>2, <1>3
  <2>2. keys \in 0 .. Len(toS) /\ Len(toS) - keys <= 1 + pokes
    BY <1>2, <1>3 DEF XmodemInit
  <2> QED BY <1>3, <2>1, <2>2 DEF StartWaits, XmodemInit
<1>9. LineOrdered
  BY <1>4 DEF LineOrdered, Ordered
<1> QED BY <1>6, <1>7, <1>8, <1>9
        DEF XInv, Core, LatestLast, KeepsUp, LeadBounded, ResultsTrue, Sending, XmodemInit

\* Send reads and writes.
LEMMA SendCore ==
    ASSUME XmodemTypeOK, FramesReal, Core, Send, XmodemTypeOK'
    PROVE  Core'
<1>1. SendStep
  BY SendSteps
<1>2. /\ toS \in Seq(Byte) /\ toR \in Seq(Item) /\ size \in Nat /\ size \in 1 .. MaxBlocks
      /\ block \in Nat /\ pokes \in Nat /\ damage \in Nat /\ Len(out) \in Nat
  BY DEF XmodemTypeOK, Byte, Item, EOT, CAN
<1>3. /\ toS # <<>> /\ toS' = Tail(toS)
      /\ UNCHANGED <<size, rpc, out, expected, pokes, damage>>
  BY <1>1 DEF SendStep, receiver
<1>4. Len(toS') = Len(toS) - 1 /\ Len(toS) > 0 /\ Head(toS) = toS[1]
      /\ \A i \in 1 .. Len(toS) - 1 : toS'[i] = toS[i + 1]
  BY <1>2, <1>3
<1>5. /\ Acks(toS) \in Nat /\ Acks(toS') \in Nat
      /\ Acks(toS') = IF Head(toS) = "ack" THEN Acks(toS) - 1 ELSE Acks(toS)
  <2>1. toS' \in Seq(Byte)
    BY <1>2, <1>3
  <2> HIDE DEF Byte
  <2>2. Acks(toS) \in Nat /\ Acks(toS') \in Nat
    BY <1>2, <2>1, AcksBound
  <2> QED BY <1>2, <1>3, <2>2, AcksTail
<1>6. BlocksReceived'
  BY <1>3 DEF Core, BlocksReceived, PlusOne
<1>7. CASE Skips
  <2>1. spc = "start" /\ spc' = "start" /\ toR' = toR
    BY <1>7 DEF Skips
  <2>2. StartWaits'
    <3>1. \A i \in 1 .. Len(toS') : toS'[i] # "ack"
      BY <1>2, <1>4, <2>1 DEF Core, StartWaits
    <3>2. ASSUME rpc = "read"
          PROVE  \E j \in 0 .. Len(toS') :
                    (\A i \in 1 .. j : toS'[i] = "key") /\ Len(toS') - j <= 1 + pokes
      <4>1. PICK j \in 0 .. Len(toS) :
              (\A i \in 1 .. j : toS[i] = "key") /\ Len(toS) - j <= 1 + pokes
        BY <2>1, <3>2 DEF Core, StartWaits
      <4>2. CASE j = 0
        <5>1. Len(toS') \in Nat /\ Len(toS') - 0 <= 1 + pokes
          BY <1>2, <1>4, <4>1, <4>2
        <5>2. 0 \in 0 .. Len(toS') /\ \A i \in 1 .. 0 : toS'[i] = "key"
          BY <5>1
        <5> QED BY <5>1, <5>2
      <4>3. CASE j > 0
        <5>1. j - 1 \in 0 .. Len(toS') /\ Len(toS') - (j - 1) <= 1 + pokes
          BY <1>2, <1>4, <4>1, <4>3
        <5>2. \A i \in 1 .. j - 1 : toS'[i] = "key"
          BY <1>2, <1>4, <4>1, <4>3
        <5> QED BY <5>1, <5>2
      <4> QED BY <1>2, <4>1, <4>2, <4>3
    <3> QED BY <1>3, <2>1, <3>1, <3>2 DEF Core, StartWaits
  <2> QED BY <1>3, <1>6, <2>1, <2>2
          DEF Core, LineOrdered, LatestLast, KeepsUp, LeadBounded, ResultsTrue, Sending
<1>8. CASE Ends
  <2>1. spc' \in SendEnds /\ toR' = toR
    BY <1>8 DEF Ends
  <2>2. spc' # "start" /\ ~ Sending'
    BY <2>1 DEF SendEnds, Sending
  <2>3. ResultsTrue'
    <3> SUFFICES ASSUME spc' = "ok", pokes = 0 PROVE rpc = "ok" /\ Len(out) = size
      BY <1>3 DEF Core, ResultsTrue
    <3>1. spc = "eot" /\ Head(toS) = "ack"
      BY <1>8 DEF Ends
    <3>2. Acks(toS) >= 1
      BY <1>5, <3>1
    <3>3. rpc = "ok"
      BY <1>2, <1>5, <3>1, <3>2 DEF Core, LeadBounded, Sending, SentPlace, BlocksReceived
    <3> QED BY <1>2, <3>3 DEF Core, ResultsTrue
  <2> QED BY <1>3, <1>6, <2>1, <2>2, <2>3
          DEF Core, StartWaits, LineOrdered, LatestLast, KeepsUp, LeadBounded
<1>9. CASE Starts \/ GoesOn
  <2> DEFINE x == Sent'
  <2> DEFINE q == SentPlace'
  <2>1. /\ Sending' /\ spc' # "start" /\ spc' # "ok"
        /\ toR' = Append(toR, x) /\ block' \in 1 .. size
    BY <1>2, <1>9 DEF Starts, GoesOn, Sending
  <2>2. x \in Item /\ x # CAN /\ Place(size, x) = q /\ q \in Nat
    <3>1. block' \in 1 .. MaxBlocks /\ block' \in Nat
      BY <1>2, <2>1, XmodemConstants
    <3>2. CASE spc' = "eot"
      <4>1. x = EOT /\ q = size + 1
        BY <1>3, <3>2 DEF Sent, SentPlace, EOT, Control
      <4> QED BY <1>2, <4>1, FrameFacts DEF Place, Item
    <3>3. CASE spc' # "eot"
      <4>1. x = FrameOf(block') /\ q = block'
        BY <3>3 DEF Sent, SentPlace, FrameOf
      <4>2. x \in Frame /\ x.blk = block'
        BY <3>1, <4>1, FrameFacts
      <4> QED BY <3>1, <4>1, <4>2, FrameFacts DEF Place, Item
    <3> QED BY <3>2, <3>3
  <2> HIDE DEF x, q
  <2>3. rpc # "ok" => q + Acks(toS') <= Len(out) + 1 + pokes
    <3>1. CASE Starts
      <4>1. q = 1 /\ Acks(toS) = 0 /\ Head(toS) # "ack"
        <5>1. q = 1 /\ spc = "start" /\ Head(toS) # "ack"
          BY <3>1 DEF Starts, SentPlace, q
        <5>2. \A i \in 1 .. Len(toS) : toS[i] # "ack"
          BY <5>1 DEF Core, StartWaits
        <5> QED BY <1>2, <5>1, <5>2, AcksNone
      <4> QED BY <1>2, <1>5, <4>1
    <3>2. CASE GoesOn
      <4>1. Sending /\ (q = SentPlace \/ (Head(toS) = "ack" /\ q = SentPlace + 1))
        BY <3>2 DEF GoesOn, q
      <4>2. SentPlace \in Nat
        BY <1>2 DEF SentPlace
      <4>3. rpc # "ok" => SentPlace + Acks(toS) <= Len(out) + 1 + pokes
        BY <4>1 DEF Core, LeadBounded
      <4> QED BY <1>2, <1>5, <4>1, <4>2, <4>3
    <3> QED BY <1>9, <3>1, <3>2
  <2>4. ASSUME rpc = "read"
        PROVE  \E p \in Nat :
                 /\ Reaches(size, toR, p) /\ p <= q /\ q <= p + 1 /\ Len(out) <= q
                 /\ Len(toS) + Len(toR) <= 1 + pokes
                 /\ damage = 0 /\ toR = <<>> => p <= Len(out)
    <3>1. CASE Starts
      <4>1. q = 1 /\ spc = "start" /\ toS[1] = "C"
        BY <1>4, <3>1 DEF Starts, SentPlace, q
      <4>2. toR = <<>> /\ out = <<>>
        BY <4>1 DEF Core, StartWaits
      <4>3. Len(toR) = 0 /\ Len(out) = 0
        BY <4>2
      <4>4. PICK j \in 0 .. Len(toS) :
              (\A i \in 1 .. j : toS[i] = "key") /\ Len(toS) - j <= 1 + pokes
        BY <2>4, <4>1 DEF Core, StartWaits
      <4>5. j = 0
        BY <1>2, <1>4, <4>1, <4>4
      <4>6. Reaches(size, toR, 0)
        BY <4>2, <4>3 DEF Reaches
      <4> QED BY <1>2, <4>1, <4>3, <4>4, <4>5, <4>6
    <3>2. CASE GoesOn
      <4>1. Sending /\ (q = SentPlace \/ q = SentPlace + 1)
        BY <3>2 DEF GoesOn, q
      <4>2. SentPlace \in Nat
        BY <1>2 DEF SentPlace
      <4>3. /\ Reaches(size, toR, SentPlace) /\ Len(out) <= SentPlace
            /\ Len(toS) + Len(toR) <= 1 + pokes
            /\ damage = 0 /\ toR = <<>> => SentPlace <= Len(out)
        BY <2>4, <4>1 DEF Core, LatestLast, KeepsUp
      <4> HIDE DEF SentPlace
      <4> QED BY <1>2, <2>2, <4>1, <4>2, <4>3
    <3> QED BY <1>9, <3>1, <3>2
  <2>5. LineOrdered' /\ LatestLast' /\ KeepsUp'
    <3> SUFFICES ASSUME rpc = "read"
                 PROVE  /\ Ordered(size, toR', Len(out), pokes)
                        /\ Len(out) <= q
                        /\ Reaches(size, toR', q)
                        /\ Len(toS') + Len(toR') <= 1 + pokes
                        /\ toR' # <<>>
                        /\ damage = 0 => Place(size, toR'[1]) <= Len(out) + 1
      BY <1>3 DEF LineOrdered, LatestLast, KeepsUp, q
    <3>1. PICK p \in Nat :
                 /\ Reaches(size, toR, p) /\ p <= q /\ q <= p + 1 /\ Len(out) <= q
                 /\ Len(toS) + Len(toR) <= 1 + pokes
                 /\ damage = 0 /\ toR = <<>> => p <= Len(out)
      BY <2>4
    <3>2. q <= Len(out) + 1 + pokes
      BY <1>2, <1>5, <2>2, <2>3
    <3>3. Ordered(size, toR, Len(out), pokes)
      BY DEF Core, LineOrdered
    <3>4. Ordered(size, toR', Len(out), pokes)
      BY <1>2, <2>1, <2>2, <3>1, <3>2, <3>3, OrderedAppend
    <3>5. Reaches(size, toR', q)
      BY <1>2, <2>1, <2>2, <3>1, ReachesAppend
    <3>6. Len(toR') = Len(toR) + 1 /\ toR' # <<>> /\ Len(toR) \in Nat /\ Len(toS) \in Nat
      BY <1>2, <2>1, <2>2
    <3>7. Len(toS') + Len(toR') <= 1 + pokes
      BY <1>2, <1>4, <3>1, <3>6
    <3>8. damage = 0 => Place(size, toR'[1]) <= Len(out) + 1
      <4>1. CASE toR = <<>>
        <5>1. toR'[1] = x
          BY <2>1, <4>1
        <5> QED BY <1>2, <2>2, <3>1, <4>1, <5>1
      <4>2. CASE toR # <<>>
        <5>1. toR'[1] = toR[1] /\ 1 \in 1 .. Len(toR)
          BY <1>2, <2>1, <2>2, <4>2
        <5>2. toR[1] # CAN
          BY <3>1, <5>1 DEF Reaches
        <5> QED BY <4>2, <5>1, <5>2 DEF Core, KeepsUp
      <4> QED BY <4>1, <4>2
    <3> QED BY <3>1, <3>4, <3>5, <3>6, <3>7, <3>8
  <2>6. StartWaits' /\ LeadBounded' /\ ResultsTrue'
    BY <1>3, <2>1, <2>3 DEF Core, StartWaits, LeadBounded, ResultsTrue, q
  <2> QED BY <1>6, <2>5, <2>6 DEF Core
<1> QED BY <1>1, <1>7, <1>8, <1>9 DEF SendStep

\* Receive takes an item of the place it is at or beyond off the line, and answers.
LEMMA LineMoves ==
    ASSUME XmodemTypeOK, Core, ReceiveStep, rpc' = "read",
           toR[1] # CAN, Len(toS') = Len(toS) + 1,
           NEW m \in Nat, Len(out') = m, Len(out) <= m, m <= Place(size, toR[1]),
           damage' = 0 => damage = 0 /\ Place(size, toR[1]) <= m
    PROVE  LineOrdered' /\ LatestLast' /\ KeepsUp'
<1>1. /\ toS \in Seq(Byte) /\ toR \in Seq(Item) /\ size \in Nat /\ block \in Nat
      /\ pokes \in Nat /\ Len(out) \in Nat /\ Len(toS) \in Nat
  BY DEF XmodemTypeOK, Byte, Item, EOT, CAN
<1>2. rpc = "read" /\ toR # <<>> /\ toR' = Tail(toR) /\ UNCHANGED <<size, spc, block, pokes>>
  BY DEF ReceiveStep, sender
<1>3. /\ Len(toR) \in Nat /\ Len(toR) > 0 /\ Len(toR') = Len(toR) - 1
      /\ toR' # <<>> => 2 \in 1 .. Len(toR) /\ toR'[1] = toR[2]
      /\ toR' = <<>> => Len(toR) = 1
  <2>1. Len(toR) \in Nat /\ Len(toR) > 0
    BY <1>1, <1>2
  <2>2. Len(toR') = Len(toR) - 1 /\ toR' \in Seq(Item)
    BY <1>1, <1>2
  <2>3. toR' # <<>> => Len(toR') > 0
    BY <2>2
  <2>4. Len(toR') > 0 => toR'[1] = toR[2]
    BY <1>1, <1>2
  <2>5. toR' = <<>> => Len(toR') = 0
    OBVIOUS
  <2> QED BY <2>1, <2>2, <2>3, <2>4, <2>5
<1>4. Ordered(size, toR, Len(out), pokes)
  BY <1>2 DEF Core, LineOrdered
<1>5. Ordered(size, toR', m, pokes)
  BY <1>1, <1>2, <1>4, OrderedTail
<1>6. Place(size, toR[1]) \in Nat
  <2>1. toR[1] \in Item
    BY <1>1, <1>3
  <2> QED BY <1>1, <2>1, PlaceNat
<1> DEFINE p == SentPlace
<1>7. p' = p /\ p \in Nat /\ Sending' = Sending
  BY <1>1, <1>2 DEF SentPlace, Sending
<1> HIDE DEF p
<1>8. ASSUME Sending
      PROVE  /\ Reaches(size, toR, p) /\ Len(toS) + Len(toR) <= 1 + pokes
             /\ Reaches(size, toR', p)
             /\ Place(size, toR[1]) <= p
             /\ toR' = <<>> => p = Place(size, toR[1])
  <2>1. Reaches(size, toR, p) /\ Len(toS) + Len(toR) <= 1 + pokes
    BY <1>2, <1>8 DEF Core, LatestLast, p
  <2>2. Reaches(size, toR', p)
    BY <1>1, <1>2, <1>7, <2>1, ReachesTail
  <2>3. 1 \in 1 .. Len(toR)
    BY <1>3
  <2> QED BY <1>2, <1>3, <2>1, <2>2, <2>3 DEF Reaches
<1>9. LineOrdered'
  BY <1>2, <1>5 DEF LineOrdered
<1>10. LatestLast'
  <2> SUFFICES ASSUME Sending
               PROVE  m <= p /\ Reaches(size, toR', p) /\ Len(toS') + Len(toR') <= 1 + pokes
    BY <1>2, <1>7 DEF LatestLast, p
  <2>1. m <= p
    BY <1>6, <1>7, <1>8
  <2>2. Len(toS') + Len(toR') <= 1 + pokes
    BY <1>1, <1>3, <1>8
  <2> QED BY <1>8, <2>1, <2>2
<1>11. KeepsUp'
  <2> SUFFICES ASSUME damage' = 0
               PROVE  /\ toR' # <<>> /\ toR'[1] # CAN => Place(size, toR'[1]) <= m + 1
                      /\ toR' = <<>> /\ Sending => p <= m
    BY <1>2, <1>7 DEF KeepsUp, p
  <2>1. ASSUME toR' # <<>>, toR'[1] # CAN PROVE Place(size, toR'[1]) <= m + 1
    <3>1. toR[2] # CAN /\ 1 \in 1 .. Len(toR) /\ 2 \in 1 .. Len(toR)
      BY <1>3, <2>1
    <3>2. Place(size, toR[2]) <= Place(size, toR[1]) + (2 - 1)
      BY <1>4, <3>1 DEF Ordered
    <3>3. Place(size, toR[2]) \in Nat
      <4>1. toR[2] \in Item
        BY <1>1, <3>1
      <4> QED BY <1>1, <3>1, <4>1, PlaceNat
    <3> QED BY <1>3, <1>6, <2>1, <3>2, <3>3
  <2> QED BY <1>8, <2>1
<1> QED BY <1>9, <1>10, <1>11

\* Receive reads and answers.  The number of a frame tells whether it is the block expected
\* or the one before it, since the frame is of neither a block behind these nor one a whole
\* round of numbers ahead.
LEMMA ReceiveCore ==
    ASSUME XmodemTypeOK, FramesReal, Core, Receive, XmodemTypeOK', NumbersSuffice'
    PROVE  Core'
<1>1. ReceiveStep
  BY ReceiveSteps
<1> DEFINE n == Len(out)
<1>2. /\ toS \in Seq(Byte) /\ toR \in Seq(Item) /\ out \in Seq(1 .. MaxBlocks)
      /\ size \in Nat /\ block \in Nat
      /\ pokes \in Nat /\ damage \in Nat /\ n \in Nat /\ Len(toS) \in Nat /\ Len(toR) \in Nat
      /\ BlockMod \in Nat /\ BlockMod > 2
  BY XmodemConstants DEF XmodemTypeOK, Byte, Item, EOT, CAN
<1>3. /\ rpc = "read" /\ toR # <<>> /\ toR' = Tail(toR)
      /\ UNCHANGED <<size, spc, block, pokes>>
  BY <1>1 DEF ReceiveStep, sender
<1>4. 1 \in 1 .. Len(toR) /\ toR[1] \in Item
  BY <1>2, <1>3
<1>5. spc' # "start" /\ SentPlace' = SentPlace /\ SentPlace \in Nat /\ Sending' = Sending
  BY <1>2, <1>3 DEF Core, StartWaits, SentPlace, Sending
<1>6. /\ \A i \in 1 .. n : out[i] = i
      /\ expected = PlusOne(n) /\ n <= size
  BY DEF Core, BlocksReceived
<1>7. ~ (spc = "ok" /\ pokes = 0)
  BY <1>3 DEF Core, ResultsTrue
<1>8. Acks(toS) \in Nat /\ Acks(toS) <= Len(toS)
      /\ Acks(Append(toS, "ack")) = Acks(toS) + 1
      /\ Acks(Append(toS, "nak")) = Acks(toS)
      /\ Acks(Append(Append(toS, "can"), "can")) = Acks(toS)
  <2>1. "ack" \in Byte /\ "nak" \in Byte /\ "can" \in Byte /\ Append(toS, "can") \in Seq(Byte)
    BY <1>2 DEF Byte
  <2>2. Acks(toS) \in Nat /\ Acks(toS) <= Len(toS)
    BY <1>2, AcksBound
  <2>3. Acks(Append(toS, "ack")) = Acks(toS) + 1 /\ Acks(Append(toS, "nak")) = Acks(toS)
    BY <1>2, <2>1, AcksAppend
  <2>4. Acks(Append(toS, "can")) = Acks(toS)
    BY <1>2, <2>1, AcksAppend
  <2>5. Acks(Append(Append(toS, "can"), "can")) = Acks(Append(toS, "can"))
    BY <2>1, AcksAppend
  <2> QED BY <2>2, <2>3, <2>4, <2>5
<1>9. Sending => SentPlace + Acks(toS) <= n + 1 + pokes
  BY <1>3 DEF Core, LeadBounded
<1>10. Ordered(size, toR, n, pokes)
  BY <1>3 DEF Core, LineOrdered
<1>11. CASE GetsEOT
  <2>1. toR[1] = EOT /\ rpc' = "ok" /\ out' = out /\ expected' = expected /\ damage' = damage
    BY <1>11 DEF GetsEOT
  <2>2. toR[1] # CAN /\ Place(size, toR[1]) = size + 1
    BY <2>1, FrameFacts DEF Place
  <2>3. size + 1 <= n + 1 + pokes
    BY <1>4, <1>10, <2>2 DEF Ordered
  <2>4. damage = 0 => size + 1 <= n + 1
    BY <1>3, <2>2 DEF Core, KeepsUp
  <2>5. n = size \/ (pokes > 0 /\ damage > 0)
    BY <1>2, <1>6, <2>3, <2>4
  <2>6. ResultsTrue'
    BY <1>3, <1>7, <2>1, <2>5 DEF ResultsTrue
  <2>7. BlocksReceived'
    BY <1>3, <2>1 DEF Core, BlocksReceived, PlusOne
  <2> QED BY <1>5, <2>1, <2>6, <2>7
          DEF Core, StartWaits, LineOrdered, LatestLast, KeepsUp, LeadBounded
<1>12. CASE GetsCAN
  <2>1. /\ rpc' = "canceled" /\ out' = out /\ expected' = expected
        /\ damage' = damage /\ toS' = toS
    BY <1>12 DEF GetsCAN
  <2>2. ResultsTrue' /\ LeadBounded'
    BY <1>3, <1>5, <1>7, <1>9, <2>1 DEF ResultsTrue, LeadBounded
  <2>3. BlocksReceived'
    BY <1>3, <2>1 DEF Core, BlocksReceived, PlusOne
  <2> QED BY <1>5, <2>1, <2>2, <2>3 DEF Core, StartWaits, LineOrdered, LatestLast, KeepsUp
<1>13. CASE GetsNew \/ GetsOld \/ GetsBad
  <2> DEFINE k == toR[1].blk
  <2>1. toR[1] \in Frame
    BY <1>13 DEF GetsNew, GetsOld, GetsBad
  <2>2. toR[1] # CAN /\ Place(size, toR[1]) = k /\ k \in Nat
    BY <2>1, FrameFacts DEF Place
  <2>3. k <= size /\ toR[1].num = k % BlockMod
    BY <1>4, <2>1 DEF FramesReal
  <2>4. n <= k /\ k <= n + 1 + pokes
    BY <1>4, <1>10, <2>2 DEF Ordered
  <2>5. damage = 0 => k <= n + 1
    BY <1>3, <2>2 DEF Core, KeepsUp
  <2>6. damage' = damage \/ damage' = damage + 1
    BY <1>13 DEF GetsNew, GetsOld, GetsBad
  <2> HIDE DEF k
  <2>7. k < n + BlockMod
    BY <1>2, <1>3, <2>2, <2>4, <2>5, <2>6 DEF NumbersSuffice
  <2>8. toR[1].num = expected <=> k = n + 1
    <3>1. expected = (n + 1) % BlockMod
      BY <1>6 DEF PlusOne
    <3>2. n + 1 \in Nat /\ k < (n + 1) + BlockMod /\ n + 1 < k + BlockMod
      BY <1>2, <2>2, <2>4, <2>7
    <3>3. k % BlockMod = (n + 1) % BlockMod => k = n + 1
      BY <1>2, <2>2, <3>2, SameRemainder
    <3> QED BY <2>3, <3>1, <3>3
  <2>9. PlusOne(toR[1].num) = expected <=> k = n
    <3>1. PlusOne(toR[1].num) = (k + 1) % BlockMod
      <4>1. BlockMod > 1
        BY <1>2
      <4>2. ((k % BlockMod) + 1) % BlockMod = (k + 1) % BlockMod
        BY <1>2, <2>2, <4>1, NextRemainder
      <4> QED BY <2>3, <4>2 DEF PlusOne
    <3>2. expected = (n + 1) % BlockMod
      BY <1>6 DEF PlusOne
    <3>3. /\ n + 1 \in Nat /\ k + 1 \in Nat
          /\ k + 1 < (n + 1) + BlockMod /\ n + 1 < (k + 1) + BlockMod
      BY <1>2, <2>2, <2>4, <2>7
    <3>4. (k + 1) % BlockMod = (n + 1) % BlockMod => k + 1 = n + 1
      BY <1>2, <3>3, SameRemainder
    <3> QED BY <1>2, <2>2, <3>1, <3>2, <3>4
  <2>10. CASE GetsNew
    <3>1. /\ k = n + 1 /\ out' = Append(out, n + 1)
          /\ expected' = PlusOne(expected) /\ damage' = damage
      BY <2>8, <2>10 DEF GetsNew, k
    <3>2. n + 1 \in 1 .. MaxBlocks
      BY <2>1, <3>1, FrameFacts DEF k
    <3>3. Len(out') = n + 1 /\ \A i \in 1 .. n + 1 : out'[i] = i
      BY <1>2, <1>6, <3>1, <3>2
    <3>4. BlocksReceived'
      <4>1. PlusOne(PlusOne(n)) = PlusOne(n + 1)
        <5>1. BlockMod > 1 /\ n + 1 \in Nat
          BY <1>2
        <5>2. (((n + 1) % BlockMod) + 1) % BlockMod = ((n + 1) + 1) % BlockMod
          BY <1>2, <5>1, NextRemainder
        <5> QED BY <5>2 DEF PlusOne
      <4>2. expected' = PlusOne(n + 1)
        BY <1>6, <3>1, <4>1
      <4>3. n + 1 <= size
        BY <2>3, <3>1
      <4> QED BY <1>3, <3>3, <4>2, <4>3 DEF BlocksReceived, PlusOne
    <3>5. rpc' \in {"read", "toobig"} /\ Acks(toS') <= Acks(toS) + 1 /\ Acks(toS') \in Nat
      <4>1. Acks(toS') = Acks(toS) + 1 \/ Acks(toS') = Acks(toS)
        BY <1>8, <2>10 DEF GetsNew
      <4>2. rpc' \in {"read", "toobig"}
        BY <2>10 DEF GetsNew
      <4> QED BY <1>8, <4>1, <4>2
    <3>6. LeadBounded'
      BY <1>2, <1>3, <1>5, <1>8, <1>9, <3>3, <3>5 DEF LeadBounded
    <3>7. ResultsTrue'
      BY <1>3, <1>7, <3>5 DEF ResultsTrue
    <3>8. ASSUME rpc' = "read" PROVE LineOrdered' /\ LatestLast' /\ KeepsUp'
      <4>1. toS' = Append(toS, "ack")
        BY <2>10, <3>8 DEF GetsNew
      <4>2. Len(toS') = Len(toS) + 1
        BY <1>2, <4>1 DEF Byte
      <4> QED BY <1>1, <1>2, <2>2, <3>1, <3>3, <3>8, <4>2, LineMoves
    <3>9. rpc' # "read" => LineOrdered' /\ LatestLast' /\ KeepsUp'
      BY DEF LineOrdered, LatestLast, KeepsUp
    <3> QED BY <1>5, <3>4, <3>6, <3>7, <3>8, <3>9 DEF Core, StartWaits
  <2>11. CASE GetsOld
    <3>1. /\ k = n /\ out' = out /\ expected' = expected
          /\ rpc' = "read" /\ toS' = Append(toS, "ack")
      BY <2>9, <2>11 DEF GetsOld
    <3>2. BlocksReceived'
      BY <1>3, <3>1 DEF Core, BlocksReceived, PlusOne
    <3>3. Len(toS') = Len(toS) + 1
      BY <1>2, <3>1 DEF Byte
    <3>4. damage' = 0 => damage = 0
      BY <1>2, <2>6
    <3>5. LineOrdered' /\ LatestLast' /\ KeepsUp'
      BY <1>1, <1>2, <2>2, <3>1, <3>3, <3>4, LineMoves
    <3>6. LeadBounded'
      <4> SUFFICES ASSUME Sending PROVE SentPlace + (Acks(toS) + 1) <= n + 1 + pokes
        BY <1>3, <1>5, <1>8, <3>1 DEF LeadBounded
      <4>1. Reaches(size, toR, SentPlace) /\ Len(toS) + Len(toR) <= 1 + pokes
        BY <1>3 DEF Core, LatestLast
      <4>2. Len(toR) \in 1 .. Len(toR)
        BY <1>2, <1>4
      <4>3. Place(size, toR[Len(toR)]) = SentPlace /\ toR[Len(toR)] # CAN
        BY <1>3, <4>1, <4>2 DEF Reaches
      <4>4. Place(size, toR[Len(toR)]) <= Place(size, toR[1]) + (Len(toR) - 1)
        BY <1>4, <1>10, <2>2, <4>2, <4>3 DEF Ordered
      <4>5. SentPlace <= n + (Len(toR) - 1)
        BY <2>2, <3>1, <4>3, <4>4
      <4> HIDE DEF SentPlace
      <4> QED BY <1>2, <1>5, <1>8, <4>1, <4>5
    <3>7. ResultsTrue'
      BY <1>3, <1>7, <3>1 DEF ResultsTrue
    <3> QED BY <1>5, <3>2, <3>5, <3>6, <3>7 DEF Core, StartWaits
  <2>12. CASE GetsBad
    <3>1. out' = out /\ expected' = expected /\ rpc' = "read" /\ toS' = Append(toS, "nak")
      BY <2>12 DEF GetsBad
    <3>2. BlocksReceived'
      BY <1>3, <3>1 DEF Core, BlocksReceived, PlusOne
    <3>3. Len(toS') = Len(toS) + 1
      BY <1>2, <3>1 DEF Byte
    <3>4. damage' # 0
      <4>1. CASE damage' = damage + 1
        BY <1>2, <4>1
      <4>2. CASE damage' = damage /\ toR[1].num # expected /\ PlusOne(toR[1].num) # expected
        BY <1>2, <2>2, <2>4, <2>5, <2>8, <2>9, <4>2
      <4> QED BY <2>12, <4>1, <4>2 DEF GetsBad
    <3>5. LineOrdered' /\ LatestLast' /\ KeepsUp'
      BY <1>1, <1>2, <2>2, <2>4, <3>1, <3>3, <3>4, LineMoves
    <3>6. LeadBounded' /\ ResultsTrue'
      BY <1>3, <1>5, <1>7, <1>8, <1>9, <3>1 DEF LeadBounded, ResultsTrue
    <3> QED BY <1>5, <3>2, <3>5, <3>6 DEF Core, StartWaits
  <2> QED BY <1>13, <2>10, <2>11, <2>12
<1> QED BY <1>1, <1>11, <1>12, <1>13 DEF ReceiveStep

\* The timer answers, and users give up.
LEMMA TerminalCore ==
    ASSUME XmodemTypeOK, FramesReal, Core, Terminal
    PROVE  Core'
<1>1. /\ toS \in Seq(Byte) /\ toR \in Seq(Item) /\ size \in Nat /\ block \in Nat
      /\ pokes \in Nat /\ Len(out) \in Nat /\ Len(toS) \in Nat /\ Len(toR) \in Nat
  BY DEF XmodemTypeOK, Byte, Item, EOT, CAN
<1>2. Acks(toS) \in Nat
  BY <1>1, AcksBound
<1>3. ASSUME NEW b \in Byte, b # "ack"
      PROVE  /\ Acks(Append(toS, b)) = Acks(toS) /\ Len(Append(toS, b)) = Len(toS) + 1
             /\ \A i \in 1 .. Len(toS) : Append(toS, b)[i] = toS[i]
             /\ spc = "start" => \A i \in 1 .. Len(Append(toS, b)) : Append(toS, b)[i] # "ack"
  <2>1. Acks(Append(toS, b)) = Acks(toS)
    BY <1>1, <1>3, AcksAppend
  <2>2. /\ Len(Append(toS, b)) = Len(toS) + 1
        /\ \A i \in 1 .. Len(toS) : Append(toS, b)[i] = toS[i]
    BY <1>1
  <2>3. \A i \in 1 .. Len(Append(toS, b)) :
            Append(toS, b)[i] = b \/ (i \in 1 .. Len(toS) /\ Append(toS, b)[i] = toS[i])
    BY <1>1
  <2>4. spc = "start" => \A i \in 1 .. Len(toS) : toS[i] # "ack"
    BY DEF Core, StartWaits
  <2> QED BY <1>3, <2>1, <2>2, <2>3, <2>4
<1>4. CASE Poke
  <2>1. /\ rpc = "read" /\ pokes' = pokes + 1
        /\ UNCHANGED <<size, spc, block, tries, rpc, out, expected, toR, damage>>
    BY <1>4 DEF Poke, sender
  <2>2. PICK b \in Byte : b # "ack" /\ toS' = Append(toS, b)
    <3>1. \A b \in Byte : toS \o <<b>> = Append(toS, b)
      BY <1>1
    <3>2. "C" \in Byte /\ "nak" \in Byte
      BY DEF Byte
    <3>3. toS' = toS \o <<"C">> \/ toS' = toS \o <<"nak">>
      BY <1>4 DEF Poke, Answer
    <3> QED BY <3>1, <3>2, <3>3
  <2>3. /\ Acks(toS') = Acks(toS) /\ Len(toS') = Len(toS) + 1
        /\ \A i \in 1 .. Len(toS) : toS'[i] = toS[i]
        /\ spc = "start" => \A i \in 1 .. Len(toS') : toS'[i] # "ack"
    BY <1>3, <2>2
  <2>4. StartWaits'
    <3> SUFFICES ASSUME spc = "start"
                 PROVE  \E j \in 0 .. Len(toS') :
                          (\A i \in 1 .. j : toS'[i] = "key") /\ Len(toS') - j <= 1 + pokes'
      BY <2>1, <2>3 DEF Core, StartWaits
    <3>1. PICK j \in 0 .. Len(toS) :
            (\A i \in 1 .. j : toS[i] = "key") /\ Len(toS) - j <= 1 + pokes
      BY <2>1 DEF Core, StartWaits
    <3>2. j \in 0 .. Len(toS') /\ Len(toS') - j <= 1 + pokes'
      BY <1>1, <2>1, <2>3, <3>1
    <3>3. \A i \in 1 .. j : toS'[i] = "key"
      BY <1>1, <2>3, <3>1
    <3> QED BY <3>2, <3>3
  <2>5. LineOrdered'
    BY <1>1, <2>1, OrderedMore DEF Core, LineOrdered
  <2>6. SentPlace' = SentPlace /\ SentPlace \in Nat /\ Sending' = Sending
    BY <1>1, <2>1 DEF SentPlace, Sending
  <2>7. LatestLast'
    <3>1. Sending => /\ Len(out) <= SentPlace /\ Reaches(size, toR, SentPlace)
                     /\ Len(toS) + Len(toR) <= 1 + pokes
      BY <2>1 DEF Core, LatestLast
    <3>2. Sending => Len(toS') + Len(toR') <= 1 + pokes'
      BY <1>1, <2>1, <2>3, <3>1
    <3> QED BY <2>1, <2>6, <3>1, <3>2 DEF LatestLast
  <2>8. KeepsUp'
    BY <2>1, <2>6 DEF Core, KeepsUp
  <2>9. LeadBounded'
    <3>1. Sending => SentPlace + Acks(toS) <= Len(out) + 1 + pokes
      BY <2>1 DEF Core, LeadBounded
    <3> HIDE DEF SentPlace
    <3>2. Sending => SentPlace + Acks(toS) <= Len(out) + 1 + (pokes + 1)
      BY <1>1, <1>2, <2>6, <3>1
    <3> QED BY <2>1, <2>3, <2>6, <3>2 DEF LeadBounded
  <2>10. ResultsTrue' /\ BlocksReceived'
    BY <1>1, <2>1 DEF Core, ResultsTrue, BlocksReceived, PlusOne
  <2> QED BY <2>4, <2>5, <2>7, <2>8, <2>9, <2>10 DEF Core
<1>5. CASE RecvQuits
  <2>1. /\ rpc = "read" /\ rpc' = "canceled"
        /\ UNCHANGED <<size, spc, block, tries, out, expected, toR, pokes, damage>>
    BY <1>5 DEF RecvQuits, sender
  <2>2. "can" \in Byte /\ toS' = Append(toS, "can")
    BY <1>1, <1>5 DEF RecvQuits, Answer, Byte
  <2>3. /\ Acks(toS') = Acks(toS)
        /\ spc = "start" => \A i \in 1 .. Len(toS') : toS'[i] # "ack"
    BY <1>3, <2>2
  <2>4. StartWaits'
    BY <2>1, <2>3 DEF Core, StartWaits
  <2>5. LeadBounded'
    BY <2>1, <2>3 DEF Core, LeadBounded, SentPlace, Sending
  <2>6. ResultsTrue' /\ BlocksReceived'
    BY <2>1 DEF Core, ResultsTrue, BlocksReceived, PlusOne
  <2> QED BY <2>1, <2>4, <2>5, <2>6 DEF Core, LineOrdered, LatestLast, KeepsUp
<1>6. CASE SendQuits
  <2>1. /\ spc' = "canceled" /\ toR' = Append(toR, CAN)
        /\ UNCHANGED <<size, block, tries, rpc, out, expected, pokes, damage, toS>>
    BY <1>6 DEF SendQuits, receiver, CAN
  <2>2. ~ Sending' /\ spc' # "start"
    BY <2>1 DEF Sending
  <2>3. LineOrdered'
    BY <1>1, <2>1, OrderedCAN DEF Core, LineOrdered
  <2>4. KeepsUp'
    <3>1. CASE toR = <<>>
      <4>1. toR'[1] = CAN
        BY <2>1, <3>1
      <4> QED BY <2>2, <4>1 DEF KeepsUp
    <3>2. CASE toR # <<>>
      <4>1. toR'[1] = toR[1]
        BY <1>1, <2>1, <3>2
      <4> QED BY <2>1, <2>2, <3>2, <4>1 DEF Core, KeepsUp
    <3> QED BY <3>1, <3>2
  <2>5. ResultsTrue' /\ BlocksReceived'
    BY <2>1 DEF Core, ResultsTrue, BlocksReceived, PlusOne
  <2> QED BY <2>2, <2>3, <2>4, <2>5 DEF Core, StartWaits, LatestLast, LeadBounded
<1> QED BY <1>4, <1>5, <1>6 DEF Terminal

\* Once the numbers no longer suffice, they never do again.
LEMMA SufficedBefore ==
    ASSUME XmodemTypeOK, XmodemNext, NumbersSuffice' PROVE NumbersSuffice
<1>1. damage \in Nat /\ pokes \in Nat /\ BlockMod \in Nat
  BY XmodemConstants DEF XmodemTypeOK
<1>2. CASE Send
  BY <1>2 DEF Send, SendStart, SendBlock, SendEOT, receiver, NumbersSuffice
<1>3. CASE Receive
  <2>1. ReceiveStep
    BY <1>3, ReceiveSteps
  <2>2. pokes' = pokes /\ (damage' = damage \/ damage' = damage + 1)
    BY <2>1 DEF ReceiveStep, GetsEOT, GetsCAN, GetsNew, GetsOld, GetsBad
  <2> QED BY <1>1, <2>2 DEF NumbersSuffice
<1>4. CASE Terminal
  <2>1. damage' = damage /\ (pokes' = pokes \/ pokes' = pokes + 1)
    BY <1>4 DEF Terminal, Poke, RecvQuits, SendQuits, receiver
  <2> QED BY <1>1, <2>1 DEF NumbersSuffice
<1> QED BY <1>2, <1>3, <1>4 DEF XmodemNext

\* Every step keeps the invariant.
LEMMA XmodemStep == ASSUME XInv, [XmodemNext]_xmodemVars PROVE XInv'
<1>1. CASE UNCHANGED xmodemVars
  <2>1. XmodemTypeOK' /\ FramesReal'
    BY <1>1 DEF xmodemVars, XInv, XmodemTypeOK, FramesReal
  <2>2. BlocksReceived = BlocksReceived' /\ StartWaits = StartWaits'
    BY <1>1 DEF xmodemVars, BlocksReceived, StartWaits, PlusOne
  <2>3. LineOrdered = LineOrdered' /\ LatestLast = LatestLast' /\ KeepsUp = KeepsUp'
    BY <1>1 DEF xmodemVars, LineOrdered, LatestLast, KeepsUp, Sending, SentPlace
  <2>4. LeadBounded = LeadBounded' /\ ResultsTrue = ResultsTrue'
    BY <1>1 DEF xmodemVars, LeadBounded, ResultsTrue, Sending, SentPlace
  <2>5. NumbersSuffice = NumbersSuffice'
    BY <1>1 DEF xmodemVars, NumbersSuffice
  <2> QED BY <2>1, <2>2, <2>3, <2>4, <2>5 DEF XInv, Core
<1>2. CASE XmodemNext
  <2>1. XmodemTypeOK /\ FramesReal /\ (NumbersSuffice => Core)
    BY DEF XInv
  <2>2. XmodemTypeOK' /\ FramesReal'
    BY <1>2, <2>1, SendType, SendFrames, ReceiveType, TerminalType DEF XmodemNext
  <2>3. ASSUME NumbersSuffice' PROVE Core'
    <3>1. Core
      BY <1>2, <2>1, <2>3, SufficedBefore
    <3> QED BY <1>2, <2>1, <2>2, <2>3, <3>1, SendCore, ReceiveCore, TerminalCore DEF XmodemNext
  <2> QED BY <2>2, <2>3 DEF XInv
<1> QED BY <1>1, <1>2

\* The invariant of a transfer: where the frames and answers on the line stand to the two
\* ends (xmodem.go, Send and Receive).
THEOREM XmodemInvariant == XmodemSpec => []XInv
<1>1. XmodemInit => XInv
  BY XmodemStart
<1>2. XInv /\ [XmodemNext]_xmodemVars => XInv'
  BY XmodemStep
<1> QED BY <1>1, <1>2, PTL DEF XmodemSpec

\* The variables keep their types; above all, block numbers stay bytes.
THEOREM XmodemTypeCorrect == XmodemSpec => []XmodemTypeOK
<1>1. XInv => XmodemTypeOK
  BY DEF XInv
<1> QED BY <1>1, XmodemInvariant, PTL

\* What arrives is what was sent: for a file of any length, any number of retries and
\* damaged frames, and any behaviour of the timer at the receiving end.
THEOREM TransferFaithfulAlways == XmodemSpec => []TransferFaithful
<1>1. XInv => TransferFaithful
  <2> SUFFICES ASSUME XInv PROVE TransferFaithful
    OBVIOUS
  <2>1. pokes \in Nat /\ damage \in Nat /\ BlockMod > 2 /\ BlockMod \in Nat
    BY XmodemConstants DEF XInv, XmodemTypeOK
  <2>2. NumbersSuffice => BlocksReceived /\ ResultsTrue
    BY DEF XInv, Core
  <2>3. ~ NumbersSuffice => pokes > 0 /\ damage > 0
    BY <2>1 DEF NumbersSuffice
  <2>4. NumbersSuffice => TransferFaithful
    BY <2>2 DEF BlocksReceived, ResultsTrue, TransferFaithful
  <2>5. ~ NumbersSuffice => TransferFaithful
    BY <2>1, <2>3 DEF NumbersSuffice, TransferFaithful
  <2> QED BY <2>4, <2>5
<1> QED BY <1>1, XmodemInvariant, PTL
=============================================================================
