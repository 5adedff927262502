---------------------------- MODULE ContentProofs ---------------------------
(***************************************************************************)
(* Proofs about Content: the board and private mail, for any users,        *)
(* sessions and number of rows.                                            *)
(***************************************************************************)
EXTENDS Content, FiniteSetTheorems, WellFoundedInduction, SequenceTheorems, TLAPS

-----------------------------------------------------------------------------
(* Numbers: the largest of a set, and the k-th smallest. *)

\* A set of subsets of a finite set has a member with none of its proper subsets in
\* it: induction over a finite set, by smallest counterexample.
LEMMA SmallestSet ==
  ASSUME NEW S, IsFiniteSet(S), NEW T, T \subseteq SUBSET S, T # {}
  PROVE  \E s \in T : \A t \in T : t \subseteq s => t = s
<1>1. T \subseteq FiniteSubsetsOf(S)
  BY FS_FiniteSubsetsOfFinite
<1>2. \E s \in T : \A t \in T : ~ (<<t, s>> \in StrictSubsetOrdering(S))
  BY <1>1, FS_StrictSubsetOrderingWellFounded, WFMin
<1> QED  BY <1>2 DEF StrictSubsetOrdering

\* A finite set of naturals has a largest member.
LEMMA HasMax ==
  ASSUME NEW S, IsFiniteSet(S), S \subseteq Nat, S # {}
  PROVE  \E x \in S : \A y \in S : x >= y
<1> DEFINE T == {t \in SUBSET S : t # {} /\ ~ \E x \in t : \A y \in t : x >= y}
<1> SUFFICES ASSUME T # {} PROVE FALSE
  OBVIOUS
<1>1. PICK t \in T : \A u \in T : u \subseteq t => u = t
  <2>1. T \subseteq SUBSET S
    OBVIOUS
  <2> HIDE DEF T
  <2> QED  BY ONLY IsFiniteSet(S), T # {}, <2>1, SmallestSet
<1>2. t \subseteq S /\ t # {} /\ ~ \E x \in t : \A y \in t : x >= y
  OBVIOUS
<1>3. PICK a \in t : TRUE
  BY <1>2
<1>4. t \ {a} # {}
  BY <1>2, <1>3
<1>5. t \ {a} \in SUBSET S /\ t \ {a} \notin T
  BY <1>1, <1>2, <1>3
<1>6. PICK x \in t \ {a} : \A y \in t \ {a} : x >= y
  BY <1>4, <1>5
<1>7. CASE x >= a
  BY <1>2, <1>6, <1>7
<1>8. CASE ~ x >= a
  <2>1. x \in Nat /\ a \in Nat /\ a >= x
    BY <1>2, <1>8
  <2>2. \A y \in t : a >= y
    BY <1>2, <1>6, <2>1
  <2> QED  BY <1>2, <2>2
<1> QED  BY <1>7, <1>8

\* ... which is what Max chooses.
LEMMA MaxIn ==
  ASSUME NEW S, IsFiniteSet(S), S \subseteq Nat, S # {}
  PROVE  Max(S) \in S /\ \A y \in S : Max(S) >= y
BY HasMax DEF Max

\* The larger of two
LEMMA MaxOfTwo ==
  ASSUME NEW a \in Nat, NEW b \in Nat
  PROVE  Max({a, b}) \in {a, b} /\ Max({a, b}) >= a /\ Max({a, b}) >= b
<1>1. IsFiniteSet({a} \cup {b})
  BY FS_AddElement, FS_Singleton
<1>2. {a, b} = {a} \cup {b}
  OBVIOUS
<1>3. IsFiniteSet({a, b}) /\ {a, b} \subseteq Nat /\ {a, b} # {}
  BY <1>1, <1>2
<1> QED  BY <1>3, MaxIn

\* There is a k-th smallest member of a set with k members or more.
LEMMA NthIn ==
  ASSUME NEW S, IsFiniteSet(S), S \subseteq Nat, NEW k \in 1 .. Cardinality(S)
  PROVE  Nth(S, k) \in S
<1> DEFINE Has(t, j) == \E n \in t : Cardinality({m \in t : m <= n}) = j
           T == {t \in SUBSET S : \E j \in 1 .. Cardinality(t) : ~ Has(t, j)}
<1> SUFFICES Has(S, k)
  BY DEF Nth
<1> SUFFICES ASSUME T # {} PROVE FALSE
  OBVIOUS
<1>1. PICK t \in T : \A u \in T : u \subseteq t => u = t
  <2>1. T \subseteq SUBSET S
    OBVIOUS
  <2> HIDE DEF T
  <2> QED  BY ONLY IsFiniteSet(S), T # {}, <2>1, SmallestSet
<1>2. t \subseteq S /\ IsFiniteSet(t) /\ t \subseteq Nat
  BY FS_Subset
<1>3. PICK j \in 1 .. Cardinality(t) : ~ Has(t, j)
  OBVIOUS
<1>4. t # {} /\ Cardinality(t) \in Nat
  BY <1>2, <1>3, FS_EmptySet, FS_CardinalityType
<1>5. PICK x \in t : \A y \in t : x >= y
  BY <1>2, <1>4, HasMax
<1>6. {m \in t : m <= x} = t
  BY <1>2, <1>5
<1>7. j # Cardinality(t)
  BY <1>3, <1>5, <1>6
<1> DEFINE u == t \ {x}
<1>8. IsFiniteSet(u) /\ Cardinality(u) = Cardinality(t) - 1
  BY <1>2, <1>5, FS_RemoveElement
<1>9. j \in 1 .. Cardinality(u)
  BY <1>3, <1>4, <1>7, <1>8
<1>10. u \in SUBSET S /\ u \notin T
  BY <1>1, <1>2, <1>5
<1>11. PICK n \in u : Cardinality({m \in u : m <= n}) = j
  BY <1>9, <1>10
<1>12. {m \in u : m <= n} = {m \in t : m <= n}
  BY <1>2, <1>5, <1>11
<1> QED  BY <1>3, <1>11, <1>12

-----------------------------------------------------------------------------
(* Lists *)

\* Drawing a list from a set of rows gives members of the set.
LEMMA ByIdIn ==
  ASSUME NEW P, NEW n \in Nat, \A p \in P : p.id \in 1 .. n
  PROVE  ById(P) \in Seq(P)
<1> DEFINE ids == {p.id : p \in P}
<1>1. IsFiniteSet(ids) /\ ids \subseteq Nat /\ Cardinality(ids) \in Nat
  <2>1. ids \subseteq 1 .. n /\ IsFiniteSet(1 .. n)
    BY FS_Interval
  <2> QED  BY <2>1, FS_Subset, FS_CardinalityType
<1>2. \A k \in 1 .. Cardinality(ids) : (CHOOSE p \in P : p.id = Nth(ids, k)) \in P
  <2> SUFFICES ASSUME NEW k \in 1 .. Cardinality(ids)
               PROVE  (CHOOSE p \in P : p.id = Nth(ids, k)) \in P
    OBVIOUS
  <2>1. Nth(ids, k) \in ids
    <3> HIDE DEF ids
    <3> QED  BY <1>1, NthIn
  <2>2. \E p \in P : p.id = Nth(ids, k)
    BY <2>1
  <2> QED  BY <2>2
<1>3. ById(P) \in [1 .. Cardinality(ids) -> P]
  BY <1>2 DEF ById
<1> HIDE DEF ids
<1> QED  BY <1>1, <1>3, SeqDef

\* Filtering a list keeps elements of it, and no more than there were.
LEMMA KeptIn ==
  ASSUME NEW S, NEW list \in Seq(S), NEW hidden
  PROVE  Kept(list, hidden) \in Seq(S) /\ Len(Kept(list, hidden)) \in 0 .. Len(list)
<1> DEFINE stay == {i \in 1 .. Len(list) : list[i].author \notin hidden}
<1>0. Len(list) \in Nat /\ list \in [1 .. Len(list) -> S]
  BY LenProperties
<1>1. /\ IsFiniteSet(stay) /\ stay \subseteq Nat /\ stay \subseteq 1 .. Len(list)
      /\ Cardinality(stay) \in Nat /\ Cardinality(stay) <= Len(list)
  <2>1. stay \subseteq 1 .. Len(list) /\ IsFiniteSet(1 .. Len(list))
    BY <1>0, FS_Interval
  <2>2. Cardinality(1 .. Len(list)) = Len(list)
    BY <1>0, FS_Interval
  <2> HIDE DEF stay
  <2>3. IsFiniteSet(stay) /\ Cardinality(stay) <= Cardinality(1 .. Len(list))
    BY <2>1, FS_Subset
  <2>4. Cardinality(stay) \in Nat
    BY <2>3, FS_CardinalityType
  <2>5. stay \subseteq Nat
    BY <2>1
  <2> QED  BY <2>1, <2>2, <2>3, <2>4, <2>5
<1>2. \A k \in 1 .. Cardinality(stay) : list[Nth(stay, k)] \in S
  <2> HIDE DEF stay
  <2> QED  BY <1>0, <1>1, NthIn
<1>3. Kept(list, hidden) = [k \in 1 .. Cardinality(stay) |-> list[Nth(stay, k)]]
  BY DEF Kept
<1> HIDE DEF stay
<1>4. Kept(list, hidden) \in [1 .. Cardinality(stay) -> S]
  BY <1>2, <1>3
<1>5. Kept(list, hidden) \in Seq(S)
  BY <1>1, <1>4, SeqDef
<1>6. Len(Kept(list, hidden)) = Cardinality(stay)
  BY <1>1, <1>4, <1>5, LenProperties
<1> QED  BY <1>0, <1>1, <1>5, <1>6

\* What filtering in place leaves in the array are elements of it, too.
LEMMA OverwrittenIn ==
  ASSUME NEW S, NEW list \in Seq(S), NEW hidden
  PROVE  Overwritten(list, hidden) \in Seq(S)
<1>1. Kept(list, hidden) \in Seq(S) /\ Len(Kept(list, hidden)) \in 0 .. Len(list)
  BY KeptIn
<1>2. Len(list) \in Nat /\ \A i \in 1 .. Len(list) : list[i] \in S
  BY LenProperties
<1> DEFINE from == Len(Kept(list, hidden)) + 1
<1>3. from \in Nat /\ \A i \in from .. Len(list) : list[i] \in S
  BY <1>1, <1>2
<1>4. SubSeq(list, from, Len(list)) \in Seq(S)
  <2> HIDE DEF from
  <2> QED  BY <1>2, <1>3, SubSeqProperties
<1> QED  BY <1>1, <1>4, ConcatProperties DEF Overwritten

\* The elements of a list of members of S are members of S.
LEMMA RangeIn ==
  ASSUME NEW S, NEW list \in Seq(S)
  PROVE  Range(list) \subseteq S
BY LenProperties DEF Range

-----------------------------------------------------------------------------
(* The inductive invariant.                                                *)

\* What a copy of a post may be: an id given out, and the row of that id if there is
\* still one.  The copies sessions hold stay genuine because ids are not reused and
\* rows keep their author and parent.
Genuine == {p \in Post : p.id <= lastPost /\ \A q \in posts : q.id = p.id => q = p}

\* browseArea's locals, with posts from G
Locals(G) == [listed : Seq(G), cur : G \cup {NoPost}, max : 0 .. MaxRows]

PostsInv ==
    /\ posts \subseteq Genuine
    /\ lastPost \in Nat /\ lastPost <= rows
    /\ ThreadsIntact

CopiesInv ==
    /\ lastSeen \in [Users -> 0 .. MaxRows]
    /\ browse \in [Sessions -> Locals(Genuine)]
    /\ \A s \in Sessions : at[s] = "read" => browse[s].cur \in Genuine

OpenMail == [id : 1 .. MaxRows, from : Users]

\* A session between its SELECT of a message and the last prompt about it
MailPrompts == {"get", "mail"}

\* A letter whose recipient has not had it on his screen is marked NEW: Get's UPDATE, by
\* id and some time after its SELECT, marks the very row that was fetched, though that
\* one may be deleted and others delivered in between (store/mail.go, Get).
UnreadIsNew == \A m \in mail : ~ m.shown => ~ m.read

\* Ids of mail are not reused either, and the row a session has on its screen was shown
\* to its recipient; only rows that were shown are marked.
MailInv ==
    /\ mail \subseteq MailRow
    /\ \A m, n \in mail : m.id = n.id => m = n
    /\ lastMail \in Nat /\ lastMail <= rows
    /\ \A m \in mail : m.id <= lastMail
    /\ reading \in [Sessions -> OpenMail \cup {NoMail}]
    /\ sending \in [Sessions -> Seq(Users)]
    /\ \A s \in Sessions : at[s] \in MailPrompts => reading[s] \in OpenMail
    /\ \A s \in Sessions : reading[s].id <= lastMail
    /\ \A s \in Sessions, m \in mail : m.id = reading[s].id => m.shown
    /\ UnreadIsNew

CInv == MembersTypeOK /\ PostsInv /\ CopiesInv /\ MailInv

-----------------------------------------------------------------------------
(* Posts *)

\* Whatever rows go, and whatever row comes with a new id, a genuine copy stays one.
LEMMA GenuineStays ==
  ASSUME NEW new, lastPost \in Nat, posts' \subseteq posts \cup {new},
         new.id = lastPost + 1, lastPost' \in Nat, lastPost' >= lastPost
  PROVE  Genuine \subseteq Genuine'
BY DEF Genuine, Post

\* A step that leaves the posts alone
LEMMA PostsSame ==
  ASSUME PostsInv, UNCHANGED <<posts, lastPost>>, rows \in Nat, rows' \in Nat, rows' >= rows
  PROVE  PostsInv' /\ Genuine \subseteq Genuine'
BY DEF PostsInv, Genuine, ThreadsIntact

\* A new row has a new id; its parent, if any, is there.
LEMMA PostsInserted ==
  ASSUME MembersTypeOK, PostsInv, NEW u \in Users, NEW parent,
         parent = 0 \/ \E p \in posts : p.id = parent, Insert(u, parent)
  PROVE  PostsInv' /\ Genuine \subseteq Genuine' /\ rows' \in 0 .. MaxRows /\ rows' >= rows
<1> DEFINE new == [id |-> lastPost + 1, author |-> u, parent |-> parent]
<1>1. /\ posts' = posts \cup {new} /\ lastPost' = lastPost + 1
      /\ rows \in Nat /\ rows < MaxRows /\ rows' = rows + 1 /\ MaxRows \in Nat
  BY MembersConstants DEF Insert, NewId, OneMoreRow, MembersTypeOK
<1>2. /\ posts \subseteq Post /\ \A p \in posts : p.id \in 1 .. MaxRows /\ p.id <= lastPost
      /\ \A p, q \in posts : p.id = q.id => p = q
      /\ lastPost \in Nat /\ lastPost <= rows /\ ThreadsIntact
  BY DEF PostsInv, Genuine, Post
<1>3. parent \in 0 .. MaxRows
  BY <1>1, <1>2
<1>4. new \in Post /\ new.id = lastPost + 1 /\ new.parent = parent
  BY <1>1, <1>2, <1>3 DEF Post
<1>5. Genuine \subseteq Genuine'
  <2> HIDE DEF new
  <2> QED  BY <1>1, <1>2, <1>4, GenuineStays
<1>6. new \in Genuine'
  <2> HIDE DEF new
  <2>1. new.id <= lastPost'
    BY <1>1, <1>2, <1>4
  <2>2. \A q \in posts' : q.id = new.id => q = new
    BY <1>1, <1>2, <1>4
  <2> QED  BY <1>4, <2>1, <2>2 DEF Genuine
<1>7. ThreadsIntact'
  <2> HIDE DEF new
  <2>1. \A p \in posts : p.parent # 0 => \E q \in posts' : q.id = p.parent
    BY <1>1, <1>2 DEF ThreadsIntact
  <2>2. new.parent # 0 => \E q \in posts' : q.id = new.parent
    BY <1>1, <1>4
  <2> QED  BY <1>1, <2>1, <2>2 DEF ThreadsIntact
<1>8. posts' \subseteq Genuine'
  <2> HIDE DEF new
  <2> QED  BY <1>1, <1>5, <1>6 DEF PostsInv
<1> QED  BY <1>1, <1>2, <1>5, <1>7, <1>8 DEF PostsInv

\* Deleting takes the replies with the post, or nothing.
LEMMA PostsDeleted ==
  ASSUME PostsInv, NEW id, posts' = Without(id), UNCHANGED <<lastPost, rows>>
  PROVE  PostsInv' /\ Genuine \subseteq Genuine'
<1>1. posts' \subseteq posts
  BY DEF Without
<1>2. Genuine \subseteq Genuine'
  BY <1>1 DEF Genuine
<1>3. ThreadsIntact'
  BY DEF Without, ThreadsIntact, PostsInv
<1> QED  BY <1>1, <1>2, <1>3 DEF PostsInv

-----------------------------------------------------------------------------
(* The members' part, and what sessions hold *)

\* Blocks.Block adds at most one row.
LEMMA BlockSafe ==
  ASSUME MembersTypeOK, NEW u \in Users, NEW v \in Users, Block(u, v)
  PROVE  blocks' \subseteq Users \X Users /\ rows' \in 0 .. MaxRows /\ rows' >= rows
BY MembersConstants DEF MembersTypeOK, Block, OneMoreRow

\* A session moves to another prompt, and the block lists may change.
LEMMA MembersKept ==
  ASSUME MembersTypeOK, NEW s \in Sessions, NEW prompt \in Prompts,
         at' = [at EXCEPT ![s] = prompt], who' = who,
         blocks' \subseteq Users \X Users, rows' \in 0 .. MaxRows
  PROVE  MembersTypeOK'
BY DEF MembersTypeOK

\* The records of a session's locals, field by field
LEMMA LocalsListed ==
  ASSUME NEW G, NEW r \in Locals(G), NEW list \in Seq(G)
  PROVE  [r EXCEPT !.listed = list] \in Locals(G) /\ [r EXCEPT !.listed = list].cur = r.cur
BY DEF Locals

\* The same for the message read
LEMMA LocalsCur ==
  ASSUME NEW G, NEW r \in Locals(G), NEW p \in G \cup {NoPost}
  PROVE  [r EXCEPT !.cur = p] \in Locals(G) /\ [r EXCEPT !.cur = p].cur = p
BY DEF Locals

\* What a session starts and leaves the area with
LEMMA LocalsNew ==
  ASSUME NEW G, NEW n \in 0 .. MaxRows
  PROVE  /\ NotBrowsing \in Locals(G)
         /\ [NotBrowsing EXCEPT !.max = n] \in Locals(G)
<1>1. <<>> \in Seq(G) /\ 0 \in 0 .. MaxRows
  BY MembersConstants
<1>2. ASSUME NEW k \in 0 .. MaxRows
      PROVE  [listed |-> <<>>, cur |-> NoPost, max |-> k] \in Locals(G)
  BY <1>1 DEF Locals
<1>3. [NotBrowsing EXCEPT !.max = n] = [listed |-> <<>>, cur |-> NoPost, max |-> n]
  BY DEF NotBrowsing
<1> QED  BY <1>1, <1>2, <1>3 DEF NotBrowsing

\* More genuine posts allow more.
LEMMA LocalsGrow ==
  ASSUME NEW G, NEW H, G \subseteq H
  PROVE  Locals(G) \subseteq Locals(H)
<1>1. Seq(G) \subseteq Seq(H)
  BY SeqMonotonic
<1> QED  BY <1>1 DEF Locals

\* One session's locals change, and the posts do what they may.
LEMMA CopiesKept ==
  ASSUME MembersTypeOK, CopiesInv, Genuine \subseteq Genuine',
         NEW s \in Sessions, NEW prompt, at' = [at EXCEPT ![s] = prompt],
         NEW r \in Locals(Genuine), browse' = [browse EXCEPT ![s] = r],
         prompt = "read" => r.cur \in Genuine,
         lastSeen' \in [Users -> 0 .. MaxRows]
  PROVE  CopiesInv'
<1>1. Locals(Genuine) \subseteq Locals(Genuine')
  BY LocalsGrow
<1>2. browse' \in [Sessions -> Locals(Genuine)]
  BY DEF CopiesInv
<1>3. browse' \in [Sessions -> Locals(Genuine')]
  BY <1>1, <1>2
<1>4. \A t \in Sessions : at'[t] = "read" => browse'[t].cur \in Genuine
  BY DEF CopiesInv, MembersTypeOK
<1>5. Locals(Genuine)' = Locals(Genuine')
  BY DEF Locals
<1> QED  BY <1>3, <1>4, <1>5 DEF CopiesInv

\* The posts do what they may, and no session's locals change.
LEMMA CopiesSame ==
  ASSUME MembersTypeOK, CopiesInv, UNCHANGED <<posts, lastPost, lastSeen, browse>>,
         \A s \in Sessions : at'[s] = "read" => at[s] = "read"
  PROVE  CopiesInv'
<1>1. Genuine' = Genuine
  BY DEF Genuine
<1>2. Locals(Genuine)' = Locals(Genuine)
  BY <1>1 DEF Locals
<1> QED  BY <1>1, <1>2 DEF CopiesInv

\* The mail of a step that is no mail step
LEMMA MailSame ==
  ASSUME MailInv, UNCHANGED <<mailVars, who>>, rows \in Nat, rows' \in Nat, rows' >= rows,
         \A s \in Sessions : at'[s] \in MailPrompts => at[s] \in MailPrompts
  PROVE  MailInv'
BY DEF MailInv, mailVars, UnreadIsNew

\* The list a session draws shows genuine posts, and drawing it leaves genuine posts.
LEMMA DrawnGenuine ==
  ASSUME MembersTypeOK, PostsInv, CopiesInv, NEW s \in Sessions
  PROVE  Range(Shown(s)) \subseteq Genuine /\ Drawn(s) \in Seq(Genuine)
<1>1. browse[s] \in Locals(Genuine) /\ browse[s].listed \in Seq(Genuine)
  BY DEF CopiesInv, Locals
<1>2. Thread(posts) \in Seq(Genuine)
  <2> DEFINE P == {p \in posts : p.parent = 0}
  <2>1. P \subseteq Genuine /\ (\A p \in P : p.id \in 1 .. MaxRows) /\ MaxRows \in Nat
    BY MembersConstants DEF PostsInv, Genuine, Post
  <2>2. Thread(posts) = ById(P)
    BY DEF Thread
  <2> HIDE DEF P
  <2>3. ById(P) \in Seq(P)
    BY <2>1, ByIdIn
  <2> QED  BY <2>1, <2>2, <2>3, SeqMonotonic
<1>3. Shown(s) \in Seq(Genuine)
  BY <1>1, <1>2, KeptIn DEF Shown
<1>4. Drawn(s) \in Seq(Genuine)
  BY <1>1, OverwrittenIn DEF Drawn
<1> QED  BY <1>3, <1>4, RangeIn

-----------------------------------------------------------------------------
(* The steps of the board *)

\* Every step at a board prompt keeps the invariant.
LEMMA BoardsStep ==
  ASSUME CInv, BoardsNext, UNCHANGED mailVars
  PROVE  CInv'
<1> USE DEF GoTo
<1>0. /\ MembersTypeOK /\ PostsInv /\ CopiesInv /\ MailInv
      /\ MaxRows \in Nat /\ rows \in 0 .. MaxRows /\ blocks \subseteq Users \X Users
      /\ lastSeen \in [Users -> 0 .. MaxRows]
  BY MembersConstants DEF CInv, MembersTypeOK, CopiesInv
<1>1. PICK s \in Sessions :
        \/ EnterArea(s) \/ Search(s) \/ TurnPage(s) \/ Pick(s) \/ Compose(s)
        \/ Reply(s) \/ Delete(s) \/ BlockAuthor(s) \/ ReadDone(s)
        \/ QuitArea(s) \/ Mark(s) \/ LeaveBoards(s)
  BY DEF BoardsNext
<1>2. /\ at \in [Sessions -> Prompts] /\ who[s] \in Users
      /\ browse \in [Sessions -> Locals(Genuine)] /\ browse[s] \in Locals(Genuine)
      /\ browse[s].max \in 0 .. MaxRows
      /\ at[s] = "read" => browse[s].cur \in Genuine
  BY <1>0 DEF MembersTypeOK, CopiesInv, Locals
\* It is enough to say what becomes of the posts and of the session's locals.
<1>3. ASSUME NEW prompt \in {"menu", "list", "read", "mark"},
             at' = [at EXCEPT ![s] = prompt], who' = who,
             blocks' \subseteq Users \X Users, rows' \in 0 .. MaxRows, rows' >= rows,
             PostsInv', Genuine \subseteq Genuine',
             NEW r \in Locals(Genuine), browse' = [browse EXCEPT ![s] = r],
             prompt = "read" => r.cur \in Genuine,
             lastSeen' \in [Users -> 0 .. MaxRows]
      PROVE  CInv'
  <2>1. prompt \in Prompts
    BY DEF Prompts
  <2>2. MembersTypeOK'
    BY <1>0, <1>3, <2>1, MembersKept
  <2>3. CopiesInv'
    BY <1>0, <1>3, CopiesKept
  <2>4. \A t \in Sessions : at'[t] \in MailPrompts => at[t] \in MailPrompts
    BY <1>2, <1>3 DEF MailPrompts
  <2>5. rows \in Nat /\ rows' \in Nat
    BY <1>0, <1>3
  <2>6. MailInv'
    BY <1>0, <1>3, <2>4, <2>5, MailSame DEF mailVars
  <2> QED  BY <1>3, <2>2, <2>3, <2>6 DEF CInv
\* Steps that leave the rows alone
<1>4. ASSUME UNCHANGED <<who, blocks, rows, posts, lastPost, lastSeen>>,
             NEW prompt \in {"menu", "list", "read", "mark"},
             at' = [at EXCEPT ![s] = prompt],
             NEW r \in Locals(Genuine), browse' = [browse EXCEPT ![s] = r],
             prompt = "read" => r.cur \in Genuine
      PROVE  CInv'
  <2>1. rows \in Nat /\ rows' \in Nat /\ rows' >= rows /\ rows' \in 0 .. MaxRows
    BY <1>0, <1>4
  <2>2. PostsInv' /\ Genuine \subseteq Genuine'
    BY <1>0, <1>4, <2>1, PostsSame
  <2> QED  BY <1>0, <1>3, <1>4, <2>1, <2>2
<1>5. /\ [browse[s] EXCEPT !.cur = NoPost] \in Locals(Genuine)
      /\ [browse[s] EXCEPT !.listed = <<>>] \in Locals(Genuine)
      /\ NotBrowsing \in Locals(Genuine)
  <2>1. NoPost \in Genuine \cup {NoPost} /\ <<>> \in Seq(Genuine) /\ 0 \in 0 .. MaxRows
    BY <1>0
  <2> QED  BY <1>2, <2>1, LocalsCur, LocalsListed, LocalsNew
<1>6. CASE EnterArea(s)
  <2>1. browse' = [browse EXCEPT ![s] = browse[s]]
    BY <1>2, <1>6 DEF EnterArea, boardVars
  <2> QED  BY <1>2, <1>4, <1>6, <2>1 DEF EnterArea, boardVars
<1>7. CASE Search(s)
  <2>1. PICK hits \in {posts} \cup {{p \in posts : p.author = u} : u \in Users} :
            browse' = [browse EXCEPT ![s].listed = ById(hits)]
    BY <1>7 DEF Search
  <2>2. hits \subseteq posts
    BY <2>1
  <2>3. hits \subseteq Genuine /\ \A p \in hits : p.id \in 1 .. MaxRows
    BY <1>0, <2>2 DEF PostsInv, Genuine, Post
  <2>4. ById(hits) \in Seq(Genuine)
    BY <1>0, <2>3, ByIdIn, SeqMonotonic
  <2>5. [browse[s] EXCEPT !.listed = ById(hits)] \in Locals(Genuine)
    BY <1>2, <2>4, LocalsListed
  <2>6. at' = [at EXCEPT ![s] = "list"]
    BY <1>2, <1>7 DEF Search, memberVars
  <2>7. UNCHANGED <<who, blocks, rows, posts, lastPost, lastSeen>>
    BY <1>7 DEF Search, memberVars
  <2>8. browse' = [browse EXCEPT ![s] = [browse[s] EXCEPT !.listed = ById(hits)]]
    BY <2>1
  <2> QED  BY <1>4, <2>5, <2>6, <2>7, <2>8
<1>8. CASE TurnPage(s)
  <2>1. PICK list \in {Drawn(s), <<>>} : browse' = [browse EXCEPT ![s].listed = list]
    BY <1>8 DEF TurnPage
  <2>2. list \in Seq(Genuine)
    <3>1. Drawn(s) \in Seq(Genuine)
      BY <1>0, DrawnGenuine
    <3>2. <<>> \in Seq(Genuine)
      OBVIOUS
    <3> QED  BY <2>1, <3>1, <3>2
  <2>3. [browse[s] EXCEPT !.listed = list] \in Locals(Genuine)
    BY <1>2, <2>2, LocalsListed
  <2>4. at' = [at EXCEPT ![s] = "list"]
    BY <1>2, <1>8 DEF TurnPage, memberVars
  <2>5. UNCHANGED <<who, blocks, rows, posts, lastPost, lastSeen>>
    BY <1>8 DEF TurnPage, memberVars
  <2>6. browse' = [browse EXCEPT ![s] = [browse[s] EXCEPT !.listed = list]]
    BY <2>1
  <2> QED  BY <1>4, <2>3, <2>4, <2>5, <2>6
<1>9. CASE Pick(s)
  <2>1. PICK p \in Range(Shown(s)) :
            browse' = [browse EXCEPT ![s].cur = p, ![s].listed = Drawn(s)]
    BY <1>9 DEF Pick
  <2>2. p \in Genuine /\ Drawn(s) \in Seq(Genuine)
    BY <1>0, <2>1, DrawnGenuine
  <2> DEFINE r == [[browse[s] EXCEPT !.cur = p] EXCEPT !.listed = Drawn(s)]
  <2>3. r \in Locals(Genuine) /\ r.cur = p
    <3>1. /\ [browse[s] EXCEPT !.cur = p] \in Locals(Genuine)
          /\ [browse[s] EXCEPT !.cur = p].cur = p
      BY <1>2, <2>2, LocalsCur
    <3> QED  BY <2>2, <3>1, LocalsListed
  <2>4. browse' = [browse EXCEPT ![s] = r]
    BY <1>2, <2>1
  <2> HIDE DEF r
  <2>5. UNCHANGED <<who, blocks, rows, posts, lastPost, lastSeen>>
    BY <1>9 DEF Pick
  <2>6. at' = [at EXCEPT ![s] = "read"]
    BY <1>9 DEF Pick
  <2> QED  BY <1>4, <2>2, <2>3, <2>4, <2>5, <2>6
<1>10. CASE Compose(s)
  <2>1. /\ PostsInv' /\ Genuine \subseteq Genuine' /\ rows' \in 0 .. MaxRows
        /\ rows' >= rows
    BY <1>0, <1>2, <1>10, PostsInserted DEF Compose
  <2>2. at' = [at EXCEPT ![s] = "list"]
    BY <1>2, <1>10 DEF Compose
  <2>3. browse' = [browse EXCEPT ![s] = [browse[s] EXCEPT !.listed = <<>>]]
    BY <1>10 DEF Compose
  <2>4. UNCHANGED <<who, blocks, lastSeen>>
    BY <1>10 DEF Compose
  <2> QED  BY <1>0, <1>3, <1>5, <2>1, <2>2, <2>3, <2>4
<1>11. ASSUME BackToList(s)
       PROVE  /\ at' = [at EXCEPT ![s] = "list"]
              /\ browse' = [browse EXCEPT ![s] = [browse[s] EXCEPT !.cur = NoPost]]
  BY <1>11 DEF BackToList
<1>12. CASE Reply(s)
  <2>1. /\ PostsInv' /\ Genuine \subseteq Genuine' /\ rows' \in 0 .. MaxRows
        /\ rows' >= rows
    <3>1. CASE \E p \in posts : p.id = browse[s].cur.id
      <4>1. Insert(who[s], browse[s].cur.id)
        BY <1>12, <3>1 DEF Reply
      <4> QED  BY <1>0, <1>2, <3>1, <4>1, PostsInserted
    <3>2. CASE ~ \E p \in posts : p.id = browse[s].cur.id
      <4>1. UNCHANGED <<posts, lastPost, rows>>
        BY <1>12, <3>2 DEF Reply
      <4> QED  BY <1>0, <4>1, PostsSame
    <3> QED  BY <3>1, <3>2
  <2>2. UNCHANGED <<who, blocks, lastSeen>> /\ BackToList(s)
    BY <1>12 DEF Reply
  <2> QED  BY <1>0, <1>3, <1>5, <1>11, <2>1, <2>2
<1>13. CASE Delete(s)
  <2>1. PostsInv' /\ Genuine \subseteq Genuine'
    BY <1>0, <1>13, PostsDeleted DEF Delete
  <2>2. UNCHANGED <<who, blocks, rows, lastSeen>> /\ BackToList(s)
    BY <1>13 DEF Delete
  <2>3. rows' \in 0 .. MaxRows /\ rows' >= rows
    BY <1>0, <2>2
  <2> QED  BY <1>0, <1>3, <1>5, <1>11, <2>1, <2>2, <2>3
<1>14. CASE BlockAuthor(s)
  <2>1. browse[s].cur.author \in Users
    BY <1>2, <1>14 DEF BlockAuthor, Genuine, Post
  <2>2. Block(who[s], browse[s].cur.author)
    BY <1>14 DEF BlockAuthor
  <2>3. blocks' \subseteq Users \X Users /\ rows' \in 0 .. MaxRows /\ rows' >= rows
    BY <1>0, <1>2, <2>1, <2>2, BlockSafe
  <2>4. UNCHANGED <<who, posts, lastPost, lastSeen>> /\ BackToList(s)
    BY <1>14 DEF BlockAuthor
  <2>5. PostsInv' /\ Genuine \subseteq Genuine'
    BY <1>0, <2>3, <2>4, PostsSame
  <2> QED  BY <1>0, <1>3, <1>5, <1>11, <2>3, <2>4, <2>5
<1>15. CASE ReadDone(s)
  <2>1. UNCHANGED <<who, blocks, rows, posts, lastPost, lastSeen>> /\ BackToList(s)
    BY <1>15 DEF ReadDone
  <2> QED  BY <1>4, <1>5, <1>11, <2>1
<1>16. CASE QuitArea(s)
  <2> DEFINE top == Max({p.id : p \in posts} \cup {0})
  <2>1. top \in 0 .. MaxRows
    <3> DEFINE I == {p.id : p \in posts} \cup {0}
    <3>1. I \subseteq 0 .. MaxRows /\ I # {}
      BY <1>0 DEF PostsInv, Genuine, Post
    <3>2. IsFiniteSet(0 .. MaxRows)
      BY <1>0, FS_Interval
    <3> HIDE DEF I
    <3>3. IsFiniteSet(I)
      BY <3>1, <3>2, FS_Subset
    <3>4. Max(I) \in I
      <4>1. I \subseteq Nat
        BY <3>1
      <4> QED  BY <3>1, <3>3, <4>1, MaxIn
    <3>5. Max(I) \in 0 .. MaxRows
      BY <3>1, <3>4
    <3> QED  BY <3>5 DEF I
  <2>2. browse' = [browse EXCEPT ![s] = [NotBrowsing EXCEPT !.max = top]]
    BY <1>16 DEF QuitArea
  <2>3. at' = [at EXCEPT ![s] = "mark"]
    BY <1>16 DEF QuitArea
  <2>4. UNCHANGED <<who, blocks, rows, posts, lastPost, lastSeen>>
    BY <1>16 DEF QuitArea
  <2> HIDE DEF top
  <2>5. [NotBrowsing EXCEPT !.max = top] \in Locals(Genuine)
    BY <2>1, LocalsNew
  <2> QED  BY <1>4, <2>2, <2>3, <2>4, <2>5
<1>17. CASE Mark(s)
  <2> DEFINE seen == Max({lastSeen[who[s]], browse[s].max})
  <2>1. seen \in 0 .. MaxRows
    <3>1. lastSeen[who[s]] \in 0 .. MaxRows /\ browse[s].max \in 0 .. MaxRows
      BY <1>0, <1>2
    <3> QED  BY <1>0, <3>1, MaxOfTwo
  <2>2. lastSeen' = [lastSeen EXCEPT ![who[s]] = seen]
    BY <1>17 DEF Mark
  <2> HIDE DEF seen
  <2>3. lastSeen' \in [Users -> 0 .. MaxRows]
    BY <1>0, <1>2, <2>1, <2>2
  <2>4. /\ at' = [at EXCEPT ![s] = "menu"] /\ browse' = [browse EXCEPT ![s] = NotBrowsing]
        /\ UNCHANGED <<who, blocks, rows, posts, lastPost>>
    BY <1>17 DEF Mark, LeftArea
  <2>5. rows' \in 0 .. MaxRows /\ rows' >= rows
    BY <1>0, <2>4
  <2>6. PostsInv' /\ Genuine \subseteq Genuine'
    BY <1>0, <2>4, <2>5, PostsSame
  <2> QED  BY <1>0, <1>3, <1>5, <2>3, <2>4, <2>5, <2>6
<1>18. CASE LeaveBoards(s)
  <2>1. /\ at' = [at EXCEPT ![s] = "menu"] /\ browse' = [browse EXCEPT ![s] = NotBrowsing]
        /\ UNCHANGED <<who, blocks, rows, posts, lastPost, lastSeen>>
    BY <1>18 DEF LeaveBoards, LeftArea
  <2> QED  BY <1>4, <1>5, <2>1
<1> QED  BY <1>1, <1>6, <1>7, <1>8, <1>9, <1>10, <1>12, <1>13, <1>14, <1>15,
             <1>16, <1>17, <1>18

-----------------------------------------------------------------------------
(* The steps of mail, and of the block lists *)

\* A session closes the mail it has open; rows may go with it.
LEMMA MailClosed ==
  ASSUME MailInv, NEW s \in Sessions, mail' \subseteq mail,
         UNCHANGED <<lastMail, who>>, rows \in Nat, rows' \in Nat, rows' >= rows,
         reading' = [reading EXCEPT ![s] = NoMail], sending' \in [Sessions -> Seq(Users)],
         \A t \in Sessions : at'[t] \in MailPrompts => at[t] \in MailPrompts /\ t # s
  PROVE  MailInv'
<1>1. /\ reading' \in [Sessions -> OpenMail \cup {NoMail}]
      /\ reading'[s] = NoMail /\ \A t \in Sessions \ {s} : reading'[t] = reading[t]
  BY DEF MailInv
<1>2. \A t \in Sessions : at'[t] \in MailPrompts => reading'[t] \in OpenMail
  BY <1>1 DEF MailInv
<1>3. NoMail.id = 0 /\ \A m \in mail : m.id # 0
  BY DEF NoMail, MailInv, MailRow
<1>4. \A t \in Sessions : reading'[t].id <= lastMail
  BY <1>1, <1>3 DEF MailInv
<1>5. \A t \in Sessions, m \in mail' : m.id = reading'[t].id => m.shown
  BY <1>1, <1>3 DEF MailInv
<1>6. UnreadIsNew'
  BY DEF MailInv, UnreadIsNew
<1> QED  BY <1>1, <1>2, <1>4, <1>5, <1>6 DEF MailInv

\* The row fetched, whoever else has it open
LEMMA MailGot ==
  ASSUME MembersTypeOK, MailInv, NEW s \in Sessions, Get(s)
  PROVE  MailInv'
<1>1. PICK m \in Inbox(who[s]) :
        /\ mail' = (mail \ {m}) \cup {[m EXCEPT !.shown = TRUE]}
        /\ reading' = [reading EXCEPT ![s] = [id |-> m.id, from |-> m.from]]
  BY DEF Get
<1> DEFINE new == [m EXCEPT !.shown = TRUE]
           open == [id |-> m.id, from |-> m.from]
<1>2. m \in mail /\ m \in MailRow
  BY DEF Inbox, MailInv
<1>3. /\ new \in MailRow /\ new.id = m.id /\ new.shown = TRUE
      /\ open \in OpenMail /\ open.id = m.id
  BY <1>2 DEF MailRow, OpenMail
<1>4. mail' = (mail \ {m}) \cup {new} /\ reading' = [reading EXCEPT ![s] = open]
  BY <1>1
<1>5. /\ UNCHANGED <<who, rows, lastMail, sending>>
      /\ \E prompt \in MailPrompts : at' = [at EXCEPT ![s] = prompt]
  BY DEF Get, GoTo, MailPrompts
<1> HIDE DEF new, open
<1>6. mail' \subseteq MailRow /\ \A n \in mail' : n.id <= lastMail
  BY <1>2, <1>3, <1>4 DEF MailInv
<1>7. \A n \in mail \ {m} : n.id # m.id
  BY <1>2 DEF MailInv
<1>8. \A n, o \in mail' : n.id = o.id => n = o
  BY <1>3, <1>4, <1>7 DEF MailInv
<1>9. /\ reading' \in [Sessions -> OpenMail \cup {NoMail}]
      /\ reading'[s] = open /\ \A t \in Sessions \ {s} : reading'[t] = reading[t]
  BY <1>3, <1>4 DEF MailInv
<1>10. \A t \in Sessions : at'[t] \in MailPrompts => reading'[t] \in OpenMail
  BY <1>3, <1>5, <1>9 DEF MailInv, MembersTypeOK
<1>11. \A t \in Sessions : reading'[t].id <= lastMail
  BY <1>2, <1>3, <1>9 DEF MailInv
<1>12. \A t \in Sessions, n \in mail' : n.id = reading'[t].id => n.shown
  <2> SUFFICES ASSUME NEW t \in Sessions, NEW n \in mail', n.id = reading'[t].id
               PROVE  n.shown
    OBVIOUS
  <2>1. CASE n = new
    BY <1>3, <2>1
  <2>2. CASE n # new
    <3>1. n \in mail \ {m} /\ n.id # m.id
      BY <1>4, <1>7, <2>2
    <3>2. t # s /\ reading'[t] = reading[t]
      BY <1>3, <1>9, <3>1
    <3> QED  BY <3>1, <3>2 DEF MailInv
  <2> QED  BY <2>1, <2>2
<1>13. UnreadIsNew'
  BY <1>3, <1>4 DEF MailInv, UnreadIsNew
<1> QED  BY <1>5, <1>6, <1>8, <1>9, <1>10, <1>11, <1>12, <1>13 DEF MailInv

\* The mark, by the id fetched: the row of that id, if there is still one, was shown.
LEMMA MailMarked ==
  ASSUME MembersTypeOK, MailInv, NEW s \in Sessions, GetMarks(s)
  PROVE  MailInv'
<1>1. /\ UNCHANGED <<who, rows, lastMail, reading, sending>>
      /\ at[s] = "get" /\ at' = [at EXCEPT ![s] = "mail"]
      /\ mail' \in {mail, {[m EXCEPT !.read = @ \/ m.id = reading[s].id] : m \in mail}}
  BY DEF GetMarks, GoTo
<1>2. \A t \in Sessions : at'[t] \in MailPrompts => reading'[t] \in OpenMail
  BY <1>1 DEF MailInv, MembersTypeOK, MailPrompts
<1>3. CASE mail' = mail
  BY <1>1, <1>2, <1>3 DEF MailInv, UnreadIsNew
<1>4. CASE mail' # mail
  <2> DEFINE Marked(m) == [m EXCEPT !.read = @ \/ m.id = reading[s].id]
  <2>1. mail' = {Marked(m) : m \in mail}
    BY <1>1, <1>4
  <2>2. \A m \in mail : /\ Marked(m) \in MailRow /\ Marked(m).id = m.id
                        /\ Marked(m).shown = m.shown
                        /\ Marked(m).read => m.read \/ m.id = reading[s].id
    BY DEF MailInv, MailRow
  <2> HIDE DEF Marked
  <2>3. mail' \subseteq MailRow /\ \A n \in mail' : n.id <= lastMail
    BY <2>1, <2>2 DEF MailInv
  <2>4. \A n, o \in mail' : n.id = o.id => n = o
    BY <2>1, <2>2 DEF MailInv
  <2>5. \A t \in Sessions, n \in mail' : n.id = reading[t].id => n.shown
    BY <2>1, <2>2 DEF MailInv
  <2>6. UnreadIsNew'
    BY <2>1, <2>2 DEF MailInv, UnreadIsNew
  <2> QED  BY <1>1, <1>2, <2>3, <2>4, <2>5, <2>6 DEF MailInv
<1> QED  BY <1>3, <1>4

\* Mail.Send gives its row a new id, which no session has open.
LEMMA MailSent ==
  ASSUME MembersTypeOK, MailInv, NEW s \in Sessions, Send(s)
  PROVE  MailInv' /\ rows' \in 0 .. MaxRows /\ rows' >= rows
<1>1. /\ sending[s] \in Seq(Users) /\ sending[s] # <<>> /\ who[s] \in Users
      /\ rows \in 0 .. MaxRows /\ MaxRows \in Nat
  BY MembersConstants DEF Send, MailInv, MembersTypeOK
<1>2. Head(sending[s]) \in Users /\ Tail(sending[s]) \in Seq(Users)
  BY <1>1
<1>3. sending' = [sending EXCEPT ![s] = Tail(sending[s])] /\ UNCHANGED <<at, who, reading>>
  BY DEF Send
<1>4. sending' \in [Sessions -> Seq(Users)]
  BY <1>2, <1>3 DEF MailInv
<1>5. CASE UNCHANGED <<mail, lastMail, rows>>
  BY <1>1, <1>3, <1>4, <1>5 DEF MailInv, UnreadIsNew
<1>6. CASE ~ UNCHANGED <<mail, lastMail, rows>>
  <2> DEFINE new == [id |-> lastMail + 1, from |-> who[s], to |-> Head(sending[s]),
                     read |-> FALSE, shown |-> FALSE]
  <2>1. /\ mail' = mail \cup {new} /\ lastMail' = lastMail + 1
        /\ rows < MaxRows /\ rows' = rows + 1
    BY <1>6 DEF Send, OneMoreRow, FreshMailId
  <2>2. lastMail \in Nat /\ lastMail <= rows
    BY DEF MailInv
  <2>3. new \in MailRow /\ new.id = lastMail + 1 /\ new.read = FALSE
    BY <1>1, <1>2, <2>1, <2>2 DEF MailRow
  <2> HIDE DEF new
  <2>4. mail' \subseteq MailRow /\ \A n \in mail' : n.id <= lastMail'
    BY <2>1, <2>2, <2>3 DEF MailInv, MailRow
  <2>5. \A n \in mail : n.id # new.id
    BY <2>2, <2>3 DEF MailInv, MailRow
  <2>6. \A n, o \in mail' : n.id = o.id => n = o
    BY <2>1, <2>5 DEF MailInv
  <2>7. \A t \in Sessions : reading[t].id \in Nat /\ reading[t].id <= lastMail
    BY DEF MailInv, OpenMail, NoMail
  <2>8. \A t \in Sessions : reading[t].id <= lastMail' /\ reading[t].id # new.id
    BY <2>1, <2>2, <2>3, <2>7
  <2>9. \A t \in Sessions, n \in mail' : n.id = reading'[t].id => n.shown
    BY <1>3, <2>1, <2>8 DEF MailInv
  <2>10. lastMail' \in Nat /\ lastMail' <= rows' /\ rows' \in 0 .. MaxRows /\ rows' >= rows
    BY <1>1, <2>1, <2>2
  <2>11. UnreadIsNew'
    BY <2>1, <2>3 DEF MailInv, UnreadIsNew
  <2> QED  BY <1>3, <1>4, <2>4, <2>6, <2>8, <2>9, <2>10, <2>11 DEF MailInv
<1> QED  BY <1>5, <1>6

\* composeMail's recipients are users.
LEMMA RecipientsUsers ==
  ASSUME NEW u, NEW list \in Recipients(u)
  PROVE  list \in Seq(Users)
<1>1. ASSUME NEW t \in Users PROVE <<t>> \in Seq(Users)
  OBVIOUS
<1>2. ASSUME NEW t \in Users, NEW c \in Users PROVE <<t, c>> \in Seq(Users)
  OBVIOUS
<1>3. CASE list \in {<<t>> : t \in Users}
  BY <1>1, <1>3
<1>4. CASE list \in Users \X Users
  <2>1. list = <<list[1], list[2]>> /\ list[1] \in Users /\ list[2] \in Users
    BY <1>4
  <2>2. <<list[1], list[2]>> \in Seq(Users)
    BY <1>2, <2>1
  <2> QED  BY <2>1, <2>2, Zenon
<1> QED  BY <1>3, <1>4 DEF Recipients

\* Every step at a mail prompt keeps the invariant.
LEMMA MailStep ==
  ASSUME CInv, MailNext, UNCHANGED boardVars
  PROVE  CInv'
<1> USE DEF GoTo
<1>0. /\ MembersTypeOK /\ PostsInv /\ CopiesInv /\ MailInv
      /\ MaxRows \in Nat /\ rows \in 0 .. MaxRows /\ blocks \subseteq Users \X Users
      /\ at \in [Sessions -> Prompts] /\ who \in [Sessions -> Users]
      /\ UNCHANGED <<posts, lastPost, lastSeen, browse>>
  BY MembersConstants DEF CInv, MembersTypeOK, boardVars
<1>1. PICK s \in Sessions :
        \/ EnterMail(s) \/ Get(s) \/ GetMarks(s) \/ ComposeMail(s) \/ ReplyMail(s)
        \/ Send(s) \/ SendDone(s) \/ DeleteMail(s) \/ MailDone(s) \/ LeaveMail(s)
  BY DEF MailNext
\* It is enough to say what becomes of the mail.
<1>2. ASSUME NEW prompt \in {"menu", "inbox", "get", "mail", "send"},
             at' = [at EXCEPT ![s] = prompt], who' = who,
             blocks' \subseteq Users \X Users, rows' \in 0 .. MaxRows, rows' >= rows,
             MailInv'
      PROVE  CInv'
  <2>1. prompt \in Prompts
    BY DEF Prompts
  <2>2. MembersTypeOK'
    BY <1>0, <1>2, <2>1, MembersKept
  <2>3. \A t \in Sessions : at'[t] = "read" => at[t] = "read"
    BY <1>0, <1>2
  <2>4. CopiesInv'
    BY <1>0, <2>3, CopiesSame
  <2>5. rows \in Nat /\ rows' \in Nat
    BY <1>0, <1>2
  <2>6. PostsInv'
    BY <1>0, <1>2, <2>5, PostsSame
  <2> QED  BY <1>2, <2>2, <2>4, <2>6 DEF CInv
<1>3. ASSUME UNCHANGED <<who, blocks, rows>>
      PROVE  blocks' \subseteq Users \X Users /\ rows' \in 0 .. MaxRows /\ rows' >= rows
  BY <1>0, <1>3
\* Steps that close the mail the session has open
<1>4. ASSUME NEW prompt \in {"menu", "inbox"}, at' = [at EXCEPT ![s] = prompt],
             mail' \subseteq mail, UNCHANGED <<who, lastMail, sending>>,
             blocks' \subseteq Users \X Users, rows' \in 0 .. MaxRows, rows' >= rows,
             reading' = [reading EXCEPT ![s] = NoMail]
      PROVE  CInv'
  <2>1. \A t \in Sessions : at'[t] \in MailPrompts => at[t] \in MailPrompts /\ t # s
    BY <1>0, <1>4 DEF MailPrompts
  <2>2. rows \in Nat /\ rows' \in Nat
    BY <1>0, <1>4
  <2>3. sending' \in [Sessions -> Seq(Users)]
    BY <1>0, <1>4 DEF MailInv
  <2>4. MailInv'
    BY <1>0, <1>4, <2>1, <2>2, <2>3, MailClosed
  <2> QED  BY <1>2, <1>4, <2>4
<1>5. CASE EnterMail(s)
  <2>1. UNCHANGED <<who, blocks, rows, mailVars>> /\ at' = [at EXCEPT ![s] = "inbox"]
    BY <1>5 DEF EnterMail
  <2>2. \A t \in Sessions : at'[t] \in MailPrompts => at[t] \in MailPrompts
    BY <1>0, <2>1 DEF MailPrompts
  <2>3. MailInv'
    BY <1>0, <1>3, <2>1, <2>2, MailSame
  <2> QED  BY <1>2, <1>3, <2>1, <2>3
<1>6. CASE Get(s)
  <2>1. UNCHANGED <<who, blocks, rows>>
    BY <1>6 DEF Get
  <2>2. PICK prompt \in {"get", "mail"} : at' = [at EXCEPT ![s] = prompt]
    BY <1>6 DEF Get
  <2>3. MailInv'
    BY <1>0, <1>6, MailGot
  <2> QED  BY <1>2, <1>3, <2>1, <2>2, <2>3
<1>7. CASE ComposeMail(s)
  <2>1. PICK list \in Recipients(who[s]) : sending' = [sending EXCEPT ![s] = list]
    BY <1>7 DEF ComposeMail
  <2>2. list \in Seq(Users)
    BY RecipientsUsers
  <2>3. sending' \in [Sessions -> Seq(Users)]
    BY <1>0, <2>1, <2>2 DEF MailInv
  <2>4. UNCHANGED <<who, blocks, rows, mail, lastMail, reading>>
        /\ at' = [at EXCEPT ![s] = "send"]
    BY <1>7 DEF ComposeMail
  <2>5. \A t \in Sessions : at'[t] \in MailPrompts => at[t] \in MailPrompts
    BY <1>0, <2>4 DEF MailPrompts
  <2>6. MailInv'
    BY <1>0, <2>3, <2>4, <2>5 DEF MailInv, UnreadIsNew
  <2> QED  BY <1>2, <1>3, <2>4, <2>6
<1>8. CASE ReplyMail(s)
  <2>1. /\ at[s] = "mail" /\ sending' = [sending EXCEPT ![s] = <<reading[s].from>>]
        /\ reading' = [reading EXCEPT ![s] = NoMail] /\ at' = [at EXCEPT ![s] = "send"]
        /\ UNCHANGED <<who, blocks, rows, mail, lastMail>>
    BY <1>8 DEF ReplyMail
  <2>2. reading[s].from \in Users
    BY <1>0, <2>1 DEF MailInv, MailPrompts, OpenMail
  <2>3. <<reading[s].from>> \in Seq(Users)
    BY <2>2
  <2>4. sending' \in [Sessions -> Seq(Users)]
    BY <1>0, <2>1, <2>3 DEF MailInv
  <2>5. \A t \in Sessions : at'[t] \in MailPrompts => at[t] \in MailPrompts /\ t # s
    BY <1>0, <2>1 DEF MailPrompts
  <2>6. mail' \subseteq mail /\ rows \in Nat /\ rows' \in Nat /\ rows' >= rows
    BY <1>0, <2>1
  <2>7. MailInv'
    BY <1>0, <2>1, <2>4, <2>5, <2>6, MailClosed
  <2> QED  BY <1>2, <1>3, <2>1, <2>7
<1>9. CASE Send(s)
  <2>1. MailInv' /\ rows' \in 0 .. MaxRows /\ rows' >= rows
    BY <1>0, <1>9, MailSent
  <2>2. UNCHANGED <<who, blocks>> /\ at' = [at EXCEPT ![s] = "send"]
    BY <1>0, <1>9 DEF Send
  <2>3. blocks' \subseteq Users \X Users
    BY <1>0, <2>2
  <2> QED  BY <1>2, <2>1, <2>2, <2>3
<1>10. CASE SendDone(s)
  <2>1. UNCHANGED <<who, blocks, rows, mailVars>> /\ at' = [at EXCEPT ![s] = "inbox"]
    BY <1>10 DEF SendDone
  <2>2. \A t \in Sessions : at'[t] \in MailPrompts => at[t] \in MailPrompts
    BY <1>0, <2>1 DEF MailPrompts
  <2>3. MailInv'
    BY <1>0, <1>3, <2>1, <2>2, MailSame
  <2> QED  BY <1>2, <1>3, <2>1, <2>3
<1>11. CASE DeleteMail(s)
  <2>1. /\ mail' \subseteq mail /\ at' = [at EXCEPT ![s] = "inbox"]
        /\ reading' = [reading EXCEPT ![s] = NoMail]
        /\ UNCHANGED <<who, blocks, rows, lastMail, sending>>
    BY <1>11 DEF DeleteMail
  <2> QED  BY <1>3, <1>4, <2>1
<1>12. CASE MailDone(s)
  <2>1. /\ at[s] = "mail" /\ at' = [at EXCEPT ![s] = "inbox"]
        /\ reading' = [reading EXCEPT ![s] = NoMail]
        /\ UNCHANGED <<who, mail, lastMail, sending>>
        /\ Block(who[s], reading[s].from) \/ UNCHANGED <<blocks, rows>>
    BY <1>12 DEF MailDone
  <2>2. reading[s].from \in Users /\ who[s] \in Users
    BY <1>0, <2>1 DEF MailInv, MailPrompts, OpenMail
  <2>3. blocks' \subseteq Users \X Users /\ rows' \in 0 .. MaxRows /\ rows' >= rows
    BY <1>0, <1>3, <2>1, <2>2, BlockSafe
  <2>4. mail' \subseteq mail
    BY <2>1
  <2> QED  BY <1>4, <2>1, <2>3, <2>4
<1>13. CASE LeaveMail(s)
  <2>1. /\ mail' \subseteq mail /\ at' = [at EXCEPT ![s] = "menu"]
        /\ reading' = [reading EXCEPT ![s] = NoMail]
        /\ UNCHANGED <<who, blocks, rows, lastMail, sending>>
    BY <1>13 DEF LeaveMail
  <2> QED  BY <1>3, <1>4, <2>1
<1>14. CASE GetMarks(s)
  <2>1. UNCHANGED <<who, blocks, rows>> /\ at' = [at EXCEPT ![s] = "mail"]
    BY <1>14 DEF GetMarks
  <2>2. MailInv'
    BY <1>0, <1>14, MailMarked
  <2> QED  BY <1>2, <1>3, <2>1, <2>2
<1> QED  BY <1>1, <1>5, <1>6, <1>7, <1>8, <1>9, <1>10, <1>11, <1>12, <1>13, <1>14

\* So does a change of the block lists.
LEMMA MembersStep ==
  ASSUME CInv, MembersNext, UNCHANGED <<boardVars, mailVars>>
  PROVE  CInv'
<1>0. /\ MembersTypeOK /\ PostsInv /\ CopiesInv /\ MailInv
      /\ MaxRows \in Nat /\ rows \in 0 .. MaxRows /\ blocks \subseteq Users \X Users
      /\ who \in [Sessions -> Users]
  BY MembersConstants DEF CInv, MembersTypeOK
<1>1. PICK s \in Sessions : ManageBlocks(s)
  BY DEF MembersNext
<1>2. PICK v \in Users \ {who[s]} :
        Block(who[s], v) \/ (blocks' = blocks \ {<<who[s], v>>} /\ UNCHANGED rows)
  BY <1>1 DEF ManageBlocks
<1>3. blocks' \subseteq Users \X Users /\ rows' \in 0 .. MaxRows /\ rows' >= rows
  BY <1>0, <1>2, BlockSafe
<1>4. UNCHANGED <<at, who>>
  BY <1>1 DEF ManageBlocks
<1>5. MembersTypeOK'
  BY <1>3, <1>4, <1>0 DEF MembersTypeOK
<1>6. rows \in Nat /\ rows' \in Nat
  BY <1>0, <1>3
<1>7. PostsInv'
  BY <1>0, <1>3, <1>6, PostsSame DEF boardVars
<1>8. CopiesInv'
  BY <1>0, <1>4, CopiesSame DEF boardVars
<1>9. MailInv'
  BY <1>0, <1>3, <1>4, <1>6, MailSame
<1> QED  BY <1>5, <1>7, <1>8, <1>9 DEF CInv

-----------------------------------------------------------------------------
(* The theorems.                                                           *)

\* The invariant holds of the empty board and inboxes.
LEMMA InitHolds == Init => CInv
<1> SUFFICES ASSUME Init PROVE CInv
  OBVIOUS
<1>1. MembersTypeOK
  BY MembersConstants DEF Init, MembersInit, MembersTypeOK, Prompts
<1>2. PostsInv
  BY MembersConstants DEF Init, MembersInit, BoardsInit, PostsInv, ThreadsIntact
<1>3. CopiesInv
  <2>1. 0 \in 0 .. MaxRows
    BY MembersConstants
  <2>2. NotBrowsing \in Locals(Genuine)
    BY <2>1, LocalsNew
  <2> QED  BY <2>1, <2>2 DEF Init, MembersInit, BoardsInit, CopiesInv
<1>4. MailInv
  <2>1. <<>> \in Seq(Users) /\ NoMail.id = 0
    BY DEF NoMail
  <2> QED  BY <2>1 DEF Init, MembersInit, MailInit, MailInv, MailPrompts, UnreadIsNew
<1> QED  BY <1>1, <1>2, <1>3, <1>4 DEF CInv

\* The inductive invariant of the board and mail: the posts sessions hold copies of are
\* genuine, threads have their parents, and open mail was shown to its recipient, after any
\* interleaving of the sessions' prompts (menu/boards.go, menu/mail.go).
THEOREM ContentInvariant == Spec => []CInv
<1>1. CInv /\ [Next]_vars => CInv'
  <2> SUFFICES ASSUME CInv, [Next]_vars PROVE CInv'
    OBVIOUS
  <2>1. CASE MembersNext /\ UNCHANGED <<boardVars, mailVars>>
    BY <2>1, MembersStep
  <2>2. CASE BoardsNext /\ UNCHANGED mailVars
    BY <2>2, BoardsStep
  <2>3. CASE MailNext /\ UNCHANGED boardVars
    BY <2>3, MailStep
  <2>4. CASE UNCHANGED vars
    <3>1. UNCHANGED <<at, who, blocks, rows, boardVars, mailVars>>
      BY <2>4 DEF vars, memberVars
    <3>2. /\ MembersTypeOK /\ PostsInv /\ CopiesInv /\ MailInv
          /\ rows \in Nat /\ rows' \in Nat /\ rows' >= rows
      BY <3>1, MembersConstants DEF CInv, MembersTypeOK
    <3>3. MembersTypeOK'
      BY <3>1, <3>2 DEF MembersTypeOK
    <3>4. PostsInv' /\ CopiesInv'
      BY <3>1, <3>2, PostsSame, CopiesSame DEF boardVars
    <3>5. MailInv'
      BY <3>1, <3>2, MailSame
    <3> QED  BY <3>3, <3>4, <3>5 DEF CInv
  <2> QED  BY <2>1, <2>2, <2>3, <2>4 DEF Next
<1> QED  BY <1>1, InitHolds, PTL DEF Spec

\* A reply's parent is always there: Delete takes direct replies along or fails as a
\* whole, Post refuses a parent that is gone (store/messages.go).
THEOREM ThreadsIntactAlways == Spec => []ThreadsIntact
<1>1. CInv => ThreadsIntact
  BY DEF CInv, PostsInv
<1> QED  BY <1>1, ContentInvariant, PTL

\* Rows leave the board in Delete only.
LEMMA OnlyDeleteRemoves ==
  ASSUME CInv, Next, NEW p \in posts, p \notin posts'
  PROVE  \E s \in Sessions : Delete(s)
<1>1. ASSUME NEW s \in Sessions,
             \/ EnterArea(s) \/ Search(s) \/ TurnPage(s) \/ Pick(s) \/ Compose(s)
             \/ Reply(s) \/ BlockAuthor(s) \/ ReadDone(s)
             \/ QuitArea(s) \/ Mark(s) \/ LeaveBoards(s)
      PROVE  FALSE
  <2>1. posts \subseteq posts'
    BY <1>1 DEF EnterArea, Search, TurnPage, Pick, Compose, Reply, Insert, BlockAuthor,
           ReadDone, QuitArea, Mark, LeaveBoards, boardVars
  <2> QED  BY <2>1
<1>2. BoardsNext
  BY DEF Next, boardVars
<1> QED  BY <1>1, <1>2 DEF BoardsNext

\* A member who is no SysOp removes his own posts and the replies to them only.  The
\* session decides by the copy it picked from its list, and the copy is genuine: a row
\* that still has its id has its author (boards.go, readMessage; messages.go, Delete).
THEOREM OthersPostsKeptAlways == Spec => OthersPostsKept
<1>1. ASSUME CInv, [Next]_vars, posts' # posts, NEW p \in posts \ posts'
      PROVE  \E s \in Sessions :
                /\ at[s] = "read" /\ at'[s] = "list"
                /\ \/ who[s] \in SysOps
                   \/ \E q \in posts : q.id \in {p.id, p.parent} /\ q.author = who[s]
  <2>1. Next
    BY <1>1 DEF vars, boardVars
  <2>2. PICK s \in Sessions : Delete(s)
    BY <1>1, <2>1, OnlyDeleteRemoves
  <2>3. at[s] = "read" /\ at'[s] = "list" /\ browse[s].cur \in Genuine
    BY <1>1, <2>2 DEF Delete, BackToList, GoTo, CInv, CopiesInv, MembersTypeOK
  <2>4. p.id = browse[s].cur.id \/ p.parent = browse[s].cur.id
    BY <2>2 DEF Delete, Without
  <2>5. browse[s].cur.id \in 1 .. MaxRows
        /\ \A q \in posts : q.id = browse[s].cur.id => q = browse[s].cur
    BY <2>3 DEF Genuine, Post
  <2>6. PICK q \in posts : q.id = browse[s].cur.id /\ q.id \in {p.id, p.parent}
    <3>1. CASE p.id = browse[s].cur.id
      BY <3>1
    <3>2. CASE p.parent = browse[s].cur.id
      <4>1. p.parent # 0
        BY <2>5, <3>2
      <4>2. \E q \in posts : q.id = p.parent
        BY <1>1, <4>1 DEF CInv, PostsInv, ThreadsIntact
      <4> QED  BY <3>2, <4>2
    <3> QED  BY <2>4, <3>1, <3>2
  <2>7. q = browse[s].cur
    BY <2>5, <2>6
  <2>8. browse[s].cur.author = who[s] \/ who[s] \in SysOps
    BY <2>2 DEF Delete
  <2> QED  BY <2>3, <2>6, <2>7, <2>8
<1>2. CInv /\ [Next]_vars
        => [\A p \in posts \ posts' : \E s \in Sessions :
              /\ at[s] = "read" /\ at'[s] = "list"
              /\ \/ who[s] \in SysOps
                 \/ \E q \in posts : q.id \in {p.id, p.parent} /\ q.author = who[s]]_posts
  BY <1>1
<1> QED  BY <1>2, ContentInvariant, PTL DEF Spec, OthersPostsKept

-----------------------------------------------------------------------------
(* What is new on the board                                                *)

\* The pointers' part of the invariant.  No pointer is ahead of the ids given out, and a
\* session about to mark has, in maxID, a bound that tells the posts it left behind from
\* those written since.
NewsInv ==
    /\ news \subseteq Users \X (1 .. MaxRows)
    /\ there \subseteq Sessions \X (1 .. MaxRows)
    /\ \A u \in Users : lastSeen[u] <= lastPost
    /\ \A s \in Sessions : at[s] = "mark" =>
            /\ browse[s].max <= lastPost
            /\ \A p \in posts : <<s, p.id>> \in there <=> p.id <= browse[s].max
    /\ NewSinceVisit

\* The sessions about to mark are as they were.
MarkersKept ==
    \A t \in Sessions : at'[t] = "mark" => at[t] = "mark" /\ browse'[t] = browse[t]

\* A step that writes no post and moves no pointer: posts may go.
LEMMA NewsSame ==
  ASSUME NewsInv, MarkersKept, posts' \subseteq posts, UNCHANGED <<lastPost, lastSeen, news>>,
         there' \subseteq there,
         \A t \in Sessions, i \in 1 .. MaxRows :
            at'[t] = "mark" => (<<t, i>> \in there' <=> <<t, i>> \in there),
         \A p \in posts : p.id \in 1 .. MaxRows
  PROVE  NewsInv'
<1>1. \A t \in Sessions : at'[t] = "mark" =>
            /\ browse'[t].max <= lastPost'
            /\ \A p \in posts' : <<t, p.id>> \in there' <=> p.id <= browse'[t].max
  BY DEF NewsInv, MarkersKept
<1>2. NewSinceVisit'
  BY DEF NewsInv, NewSinceVisit
<1> QED  BY <1>1, <1>2 DEF NewsInv

\* A new post has an id above every pointer and every maxID: it is new to everyone.
LEMMA NewsInserted ==
  ASSUME CInv, NewsInv, MarkersKept, NEW u \in Users, NEW parent, Insert(u, parent),
         lastSeen' = lastSeen
  PROVE  NewsInv'
<1> DEFINE new == [id |-> lastPost + 1, author |-> u, parent |-> parent]
<1>1. /\ posts' = posts \cup {new} /\ lastPost' = lastPost + 1 /\ new.id = lastPost + 1
      /\ news' = news \cup (Users \X {lastPost + 1})
      /\ there' = there \ (Sessions \X {lastPost + 1})
  BY DEF Insert, NewId
<1>2. /\ lastPost \in Nat /\ lastPost + 1 \in 1 .. MaxRows
      /\ \A p \in posts : p.id \in 1 .. MaxRows /\ p.id <= lastPost
  BY MembersConstants
     DEF CInv, PostsInv, Genuine, Post, MembersTypeOK, Insert, OneMoreRow
<1>3. /\ \A v \in Users : lastSeen[v] \in Nat
      /\ \A t \in Sessions : browse[t].max \in Nat
  BY MembersConstants DEF CInv, CopiesInv, Locals
<1> HIDE DEF new
<1>4. news' \subseteq Users \X (1 .. MaxRows) /\ there' \subseteq Sessions \X (1 .. MaxRows)
  BY <1>1, <1>2 DEF NewsInv
<1>5. \A v \in Users : lastSeen'[v] <= lastPost'
  BY <1>1, <1>2, <1>3 DEF NewsInv
<1>6. ASSUME NEW t \in Sessions, at'[t] = "mark"
      PROVE  /\ browse'[t].max <= lastPost'
             /\ \A p \in posts' : <<t, p.id>> \in there' <=> p.id <= browse'[t].max
  <2>1. /\ browse'[t].max = browse[t].max /\ browse[t].max <= lastPost
        /\ \A p \in posts : <<t, p.id>> \in there <=> p.id <= browse[t].max
    BY <1>6 DEF NewsInv, MarkersKept
  <2>2. \A p \in posts : <<t, p.id>> \in there' <=> <<t, p.id>> \in there
    BY <1>1, <1>2
  <2>3. <<t, new.id>> \notin there' /\ ~ (new.id <= browse[t].max)
    BY <1>1, <1>2, <1>3, <2>1
  <2>4. browse'[t].max <= lastPost'
    BY <1>1, <1>2, <1>3, <2>1
  <2> QED  BY <1>1, <2>1, <2>2, <2>3, <2>4
<1>7. NewSinceVisit'
  <2> SUFFICES ASSUME NEW p \in posts', NEW v \in Users
               PROVE  p.id > lastSeen[v] <=> <<v, p.id>> \in news'
    BY DEF NewSinceVisit
  <2>1. CASE p \in posts
    <3>1. p.id > lastSeen[v] <=> <<v, p.id>> \in news
      BY <2>1 DEF NewsInv, NewSinceVisit
    <3>2. <<v, p.id>> \in news' <=> <<v, p.id>> \in news
      BY <1>1, <1>2, <2>1
    <3> QED  BY <3>1, <3>2
  <2>2. CASE p = new
    <3>1. p.id > lastSeen[v]
      BY <1>1, <1>2, <1>3, <2>2 DEF NewsInv
    <3>2. <<v, p.id>> \in news'
      BY <1>1, <2>2
    <3> QED  BY <3>1, <3>2
  <2> QED  BY <1>1, <2>1, <2>2
<1> QED  BY <1>4, <1>5, <1>6, <1>7 DEF NewsInv

\* markRead's first statement: maxID is the highest id there is, so every post on the
\* board is below it, and the caller has had every one of them before him.
LEMMA NewsAsked ==
  ASSUME CInv, NewsInv, NEW s \in Sessions, QuitArea(s)
  PROVE  NewsInv'
<1> DEFINE I == {p.id : p \in posts} \cup {0}
<1>1. /\ lastPost \in Nat /\ MaxRows \in Nat /\ at \in [Sessions -> Prompts]
      /\ browse \in [Sessions -> Locals(Genuine)]
      /\ \A p \in posts : p.id \in 1 .. MaxRows /\ p.id <= lastPost
  BY MembersConstants DEF CInv, PostsInv, CopiesInv, Genuine, Post, MembersTypeOK
<1>2. Max(I) \in I /\ (\A i \in I : Max(I) >= i) /\ I \subseteq 0 .. lastPost
  <2>1. I \subseteq 0 .. lastPost /\ I # {}
    BY <1>1
  <2> HIDE DEF I
  <2>2. IsFiniteSet(0 .. lastPost)
    BY <1>1, FS_Interval
  <2>3. IsFiniteSet(I)
    BY <2>1, <2>2, FS_Subset
  <2>4. I \subseteq Nat
    BY <1>1, <2>1
  <2> QED  BY <2>1, <2>3, <2>4, MaxIn
<1>3. Max(I) \in 0 .. lastPost /\ \A p \in posts : Max(I) >= p.id
  <2>1. \A p \in posts : p.id \in I
    OBVIOUS
  <2> HIDE DEF I
  <2> QED  BY <1>2, <2>1
<1>4. /\ at' = [at EXCEPT ![s] = "mark"]
      /\ browse' = [browse EXCEPT ![s] = [NotBrowsing EXCEPT !.max = Max(I)]]
      /\ there' = there \cup ({s} \X {p.id : p \in posts})
      /\ UNCHANGED <<posts, lastPost, lastSeen, news>>
  BY DEF QuitArea, GoTo
<1> HIDE DEF I
<1>5. browse'[s].max = Max(I) /\ \A t \in Sessions \ {s} : browse'[t] = browse[t] /\ at'[t] = at[t]
  BY <1>1, <1>4 DEF NotBrowsing
<1>6. there' \subseteq Sessions \X (1 .. MaxRows)
  BY <1>1, <1>4 DEF NewsInv
<1>7. ASSUME NEW t \in Sessions, at'[t] = "mark"
      PROVE  /\ browse'[t].max <= lastPost
             /\ \A p \in posts : <<t, p.id>> \in there' <=> p.id <= browse'[t].max
  <2>1. CASE t = s
    <3>1. browse'[t].max <= lastPost /\ \A p \in posts : p.id <= browse'[t].max
      BY <1>1, <1>3, <1>5, <2>1
    <3>2. \A p \in posts : <<t, p.id>> \in there'
      BY <1>4, <2>1
    <3> QED  BY <3>1, <3>2
  <2>2. CASE t # s
    <3>1. \A p \in posts : <<t, p.id>> \in there' <=> <<t, p.id>> \in there
      BY <1>4, <2>2
    <3> QED  BY <1>5, <1>7, <2>2, <3>1 DEF NewsInv
  <2> QED  BY <2>1, <2>2
<1>8. NewSinceVisit'
  BY <1>4 DEF NewsInv, NewSinceVisit
<1> QED  BY <1>4, <1>6, <1>7, <1>8 DEF NewsInv

\* ReadPointers.Mark: above the raised pointer are the posts above the old one that were
\* not there when maxID was asked for.
LEMMA NewsMarked ==
  ASSUME CInv, NewsInv, NEW s \in Sessions, Mark(s)
  PROVE  NewsInv'
<1> DEFINE seen == Max({lastSeen[who[s]], browse[s].max})
<1>1. /\ lastPost \in Nat /\ MaxRows \in Nat /\ at \in [Sessions -> Prompts]
      /\ browse \in [Sessions -> Locals(Genuine)] /\ browse[s].max \in Nat
      /\ lastSeen \in [Users -> 0 .. MaxRows] /\ who[s] \in Users
      /\ \A p \in posts : p.id \in 1 .. MaxRows
  <2>1. MaxRows \in Nat /\ at \in [Sessions -> Prompts] /\ who[s] \in Users
    BY MembersConstants DEF CInv, MembersTypeOK
  <2>2. lastPost \in Nat /\ \A p \in posts : p.id \in 1 .. MaxRows
    BY DEF CInv, PostsInv, Genuine, Post
  <2>3. browse \in [Sessions -> Locals(Genuine)] /\ lastSeen \in [Users -> 0 .. MaxRows]
    BY DEF CInv, CopiesInv
  <2>4. browse[s].max \in Nat
    BY <2>1, <2>3 DEF Locals
  <2> QED  BY <2>1, <2>2, <2>3, <2>4
<1>2. /\ lastSeen' = [lastSeen EXCEPT ![who[s]] = seen]
      /\ at[s] = "mark" /\ at' = [at EXCEPT ![s] = "menu"]
      /\ browse' = [browse EXCEPT ![s] = NotBrowsing]
      /\ news' = {n \in news : ~ (n[1] = who[s] /\ <<s, n[2]>> \in there)}
      /\ there' = {t \in there : t[1] # s}
      /\ UNCHANGED <<posts, lastPost>>
  BY DEF Mark, Visited, LeftArea, GoTo
<1>3. lastSeen[who[s]] \in Nat /\ lastSeen[who[s]] <= lastPost /\ browse[s].max <= lastPost
  BY <1>1, <1>2 DEF NewsInv
<1>4. /\ seen \in {lastSeen[who[s]], browse[s].max}
      /\ seen >= lastSeen[who[s]] /\ seen >= browse[s].max
  BY <1>1, <1>3, MaxOfTwo
<1> HIDE DEF seen
<1>5. seen \in Nat /\ \A u \in Users : lastSeen'[u] <= lastPost
  BY <1>1, <1>2, <1>3, <1>4 DEF NewsInv
<1>6. \A t \in Sessions : at'[t] = "mark" =>
            at[t] = "mark" /\ t # s /\ browse'[t] = browse[t]
  BY <1>1, <1>2
<1>7. \A t \in Sessions : at'[t] = "mark" =>
            /\ browse'[t].max <= lastPost
            /\ \A p \in posts : <<t, p.id>> \in there' <=> p.id <= browse'[t].max
  BY <1>2, <1>6 DEF NewsInv
<1>8. ASSUME NEW p \in posts, NEW u \in Users
      PROVE  p.id > lastSeen'[u] <=> <<u, p.id>> \in news'
  <2>1. p.id > lastSeen[u] <=> <<u, p.id>> \in news
    BY DEF NewsInv, NewSinceVisit
  <2>2. <<u, p.id>> \in news' <=>
            <<u, p.id>> \in news /\ ~ (u = who[s] /\ <<s, p.id>> \in there)
    BY <1>2
  <2>3. <<s, p.id>> \in there <=> p.id <= browse[s].max
    BY <1>2 DEF NewsInv
  <2>4. CASE u = who[s]
    <3>1. lastSeen'[u] = seen
      BY <1>1, <1>2, <2>4
    <3>2. p.id > seen <=> p.id > lastSeen[u] /\ ~ (p.id <= browse[s].max)
      BY <1>1, <1>3, <1>4, <1>5, <2>4
    <3> QED  BY <2>1, <2>2, <2>3, <2>4, <3>1, <3>2
  <2>5. CASE u # who[s]
    <3>1. lastSeen'[u] = lastSeen[u]
      BY <1>1, <1>2, <2>5
    <3> QED  BY <2>1, <2>2, <2>5, <3>1
  <2> QED  BY <2>4, <2>5
<1>9. /\ news' \subseteq Users \X (1 .. MaxRows) /\ there' \subseteq Sessions \X (1 .. MaxRows)
  BY <1>2 DEF NewsInv
<1>10. NewSinceVisit'
  BY <1>2, <1>8 DEF NewSinceVisit
<1> QED  BY <1>2, <1>5, <1>7, <1>9, <1>10 DEF NewsInv

\* Every step keeps the pointers' part.
LEMMA NewsStep ==
  ASSUME CInv, NewsInv, [Next]_vars
  PROVE  NewsInv'
<1> USE DEF GoTo
<1>0. /\ at \in [Sessions -> Prompts] /\ browse \in [Sessions -> Locals(Genuine)]
      /\ who \in [Sessions -> Users]
      /\ \A p \in posts : p.id \in 1 .. MaxRows
  BY DEF CInv, MembersTypeOK, CopiesInv, PostsInv, Genuine, Post
\* Steps away from the board
<1>1. ASSUME UNCHANGED boardVars, \A t \in Sessions : at'[t] = "mark" => at[t] = "mark"
      PROVE  NewsInv'
  <2>1. MarkersKept /\ UNCHANGED <<posts, lastPost, lastSeen, news, there>>
    BY <1>1 DEF boardVars, visits, MarkersKept
  <2> QED  BY <1>0, <2>1, NewsSame
<1>2. CASE MembersNext /\ UNCHANGED <<boardVars, mailVars>>
  BY <1>1, <1>2 DEF MembersNext, ManageBlocks
<1>3. CASE MailNext /\ UNCHANGED boardVars
  <2>1. \A t \in Sessions : at'[t] = "mark" => at[t] = "mark"
    BY <1>0, <1>3 DEF MailNext, EnterMail, Get, GetMarks, ComposeMail, ReplyMail, Send,
           SendDone, DeleteMail, MailDone, LeaveMail
  <2> QED  BY <1>1, <1>3, <2>1
<1>4. CASE UNCHANGED vars
  BY <1>1, <1>4 DEF vars, memberVars
<1>5. CASE BoardsNext
  <2>1. PICK s \in Sessions :
          \/ EnterArea(s) \/ Search(s) \/ TurnPage(s) \/ Pick(s) \/ Compose(s)
          \/ Reply(s) \/ Delete(s) \/ BlockAuthor(s) \/ ReadDone(s)
          \/ QuitArea(s) \/ Mark(s) \/ LeaveBoards(s)
    BY <1>5 DEF BoardsNext
  <2>2. who[s] \in Users
    BY <1>0
  \* Only the session's own prompt and locals change.
  <2>3. ASSUME NEW prompt, prompt # "mark", at' = [at EXCEPT ![s] = prompt],
               NEW r, browse' = [browse EXCEPT ![s] = r]
        PROVE  MarkersKept
    BY <1>0, <2>3 DEF MarkersKept
  <2>4. ASSUME BackToList(s) PROVE MarkersKept
    BY <2>3, <2>4 DEF BackToList
  <2>5. CASE EnterArea(s)
    BY <1>0, <1>1, <2>5 DEF EnterArea
  <2>6. CASE Search(s) \/ TurnPage(s) \/ Pick(s)
    <3>1. /\ at[s] = "list" /\ at'[s] \in {"list", "read"}
          /\ \A t \in Sessions \ {s} : at'[t] = at[t] /\ browse'[t] = browse[t]
          /\ UNCHANGED <<posts, lastPost, lastSeen, news, there>>
      BY <1>0, <2>6 DEF Search, TurnPage, Pick, memberVars, visits
    <3>2. MarkersKept
      BY <3>1 DEF MarkersKept
    <3> QED  BY <1>0, <3>1, <3>2, NewsSame
  <2>7. CASE Compose(s)
    <3>1. MarkersKept
      <4>1. /\ at[s] = "list" /\ at' = at
            /\ \A t \in Sessions \ {s} : browse'[t] = browse[t]
        BY <1>0, <2>7 DEF Compose
      <4> QED  BY <4>1 DEF MarkersKept
    <3> QED  BY <2>2, <2>7, <3>1, NewsInserted DEF Compose
  <2>8. CASE Reply(s)
    <3>1. MarkersKept /\ lastSeen' = lastSeen
      BY <2>4, <2>8 DEF Reply
    <3>2. CASE \E p \in posts : p.id = browse[s].cur.id
      <4>1. Insert(who[s], browse[s].cur.id)
        BY <2>8, <3>2 DEF Reply
      <4> QED  BY <2>2, <3>1, <4>1, NewsInserted
    <3>3. CASE ~ \E p \in posts : p.id = browse[s].cur.id
      <4>1. UNCHANGED <<posts, lastPost, news, there>>
        BY <2>8, <3>3 DEF Reply, visits
      <4> QED  BY <1>0, <3>1, <4>1, NewsSame
    <3> QED  BY <3>2, <3>3
  <2>9. CASE Delete(s) \/ BlockAuthor(s) \/ ReadDone(s)
    <3>1. BackToList(s) /\ UNCHANGED <<lastPost, lastSeen, news, there>> /\ posts' \subseteq posts
      BY <2>9 DEF Delete, Without, BlockAuthor, ReadDone, visits
    <3> QED  BY <1>0, <2>4, <3>1, NewsSame
  <2>10. CASE QuitArea(s)
    BY <2>10, NewsAsked
  <2>11. CASE Mark(s)
    BY <2>11, NewsMarked
  <2>12. CASE LeaveBoards(s)
    <3>1. /\ at' = [at EXCEPT ![s] = "menu"] /\ browse' = [browse EXCEPT ![s] = NotBrowsing]
          /\ there' = {t \in there : t[1] # s}
          /\ UNCHANGED <<posts, lastPost, lastSeen, news>>
      BY <2>12 DEF LeaveBoards, LeftArea
    <3>2. MarkersKept
      BY <2>3, <3>1
    <3>3. \A t \in Sessions, i \in 1 .. MaxRows :
            at'[t] = "mark" => (<<t, i>> \in there' <=> <<t, i>> \in there)
      BY <1>0, <3>1
    <3> QED  BY <1>0, <3>1, <3>2, <3>3, NewsSame
  <2> QED  BY <2>1, <2>5, <2>6, <2>7, <2>8, <2>9, <2>10, <2>11, <2>12
<1> QED  BY <1>2, <1>3, <1>4, <1>5 DEF Next

\* The pointers' part holds always, next to the rest.
LEMMA NewsInvariant == Spec => []NewsInv
<1>1. Init => NewsInv
  BY MembersConstants DEF Init, MembersInit, BoardsInit, NewsInv, NewSinceVisit
<1>2. CInv /\ NewsInv /\ [Next]_vars => NewsInv'
  BY NewsStep
<1> QED  BY <1>1, <1>2, ContentInvariant, PTL DEF Spec

\* The invariant implies the types: genuine posts are posts.
LEMMA CInvTypes == CInv /\ NewsInv => TypeOK
<1> SUFFICES ASSUME CInv, NewsInv PROVE TypeOK
  OBVIOUS
<1>1. posts \subseteq Post /\ Genuine \subseteq Post
  BY DEF CInv, PostsInv, Genuine
<1>2. /\ lastPost \in 0 .. MaxRows /\ lastMail \in 0 .. MaxRows
  BY MembersConstants DEF CInv, PostsInv, MailInv, MembersTypeOK
<1>3. browse \in [Sessions -> Locals(Post)]
  <2>1. browse \in [Sessions -> Locals(Genuine)]
    BY DEF CInv, CopiesInv
  <2>2. Locals(Genuine) \subseteq Locals(Post)
    BY <1>1, LocalsGrow
  <2> QED  BY <2>1, <2>2
<1>4. BoardsTypeOK
  <2>1. lastSeen \in [Users -> 0 .. MaxRows]
    BY DEF CInv, CopiesInv
  <2> QED  BY <1>1, <1>2, <1>3, <2>1 DEF BoardsTypeOK, Locals, NewsInv
<1>5. MailTypeOK
  BY <1>2 DEF CInv, MailInv, MailTypeOK, OpenMail
<1> QED  BY <1>4, <1>5 DEF CInv, TypeOK

\* Every variable of the board, mail and block lists keeps its type; in particular the
\* list a session draws is a sequence of posts (boards.go, browseArea).
THEOREM ContentTypeCorrect == Spec => []TypeOK
BY ContentInvariant, NewsInvariant, CInvTypes, PTL

\* "N new since last visit" counts exactly the posts written since the user last left the
\* board with a mark: maxID, asked for one step before the mark, bounds the posts that
\* were there and no later one, because ids only grow and the mark only raises
\* (menu/boards.go, markRead; store/readptr.go, MaxMessageID, Mark and NewCount).
THEOREM NewSinceVisitAlways == Spec => []NewSinceVisit
<1>1. NewsInv => NewSinceVisit
  BY DEF NewsInv
<1> QED  BY <1>1, NewsInvariant, PTL

-----------------------------------------------------------------------------
(* Mail                                                                    *)

\* Mail goes only after its recipient had it on his screen: a row goes by [D]elete, in a
\* session that fetched that very row, whether or not the mark of its reading was made
\* (menu/mail.go, readMail; store/mail.go, Get and Delete).
THEOREM ReadBeforeDeletedAlways == Spec => ReadBeforeDeleted
<1>1. ASSUME CInv, [Next]_vars, mail' # mail, NEW m \in mail, \A n \in mail' : n.id # m.id
      PROVE  m.shown
  <2>1. m \notin mail'
    BY <1>1
  <2>2. MailNext
    BY <1>1 DEF Next, vars, mailVars
  <2>3. PICK s \in Sessions : Get(s) \/ GetMarks(s) \/ Send(s) \/ DeleteMail(s)
    BY <1>1, <2>2 DEF MailNext, EnterMail, ComposeMail, ReplyMail, SendDone, MailDone,
           LeaveMail, mailVars
  <2>4. CASE Get(s)
    <3>1. PICK o \in mail : mail' = (mail \ {o}) \cup {[o EXCEPT !.shown = TRUE]}
      BY <2>4 DEF Get, Inbox
    <3>2. [o EXCEPT !.shown = TRUE].id = o.id
      BY <1>1 DEF CInv, MailInv, MailRow
    <3> QED  BY <1>1, <2>1, <3>1, <3>2
  <2>5. CASE GetMarks(s)
    <3>1. mail' = {[o EXCEPT !.read = @ \/ o.id = reading[s].id] : o \in mail}
      BY <1>1, <2>5 DEF GetMarks
    <3>2. [m EXCEPT !.read = @ \/ m.id = reading[s].id].id = m.id
      BY <1>1 DEF CInv, MailInv, MailRow
    <3> QED  BY <1>1, <3>1, <3>2
  <2>6. CASE Send(s)
    BY <2>1, <2>6 DEF Send
  <2>7. CASE DeleteMail(s)
    <3>1. m.id = reading[s].id
      BY <2>1, <2>7 DEF DeleteMail
    <3> QED  BY <1>1, <3>1 DEF CInv, MailInv
  <2> QED  BY <2>3, <2>4, <2>5, <2>6, <2>7
<1>2. CInv /\ [Next]_vars
        => [\A m \in mail : (\A n \in mail' : n.id # m.id) => m.shown]_mail
  BY <1>1
<1> QED  BY <1>2, ContentInvariant, PTL DEF Spec, ReadBeforeDeleted

\* Mail its recipient has not had on his screen is marked NEW: the UPDATE of read_at finds
\* the row that was fetched or, that one being deleted, none (store/mail.go, Get).
THEOREM UnreadIsNewAlways == Spec => []UnreadIsNew
<1>1. CInv => UnreadIsNew
  BY DEF CInv, MailInv
<1> QED  BY <1>1, ContentInvariant, PTL
=============================================================================
