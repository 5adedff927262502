------------------------------- MODULE Boards -------------------------------
(***************************************************************************)
(* One board: its messages, the read pointers and the sessions browsing it *)
(* (menu/boards.go, store/messages.go, store/readptr.go).                  *)
(*                                                                         *)
(* A turn of browseArea's loop draws the list and acts on what the caller  *)
(* chose from it.  The two are one step here: had the list been drawn      *)
(* earlier, the copy picked from it would be older, and the wait at the    *)
(* read prompt makes it as old as may be.                                  *)
(***************************************************************************)
EXTENDS Members, SequencesExt

VARIABLES
    posts,       \* message rows
    lastPost,    \* the highest message id given out (AUTOINCREMENT)
    lastSeen,    \* board_read.last_seen_id of each user
    browse,      \* browseArea's locals: the search result, the message read, maxID
    news,        \* history: <<user, id>>, posted since the user's last marked visit
    there        \* history: <<session, id>>, on the board when markRead asked for maxID

visits == <<news, there>>
boardVars == <<posts, lastPost, lastSeen, browse, visits>>

\* parent 0: a top-level post.  Subject and body, which [E]dit rewrites, are left out.
Post == [id : 1 .. MaxRows, author : Users, parent : 0 .. MaxRows]

NoPost == [id |-> 0]
NotBrowsing == [listed |-> <<>>, cur |-> NoPost, max |-> 0]

BoardsTypeOK ==
    /\ posts \subseteq Post
    /\ lastPost \in 0 .. MaxRows
    /\ lastSeen \in [Users -> 0 .. MaxRows]
    /\ browse \in [Sessions ->
            [listed : Seq(Post), cur : Post \cup {NoPost}, max : 0 .. MaxRows]]
    /\ news \subseteq Users \X (1 .. MaxRows)
    /\ there \subseteq Sessions \X (1 .. MaxRows)

BoardsInit ==
    /\ posts = {}
    /\ lastPost = 0
    /\ lastSeen = [u \in Users |-> 0]
    /\ browse = [s \in Sessions |-> NotBrowsing]
    /\ news = {}
    /\ there = {}

-----------------------------------------------------------------------------
\* The k-th smallest number of S
Nth(S, k) == CHOOSE n \in S : Cardinality({m \in S : m <= n}) = k

\* Messages.list: rows ordered by id
ById(P) ==
    LET ids == {p.id : p \in P}
    IN  [k \in 1 .. Cardinality(ids) |-> CHOOSE p \in P : p.id = Nth(ids, k)]

\* Messages.ThreadSorted: the top-level posts
Thread(P) == ById({p \in P : p.parent = 0})

\* hideBlocked filters into the array it was given: the kept posts move to the front
\* and what stood behind them stays.
Kept(list, hidden) ==
    LET stay == {i \in 1 .. Len(list) : list[i].author \notin hidden}
    IN  [k \in 1 .. Cardinality(stay) |-> list[Nth(stay, k)]]
Overwritten(list, hidden) ==
    Kept(list, hidden) \o SubSeq(list, Len(Kept(list, hidden)) + 1, Len(list))

\* The list on the screen: the search result if there is one, else the thread, without
\* the posts of blocked users.  Go's nil is the empty list.
Shown(s) ==
    Kept(IF browse[s].listed = <<>> THEN Thread(posts) ELSE browse[s].listed,
         BlockedBy(who[s]))

\* ... and what drawing it leaves in listed
Drawn(s) == Overwritten(browse[s].listed, BlockedBy(who[s]))

EnterArea(s) ==
    /\ at[s] = "menu"
    /\ GoTo(s, "list")
    /\ UNCHANGED <<who, blocks, rows, boardVars>>

\* [S]earch, for a word every post has, and [U] by user leave their result in listed;
\* replies are in it too.
Search(s) ==
    /\ at[s] = "list"
    /\ \E hits \in {posts} \cup {{p \in posts : p.author = u} : u \in Users} :
        browse' = [browse EXCEPT ![s].listed = ById(hits)]
    /\ UNCHANGED <<memberVars, posts, lastPost, lastSeen, visits>>

\* Another page, or input that is no command; [C]lear and [D] drop the search result.
TurnPage(s) ==
    /\ at[s] = "list"
    /\ \E listed \in {Drawn(s), <<>>} : browse' = [browse EXCEPT ![s].listed = listed]
    /\ UNCHANGED <<memberVars, posts, lastPost, lastSeen, visits>>

\* The post behind a number of the list
Pick(s) ==
    /\ at[s] = "list"
    /\ \E p \in Range(Shown(s)) :
        browse' = [browse EXCEPT ![s].cur = p, ![s].listed = Drawn(s)]
    /\ GoTo(s, "read")
    /\ UNCHANGED <<who, blocks, rows, posts, lastPost, lastSeen, visits>>

\* Mutant: the id after the highest one present, as a table without AUTOINCREMENT gives.
NewIdReused == Max({p.id : p \in posts} \cup {0}) + 1

\* AUTOINCREMENT: an id is never given out again.
NewId == lastPost + 1

\* Messages.Post
Insert(u, parent) ==
    /\ OneMoreRow
    /\ posts' = posts \cup {[id |-> NewId, author |-> u, parent |-> parent]}
    /\ lastPost' = lastPost + 1
    /\ news' = news \cup (Users \X {NewId})
    /\ there' = there \ (Sessions \X {NewId})

\* [P]ost: listed is dropped
Compose(s) ==
    /\ at[s] = "list"
    /\ Insert(who[s], 0)
    /\ browse' = [browse EXCEPT ![s].listed = <<>>]
    /\ UNCHANGED <<at, who, blocks, lastSeen>>

BackToList(s) == GoTo(s, "list") /\ browse' = [browse EXCEPT ![s].cur = NoPost]

\* [R]eply to the message read; the foreign key refuses it when that row is gone.
Reply(s) ==
    /\ at[s] = "read"
    /\ IF \E p \in posts : p.id = browse[s].cur.id
       THEN Insert(who[s], browse[s].cur.id)
       ELSE UNCHANGED <<posts, lastPost, rows, visits>>
    /\ UNCHANGED <<who, blocks, lastSeen>>
    /\ BackToList(s)

\* Mutant: foreign keys are not enforced.
WithoutUnchecked(id) == {p \in posts : p.id # id /\ p.parent # id}

\* Messages.Delete: the row and its direct replies in one statement, which fails as a
\* whole when a reply to one of those replies would be left without its parent.
Without(id) ==
    LET kept == {p \in posts : p.id # id /\ p.parent # id} IN
    IF \A p \in kept : p.parent = 0 \/ \E q \in kept : q.id = p.parent
    THEN kept ELSE posts

\* [D]elete, offered to the author and to SysOps
Delete(s) ==
    /\ at[s] = "read"
    /\ browse[s].cur.author = who[s] \/ who[s] \in SysOps
    /\ posts' = Without(browse[s].cur.id)
    /\ UNCHANGED <<who, blocks, rows, lastPost, lastSeen, visits>>
    /\ BackToList(s)

\* [B]lock author
BlockAuthor(s) ==
    /\ at[s] = "read"
    /\ browse[s].cur.author # who[s]
    /\ Block(who[s], browse[s].cur.author)
    /\ UNCHANGED <<who, posts, lastPost, lastSeen, visits>>
    /\ BackToList(s)

\* re[P]ort (a row for the SysOps, not kept here), [E]dit of one's own text, or [Q]
ReadDone(s) ==
    /\ at[s] = "read"
    /\ UNCHANGED <<who, blocks, rows, posts, lastPost, lastSeen, visits>>
    /\ BackToList(s)

\* [Q]uit: markRead asks for the highest id there is now ...
QuitArea(s) ==
    /\ at[s] = "list"
    /\ GoTo(s, "mark")
    /\ browse' = [browse EXCEPT ![s] =
            [NotBrowsing EXCEPT !.max = Max({p.id : p \in posts} \cup {0})]]
    /\ there' = there \cup ({s} \X {p.id : p \in posts})
    /\ UNCHANGED <<who, blocks, rows, posts, lastPost, lastSeen, news>>

\* The session is back at the menu, with or without a mark.
LeftArea(s) ==
    /\ GoTo(s, "menu")
    /\ browse' = [browse EXCEPT ![s] = NotBrowsing]
    /\ there' = {t \in there : t[1] # s}

Visited(s) == news' = {n \in news : ~ (n[1] = who[s] /\ <<s, n[2]>> \in there)}

\* Mutant: the pointer is set, not raised.
MarkSet(s) ==
    /\ at[s] = "mark"
    /\ lastSeen' = [lastSeen EXCEPT ![who[s]] = browse[s].max]
    /\ Visited(s)
    /\ LeftArea(s)
    /\ UNCHANGED <<who, blocks, rows, posts, lastPost>>

\* ... and ReadPointers.Mark raises the pointer to it.
Mark(s) ==
    /\ at[s] = "mark"
    /\ lastSeen' = [lastSeen EXCEPT ![who[s]] = Max({@, browse[s].max})]
    /\ Visited(s)
    /\ LeftArea(s)
    /\ UNCHANGED <<who, blocks, rows, posts, lastPost>>

\* The caller hangs up, or one of markRead's statements fails: no mark.
LeaveBoards(s) ==
    /\ at[s] \in {"list", "read", "mark"}
    /\ LeftArea(s)
    /\ UNCHANGED <<who, blocks, rows, posts, lastPost, lastSeen, news>>

BoardsNext ==
    \E s \in Sessions :
        \/ EnterArea(s) \/ Search(s) \/ TurnPage(s) \/ Pick(s) \/ Compose(s)
        \/ Reply(s) \/ Delete(s) \/ BlockAuthor(s) \/ ReadDone(s)
        \/ QuitArea(s) \/ Mark(s) \/ LeaveBoards(s)

-----------------------------------------------------------------------------
(* Properties.                                                             *)

\* A reply's parent is there: Delete takes a post's replies with it or fails, and a
\* reply typed while its parent was being deleted is refused (messages.go, Delete;
\* the foreign key of message.parent_id).
ThreadsIntact ==
    \A p \in posts : p.parent # 0 => \E q \in posts : q.id = p.parent

\* A member who is no SysOp removes his own posts and the replies to them, never
\* another's, however old the copy he picked from the list (boards.go, readMessage).
OthersPostsKept ==
    [][\A p \in posts \ posts' : \E s \in Sessions :
        /\ at[s] = "read" /\ at'[s] = "list"
        /\ \/ who[s] \in SysOps
           \/ \E q \in posts : q.id \in {p.id, p.parent} /\ q.author = who[s]]_posts

\* "N new since last visit" (readptr.go, NewCount) counts the posts written since the
\* user last left the board with a mark, and no others: whichever of two sessions of the
\* user marks last, whoever posts between MaxMessageID and Mark, and though the newest
\* post, whose id a pointer has, may be deleted and others follow.
NewSinceVisit ==
    \A p \in posts, u \in Users : p.id > lastSeen[u] <=> <<u, p.id>> \in news

\* The list shows each post once (boards.go:322, hideBlocked "drops posts authored by
\* users the viewer has blocked").
ListedOnce ==
    \A s \in Sessions : at[s] = "list" => IsInjective(Shown(s))
=============================================================================
