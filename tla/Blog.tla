-------------------------------- MODULE Blog --------------------------------
(***************************************************************************)
(* Posts of the blog and when they were published: blog.service.ts.        *)
(*                                                                         *)
(* An update computes the date from the post it found and writes both in   *)
(* its last statement; what it leaves out stays, the date it does not.     *)
(***************************************************************************)
EXTENDS Handlers

CONSTANT Ids     \* ids of posts

VARIABLE post    \* post[p]: the row of blog_posts

vars == <<post, request, started, raced>>

Statuses == {"DRAFT", "PUBLISHED"}

\* dated: publishedAt is not null
PostRow == [status : Statuses, dated : BOOLEAN]
Running ==
    [pc : {"update"}, on : Ids, status : Statuses \cup {"KEEP"}, dated : BOOLEAN]
    \cup [pc : {"delete"}, on : Ids]

TypeOK ==
    /\ post \in [Ids -> PostRow \cup {Absent, Gone}]
    /\ HandlersTypeOK(Running, Ids)

Init == post = [p \in Ids |-> Absent] /\ HandlersInit

\* create is one statement.
Create(r, p, s) ==
    /\ Once(r, p)
    /\ post[p] = Absent
    /\ post' = [post EXCEPT ![p] = [status |-> s, dated |-> s = "PUBLISHED"]]

\* Fault: a post taken back keeps its date.
DateKept(row, s) == row.dated \/ (s = "PUBLISHED" /\ row.status # "PUBLISHED")

\* publishedAt: set when the post comes to be published, cleared by DRAFT.
Date(row, s) ==
    IF s = "PUBLISHED" /\ row.status # "PUBLISHED" THEN TRUE
    ELSE IF s = "DRAFT" THEN FALSE ELSE row.dated

BeginUpdate(r, p, s) ==
    /\ Present(post[p])
    /\ Start(r, [pc |-> "update", on |-> p, status |-> s, dated |-> Date(post[p], s)])
    /\ UNCHANGED post

Update(r) ==
    LET q == request[r] IN
    /\ At(r, "update")
    /\ post' = IF ~Present(post[q.on]) THEN post
               ELSE [post EXCEPT ![q.on].status = IF q.status = "KEEP" THEN @ ELSE q.status,
                                 ![q.on].dated = q.dated]
    /\ Finish(r)

BeginDelete(r, p) ==
    /\ Present(post[p])
    /\ Start(r, [pc |-> "delete", on |-> p])
    /\ UNCHANGED post

Delete(r) ==
    /\ At(r, "delete")
    /\ post' = [post EXCEPT ![request[r].on] = Gone]
    /\ Finish(r)

Abort(r) == Stop(r) /\ UNCHANGED post

Next ==
    \E r \in Requests :
        \/ \E p \in Ids :
            \/ \E s \in Statuses : Create(r, p, s)
            \/ \E s \in Statuses \cup {"KEEP"} : BeginUpdate(r, p, s)
            \/ BeginDelete(r, p)
        \/ Update(r) \/ Delete(r) \/ Abort(r)

Spec == Init /\ [][Next]_vars

(***************************************************************************)
(* Properties.                                                             *)
(***************************************************************************)

\* A post has a date of publication exactly when it is published (create,
\* update), unless two requests handled it at once: the list of published posts
\* is ordered by that date.
PublishedHasDate ==
    \A p \in Ids \ raced : Present(post[p]) => (post[p].dated <=> post[p].status = "PUBLISHED")
=============================================================================
